--------------------------- MODULE OpusRunProofs ---------------------------
(***************************************************************************)
(* Theorems about OpusRun for every opus, every wave order that            *)
(* topological_waves may return, any number of invocations and any number  *)
(* of store faults.                                                        *)
(***************************************************************************)
EXTENDS OpusRun, TLAPS

(* Setting one entry, or one row, of a table of the tasks keeps its type.   *)
LEMMA EntryType ==
    ASSUME NEW R, NEW S, NEW T, NEW f \in [R -> [S -> T]],
           NEW r \in R, NEW s \in S, NEW v \in T
    PROVE  /\ [f EXCEPT ![r][s] = v] \in [R -> [S -> T]]
           /\ \A q \in R, t \in S :
                 [f EXCEPT ![r][s] = v][q][t] = IF q = r /\ t = s THEN v ELSE f[q][t]
  OBVIOUS

LEMMA RowType ==
    ASSUME NEW R, NEW S, NEW T, NEW f \in [R -> [S -> T]],
           NEW r \in R, NEW row \in [S -> T]
    PROVE  /\ [f EXCEPT ![r] = row] \in [R -> [S -> T]]
           /\ \A q \in R : [f EXCEPT ![r] = row][q] = IF q = r THEN row ELSE f[q]
  OBVIOUS

(* The invocation whose code executes is one of Runs.                       *)
LEMMA ActiveRun ==
    ASSUME RunnerTypeOK, ctl # "idle" PROVE run \in Runs
  BY DEF RunnerTypeOK

(* The segments of a wave are segments of the opus.                         *)
LEMMA ToRunSegments ==
    ASSUME RunnerTypeOK PROVE ToRun \subseteq Segments
  BY DEF RunnerTypeOK, ToRun

(* Every step of run() keeps the runner's variables within their types.     *)
LEMMA RunnerTypes ==
    ASSUME RunnerTypeOK, [Next]_vars PROVE RunnerTypeOK'
<1> USE DEF RunnerTypeOK, Active, Ended
<1>1. CASE StartRun
  BY <1>1, ParameterAssumption, WavesAssumption DEF StartRun, Runs
<1>2. ASSUME NEW s \in Segments, ReadState(s) PROVE RunnerTypeOK'
  BY <1>2 DEF ReadState
<1>3. ASSUME NEW s \in Segments, ConsumeCompleted(s) PROVE RunnerTypeOK'
  BY <1>3 DEF ConsumeCompleted
<1>4. CASE SkipWave
  BY <1>4, WavesAssumption DEF SkipWave
<1>5. CASE LaunchWave
  BY <1>5 DEF LaunchWave
<1>6. CASE LastWaveDone \/ GatherDone \/ TaskErrorRaised \/ FinishRun
  BY <1>6 DEF LastWaveDone, GatherDone, TaskErrorRaised, FinishRun
<1>7. CASE CheckWave
  BY <1>7, WavesAssumption DEF CheckWave
<1>8. ASSUME NEW r \in Runs, NEW s \in Segments, TaskStep(r, s)
      PROVE  RunnerTypeOK'
  BY <1>8 DEF TaskStep, PersistRunning, AttemptSucceeds, AttemptFails,
              PersistSuccess, PersistFailed, runnerVars
<1>9. CASE ReadFault \/ HeartbeatFault
  BY <1>9 DEF ReadFault, HeartbeatFault
<1>10. CASE StopProcess
  BY <1>10 DEF StopProcess
<1>11. CASE UNCHANGED vars
  BY <1>11 DEF vars
<1> QED
  BY <1>1, <1>2, <1>3, <1>4, <1>5, <1>6, <1>7, <1>8, <1>9, <1>10, <1>11
     DEF Next, RunnerStep

(* Every step keeps the tasks' variables within their types.                *)
LEMMA TaskTypes ==
    ASSUME RunnerTypeOK, TaskTypeOK, [Next]_vars PROVE TaskTypeOK'
<1> USE DEF TaskTypeOK
<1>1. ASSUME NEW s \in Segments, ConsumeCompleted(s) PROVE TaskTypeOK'
  <2>1. run \in Runs
    BY <1>1, ActiveRun DEF ConsumeCompleted
  <2>2. CASE UNCHANGED phase
    BY <1>1, <2>2 DEF ConsumeCompleted
  <2>3. CASE ~UNCHANGED phase
    <3> DEFINE row == [t \in Segments |->
                         IF t \in ToRun /\ phase[run][t] \in LivePhases
                         THEN "cancelled" ELSE phase[run][t]]
    <3>1. phase' = [phase EXCEPT ![run] = row]
      BY <1>1, <2>1, <2>3 DEF ConsumeCompleted
    <3>2. row \in [Segments -> Phases]
      BY <2>1 DEF Phases
    <3> HIDE DEF row
    <3> QED BY <1>1, <2>1, <3>1, <3>2, RowType DEF ConsumeCompleted
  <2> QED BY <2>2, <2>3
<1>2. CASE LaunchWave
  <2>1. run \in Runs
    BY <1>2, ActiveRun DEF LaunchWave
  <2> DEFINE prow == [s \in Segments |-> IF s \in ToRun THEN "created" ELSE phase[run][s]]
             rrow == [s \in Segments |-> IF s \in ToRun THEN "failed" ELSE result[run][s]]
  <2>2. prow \in [Segments -> Phases] /\ rrow \in [Segments -> Results]
    BY <2>1 DEF Phases, LivePhases, Results
  <2>3. phase' = [phase EXCEPT ![run] = prow] /\ result' = [result EXCEPT ![run] = rrow]
    BY <1>2, <2>1 DEF LaunchWave
  <2> HIDE DEF prow, rrow
  <2> QED BY <1>2, <2>1, <2>2, <2>3, RowType DEF LaunchWave
<1>3. ASSUME NEW r \in Runs, NEW s \in Segments, TaskStep(r, s)
      PROVE  TaskTypeOK'
  <2>1. /\ {"attempt", "error", "persistOk", "persistFail", "done"} \subseteq Phases
        /\ "ok" \in Results
    BY DEF Phases, LivePhases, Results
  <2>2. ASSUME NEW p \in Phases, SetPhase(r, s, p), UNCHANGED <<tries, result, completions>>
        PROVE  TaskTypeOK'
    BY <2>2, EntryType DEF SetPhase
  <2>3. CASE PersistRunning(r, s)
    BY <2>1, <2>2, <2>3 DEF PersistRunning
  <2>4. CASE AttemptSucceeds(r, s)
    <3>1. result' \in [Runs -> [Segments -> Results]]
      BY <2>1, <2>4, EntryType DEF AttemptSucceeds
    <3>2. completions' \in [Segments -> Nat]
      BY <2>4 DEF AttemptSucceeds
    <3> QED BY <2>1, <2>4, <3>1, <3>2, EntryType DEF AttemptSucceeds, SetPhase
  <2>5. CASE AttemptFails(r, s) /\ tries[r][s] < MaxRetries[s]
    <3>1. tries[r][s] + 1 \in Nat /\ tries[r][s] + 1 <= MaxRetries[s]
      BY <2>5, ParameterAssumption
    <3>2. tries' = [tries EXCEPT ![r][s] = tries[r][s] + 1]
      BY <2>5 DEF AttemptFails
    <3>3. tries' \in [Runs -> [Segments -> Nat]]
      BY <3>1, <3>2, EntryType
    <3>4. \A q \in Runs, t \in Segments : tries'[q][t] <= MaxRetries[t]
      BY <3>1, <3>2
    <3> QED BY <2>5, <3>3, <3>4 DEF AttemptFails
  <2>6. CASE AttemptFails(r, s) /\ ~(tries[r][s] < MaxRetries[s])
    BY <2>1, <2>2, <2>6 DEF AttemptFails
  <2>7. CASE PersistSuccess(r, s)
    BY <2>1, <2>2, <2>7 DEF PersistSuccess
  <2>8. CASE PersistFailed(r, s)
    BY <2>1, <2>2, <2>8 DEF PersistFailed
  <2> QED BY <1>3, <2>3, <2>4, <2>5, <2>6, <2>7, <2>8 DEF TaskStep
<1>4. CASE StopProcess
  <2>1. phase' \in [Runs -> [Segments -> Phases]]
    BY <1>4 DEF StopProcess, Phases
  <2> QED BY <1>4, <2>1 DEF StopProcess
<1>5. ASSUME UNCHANGED taskVars PROVE TaskTypeOK'
  BY <1>5 DEF taskVars
<1>6. ASSUME NEW s \in Segments, ReadState(s) PROVE UNCHANGED taskVars
  BY <1>6 DEF ReadState
<1>7. CASE StartRun \/ SkipWave \/ LastWaveDone \/ GatherDone \/ TaskErrorRaised
           \/ CheckWave \/ FinishRun \/ ReadFault \/ HeartbeatFault
  BY <1>5, <1>7 DEF StartRun, SkipWave, LastWaveDone, GatherDone, TaskErrorRaised,
                    CheckWave, FinishRun, ReadFault, HeartbeatFault
<1>8. CASE UNCHANGED vars
  BY <1>5, <1>8 DEF vars, taskVars
<1> QED
  BY <1>1, <1>2, <1>3, <1>4, <1>5, <1>6, <1>7, <1>8 DEF Next, RunnerStep

(* Every step keeps the store's variables within their types.               *)
LEMMA StoreTypes ==
    ASSUME StoreTypeOK, [Next]_vars PROVE StoreTypeOK'
<1> USE DEF StoreTypeOK
<1>1. ASSUME NEW s \in Segments, NEW v \in Statuses, Persist(s, v) \/ PersistFault(s, v)
      PROVE  StoreTypeOK'
  BY <1>1, ParameterAssumption DEF Persist, PersistFault, StoreFault
<1>2. ASSUME NEW r \in Runs, NEW s \in Segments, TaskStep(r, s)
      PROVE  StoreTypeOK'
  BY <1>1, <1>2 DEF TaskStep, PersistRunning, AttemptSucceeds, AttemptFails,
                    PersistSuccess, PersistFailed, Statuses
<1>3. CASE ReadFault \/ HeartbeatFault
  BY <1>3, ParameterAssumption DEF ReadFault, HeartbeatFault, StoreFault
<1>4. ASSUME UNCHANGED <<status, faults>> PROVE StoreTypeOK'
  BY <1>4
<1>5. ASSUME NEW s \in Segments, ReadState(s) \/ ConsumeCompleted(s)
      PROVE  UNCHANGED <<status, faults>>
  BY <1>5 DEF ReadState, ConsumeCompleted
<1>6. CASE StartRun \/ SkipWave \/ LaunchWave \/ LastWaveDone \/ GatherDone
           \/ TaskErrorRaised \/ CheckWave \/ FinishRun \/ StopProcess
  BY <1>4, <1>6 DEF StartRun, SkipWave, LaunchWave, LastWaveDone, GatherDone,
                    TaskErrorRaised, CheckWave, FinishRun, StopProcess
<1>7. CASE UNCHANGED vars
  BY <1>4, <1>7 DEF vars
<1> QED
  BY <1>2, <1>3, <1>4, <1>5, <1>6, <1>7 DEF Next, RunnerStep

(* The first state has the types of TypeOK.                                 *)
LEMMA TypeCorrectInit == Init => TypeOK
  BY ParameterAssumption, WavesAssumption
     DEF Init, TypeOK, RunnerTypeOK, TaskTypeOK, StoreTypeOK,
         Active, Ended, Phases, Results, Statuses, Runs

(* TypeOK holds of every state of an opus run.                              *)
THEOREM TypeCorrect == Spec => []TypeOK
<1>1. Init => TypeOK
  BY TypeCorrectInit
<1>2. TypeOK /\ [Next]_vars => TypeOK'
  BY RunnerTypes, TaskTypes, StoreTypes DEF TypeOK
<1> QED BY <1>1, <1>2, PTL DEF Spec

-----------------------------------------------------------------------------
(* The inductive invariant: what the code knows, at each place, about the   *)
(* pipes that have completed.                                               *)

InWaves == {"wave", "await", "check"}

(* A completion stands behind every successful result, every SUCCESS on its *)
(* way to the store and every SUCCESS in the store.                         *)
OkIsCompleted ==
    /\ \A r \in Runs, s \in Segments : result[r][s] = "ok" => completions[s] > 0
    /\ \A r \in Runs, s \in Segments : phase[r][s] = "persistOk" => completions[s] > 0
    /\ \A s \in Segments : status[s] = "SUCCESS" => completions[s] > 0

(* What the lookup leaves out of pending has completed.                     *)
SkippedIsCompleted ==
    /\ ctl \in {"filter"} \cup InWaves \cup {"finish", "returned"} =>
          \A s \in Segments : s \in unread \cup pending \/ completions[s] > 0
    /\ ctl \in InWaves \cup {"finish", "returned"} => unread = {}

(* Every pending segment of the waves behind run() has a result.            *)
VisitedHasResult ==
    /\ ctl = "filter" => wave = 1
    /\ ctl \in InWaves \cup {"finish", "returned"} =>
          \A i \in DOMAIN Waves : \A s \in Waves[i] \cap pending :
              i < wave => result[run][s] # "absent"
    /\ ctl \in {"await", "check"} => \A s \in ToRun : result[run][s] # "absent"
    /\ ctl \in {"finish", "returned"} => wave = Len(Waves) + 1

(* If failures stop the opus, the waves behind run() have completed, and so *)
(* have the dependencies of every living task.                              *)
StoppingOrder ==
    StopsOnFailure =>
        /\ ctl \in InWaves \cup {"finish"} =>
              \A i \in DOMAIN Waves : \A s \in Waves[i] : i < wave => completions[s] > 0
        /\ DependenciesFirst

IInv == TypeOK /\ OkIsCompleted /\ SkippedIsCompleted /\ VisitedHasResult /\ StoppingOrder

(* Completions are never undone.                                            *)
LEMMA CompletionsGrow ==
    ASSUME TypeOK, [Next]_vars
    PROVE  \A s \in Segments : completions[s] > 0 => completions'[s] > 0
<1> USE DEF TypeOK, TaskTypeOK
<1>1. ASSUME NEW r \in Runs, NEW s \in Segments, AttemptSucceeds(r, s)
      PROVE  \A t \in Segments : completions[t] > 0 => completions'[t] > 0
  BY <1>1 DEF AttemptSucceeds
<1>2. ASSUME NEW r \in Runs, NEW s \in Segments, TaskStep(r, s), ~AttemptSucceeds(r, s)
      PROVE  UNCHANGED completions
  BY <1>2 DEF TaskStep, PersistRunning, AttemptFails, PersistSuccess, PersistFailed
<1>3. ASSUME NEW s \in Segments, ReadState(s) \/ ConsumeCompleted(s)
      PROVE  UNCHANGED completions
  BY <1>3 DEF ReadState, ConsumeCompleted, taskVars
<1>4. CASE StartRun \/ SkipWave \/ LaunchWave \/ LastWaveDone \/ GatherDone
           \/ TaskErrorRaised \/ CheckWave \/ FinishRun \/ StopProcess
           \/ ReadFault \/ HeartbeatFault
  BY <1>4 DEF StartRun, SkipWave, LaunchWave, LastWaveDone, GatherDone, TaskErrorRaised,
              CheckWave, FinishRun, StopProcess, ReadFault, HeartbeatFault, taskVars
<1>5. CASE UNCHANGED vars
  BY <1>5 DEF vars
<1> QED BY <1>1, <1>2, <1>3, <1>4, <1>5 DEF Next, RunnerStep

(* Consuming a finished task changes no phase, except by cancelling.        *)
LEMMA ConsumePhases ==
    ASSUME TypeOK, NEW s \in Segments, ConsumeCompleted(s)
    PROVE  \A q \in Runs, t \in Segments :
              phase'[q][t] = phase[q][t] \/ phase'[q][t] = "cancelled"
<1> USE DEF TypeOK, TaskTypeOK
<1> DEFINE row == [t \in Segments |-> IF t \in ToRun /\ phase[run][t] \in LivePhases
                                     THEN "cancelled" ELSE phase[run][t]]
<1>1. run \in Runs
  BY ActiveRun DEF ConsumeCompleted
<1>2. phase' = phase \/ phase' = [phase EXCEPT ![run] = row]
  BY <1>1 DEF ConsumeCompleted
<1>3. \A t \in Segments : row[t] = phase[run][t] \/ row[t] = "cancelled"
  OBVIOUS
<1> HIDE DEF row
<1> QED BY <1>1, <1>2, <1>3

(* Nothing becomes ok, is about to be persisted as SUCCESS, or is SUCCESS   *)
(* in the store, unless it was so before or a pipe completed.               *)
LEMMA OkStep ==
    ASSUME TypeOK, OkIsCompleted, [Next]_vars PROVE OkIsCompleted'
<1> USE DEF TypeOK, TaskTypeOK, StoreTypeOK, OkIsCompleted
<1>1. \A s \in Segments : completions[s] > 0 => completions'[s] > 0
  BY CompletionsGrow
<1>2. ASSUME NEW s \in Segments, ConsumeCompleted(s) PROVE OkIsCompleted'
  <2>2. ASSUME NEW q \in Runs, NEW t \in Segments, phase'[q][t] = "persistOk"
        PROVE  phase[q][t] = "persistOk"
    BY <1>2, <2>2, ConsumePhases
  <2>3. UNCHANGED <<result, status>>
    BY <1>2 DEF ConsumeCompleted
  <2> QED BY <1>1, <2>2, <2>3
<1>3. CASE LaunchWave
  <2>1. run \in Runs
    BY <1>3, ActiveRun DEF LaunchWave
  <2>2. ASSUME NEW q \in Runs, NEW t \in Segments
        PROVE  /\ phase'[q][t] = "persistOk" => phase[q][t] = "persistOk"
               /\ result'[q][t] = "ok" => result[q][t] = "ok"
    BY <1>3, <2>1 DEF LaunchWave
  <2>3. UNCHANGED status
    BY <1>3 DEF LaunchWave
  <2> QED BY <1>1, <2>2, <2>3
<1>4. ASSUME NEW r \in Runs, NEW s \in Segments, TaskStep(r, s)
      PROVE  OkIsCompleted'
  <2>1. CASE AttemptSucceeds(r, s)
    <3>1. completions'[s] > 0
      BY <2>1 DEF AttemptSucceeds
    <3>2. ASSUME NEW q \in Runs, NEW t \in Segments, t # s
          PROVE  phase'[q][t] = phase[q][t] /\ result'[q][t] = result[q][t]
      <4>1. phase'[q][t] = phase[q][t]
        BY <2>1, <3>2 DEF AttemptSucceeds, SetPhase
      <4>2. result'[q][t] = result[q][t]
        BY <2>1, <3>2 DEF AttemptSucceeds
      <4> QED BY <4>1, <4>2
    <3> QED BY <1>1, <2>1, <3>1, <3>2 DEF AttemptSucceeds
  <2>2. ASSUME NEW p \in Phases, SetPhase(r, s, p), p # "persistOk"
        PROVE  \A q \in Runs, t \in Segments :
                   phase'[q][t] = "persistOk" => phase[q][t] = "persistOk"
    BY <2>2, EntryType DEF SetPhase
  <2>3. /\ {"attempt", "error", "persistFail", "done"} \subseteq Phases
        /\ "persistOk" \notin {"attempt", "error", "persistFail", "done"}
    BY DEF Phases, LivePhases
  <2>4. ASSUME NEW v \in Statuses, v # "SUCCESS" \/ phase[r][s] = "persistOk",
               Persist(s, v) \/ PersistFault(s, v)
        PROVE  \A t \in Segments : status'[t] = "SUCCESS" =>
                   status[t] = "SUCCESS" \/ completions[t] > 0
    <3>1. status' = status \/ status' = [status EXCEPT ![s] = v]
      BY <2>4 DEF Persist, PersistFault
    <3> QED BY <2>4, <3>1
  <2>5. "RUNNING" \in Statuses /\ "FAILED" \in Statuses /\ "SUCCESS" \in Statuses
    BY DEF Statuses
  <2>6. CASE PersistRunning(r, s)
    <3>1. UNCHANGED <<result, completions>>
      BY <2>6 DEF PersistRunning
    <3>2. \A q \in Runs, t \in Segments :
              phase'[q][t] = "persistOk" => phase[q][t] = "persistOk"
      BY <2>2, <2>3, <2>6 DEF PersistRunning
    <3> QED BY <2>4, <2>5, <2>6, <3>1, <3>2 DEF PersistRunning
  <2>7. CASE AttemptFails(r, s)
    <3>1. UNCHANGED <<result, completions, status>>
      BY <2>7 DEF AttemptFails
    <3>2. \A q \in Runs, t \in Segments :
              phase'[q][t] = "persistOk" => phase[q][t] = "persistOk"
      BY <2>2, <2>3, <2>7 DEF AttemptFails
    <3> QED BY <3>1, <3>2
  <2>8. CASE PersistSuccess(r, s)
    <3>1. UNCHANGED <<result, completions>> /\ phase[r][s] = "persistOk"
      BY <2>8 DEF PersistSuccess
    <3>2. \A q \in Runs, t \in Segments :
              phase'[q][t] = "persistOk" => phase[q][t] = "persistOk"
      BY <2>2, <2>3, <2>8 DEF PersistSuccess
    <3> QED BY <2>4, <2>5, <2>8, <3>1, <3>2 DEF PersistSuccess
  <2>9. CASE PersistFailed(r, s)
    <3>1. UNCHANGED <<result, completions>>
      BY <2>9 DEF PersistFailed
    <3>2. \A q \in Runs, t \in Segments :
              phase'[q][t] = "persistOk" => phase[q][t] = "persistOk"
      BY <2>2, <2>3, <2>9 DEF PersistFailed
    <3> QED BY <2>4, <2>5, <2>9, <3>1, <3>2 DEF PersistFailed
  <2> QED BY <1>4, <2>1, <2>6, <2>7, <2>8, <2>9 DEF TaskStep
<1>5. CASE StopProcess
  <2>1. ASSUME NEW q \in Runs, NEW t \in Segments, phase'[q][t] = "persistOk"
        PROVE  phase[q][t] = "persistOk"
    BY <1>5, <2>1 DEF StopProcess
  <2> QED BY <1>1, <1>5, <2>1 DEF StopProcess
<1>6. ASSUME UNCHANGED <<phase, result, status>> PROVE OkIsCompleted'
  BY <1>1, <1>6
<1>7. ASSUME NEW s \in Segments, ReadState(s) PROVE UNCHANGED <<phase, result, status>>
  BY <1>7 DEF ReadState, taskVars
<1>8. CASE StartRun \/ SkipWave \/ LastWaveDone \/ GatherDone \/ TaskErrorRaised
           \/ CheckWave \/ FinishRun \/ ReadFault \/ HeartbeatFault
  BY <1>6, <1>8 DEF StartRun, SkipWave, LastWaveDone, GatherDone, TaskErrorRaised,
                    CheckWave, FinishRun, ReadFault, HeartbeatFault, taskVars
<1>9. CASE UNCHANGED vars
  BY <1>6, <1>9 DEF vars
<1> QED
  BY <1>2, <1>3, <1>4, <1>5, <1>6, <1>7, <1>8, <1>9 DEF Next, RunnerStep

(* Only run() moves the runner's variables.                                 *)
LEMMA TasksLeaveRunner ==
    ASSUME NEW r \in Runs, NEW s \in Segments, TaskStep(r, s)
    PROVE  UNCHANGED runnerVars
  BY DEF TaskStep, PersistRunning, AttemptSucceeds, AttemptFails, PersistSuccess, PersistFailed

(* The lookup drops only recorded segments, and those have completed.       *)
LEMMA SkippedStep ==
    ASSUME TypeOK, OkIsCompleted, SkippedIsCompleted, [Next]_vars
    PROVE  SkippedIsCompleted'
<1> USE DEF TypeOK, RunnerTypeOK, OkIsCompleted, SkippedIsCompleted, InWaves
<1>1. \A s \in Segments : completions[s] > 0 => completions'[s] > 0
  BY CompletionsGrow
<1>2. CASE StartRun
  BY <1>2 DEF StartRun
<1>3. ASSUME NEW s \in Segments, ReadState(s) PROVE SkippedIsCompleted'
  <2>1. \A t \in Segments : t \in unread' \cup pending' \/ completions[t] > 0
    BY <1>3 DEF ReadState
  <2> QED BY <1>1, <1>3, <2>1 DEF ReadState
<1>4. ASSUME UNCHANGED <<unread, pending>>,
             ctl' \in {"idle", "raised", "crashed", "abort"} \/ UNCHANGED ctl
             \/ (ctl \in InWaves \cup {"finish"}
                   /\ ctl' \in InWaves \cup {"finish", "returned", "raised"})
      PROVE  SkippedIsCompleted'
  BY <1>1, <1>4
<1>5. ASSUME NEW s \in Segments, ConsumeCompleted(s) PROVE SkippedIsCompleted'
  BY <1>4, <1>5 DEF ConsumeCompleted
<1>6. CASE SkipWave \/ LaunchWave \/ LastWaveDone
  BY <1>4, <1>6 DEF SkipWave, LaunchWave, LastWaveDone
<1>7. CASE GatherDone \/ TaskErrorRaised
  BY <1>4, <1>7 DEF GatherDone, TaskErrorRaised
<1>8. CASE CheckWave \/ FinishRun
  BY <1>4, <1>8 DEF CheckWave, FinishRun
<1>9. CASE ReadFault \/ HeartbeatFault \/ StopProcess
  BY <1>4, <1>9 DEF ReadFault, HeartbeatFault, StopProcess
<1>10. ASSUME NEW r \in Runs, NEW s \in Segments, TaskStep(r, s)
       PROVE  SkippedIsCompleted'
  BY <1>4, <1>10, TasksLeaveRunner DEF runnerVars
<1>11. CASE UNCHANGED vars
  BY <1>4, <1>11 DEF vars
<1> QED
  BY <1>2, <1>3, <1>5, <1>6, <1>7, <1>8, <1>9, <1>10, <1>11 DEF Next, RunnerStep

(* A result once entered is never taken away.                               *)
LEMMA ResultsStay ==
    ASSUME TypeOK, [Next]_vars
    PROVE  \A r \in Runs, s \in Segments :
              result[r][s] # "absent" => result'[r][s] # "absent"
<1> USE DEF TypeOK, TaskTypeOK
<1>1. CASE LaunchWave
  <2>1. run \in Runs
    BY <1>1, ActiveRun DEF LaunchWave
  <2> QED BY <1>1, <2>1 DEF LaunchWave
<1>2. ASSUME NEW r \in Runs, NEW s \in Segments, AttemptSucceeds(r, s)
      PROVE  \A q \in Runs, t \in Segments :
                result[q][t] # "absent" => result'[q][t] # "absent"
  BY <1>2 DEF AttemptSucceeds
<1>3. ASSUME NEW r \in Runs, NEW s \in Segments, TaskStep(r, s), ~AttemptSucceeds(r, s)
      PROVE  UNCHANGED result
  BY <1>3 DEF TaskStep, PersistRunning, AttemptFails, PersistSuccess, PersistFailed
<1>4. ASSUME NEW s \in Segments, ReadState(s) \/ ConsumeCompleted(s)
      PROVE  UNCHANGED result
  BY <1>4 DEF ReadState, ConsumeCompleted, taskVars
<1>5. CASE StartRun \/ SkipWave \/ LastWaveDone \/ GatherDone \/ TaskErrorRaised
           \/ CheckWave \/ FinishRun \/ StopProcess \/ ReadFault \/ HeartbeatFault
  BY <1>5 DEF StartRun, SkipWave, LastWaveDone, GatherDone, TaskErrorRaised,
              CheckWave, FinishRun, StopProcess, ReadFault, HeartbeatFault, taskVars
<1>6. CASE UNCHANGED vars
  BY <1>6 DEF vars
<1> QED BY <1>1, <1>2, <1>3, <1>4, <1>5, <1>6 DEF Next, RunnerStep

(* run() passes no wave whose pending segments have no result.              *)
LEMMA VisitedStep ==
    ASSUME TypeOK, VisitedHasResult, [Next]_vars
    PROVE  VisitedHasResult'
<1> USE DEF TypeOK, RunnerTypeOK, VisitedHasResult, InWaves
<1>1. \A r \in Runs, s \in Segments : result[r][s] # "absent" => result'[r][s] # "absent"
  BY ResultsStay
<1>2. \A i \in DOMAIN Waves : i \in 1..Len(Waves) /\ Waves[i] \subseteq Segments
  BY WavesAssumption
<1>3. CASE StartRun
  BY <1>3, <1>2, WavesAssumption DEF StartRun
<1>4. ASSUME UNCHANGED <<run, wave, pending>>, ctl # "idle",
             \/ UNCHANGED ctl
             \/ ctl' \in {"raised", "crashed", "abort"}
             \/ ctl = "await" /\ ctl' = "check"
             \/ ctl = "finish" /\ ctl' = "returned"
      PROVE  VisitedHasResult'
  <2>1. ToRun' = ToRun
    BY <1>4 DEF ToRun
  <2>2. \A s \in Segments : result[run][s] # "absent" => result'[run'][s] # "absent"
    BY <1>1, <1>4
  <2>3. ToRun \subseteq Segments
    BY ToRunSegments
  <2>4. CASE UNCHANGED ctl
    BY <1>2, <1>4, <2>1, <2>2, <2>3, <2>4
  <2>5. CASE ~UNCHANGED ctl
    BY <1>2, <1>4, <2>1, <2>2, <2>3, <2>5
  <2> QED BY <2>4, <2>5
<1>5. ASSUME NEW s \in Segments, ReadState(s) PROVE VisitedHasResult'
  BY <1>1, <1>2, <1>5 DEF ReadState
<1>6. ASSUME NEW s \in Segments, ConsumeCompleted(s) PROVE VisitedHasResult'
  BY <1>4, <1>6 DEF ConsumeCompleted
<1>7. CASE SkipWave
  <2>1. ASSUME NEW i \in DOMAIN Waves, NEW s \in Waves[i] \cap pending, i < wave + 1
        PROVE  result[run][s] # "absent"
    BY <1>2, <1>7, <2>1 DEF SkipWave, ToRun
  <2> QED BY <1>7, <2>1 DEF SkipWave, taskVars
<1>8. CASE LaunchWave
  <2>1. run \in Runs /\ ToRun \subseteq Segments
    BY <1>8, ActiveRun, ToRunSegments DEF LaunchWave
  <2>2. \A s \in ToRun : result'[run][s] = "failed"
    BY <1>8, <2>1 DEF LaunchWave, TaskTypeOK
  <2>3. ToRun' = ToRun
    BY <1>8 DEF LaunchWave, ToRun
  <2> QED BY <1>1, <1>2, <1>8, <2>1, <2>2, <2>3 DEF LaunchWave
<1>9. CASE LastWaveDone
  BY <1>9 DEF LastWaveDone, taskVars
<1>10. CASE CheckWave
  <2>1. ASSUME NEW i \in DOMAIN Waves, NEW s \in Waves[i] \cap pending, i < wave + 1
        PROVE  result[run][s] # "absent"
    BY <1>2, <1>10, <2>1 DEF CheckWave, ToRun
  <2> QED BY <1>10, <2>1 DEF CheckWave, taskVars
<1>11. CASE GatherDone \/ TaskErrorRaised \/ FinishRun
  BY <1>4, <1>11 DEF GatherDone, TaskErrorRaised, FinishRun
<1>12. CASE ReadFault \/ HeartbeatFault
  BY <1>4, <1>12 DEF ReadFault, HeartbeatFault
<1>13. CASE StopProcess
  <2>1. CASE ctl = "idle"
    BY <1>13, <2>1 DEF StopProcess, Active
  <2> QED BY <1>4, <1>13, <2>1 DEF StopProcess
<1>14. ASSUME NEW r \in Runs, NEW s \in Segments, TaskStep(r, s)
       PROVE  VisitedHasResult'
  <2>1. UNCHANGED runnerVars
    BY <1>14, TasksLeaveRunner
  <2>2. CASE ctl = "idle"
    BY <2>1, <2>2 DEF runnerVars
  <2> QED BY <1>4, <2>1, <2>2 DEF runnerVars
<1>15. CASE UNCHANGED vars
  <2>1. CASE ctl = "idle"
    BY <1>15, <2>1 DEF vars
  <2> QED BY <1>4, <1>15, <2>1 DEF vars
<1> QED
  BY <1>3, <1>5, <1>6, <1>7, <1>8, <1>9, <1>10, <1>11, <1>12, <1>13, <1>14, <1>15
     DEF Next, RunnerStep

(* If failures stop the opus, run() passes a wave only when all of it has   *)
(* completed, and launches a task only behind its dependencies.             *)
LEMMA OrderStep ==
    ASSUME TypeOK, OkIsCompleted, SkippedIsCompleted, VisitedHasResult, StoppingOrder,
           [Next]_vars
    PROVE  StoppingOrder'
<1> SUFFICES ASSUME StopsOnFailure PROVE StoppingOrder'
  BY DEF StoppingOrder, StopsOnFailure
<1> DEFINE Passed == \A i \in DOMAIN Waves : \A s \in Waves[i] : i < wave => completions[s] > 0
<1>1. \A s \in Segments : completions[s] > 0 => completions'[s] > 0
  BY CompletionsGrow
<1>2. \A i \in DOMAIN Waves : i \in 1..Len(Waves) /\ Waves[i] \subseteq Segments
  BY WavesAssumption
<1>3. \A s \in Segments : Needs[s] \subseteq Segments
  BY ParameterAssumption DEF Needs
<1>4. run \in Runs \/ ctl = "idle"
  BY ActiveRun DEF TypeOK
<1>5. ctl' \in InWaves \cup {"finish"} => Passed'
  <2> USE DEF TypeOK, RunnerTypeOK, InWaves
  <2>1. ASSUME UNCHANGED wave, ctl \in InWaves \cup {"finish"} PROVE Passed'
    BY <1>1, <1>2, <2>1 DEF StoppingOrder
  <2>2. CASE StartRun
    BY <1>2, <2>2 DEF StartRun
  <2>3. ASSUME NEW s \in Segments, ReadState(s) PROVE Passed'
    BY <1>2, <2>3 DEF ReadState, VisitedHasResult
  <2>4. ASSUME NEW s \in Segments, ConsumeCompleted(s) PROVE Passed'
    BY <2>1, <2>4 DEF ConsumeCompleted
  <2>5. CASE SkipWave
    <3>1. ASSUME NEW s \in Waves[wave] PROVE completions[s] > 0
      BY <1>2, <2>5 DEF SkipWave, ToRun, SkippedIsCompleted
    <3>2. ASSUME NEW i \in DOMAIN Waves, NEW s \in Waves[i], i < wave + 1
          PROVE  completions'[s] > 0
      BY <1>1, <1>2, <2>5, <3>1, <3>2 DEF SkipWave, StoppingOrder
    <3> QED BY <2>5, <3>2 DEF SkipWave
  <2>6. CASE CheckWave
    <3>1. CASE ctl' = "abort"
      BY <2>6, <3>1 DEF CheckWave, StoppingOrder, taskVars
    <3>2. CASE ctl' = "wave"
      <4>1. ASSUME NEW s \in ToRun PROVE result[run][s] = "ok"
        BY <1>4, <2>6, <3>2, ToRunSegments
           DEF CheckWave, VisitedHasResult, TaskTypeOK, Results
      <4>2. ASSUME NEW s \in Waves[wave] PROVE completions[s] > 0
        BY <1>2, <1>4, <2>6, <4>1 DEF CheckWave, ToRun, SkippedIsCompleted, OkIsCompleted
      <4>3. ASSUME NEW i \in DOMAIN Waves, NEW s \in Waves[i], i < wave + 1
            PROVE  completions'[s] > 0
        BY <1>1, <1>2, <2>6, <4>2, <4>3 DEF CheckWave, StoppingOrder
      <4> QED BY <2>6, <3>2, <4>3 DEF CheckWave
    <3> QED BY <2>6, <3>1, <3>2 DEF CheckWave
  <2>7. CASE LaunchWave \/ LastWaveDone \/ GatherDone
    BY <2>1, <2>7 DEF LaunchWave, LastWaveDone, GatherDone
  <2>8. CASE TaskErrorRaised \/ FinishRun \/ ReadFault \/ HeartbeatFault
    BY <2>8 DEF TaskErrorRaised, FinishRun, ReadFault, HeartbeatFault
  <2>9. CASE StopProcess
    BY <2>1, <2>9 DEF StopProcess, Active
  <2>10. ASSUME NEW r \in Runs, NEW s \in Segments, TaskStep(r, s)
         PROVE  ctl' \in InWaves \cup {"finish"} => Passed'
    BY <2>1, <2>10, TasksLeaveRunner DEF runnerVars
  <2>11. CASE UNCHANGED vars
    BY <2>1, <2>11 DEF vars
  <2> QED
    BY <2>2, <2>3, <2>4, <2>5, <2>6, <2>7, <2>8, <2>9, <2>10, <2>11 DEF Next, RunnerStep
<1>6. DependenciesFirst'
  <2> USE DEF TypeOK, TaskTypeOK, DependenciesFirst, StoppingOrder, Live
  <2>1. ASSUME NEW r \in Runs, NEW s \in Segments, phase'[r][s] \in LivePhases,
               phase[r][s] \in LivePhases, NEW d \in Needs[s]
        PROVE  completions'[d] > 0
    BY <1>1, <1>3, <2>1
  <2>2. CASE LaunchWave
    <3>1. run \in Runs /\ wave \in DOMAIN Waves
      BY <1>4, <2>2, WavesAssumption DEF LaunchWave, RunnerTypeOK
    <3>2. ASSUME NEW s \in ToRun, NEW d \in Needs[s] PROVE completions[d] > 0
      <4>1. PICK i \in DOMAIN Waves : i < wave /\ d \in Waves[i]
        BY <3>1, WavesAssumption DEF ToRun
      <4> QED BY <2>2, <4>1 DEF LaunchWave, InWaves
    <3>3. ASSUME NEW r \in Runs, NEW s \in Segments, phase'[r][s] \in LivePhases
          PROVE  phase[r][s] \in LivePhases \/ s \in ToRun
      BY <2>2, <3>1, <3>3 DEF LaunchWave
    <3> QED BY <2>1, <3>2, <3>3, <2>2 DEF LaunchWave
  <2>3. ASSUME ~LaunchWave, NEW r \in Runs, NEW s \in Segments, phase'[r][s] \in LivePhases
        PROVE  phase[r][s] \in LivePhases
    <3>1. ASSUME NEW q \in Runs, NEW t \in Segments, TaskStep(q, t)
          PROVE  phase[r][s] \in LivePhases
      <4>1. phase[q][t] \in LivePhases
        BY <3>1 DEF TaskStep, PersistRunning, AttemptSucceeds, AttemptFails,
                    PersistSuccess, PersistFailed, LivePhases
      <4>2. (q # r \/ t # s) => phase'[r][s] = phase[r][s]
        <5>1. UNCHANGED phase \/ \E p \in {"attempt", "error", "persistOk", "persistFail", "done"} :
                                    SetPhase(q, t, p)
          BY <3>1 DEF TaskStep, PersistRunning, AttemptSucceeds, AttemptFails,
                      PersistSuccess, PersistFailed
        <5> QED BY <5>1 DEF SetPhase
      <4> QED BY <2>3, <4>1, <4>2
    <3>2. ASSUME NEW t \in Segments, ConsumeCompleted(t) PROVE phase[r][s] \in LivePhases
      BY <2>3, <3>2, ConsumePhases DEF LivePhases
    <3>3. ASSUME NEW t \in Segments, ReadState(t) PROVE UNCHANGED phase
      BY <3>3 DEF ReadState, taskVars
    <3>4. CASE StopProcess
      BY <2>3, <3>4 DEF StopProcess, LivePhases
    <3>5. CASE StartRun \/ SkipWave \/ LastWaveDone \/ GatherDone \/ TaskErrorRaised
               \/ CheckWave \/ FinishRun \/ ReadFault \/ HeartbeatFault
      BY <2>3, <3>5 DEF StartRun, SkipWave, LastWaveDone, GatherDone, TaskErrorRaised,
                  CheckWave, FinishRun, ReadFault, HeartbeatFault, taskVars
    <3>6. CASE UNCHANGED vars
      BY <2>3, <3>6 DEF vars
    <3> QED BY <2>3, <3>1, <3>2, <3>3, <3>4, <3>5, <3>6 DEF Next, RunnerStep
  <2> QED BY <2>1, <2>2, <2>3
<1> QED BY <1>5, <1>6 DEF StoppingOrder

(* IInv is inductive.                                                       *)
THEOREM Invariance == Spec => []IInv
<1>1. Init => IInv
  BY TypeCorrectInit
     DEF Init, IInv, OkIsCompleted, SkippedIsCompleted, VisitedHasResult, StoppingOrder,
         InWaves, DependenciesFirst, Live, LivePhases
<1>2. IInv /\ [Next]_vars => IInv'
  <2>1. TypeOK /\ [Next]_vars => TypeOK'
    BY RunnerTypes, TaskTypes, StoreTypes DEF TypeOK
  <2> QED BY <2>1, OkStep, SkippedStep, VisitedStep, OrderStep DEF IInv
<1> QED BY <1>1, <1>2, PTL DEF Spec

(* When failures stop the opus, a segment is executed only after the pipes  *)
(* of all its dependencies have completed, whatever crashed, was retried,   *)
(* cancelled, abandoned or lost by the store in between.                    *)
THEOREM DependenciesAreFirst ==
    ASSUME StopsOnFailure PROVE Spec => []DependenciesFirst
<1>1. IInv => DependenciesFirst
  BY DEF IInv, StoppingOrder
<1> QED BY <1>1, Invariance, PTL

(* A run that reports success has run every segment of the opus to its end, *)
(* in every failure mode and with every wait strategy.                      *)
THEOREM SuccessMeansComplete == Spec => []SuccessIsComplete
<1>1. IInv => SuccessIsComplete
  <2> SUFFICES ASSUME IInv, ctl = "returned", ReportsSuccess(run), NEW s \in Segments
               PROVE  completions[s] > 0
    BY DEF SuccessIsComplete, Done
  <2> USE DEF IInv
  <2>1. run \in Runs
    BY ActiveRun DEF TypeOK
  <2>2. PICK i \in DOMAIN Waves : s \in Waves[i]
    BY WavesAssumption
  <2>3. i < wave
    BY <2>2, WavesAssumption DEF VisitedHasResult
  <2>4. CASE s \in pending
    <3>1. result[run][s] # "absent" /\ result[run][s] # "failed"
      BY <2>2, <2>3, <2>4 DEF VisitedHasResult, ReportsSuccess
    <3>2. result[run][s] = "ok"
      BY <2>1, <3>1 DEF TypeOK, TaskTypeOK, Results
    <3> QED BY <2>1, <3>2 DEF OkIsCompleted
  <2>5. CASE s \notin pending
    BY <2>5 DEF SkippedIsCompleted
  <2> QED BY <2>4, <2>5
<1> QED BY <1>1, Invariance, PTL

-----------------------------------------------------------------------------
(* While the store works: no call of it has raised.  The invariant that     *)
(* separates the tasks of one wave, of two waves and of two invocations,    *)
(* and ties the store to what the tasks have done.                          *)

(* Invocations to come have left no trace, and a result has a task.         *)
TasksBegin ==
    /\ \A r \in Runs, s \in Segments :
          r > run => phase[r][s] = "none" /\ result[r][s] = "absent"
    /\ \A r \in Runs, s \in Segments : result[r][s] # "absent" => phase[r][s] # "none"

(* Every task alive belongs to the wave that run() awaits, and none ends in *)
(* an exception.                                                            *)
AliveIsAwaited ==
    faults = 0 => \A r \in Runs, s \in Segments :
        /\ Live(r, s) => ctl = "await" /\ r = run /\ s \in ToRun
        /\ phase[r][s] # "error"

(* The store shows no SUCCESS for the pending segments of the waves ahead,  *)
(* nor for a segment whose task is alive.                                   *)
AheadUnrecorded ==
    /\ ~HasStore => \A s \in Segments : status[s] = "absent"
    /\ faults = 0 /\ ctl \in {"filter"} \cup InWaves =>
          \A i \in DOMAIN Waves : \A s \in Waves[i] \cap pending :
              i > wave \/ (i = wave /\ ctl \in {"filter", "wave"}) => status[s] # "SUCCESS"
    /\ faults = 0 => \A r \in Runs, s \in Segments : Live(r, s) => status[s] # "SUCCESS"

(* The store shows SUCCESS for every segment that the lookup has skipped    *)
(* and for every one whose task has ended well.                             *)
SuccessIsRecorded ==
    HasStore /\ faults = 0 /\ ctl \in {"filter"} \cup InWaves \cup {"finish", "returned"} =>
        \A s \in Segments :
            /\ s \in unread \cup pending \/ status[s] = "SUCCESS"
            /\ result[run][s] = "ok" =>
                  \/ phase[run][s] \in {"persistOk", "cancelled"}
                  \/ phase[run][s] = "done" /\ status[s] = "SUCCESS"

WInv == TasksBegin /\ AliveIsAwaited /\ AheadUnrecorded /\ SuccessIsRecorded

(* What a step of a task touches: its own phase and result, and the state   *)
(* of its own segment.                                                      *)
LEMMA TaskFrame ==
    ASSUME TypeOK, NEW r \in Runs, NEW s \in Segments, TaskStep(r, s)
    PROVE  /\ phase[r][s] \in LivePhases
           /\ phase'[r][s] \in LivePhases \cup {"done", "error"}
           /\ \A q \in Runs, t \in Segments : q # r \/ t # s =>
                 phase'[q][t] = phase[q][t] /\ result'[q][t] = result[q][t]
           /\ \A t \in Segments : t # s => status'[t] = status[t]
           /\ ~HasStore => UNCHANGED status
<1> USE DEF TypeOK, TaskTypeOK, StoreTypeOK, LivePhases
<1>1. ASSUME NEW p \in Phases, SetPhase(r, s, p)
      PROVE  /\ phase'[r][s] = p
             /\ \A q \in Runs, t \in Segments : q # r \/ t # s => phase'[q][t] = phase[q][t]
  BY <1>1, EntryType DEF SetPhase
<1>2. ASSUME NEW v \in Statuses, Persist(s, v) \/ PersistFault(s, v)
      PROVE  /\ \A t \in Segments : t # s => status'[t] = status[t]
             /\ ~HasStore => UNCHANGED status
  BY <1>2, ParameterAssumption DEF Persist, PersistFault, StoreFault
<1>3. /\ {"attempt", "persistOk", "persistFail", "done", "error"} \subseteq Phases
      /\ {"RUNNING", "SUCCESS", "FAILED"} \subseteq Statuses
  BY DEF Phases, Statuses
<1>4. CASE PersistRunning(r, s)
  BY <1>1, <1>2, <1>3, <1>4 DEF PersistRunning
<1>5. CASE AttemptSucceeds(r, s)
  <2>1. \A q \in Runs, t \in Segments : q # r \/ t # s => result'[q][t] = result[q][t]
    BY <1>5 DEF AttemptSucceeds
  <2> QED BY <1>1, <1>3, <1>5, <2>1 DEF AttemptSucceeds
<1>6. CASE AttemptFails(r, s)
  BY <1>1, <1>3, <1>6 DEF AttemptFails
<1>7. CASE PersistSuccess(r, s)
  BY <1>1, <1>2, <1>3, <1>7 DEF PersistSuccess
<1>8. CASE PersistFailed(r, s)
  BY <1>1, <1>2, <1>3, <1>8 DEF PersistFailed
<1> QED BY <1>4, <1>5, <1>6, <1>7, <1>8 DEF TaskStep

(* A fault is never forgotten; a step that ends without one calls the store *)
(* only to write.                                                           *)
LEMMA FaultsStay ==
    ASSUME TypeOK, [Next]_vars, faults' = 0
    PROVE  /\ faults = 0 /\ ~ReadFault /\ ~HeartbeatFault
           /\ \A s \in Segments, v \in Statuses : ~PersistFault(s, v)
<1> USE DEF TypeOK, StoreTypeOK
<1>1. ~StoreFault
  BY ParameterAssumption DEF StoreFault
<1>2. ~ReadFault /\ ~HeartbeatFault /\ \A s \in Segments, v \in Statuses : ~PersistFault(s, v)
  BY <1>1 DEF ReadFault, HeartbeatFault, PersistFault
<1>3. ASSUME NEW r \in Runs, NEW s \in Segments, TaskStep(r, s) PROVE UNCHANGED faults
  BY <1>2, <1>3 DEF TaskStep, PersistRunning, AttemptSucceeds, AttemptFails,
                    PersistSuccess, PersistFailed, Persist, Statuses
<1>4. ASSUME NEW s \in Segments, ReadState(s) \/ ConsumeCompleted(s) PROVE UNCHANGED faults
  BY <1>4 DEF ReadState, ConsumeCompleted
<1>5. CASE StartRun \/ SkipWave \/ LaunchWave \/ LastWaveDone \/ GatherDone
           \/ TaskErrorRaised \/ CheckWave \/ FinishRun \/ StopProcess \/ UNCHANGED vars
  BY <1>2, <1>5 DEF StartRun, SkipWave, LaunchWave, LastWaveDone, GatherDone,
              TaskErrorRaised, CheckWave, FinishRun, StopProcess, vars
<1> QED BY <1>2, <1>3, <1>4, <1>5 DEF Next, RunnerStep

(* Only the tasks write to the store.                                       *)
LEMMA RunnerLeavesStore ==
    ASSUME [Next]_vars, \A r \in Runs, s \in Segments : ~TaskStep(r, s)
    PROVE  UNCHANGED status
<1>1. ASSUME NEW s \in Segments, ReadState(s) \/ ConsumeCompleted(s) PROVE UNCHANGED status
  BY <1>1 DEF ReadState, ConsumeCompleted
<1>2. CASE StartRun \/ SkipWave \/ LaunchWave \/ LastWaveDone \/ GatherDone
           \/ TaskErrorRaised \/ CheckWave \/ FinishRun \/ StopProcess
           \/ ReadFault \/ HeartbeatFault \/ UNCHANGED vars
  BY <1>2 DEF StartRun, SkipWave, LaunchWave, LastWaveDone, GatherDone, TaskErrorRaised,
              CheckWave, FinishRun, StopProcess, ReadFault, HeartbeatFault, vars
<1> QED BY <1>1, <1>2 DEF Next, RunnerStep

(* LaunchWave writes the rows of the running invocation, and only there.    *)
LEMMA LaunchFrame ==
    ASSUME TypeOK, LaunchWave
    PROVE  /\ run \in Runs /\ ToRun' = ToRun /\ ToRun \subseteq Segments
           /\ \A q \in Runs, t \in Segments :
                 IF q = run /\ t \in ToRun
                 THEN phase'[q][t] = "created" /\ result'[q][t] = "failed"
                 ELSE phase'[q][t] = phase[q][t] /\ result'[q][t] = result[q][t]
<1> USE DEF TypeOK, TaskTypeOK
<1>1. run \in Runs
  BY ActiveRun DEF LaunchWave
<1>2. ToRun' = ToRun /\ ToRun \subseteq Segments
  BY ToRunSegments DEF LaunchWave, ToRun
<1> DEFINE prow == [s \in Segments |-> IF s \in ToRun THEN "created" ELSE phase[run][s]]
           rrow == [s \in Segments |-> IF s \in ToRun THEN "failed" ELSE result[run][s]]
<1>3. phase' = [phase EXCEPT ![run] = prow] /\ result' = [result EXCEPT ![run] = rrow]
  BY <1>1 DEF LaunchWave
<1>4. \A t \in Segments :
         IF t \in ToRun THEN prow[t] = "created" /\ rrow[t] = "failed"
                        ELSE prow[t] = phase[run][t] /\ rrow[t] = result[run][t]
  OBVIOUS
<1> HIDE DEF prow, rrow
<1> QED BY <1>1, <1>2, <1>3, <1>4

(* Consuming a task cancels, at the threshold, what is alive in the wave.   *)
LEMMA ConsumeFrame ==
    ASSUME TypeOK, NEW s \in Segments, ConsumeCompleted(s)
    PROVE  /\ run \in Runs /\ ToRun' = ToRun
           /\ ctl = "await" /\ ctl' \in {"await", "check"}
           /\ \A q \in Runs, t \in Segments :
                 IF ctl' = "check" /\ q = run /\ t \in ToRun /\ Live(q, t)
                 THEN phase'[q][t] = "cancelled"
                 ELSE phase'[q][t] = phase[q][t]
<1> USE DEF TypeOK, TaskTypeOK
<1> DEFINE row == [t \in Segments |-> IF t \in ToRun /\ phase[run][t] \in LivePhases
                                     THEN "cancelled" ELSE phase[run][t]]
<1>1. run \in Runs /\ ToRun' = ToRun
  BY ActiveRun DEF ConsumeCompleted, ToRun
<1>2. \/ ctl' = "await" /\ phase' = phase
      \/ ctl' = "check" /\ phase' = [phase EXCEPT ![run] = row]
  BY <1>1 DEF ConsumeCompleted
<1>3. \A t \in Segments :
         row[t] = IF t \in ToRun /\ phase[run][t] \in LivePhases
                  THEN "cancelled" ELSE phase[run][t]
  OBVIOUS
<1>4. ctl = "await"
  BY DEF ConsumeCompleted
<1> HIDE DEF row
<1>5. CASE ctl' = "await"
  BY <1>1, <1>2, <1>4, <1>5
<1>6. CASE ctl' = "check"
  BY <1>1, <1>2, <1>3, <1>4, <1>6 DEF Live
<1> QED BY <1>2, <1>5, <1>6

(* Invocations begin one after the other.                                   *)
LEMMA BeginStep ==
    ASSUME TypeOK, TasksBegin, [Next]_vars PROVE TasksBegin'
<1> USE DEF TasksBegin
<1>1. CASE StartRun
  <2>1. run' = run + 1 /\ UNCHANGED <<phase, result>>
    BY <1>1 DEF StartRun, taskVars
  <2>2. \A r \in Runs : r > run + 1 => r > run
    BY ParameterAssumption DEF Runs, TypeOK, RunnerTypeOK
  <2> QED BY <2>1, <2>2
<1>2. CASE LaunchWave
  <2>1. UNCHANGED run /\ \A r \in Runs : r > run => r # run
    BY <1>2, LaunchFrame DEF LaunchWave, Runs
  <2>2. ASSUME NEW r \in Runs, NEW s \in Segments, r > run
        PROVE  phase'[r][s] = "none" /\ result'[r][s] = "absent"
    BY <1>2, <2>1, <2>2, LaunchFrame
  <2>3. ASSUME NEW r \in Runs, NEW s \in Segments, result'[r][s] # "absent"
        PROVE  phase'[r][s] # "none"
    BY <1>2, <2>3, LaunchFrame
  <2> QED BY <2>1, <2>2, <2>3
<1>3. ASSUME NEW r \in Runs, NEW s \in Segments, TaskStep(r, s) PROVE TasksBegin'
  <2>1. UNCHANGED run
    BY <1>3, TasksLeaveRunner DEF runnerVars
  <2>2. phase[r][s] # "none" /\ phase'[r][s] # "none"
    BY <1>3, TaskFrame DEF LivePhases
  <2>3. ASSUME NEW q \in Runs, NEW t \in Segments, q # r \/ t # s
        PROVE  phase'[q][t] = phase[q][t] /\ result'[q][t] = result[q][t]
    BY <1>3, <2>3, TaskFrame
  <2> QED BY <2>1, <2>2, <2>3
<1>4. ASSUME NEW s \in Segments, ConsumeCompleted(s) PROVE TasksBegin'
  <2>1. UNCHANGED <<run, result>>
    BY <1>4 DEF ConsumeCompleted
  <2>2. \A q \in Runs, t \in Segments : phase[q][t] = "none" => phase'[q][t] = "none"
    BY <1>4, ConsumeFrame DEF Live, LivePhases
  <2>3. \A q \in Runs, t \in Segments : phase[q][t] # "none" => phase'[q][t] # "none"
    BY <1>4, ConsumePhases
  <2> QED BY <2>1, <2>2, <2>3
<1>5. CASE StopProcess
  <2>1. \A q \in Runs, t \in Segments : (phase'[q][t] = "none") <=> (phase[q][t] = "none")
    BY <1>5 DEF StopProcess, LivePhases
  <2> QED BY <1>5, <2>1 DEF StopProcess
<1>6. ASSUME UNCHANGED <<run, phase, result>> PROVE TasksBegin'
  BY <1>6
<1>7. ASSUME NEW s \in Segments, ReadState(s) PROVE UNCHANGED <<run, phase, result>>
  BY <1>7 DEF ReadState, taskVars
<1>8. CASE SkipWave \/ LastWaveDone \/ GatherDone \/ TaskErrorRaised \/ CheckWave
           \/ FinishRun \/ ReadFault \/ HeartbeatFault \/ UNCHANGED vars
  BY <1>6, <1>8 DEF SkipWave, LastWaveDone, GatherDone, TaskErrorRaised, CheckWave,
                    FinishRun, ReadFault, HeartbeatFault, taskVars, vars
<1> QED BY <1>1, <1>2, <1>3, <1>4, <1>5, <1>6, <1>7, <1>8 DEF Next, RunnerStep
(* The segments run() launches are alive in no other invocation, and it     *)
(* does not leave the wave while one of them is alive.                      *)
LEMMA AliveStep ==
    ASSUME TypeOK, TasksBegin, AliveIsAwaited, [Next]_vars PROVE AliveIsAwaited'
<1> SUFFICES ASSUME faults' = 0 PROVE AliveIsAwaited'
  BY DEF AliveIsAwaited
<1> USE DEF AliveIsAwaited, Live
<1>1. faults = 0 /\ ~ReadFault /\ ~HeartbeatFault
  BY FaultsStay
<1>2. ASSUME ctl # "await" PROVE \A r \in Runs, s \in Segments : ~Live(r, s)
  BY <1>1, <1>2
<1>3. CASE LaunchWave
  <2>1. ctl' = "await" /\ run' = run /\ ctl # "await"
    BY <1>3 DEF LaunchWave
  <2> QED BY <1>1, <1>2, <1>3, <2>1, LaunchFrame
<1>4. ASSUME NEW s \in Segments, ConsumeCompleted(s) PROVE AliveIsAwaited'
  <2>1. run' = run
    BY <1>4 DEF ConsumeCompleted
  <2>2. ASSUME NEW q \in Runs, NEW t \in Segments, phase'[q][t] \in LivePhases
        PROVE  phase[q][t] \in LivePhases /\ ctl' = "await"
    BY <1>1, <1>4, <2>2, ConsumeFrame DEF LivePhases
  <2>3. ASSUME NEW q \in Runs, NEW t \in Segments PROVE phase'[q][t] # "error"
    BY <1>1, <1>4, ConsumeFrame
  <2> QED BY <1>1, <1>4, <2>1, <2>2, <2>3, ConsumeFrame
<1>5. ASSUME NEW r \in Runs, NEW s \in Segments, TaskStep(r, s) PROVE AliveIsAwaited'
  <2>1. UNCHANGED <<run, ctl>> /\ ToRun' = ToRun
    BY <1>5, TasksLeaveRunner DEF runnerVars, ToRun
  <2>2. phase'[r][s] # "error"
    <3>1. \A v \in Statuses : ~PersistFault(s, v)
      BY FaultsStay
    <3>2. UNCHANGED phase \/ \E p \in {"attempt", "persistOk", "persistFail", "done"} :
                                SetPhase(r, s, p)
      BY <1>5, <3>1 DEF TaskStep, PersistRunning, AttemptSucceeds, AttemptFails,
                        PersistSuccess, PersistFailed, Statuses
    <3> QED BY <1>1, <3>2, EntryType DEF SetPhase, TypeOK, TaskTypeOK, Phases, LivePhases
  <2> QED BY <1>1, <1>5, <2>1, <2>2, TaskFrame
<1>6. CASE StopProcess
  BY <1>1, <1>6 DEF StopProcess, LivePhases
<1>7. CASE StartRun
  <2>1. ctl # "await" /\ UNCHANGED phase
    BY <1>7 DEF StartRun, Active, taskVars
  <2> QED BY <1>1, <1>2, <2>1
<1>8. ASSUME ctl # "await", UNCHANGED phase PROVE AliveIsAwaited'
  BY <1>1, <1>2, <1>8
<1>9. ASSUME NEW s \in Segments, ReadState(s) PROVE ctl # "await" /\ UNCHANGED phase
  BY <1>9 DEF ReadState, taskVars
<1>10. CASE SkipWave \/ LastWaveDone \/ CheckWave \/ FinishRun
  BY <1>8, <1>10 DEF SkipWave, LastWaveDone, CheckWave, FinishRun, taskVars
<1>11. CASE GatherDone
  <2>1. UNCHANGED phase /\ \A s \in ToRun : phase[run][s] = "done"
    BY <1>11 DEF GatherDone, taskVars
  <2>2. \A r \in Runs, s \in Segments : phase[r][s] \notin LivePhases
    BY <1>1, <2>1 DEF LivePhases
  <2> QED BY <1>1, <2>1, <2>2
<1>12. CASE TaskErrorRaised
  <2>1. PICK s \in ToRun : phase[run][s] = "error" /\ run \in Runs /\ s \in Segments
    BY <1>12, ActiveRun, ToRunSegments DEF TaskErrorRaised, TypeOK
  <2> QED BY <1>1, <2>1
<1>13. CASE UNCHANGED vars
  BY <1>1, <1>13 DEF vars, ToRun
<1> QED
  BY <1>1, <1>3, <1>4, <1>5, <1>6, <1>7, <1>9, <1>8, <1>10, <1>11, <1>12, <1>13
     DEF Next, RunnerStep

(* A living task is the only one that writes the state of its segment.      *)
LEMMA WriterIsAlive ==
    ASSUME TypeOK, AliveIsAwaited, faults = 0, [Next]_vars,
           NEW t \in Segments, status'[t] # status[t]
    PROVE  /\ TaskStep(run, t) /\ Live(run, t) /\ run \in Runs
           /\ ctl = "await" /\ t \in ToRun /\ UNCHANGED runnerVars
<1>1. PICK r \in Runs, s \in Segments : TaskStep(r, s)
  BY RunnerLeavesStore
<1>2. s = t /\ Live(r, s)
  BY <1>1, TaskFrame DEF Live
<1>3. r = run /\ ctl = "await" /\ s \in ToRun
  BY <1>2 DEF AliveIsAwaited
<1> QED BY <1>1, <1>2, <1>3, TasksLeaveRunner

(* Nothing is recorded as successful that run() has still to launch or that *)
(* is still being executed.                                                 *)
LEMMA AheadStep ==
    ASSUME TypeOK, AliveIsAwaited, AheadUnrecorded, [Next]_vars PROVE AheadUnrecorded'
<1> DEFINE Ahead == \A i \in DOMAIN Waves : \A s \in Waves[i] \cap pending :
              i > wave \/ (i = wave /\ ctl \in {"filter", "wave"}) => status[s] # "SUCCESS"
           Alive == \A r \in Runs, s \in Segments : Live(r, s) => status[s] # "SUCCESS"
           Planned == ctl \in {"filter"} \cup InWaves => Ahead
<1>1. \A i \in DOMAIN Waves : i \in 1..Len(Waves) /\ Waves[i] \subseteq Segments
  BY WavesAssumption
<1>2. ~HasStore => \A s \in Segments : status'[s] = "absent"
  <2>1. ASSUME NEW r \in Runs, NEW s \in Segments, TaskStep(r, s), ~HasStore
        PROVE  UNCHANGED status
    BY <2>1, TaskFrame
  <2> QED BY <2>1, RunnerLeavesStore DEF AheadUnrecorded
<1>3. ASSUME faults' = 0 PROVE Planned'
  <2> USE DEF InWaves
  <2>1. faults = 0 /\ ~ReadFault /\ ~HeartbeatFault /\ Planned
    BY <1>3, FaultsStay DEF AheadUnrecorded
  <2>2. wave \in Nat
    BY WavesAssumption DEF TypeOK, RunnerTypeOK
  <2>3. CASE StartRun
    <3>1. UNCHANGED status /\ (HasStore => pending' = {})
      BY <2>3 DEF StartRun
    <3> QED BY <1>1, <1>2, <3>1
  <2>4. ASSUME NEW s \in Segments, ReadState(s) PROVE Planned'
    <3>1. /\ UNCHANGED <<status, wave>> /\ ctl = "filter" /\ ctl' \in {"filter", "wave"}
          /\ \A t \in pending' : t \in pending \/ status[t] # "SUCCESS"
      BY <2>4 DEF ReadState
    <3> QED BY <2>1, <3>1
  <2>5. CASE SkipWave \/ CheckWave
    <3>1. /\ UNCHANGED <<status, pending>> /\ ctl \in InWaves
          /\ ctl' = "abort" \/ wave' = wave + 1
      BY <2>5 DEF SkipWave, CheckWave
    <3>2. ASSUME NEW i \in DOMAIN Waves, wave' = wave + 1, i > wave' \/ i = wave'
          PROVE  i > wave
      BY <1>1, <2>2, <3>2
    <3> QED BY <2>1, <3>1, <3>2
  <2>6. ASSUME UNCHANGED <<status, pending, wave>>,
               \/ UNCHANGED ctl
               \/ ctl \in InWaves /\ ctl' \notin {"filter", "wave"}
               \/ ctl' \notin {"filter"} \cup InWaves
        PROVE  Planned'
    BY <2>1, <2>6
  <2>7. ASSUME NEW s \in Segments, ConsumeCompleted(s) PROVE Planned'
    BY <2>6, <2>7 DEF ConsumeCompleted
  <2>8. CASE LaunchWave \/ LastWaveDone \/ GatherDone \/ TaskErrorRaised
    BY <2>6, <2>8 DEF LaunchWave, LastWaveDone, GatherDone, TaskErrorRaised
  <2>9. CASE FinishRun \/ StopProcess \/ UNCHANGED vars
    <3>1. UNCHANGED <<status, pending, wave>>
      BY <2>9 DEF FinishRun, StopProcess, vars
    <3>2. ctl' \in {"returned", "raised", "crashed"} \/ UNCHANGED ctl
      BY <2>9 DEF FinishRun, StopProcess, vars
    <3>3. CASE UNCHANGED ctl
      BY <2>1, <3>1, <3>3
    <3>4. CASE ctl' \in {"returned", "raised", "crashed"}
      BY <3>4
    <3> QED BY <3>2, <3>3, <3>4
  <2>10. ASSUME NEW r \in Runs, NEW s \in Segments, TaskStep(r, s) PROVE Planned'
    <3>1. UNCHANGED <<pending, wave, ctl>>
      BY <2>10, TasksLeaveRunner DEF runnerVars
    <3>2. ASSUME NEW i \in DOMAIN Waves, NEW t \in Waves[i] \cap pending,
                 i > wave \/ (i = wave /\ ctl \in {"filter", "wave"}),
                 ctl \in {"filter"} \cup InWaves
          PROVE  status'[t] = status[t]
      <4>1. SUFFICES ASSUME status'[t] # status[t] PROVE FALSE
        OBVIOUS
      <4>2. ctl = "await" /\ t \in Waves[wave] /\ wave \in DOMAIN Waves
        BY <1>1, <2>1, <4>1, WriterIsAlive DEF ToRun, TypeOK, RunnerTypeOK
      <4> QED BY <1>1, <2>2, <3>2, <4>2, WavesAssumption
    <3> QED BY <2>1, <3>1, <3>2
  <2> QED
    BY <2>1, <2>3, <2>4, <2>5, <2>7, <2>8, <2>9, <2>10 DEF Next, RunnerStep
<1>4. ASSUME faults' = 0 PROVE Alive'
  <2> USE DEF Live
  <2>1. faults = 0 /\ Alive /\ Planned /\ \A s \in Segments, v \in Statuses : ~PersistFault(s, v)
    BY <1>4, FaultsStay DEF AheadUnrecorded
  <2>2. CASE LaunchWave
    <3>1. \A s \in ToRun : status[s] # "SUCCESS"
      BY <1>1, <2>1, <2>2, WavesAssumption DEF LaunchWave, ToRun, TypeOK, RunnerTypeOK, InWaves
    <3>2. UNCHANGED status
      BY <2>2 DEF LaunchWave
    <3> QED BY <2>1, <2>2, <3>1, <3>2, LaunchFrame
  <2>3. ASSUME NEW r \in Runs, NEW s \in Segments, TaskStep(r, s) PROVE Alive'
    <3>1. r = run /\ phase[r][s] \in LivePhases
      BY <2>1, <2>3, TaskFrame DEF AliveIsAwaited
    <3>2. ASSUME phase'[r][s] \in LivePhases PROVE status'[s] # "SUCCESS"
      <4>1. CASE PersistRunning(r, s)
        BY <2>1, <3>1, <4>1 DEF PersistRunning, Persist, Statuses, TypeOK, StoreTypeOK
      <4>2. CASE UNCHANGED status
        BY <2>1, <3>1, <4>2
      <4>3. CASE SetPhase(r, s, "done")
        BY <3>2, <4>3, EntryType DEF SetPhase, TypeOK, TaskTypeOK, LivePhases, Phases
      <4> QED
        BY <2>1, <2>3, <4>1, <4>2, <4>3
           DEF TaskStep, AttemptSucceeds, AttemptFails, PersistSuccess, PersistFailed, Statuses
    <3>3. ASSUME NEW q \in Runs, NEW t \in Segments, q # r \/ t # s, phase'[q][t] \in LivePhases
          PROVE  status'[t] # "SUCCESS"
      <4>1. phase[q][t] \in LivePhases
        BY <2>3, <3>3, TaskFrame
      <4>2. q = run /\ t # s
        BY <2>1, <3>1, <3>3, <4>1 DEF AliveIsAwaited
      <4> QED BY <2>1, <2>3, <4>1, <4>2, TaskFrame
    <3> QED BY <3>2, <3>3
  <2>4. ASSUME UNCHANGED status,
               \A r \in Runs, s \in Segments : phase'[r][s] \in LivePhases => phase[r][s] \in LivePhases
        PROVE  Alive'
    BY <2>1, <2>4
  <2>5. ASSUME NEW s \in Segments, ConsumeCompleted(s) PROVE Alive'
    <3>1. UNCHANGED status
      BY <2>5 DEF ConsumeCompleted
    <3> QED BY <2>4, <2>5, <3>1, ConsumePhases DEF LivePhases
  <2>6. CASE StopProcess
    BY <2>4, <2>6 DEF StopProcess, LivePhases
  <2>7. ASSUME UNCHANGED <<status, phase>> PROVE Alive'
    BY <2>4, <2>7
  <2>8. ASSUME NEW s \in Segments, ReadState(s) PROVE UNCHANGED <<status, phase>>
    BY <2>8 DEF ReadState, taskVars
  <2>9. CASE StartRun \/ SkipWave \/ LastWaveDone \/ GatherDone \/ TaskErrorRaised
             \/ CheckWave \/ FinishRun \/ ReadFault \/ HeartbeatFault \/ UNCHANGED vars
    BY <2>7, <2>9 DEF StartRun, SkipWave, LastWaveDone, GatherDone, TaskErrorRaised,
              CheckWave, FinishRun, ReadFault, HeartbeatFault, taskVars, vars
  <2> QED BY <2>2, <2>3, <2>5, <2>6, <2>7, <2>8, <2>9 DEF Next, RunnerStep
<1> QED BY <1>2, <1>3, <1>4 DEF AheadUnrecorded

(* A success that the task or the lookup reports is in the store.           *)
LEMMA RecordedStep ==
    ASSUME TypeOK, TasksBegin, AliveIsAwaited, SuccessIsRecorded, [Next]_vars
    PROVE  SuccessIsRecorded'
<1> DEFINE Places == {"filter"} \cup InWaves \cup {"finish", "returned"}
           Known(s) == s \in unread \cup pending \/ status[s] = "SUCCESS"
           Kept(s)  == result[run][s] = "ok" =>
                         \/ phase[run][s] \in {"persistOk", "cancelled"}
                         \/ phase[run][s] = "done" /\ status[s] = "SUCCESS"
<1> SUFFICES ASSUME HasStore, faults' = 0, ctl' \in Places, NEW s \in Segments
             PROVE  Known(s)' /\ Kept(s)'
  BY DEF SuccessIsRecorded
<1> USE DEF InWaves
<1>1. /\ faults = 0 /\ ~ReadFault /\ ~HeartbeatFault
      /\ \A t \in Segments, v \in Statuses : ~PersistFault(t, v)
  BY FaultsStay
<1>2. ASSUME ctl \in Places PROVE Known(s) /\ Kept(s)
  BY <1>1, <1>2 DEF SuccessIsRecorded
<1>3. CASE StartRun
  <2>1. s \in unread' \cup pending' /\ run' = run + 1 /\ UNCHANGED result
    BY <1>3 DEF StartRun, taskVars
  <2>2. run' \in Runs /\ run' > run
    BY <1>3, ParameterAssumption DEF StartRun, TypeOK, RunnerTypeOK, Runs
  <2> QED BY <2>1, <2>2 DEF TasksBegin
<1>4. ASSUME NEW t \in Segments, ReadState(t) PROVE Known(s)' /\ Kept(s)'
  <2>1. /\ UNCHANGED <<run, result, phase, status>> /\ ctl = "filter"
        /\ s \in unread \cup pending => s \in unread' \cup pending' \/ status[s] = "SUCCESS"
    BY <1>4 DEF ReadState, taskVars
  <2> QED BY <1>2, <2>1
<1>5. CASE LaunchWave
  <2>1. UNCHANGED <<run, unread, pending, status>> /\ ctl = "wave"
    BY <1>5 DEF LaunchWave
  <2> QED BY <1>2, <1>5, <2>1, LaunchFrame
<1>6. ASSUME NEW t \in Segments, ConsumeCompleted(t) PROVE Known(s)' /\ Kept(s)'
  <2>1. UNCHANGED <<run, unread, pending, result, status>>
    BY <1>6 DEF ConsumeCompleted
  <2>2. ctl = "await" /\ phase'[run][s] \in {phase[run][s], "cancelled"}
    BY <1>6, ConsumeFrame, ConsumePhases
  <2> QED BY <1>2, <2>1, <2>2
<1>7. ASSUME NEW r \in Runs, NEW t \in Segments, TaskStep(r, t)
      PROVE  Known(s)' /\ Kept(s)'
  <2>1. /\ r = run /\ ctl = "await" /\ t \in pending
        /\ UNCHANGED <<run, unread, pending>>
    BY <1>1, <1>7, TaskFrame, TasksLeaveRunner DEF AliveIsAwaited, Live, ToRun, runnerVars
  <2>2. CASE s # t
    BY <1>2, <1>7, <2>1, <2>2, TaskFrame
  <2>3. CASE s = t
    <3>1. Known(s)'
      BY <2>1, <2>3
    <3>2. CASE AttemptSucceeds(r, s)
      <4>1. phase'[run][s] = "persistOk"
        BY <2>1, <3>2, EntryType
           DEF AttemptSucceeds, SetPhase, TypeOK, TaskTypeOK, Phases, LivePhases
      <4> QED BY <2>1, <3>1, <4>1
    <3>3. CASE PersistSuccess(r, s)
      <4>1. phase'[run][s] = "done" /\ status'[s] = "SUCCESS"
        BY <1>1, <2>1, <3>3, EntryType
           DEF PersistSuccess, SetPhase, Persist, TypeOK, TaskTypeOK, StoreTypeOK,
               Phases, LivePhases, Statuses
      <4> QED BY <2>1, <3>1, <4>1
    <3>4. CASE PersistRunning(r, s) \/ AttemptFails(r, s) \/ PersistFailed(r, s)
      <4>1. UNCHANGED result /\ phase[run][s] \in {"created", "attempt", "persistFail"}
        BY <2>1, <3>4 DEF PersistRunning, AttemptFails, PersistFailed
      <4> QED BY <1>2, <2>1, <3>1, <4>1
    <3> QED BY <1>7, <2>3, <3>2, <3>3, <3>4 DEF TaskStep
  <2> QED BY <2>2, <2>3
<1>8. CASE StopProcess
  <2>1. ctl \notin Active /\ \A r \in Runs, t \in Segments : ~Live(r, t)
    BY <1>1, <1>8 DEF StopProcess, AliveIsAwaited, Active
  <2> QED BY <1>8, <2>1 DEF StopProcess, Live
<1>9. ASSUME UNCHANGED <<run, unread, pending, result, phase, status>>, ctl \in Places
      PROVE  Known(s)' /\ Kept(s)'
  BY <1>2, <1>9
<1>10. CASE SkipWave \/ LastWaveDone \/ GatherDone \/ TaskErrorRaised
  BY <1>9, <1>10 DEF SkipWave, LastWaveDone, GatherDone, TaskErrorRaised, taskVars
<1>11. CASE CheckWave \/ FinishRun
  BY <1>9, <1>11 DEF CheckWave, FinishRun, taskVars
<1>12. CASE UNCHANGED vars
  BY <1>9, <1>12 DEF vars
<1> QED
  BY <1>1, <1>3, <1>4, <1>5, <1>6, <1>7, <1>8, <1>10, <1>11, <1>12 DEF Next, RunnerStep

(* WInv is inductive.                                                       *)
LEMMA WorkingInvariance == Spec => []WInv
<1>1. Init => WInv
  BY ParameterAssumption
     DEF Init, WInv, TasksBegin, AliveIsAwaited, AheadUnrecorded, SuccessIsRecorded,
         InWaves, Live, LivePhases
<1>2. TypeOK /\ WInv /\ [Next]_vars => WInv'
  BY BeginStep, AliveStep, AheadStep, RecordedStep DEF WInv
<1> QED BY <1>1, <1>2, TypeCorrect, PTL DEF Spec

(* While the store works, the tasks alive at one time belong to one wave,   *)
(* and no two of them execute the same segment: neither the next wave nor a *)
(* resumed run overtakes a task that early exit or a crash left behind.     *)
THEOREM NoTasksOverlap == Spec => []TasksDoNotOverlap
<1>1. TypeOK /\ WInv => TasksDoNotOverlap
  <2> SUFFICES ASSUME WInv, faults = 0, NEW q \in Runs, NEW r \in Runs,
                      NEW i \in DOMAIN Waves, NEW j \in DOMAIN Waves,
                      NEW s \in Waves[i], NEW t \in Waves[j], Live(q, s), Live(r, t),
                      TypeOK
               PROVE  i = j /\ q = r
    BY DEF TasksDoNotOverlap
  <2>1. s \in Segments /\ t \in Segments
    BY WavesAssumption
  <2>2. q = run /\ r = run /\ ctl = "await" /\ s \in ToRun /\ t \in ToRun
    BY <2>1 DEF WInv, AliveIsAwaited
  <2>3. wave \in DOMAIN Waves
    BY <2>2 DEF TypeOK, RunnerTypeOK
  <2> QED BY <2>2, <2>3, WavesAssumption DEF ToRun
<1> QED BY <1>1, WorkingInvariance, TypeCorrect, PTL

(* While the store works, a segment recorded as SUCCESS is never started    *)
(* again under this run_id, although the lookup and the start are separated *)
(* by whole waves.                                                          *)
THEOREM SuccessStaysSkipped == Spec => SuccessNotRestarted
<1>1. ASSUME TypeOK, WInv, [Next]_vars, faults = 0,
             NEW r \in Runs, NEW s \in Segments,
             phase[r][s] = "none", phase'[r][s] = "created"
      PROVE  status[s] # "SUCCESS"
  <2>1. ASSUME NEW q \in Runs, NEW t \in Segments, TaskStep(q, t) PROVE FALSE
    <3>1. phase'[q][t] # "created"
      <4>1. \/ UNCHANGED phase /\ phase[q][t] = "attempt"
            \/ \E p \in {"attempt", "persistOk", "persistFail", "done", "error"} :
                  SetPhase(q, t, p)
        BY <2>1 DEF TaskStep, PersistRunning, AttemptSucceeds, AttemptFails,
                    PersistSuccess, PersistFailed
      <4>2. ASSUME NEW p \in Phases, SetPhase(q, t, p) PROVE phase'[q][t] = p
        BY <1>1, <4>2, EntryType DEF SetPhase, TypeOK, TaskTypeOK
      <4> QED BY <4>1, <4>2 DEF Phases, LivePhases
    <3> QED BY <1>1, <2>1, <3>1, TaskFrame
  <2>2. ASSUME NEW t \in Segments, ConsumeCompleted(t) PROVE FALSE
    BY <1>1, <2>2, ConsumePhases
  <2>3. CASE StopProcess
    BY <1>1, <2>3 DEF StopProcess, LivePhases
  <2>4. CASE LaunchWave
    <3>1. s \in ToRun /\ wave \in DOMAIN Waves
      BY <1>1, <2>4, LaunchFrame, WavesAssumption DEF LaunchWave, TypeOK, RunnerTypeOK
    <3> QED BY <1>1, <2>4, <3>1 DEF LaunchWave, WInv, AheadUnrecorded, InWaves, ToRun
  <2>5. ASSUME UNCHANGED phase PROVE FALSE
    BY <1>1, <2>5
  <2>6. ASSUME NEW t \in Segments, ReadState(t) PROVE UNCHANGED phase
    BY <2>6 DEF ReadState, taskVars
  <2>7. CASE StartRun \/ SkipWave \/ LastWaveDone \/ GatherDone \/ TaskErrorRaised
             \/ CheckWave \/ FinishRun \/ ReadFault \/ HeartbeatFault \/ UNCHANGED vars
    BY <2>5, <2>7 DEF StartRun, SkipWave, LastWaveDone, GatherDone, TaskErrorRaised,
              CheckWave, FinishRun, ReadFault, HeartbeatFault, taskVars, vars
  <2> QED BY <1>1, <2>1, <2>2, <2>3, <2>4, <2>5, <2>6, <2>7 DEF Next, RunnerStep
<1>2. TypeOK /\ WInv /\ [Next]_vars =>
         [faults = 0 => \A r \in Runs, s \in Segments :
             phase[r][s] = "none" /\ phase'[r][s] = "created" => status[s] # "SUCCESS"]_vars
  BY <1>1
<1> QED BY <1>2, WorkingInvariance, TypeCorrect, PTL DEF Spec, SuccessNotRestarted

(* While the store works, a successful run leaves no work to a resume of    *)
(* the same run_id, but for segments cancelled by an early exit.            *)
THEOREM ResumeFindsAllDone == Spec => []NothingLeftToResume
<1>1. TypeOK /\ IInv /\ WInv => NothingLeftToResume
  <2> SUFFICES ASSUME IInv, WInv, HasStore, faults = 0, ctl = "returned",
                      ReportsSuccess(run), NEW s \in Segments
               PROVE  status[s] = "SUCCESS" \/ phase[run][s] = "cancelled"
    BY DEF NothingLeftToResume
  <2>1. run \in Runs /\ unread = {}
    BY ActiveRun DEF IInv, TypeOK, SkippedIsCompleted
  <2>2. PICK i \in DOMAIN Waves : s \in Waves[i]
    BY WavesAssumption
  <2>3. i < wave
    BY <2>2, WavesAssumption DEF IInv, VisitedHasResult
  <2>4. CASE s \in pending
    <3>1. result[run][s] = "ok"
      BY <2>1, <2>2, <2>3, <2>4
         DEF IInv, VisitedHasResult, ReportsSuccess, TypeOK, TaskTypeOK, Results
    <3>2. phase[run][s] # "persistOk"
      BY <2>1 DEF WInv, AliveIsAwaited, Live, LivePhases
    <3> QED BY <3>1, <3>2 DEF WInv, SuccessIsRecorded
  <2>5. CASE s \notin pending
    BY <2>1, <2>5 DEF WInv, SuccessIsRecorded
  <2> QED BY <2>4, <2>5
<1> QED BY <1>1, Invariance, TypeCorrect, WorkingInvariance, PTL

(* When a run returns, every segment that had not completed before and      *)
(* comes after no failed one has been given a task by it: no wait strategy, *)
(* no early exit and no failure elsewhere leaves one out.                   *)
THEOREM HealthyBranchesHaveTheirTurn == Spec => []UnrelatedBranchesContinue
<1>1. IInv /\ WInv => UnrelatedBranchesContinue
  <2> SUFFICES ASSUME IInv, WInv, ctl = "returned", NEW s \in Segments
               PROVE  phase[run][s] # "none" \/ s \in Done
    BY DEF UnrelatedBranchesContinue
  <2>1. run \in Runs /\ (s \in pending \/ completions[s] > 0)
    BY ActiveRun DEF IInv, TypeOK, SkippedIsCompleted
  <2>2. PICK i \in DOMAIN Waves : s \in Waves[i]
    BY WavesAssumption
  <2>3. i < wave
    BY <2>2, WavesAssumption DEF IInv, VisitedHasResult
  <2>4. CASE s \in pending
    BY <2>1, <2>2, <2>3, <2>4 DEF IInv, VisitedHasResult, WInv, TasksBegin
  <2>5. CASE completions[s] > 0
    BY <2>5 DEF Done
  <2> QED BY <2>1, <2>4, <2>5
<1> QED BY <1>1, Invariance, WorkingInvariance, PTL

-----------------------------------------------------------------------------
(* OpusRun implements SegmentLedger.                                        *)

Recorded == {s \in Segments : status[s] = "SUCCESS"}

(* A write to the store keeps, adds or, after a fault, loses a record.      *)
LEMMA WriteRecords ==
    ASSUME TypeOK, NEW s \in Segments, NEW v \in Statuses, Persist(s, v),
           faults = 0 => status[s] # "SUCCESS",
           v = "SUCCESS" => completions[s] > 0, UNCHANGED completions
    PROVE  Ledger!Record(s) \/ Ledger!Forget(s) \/ UNCHANGED Ledger!vars
<1> USE DEF TypeOK, StoreTypeOK, Persist, Done, Ledger!Record, Ledger!Forget, Ledger!vars
<1>1. Done' = Done /\ faults' = faults
  OBVIOUS
<1>2. CASE ~HasStore
  BY <1>1, <1>2
<1>3. CASE HasStore /\ v = "SUCCESS"
  <2>1. Recorded' = Recorded \cup {s}
    BY <1>3 DEF Recorded
  <2> QED BY <1>1, <1>3, <2>1 DEF Recorded
<1>4. CASE HasStore /\ v # "SUCCESS"
  <2>1. Recorded' = Recorded \ {s}
    BY <1>4 DEF Recorded
  <2>2. CASE faults = 0
    BY <1>1, <2>1, <2>2 DEF Recorded
  <2>3. CASE faults > 0
    BY <1>1, <2>1, <2>3 DEF Recorded
  <2> QED BY <2>2, <2>3
<1> QED BY <1>2, <1>3, <1>4

(* A call of the store that raises is a failure of the ledger.              *)
LEMMA FaultIsLoss ==
    ASSUME TypeOK, OkIsCompleted, OkIsCompleted', StoreFault, UNCHANGED completions
    PROVE  Ledger!StoreFails
BY DEF TypeOK, StoreTypeOK, StoreFault, OkIsCompleted, Done, Ledger!StoreFails

(* Every step of an opus that stops on failure is a step of the ledger.     *)
LEMMA LedgerStep ==
    ASSUME StopsOnFailure, IInv, IInv', WInv, [Next]_vars
    PROVE  [Ledger!Next]_(Ledger!vars)
<1>1. ASSUME NEW s \in Segments,
             Ledger!Complete(s) \/ Ledger!Record(s) \/ Ledger!Forget(s)
      PROVE  Ledger!Next
  BY <1>1 DEF Ledger!Next
<1>2. ASSUME StoreFault, UNCHANGED completions PROVE Ledger!Next
  BY <1>2, FaultIsLoss DEF IInv, Ledger!Next
<1>3. ASSUME UNCHANGED <<status, faults, completions>> PROVE UNCHANGED Ledger!vars
  BY <1>3 DEF Ledger!vars, Done
<1>4. ASSUME NEW r \in Runs, NEW s \in Segments, TaskStep(r, s)
      PROVE  [Ledger!Next]_(Ledger!vars)
  <2>1. Live(r, s) /\ (faults = 0 => status[s] # "SUCCESS")
    BY <1>4, TaskFrame DEF IInv, Live, WInv, AheadUnrecorded
  <2>2. ASSUME NEW v \in Statuses, Persist(s, v), v = "SUCCESS" => completions[s] > 0,
               UNCHANGED completions
        PROVE  [Ledger!Next]_(Ledger!vars)
    BY <1>1, <2>1, <2>2, WriteRecords DEF IInv
  <2>3. ASSUME NEW v \in Statuses, PersistFault(s, v), UNCHANGED completions
        PROVE  Ledger!Next
    BY <1>2, <2>3 DEF PersistFault
  <2>4. {"RUNNING", "SUCCESS", "FAILED"} \subseteq Statuses
    BY DEF Statuses
  <2>5. CASE PersistRunning(r, s)
    BY <2>2, <2>3, <2>4, <2>5 DEF PersistRunning
  <2>6. CASE AttemptSucceeds(r, s)
    <3>1. Needs[s] \subseteq Done
      BY <2>1, ParameterAssumption DEF IInv, StoppingOrder, DependenciesFirst, Done, Needs
    <3>2. UNCHANGED <<status, faults>> /\ completions' = [completions EXCEPT ![s] = @ + 1]
      BY <2>6 DEF AttemptSucceeds
    <3>3. Done' = Done \cup {s}
      BY <3>2 DEF Done, IInv, TypeOK, TaskTypeOK
    <3>4. Ledger!Complete(s)
      BY <3>1, <3>2, <3>3 DEF Ledger!Complete
    <3> QED BY <1>1, <3>4
  <2>7. CASE AttemptFails(r, s)
    BY <1>3, <2>7 DEF AttemptFails
  <2>8. CASE PersistSuccess(r, s)
    <3>1. completions[s] > 0
      BY <2>8 DEF PersistSuccess, IInv, OkIsCompleted
    <3> QED BY <2>2, <2>3, <2>4, <2>8, <3>1 DEF PersistSuccess
  <2>9. CASE PersistFailed(r, s)
    BY <2>2, <2>3, <2>4, <2>9 DEF PersistFailed
  <2> QED BY <1>4, <2>5, <2>6, <2>7, <2>8, <2>9 DEF TaskStep
<1>5. CASE ReadFault \/ HeartbeatFault
  BY <1>2, <1>5 DEF ReadFault, HeartbeatFault, taskVars
<1>6. ASSUME NEW s \in Segments, ReadState(s) \/ ConsumeCompleted(s)
      PROVE  UNCHANGED <<status, faults, completions>>
  BY <1>6 DEF ReadState, ConsumeCompleted, taskVars
<1>7. CASE StartRun \/ SkipWave \/ LaunchWave \/ LastWaveDone \/ GatherDone
           \/ TaskErrorRaised \/ CheckWave \/ FinishRun \/ StopProcess \/ UNCHANGED vars
  BY <1>3, <1>7 DEF StartRun, SkipWave, LaunchWave, LastWaveDone, GatherDone,
              TaskErrorRaised, CheckWave, FinishRun, StopProcess, taskVars, vars
<1> QED BY <1>3, <1>4, <1>5, <1>6, <1>7 DEF Next, RunnerStep

(* When failures stop the opus, its runs implement the ledger: a pipe       *)
(* completes after its dependencies, only a completed segment is recorded   *)
(* as SUCCESS, and no record is lost before a call of the store has failed. *)
THEOREM ImplementsLedger ==
    ASSUME StopsOnFailure PROVE Spec => LedgerSpec
<1>1. Init => Ledger!Init
  BY DEF Init, Ledger!Init, Done
<1>2. IInv /\ IInv' /\ WInv /\ [Next]_vars => [Ledger!Next]_(Ledger!vars)
  BY LedgerStep
<1> QED
  BY <1>1, <1>2, Invariance, WorkingInvariance, PTL DEF Spec, LedgerSpec, Ledger!Spec
=============================================================================
