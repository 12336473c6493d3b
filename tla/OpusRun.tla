------------------------------ MODULE OpusRun ------------------------------
(***************************************************************************)
(* OpusRunner.run and OpusRunner._run_segment (opus/runner.py) over a      *)
(* DurableRunState: one run_id, executed by a sequence of invocations of   *)
(* run(), each of which may return, raise or die with its process and be   *)
(* resumed by the next one on the same store.                              *)
(*                                                                         *)
(* A step of this module is the code between two suspension points of the  *)
(* event loop.  Each invocation creates one asyncio task per segment it    *)
(* launches; a task that the runner abandons (gather raised) goes on       *)
(* running beside the next invocation, which is why the tasks are indexed  *)
(* by invocation.                                                          *)
(***************************************************************************)
EXTENDS Naturals, Sequences, FiniteSets

CONSTANTS
    Segments,        \* segment ids of the opus
    Deps,            \* Deps[s]: PipeSegment.depends_on
    Strategy,        \* Strategy[s]: PipeSegment.wait_strategy
    Waves,           \* what Opus.topological_waves returns (module OpusGraph)
    OnFailure,       \* Opus.on_failure
    MaxRetries,      \* MaxRetries[s]: max_retries of the segment's policy
    HasStore,        \* FALSE: run() without a DurableRunState
    MaxRuns,         \* bound: invocations of run() on this run_id
    MaxStoreFaults   \* bound: calls of the store that raise

Strategies   == {"ALL", "ANY", "MAJORITY", "NONE"}
FailureModes == {"FAIL_FAST", "RETRY_SEGMENT", "RETRY_BRANCH", "RETRY_OPUS",
                 "CONTINUE_INDEPENDENT_BRANCHES", "COMPENSATE_AND_STOP"}

(* What the segment waits for: a NONE segment waits for nothing.            *)
Needs == [s \in Segments |-> IF Strategy[s] = "NONE" THEN {} ELSE Deps[s]]

ASSUME ParameterAssumption ==
    /\ Deps \in [Segments -> SUBSET Segments]
    /\ Strategy \in [Segments -> Strategies]
    /\ OnFailure \in FailureModes
    /\ MaxRetries \in [Segments -> Nat]
    /\ HasStore \in BOOLEAN
    /\ MaxRuns \in Nat
    /\ MaxStoreFaults \in Nat

(* The promise of topological_waves on a graph that _validate_dag accepts.  *)
ASSUME WavesAssumption ==
    /\ Waves \in Seq(SUBSET Segments)
    /\ \A s \in Segments : \E i \in DOMAIN Waves : s \in Waves[i]
    /\ \A i, j \in DOMAIN Waves : i # j => Waves[i] \cap Waves[j] = {}
    /\ \A j \in DOMAIN Waves : \A s \in Waves[j] : \A d \in Needs[s] :
          \E i \in DOMAIN Waves : i < j /\ d \in Waves[i]

Runs == 1..MaxRuns

VARIABLES
    run,          \* number of the latest invocation of run(); 0 before the first
    ctl,          \* where that invocation stands
    wave,         \* its loop variable over Waves
    unread,       \* segments filter_pending_segments has still to look up
    pending,      \* pending_ids
    consumed,     \* tasks as_completed has handed to the runner in this wave
    phase,        \* phase[r][s]: the task of segment s in invocation r
    tries,        \* tries[r][s]: failed attempts of run_with_retry
    result,       \* result[r][s]: opus_result.segment_results[s]
    status,       \* status[s]: SegmentState.status in the store
    faults,       \* store calls that have raised so far
    completions   \* history: how often LocalRunner.run returned for s

vars == <<run, ctl, wave, unread, pending, consumed, phase, tries, result,
          status, faults, completions>>

runnerVars == <<run, ctl, wave, unread, pending, consumed>>
taskVars   == <<phase, tries, result, completions>>

LivePhases == {"created", "attempt", "persistOk", "persistFail"}
Phases     == LivePhases \cup {"none", "done", "error", "cancelled", "dead"}
Active     == {"filter", "wave", "await", "check", "finish", "abort"}
Ended      == {"returned", "raised", "crashed"}
Results    == {"absent", "failed", "ok"}
Statuses   == {"absent", "RUNNING", "SUCCESS", "FAILED"}

RunnerTypeOK ==
    /\ run \in 0..MaxRuns
    /\ ctl \in Active \cup Ended \cup {"idle"}
    /\ ctl # "idle" => run \in Runs
    /\ wave \in 1..Len(Waves) + 1
    /\ ctl \in {"await", "check"} => wave \in DOMAIN Waves
    /\ unread \subseteq Segments /\ pending \subseteq Segments
    /\ consumed \subseteq Segments

TaskTypeOK ==
    /\ phase \in [Runs -> [Segments -> Phases]]
    /\ tries \in [Runs -> [Segments -> Nat]]
    /\ \A r \in Runs, s \in Segments : tries[r][s] <= MaxRetries[s]
    /\ result \in [Runs -> [Segments -> Results]]
    /\ completions \in [Segments -> Nat]

StoreTypeOK == status \in [Segments -> Statuses] /\ faults \in 0..MaxStoreFaults

(* The type invariant; no segment is tried more often than its policy says. *)
TypeOK == RunnerTypeOK /\ TaskTypeOK /\ StoreTypeOK

Init ==
    /\ run = 0 /\ ctl = "idle" /\ wave = 1
    /\ unread = {} /\ pending = {} /\ consumed = {}
    /\ phase = [r \in Runs |-> [s \in Segments |-> "none"]]
    /\ tries = [r \in Runs |-> [s \in Segments |-> 0]]
    /\ result = [r \in Runs |-> [s \in Segments |-> "absent"]]
    /\ status = [s \in Segments |-> "absent"]
    /\ faults = 0
    /\ completions = [s \in Segments |-> 0]

-----------------------------------------------------------------------------
(* The store.                                                               *)

(* set_segment_state of status v takes effect.                              *)
Persist(s, v) == /\ status' = IF HasStore THEN [status EXCEPT ![s] = v]
                                          ELSE status
                 /\ UNCHANGED faults

(* A call of the store raises.                                              *)
StoreFault == /\ HasStore /\ faults < MaxStoreFaults
              /\ faults' = faults + 1

(* set_segment_state raises; the write may have reached the server (the     *)
(* connection dropped on the answer, or SADD failed after SET).             *)
PersistFault(s, v) == /\ StoreFault
                      /\ status' \in {status, [status EXCEPT ![s] = v]}

-----------------------------------------------------------------------------
(* OpusRunner.run.                                                          *)

(* run() is called, for the first time or to resume the run_id.             *)
StartRun ==
    /\ ctl \notin Active /\ run < MaxRuns
    /\ run' = run + 1
    /\ wave' = 1 /\ consumed' = {}
    /\ unread' = IF HasStore THEN Segments ELSE {}
    /\ pending' = Segments \ unread'
    /\ ctl' = IF unread' = {} THEN "wave" ELSE "filter"
    /\ UNCHANGED <<taskVars, status, faults>>

(* Mutant: the lookup takes a segment found RUNNING for done.               *)
ReadStateSkipsRunning(s) ==
    /\ ctl = "filter" /\ s \in unread
    /\ unread' = unread \ {s}
    /\ pending' = IF status[s] \in {"RUNNING", "SUCCESS"} THEN pending
                                                        ELSE pending \cup {s}
    /\ ctl' = IF unread' = {} THEN "wave" ELSE ctl
    /\ UNCHANGED <<run, wave, consumed, taskVars, status, faults>>

(* Mutant: a resumed run does not skip what has succeeded.                  *)
ReadStateKeepsAll(s) ==
    /\ ctl = "filter" /\ s \in unread
    /\ unread' = unread \ {s}
    /\ pending' = pending \cup {s}
    /\ ctl' = IF unread' = {} THEN "wave" ELSE ctl
    /\ UNCHANGED <<run, wave, consumed, taskVars, status, faults>>

(* filter_pending_segments looks one segment up: all but SUCCESS is pending.*)
ReadState(s) ==
    /\ ctl = "filter" /\ s \in unread
    /\ unread' = unread \ {s}
    /\ pending' = IF status[s] = "SUCCESS" THEN pending ELSE pending \cup {s}
    /\ ctl' = IF unread' = {} THEN "wave" ELSE ctl
    /\ UNCHANGED <<run, wave, consumed, taskVars, status, faults>>

(* The lookup raises, before run() has entered its try block.               *)
ReadFault ==
    /\ ctl = "filter" /\ unread # {}
    /\ StoreFault
    /\ ctl' = "raised"
    /\ UNCHANGED <<run, wave, unread, pending, consumed, taskVars, status>>

ToRun == Waves[wave] \cap pending

SkipWave ==
    /\ ctl = "wave" /\ wave <= Len(Waves) /\ ToRun = {}
    /\ wave' = wave + 1
    /\ UNCHANGED <<run, ctl, unread, pending, consumed, taskVars, status, faults>>

(* One task per segment to run.  All of them take their first step, which   *)
(* enters an unsuccessful result, before the runner is resumed.             *)
LaunchWave ==
    /\ ctl = "wave" /\ wave <= Len(Waves) /\ ToRun # {}
    /\ ctl' = "await" /\ consumed' = {}
    /\ phase' = [phase EXCEPT ![run] =
                    [s \in Segments |-> IF s \in ToRun THEN "created" ELSE @[s]]]
    /\ result' = [result EXCEPT ![run] =
                    [s \in Segments |-> IF s \in ToRun THEN "failed" ELSE @[s]]]
    /\ UNCHANGED <<run, wave, unread, pending, tries, completions, status, faults>>

LastWaveDone ==
    /\ ctl = "wave" /\ wave > Len(Waves)
    /\ ctl' = "finish"
    /\ UNCHANGED <<run, wave, unread, pending, consumed, taskVars, status, faults>>

(* ANY or MAJORITY among the segments of the wave selects as_completed with *)
(* a threshold; otherwise the whole wave is gathered.                       *)
EarlyExit == \E s \in ToRun : Strategy[s] \in {"ANY", "MAJORITY"}
Threshold == IF \E s \in ToRun : Strategy[s] = "ANY"
             THEN 1 ELSE (Cardinality(ToRun) \div 2) + 1

(* asyncio.gather: all tasks finished, none with an exception.              *)
GatherDone ==
    /\ ctl = "await" /\ ~EarlyExit
    /\ \A s \in ToRun : phase[run][s] = "done"
    /\ ctl' = "check"
    /\ UNCHANGED <<run, wave, unread, pending, consumed, taskVars, status, faults>>

(* The exception of a task reaches run() through gather or through          *)
(* `await coro`: run() is left and the other tasks are abandoned.           *)
TaskErrorRaised ==
    /\ ctl = "await"
    /\ \E s \in ToRun \ consumed : phase[run][s] = "error"
    /\ ctl' = "abort"
    /\ UNCHANGED <<run, wave, unread, pending, consumed, taskVars, status, faults>>

(* Mutant: at the threshold the tasks that are left are not cancelled.      *)
ConsumeCompletedOnly(s) ==
    /\ ctl = "await" /\ EarlyExit
    /\ s \in ToRun \ consumed /\ phase[run][s] = "done"
    /\ consumed' = consumed \cup {s}
    /\ ctl' = IF Cardinality(consumed') >= Threshold \/ consumed' = ToRun
              THEN "check" ELSE ctl
    /\ UNCHANGED <<run, wave, unread, pending, taskVars, status, faults>>

(* as_completed hands over a finished task; at the threshold the tasks that *)
(* are not done are cancelled and awaited.  The loop also ends when it has  *)
(* handed over all of them.                                                 *)
ConsumeCompleted(s) ==
    /\ ctl = "await" /\ EarlyExit
    /\ s \in ToRun \ consumed /\ phase[run][s] = "done"
    /\ consumed' = consumed \cup {s}
    /\ IF Cardinality(consumed') >= Threshold \/ consumed' = ToRun
       THEN /\ ctl' = "check"
            /\ phase' = [phase EXCEPT ![run] =
                  [t \in Segments |-> IF t \in ToRun /\ @[t] \in LivePhases
                                      THEN "cancelled" ELSE @[t]]]
       ELSE UNCHANGED <<ctl, phase>>
    /\ UNCHANGED <<run, wave, unread, pending, tries, result, completions,
                   status, faults>>

(* Mutant: FAIL_FAST is forgotten.                                          *)
StopsOnlyToCompensate == OnFailure \in {"COMPENSATE_AND_STOP"}

StopsOnFailure == OnFailure \in {"FAIL_FAST", "COMPENSATE_AND_STOP"}

(* Mutant: a failed segment ends the loop over the waves in every mode.     *)
CheckWaveBreaks ==
    /\ ctl = "check"
    /\ IF \E s \in ToRun : result[run][s] = "failed"
       THEN ctl' = "finish" /\ UNCHANGED wave
       ELSE ctl' = "wave" /\ wave' = wave + 1
    /\ UNCHANGED <<run, unread, pending, consumed, taskVars, status, faults>>

(* Mutant: a wave is repeated until none of its segments fails.             *)
CheckWaveRepeats ==
    /\ ctl = "check"
    /\ ctl' = "wave"
    /\ wave' = IF \E s \in ToRun : result[run][s] = "failed" THEN wave ELSE wave + 1
    /\ UNCHANGED <<run, unread, pending, consumed, taskVars, status, faults>>

(* The failure policy after a wave; the other modes just go on.             *)
CheckWave ==
    /\ ctl = "check"
    /\ IF StopsOnFailure /\ \E s \in ToRun : result[run][s] = "failed"
       THEN ctl' = "abort" /\ UNCHANGED wave
       ELSE ctl' = "wave" /\ wave' = wave + 1
    /\ UNCHANGED <<run, unread, pending, consumed, taskVars, status, faults>>

(* The finally block: update_heartbeat, then return or raise.               *)
FinishRun ==
    /\ ctl \in {"finish", "abort"}
    /\ ctl' = IF ctl = "finish" THEN "returned" ELSE "raised"
    /\ UNCHANGED <<run, wave, unread, pending, consumed, taskVars, status, faults>>

HeartbeatFault ==
    /\ ctl \in {"finish", "abort"}
    /\ StoreFault
    /\ ctl' = "raised"
    /\ UNCHANGED <<run, wave, unread, pending, consumed, taskVars, status>>

(* OpusRunResult.success as invocation r returns it.                        *)
ReportsSuccess(r) == \A s \in Segments : result[r][s] # "failed"

-----------------------------------------------------------------------------
(* OpusRunner._run_segment, the task of segment s in invocation r.          *)

SetPhase(r, s, p) == phase' = [phase EXCEPT ![r][s] = p]

PersistRunning(r, s) ==
    /\ phase[r][s] = "created"
    /\ \/ Persist(s, "RUNNING") /\ SetPhase(r, s, "attempt")
       \/ PersistFault(s, "RUNNING") /\ SetPhase(r, s, "error")
    /\ UNCHANGED <<runnerVars, tries, result, completions>>

(* Mutant: the task returns without recording its success.                  *)
AttemptSucceedsUnrecorded(r, s) ==
    /\ phase[r][s] = "attempt"
    /\ SetPhase(r, s, "done")
    /\ result' = [result EXCEPT ![r][s] = "ok"]
    /\ completions' = [completions EXCEPT ![s] = @ + 1]
    /\ UNCHANGED <<runnerVars, tries, status, faults>>

(* LocalRunner.run returns: the result is marked before it is persisted.    *)
AttemptSucceeds(r, s) ==
    /\ phase[r][s] = "attempt"
    /\ SetPhase(r, s, "persistOk")
    /\ result' = [result EXCEPT ![r][s] = "ok"]
    /\ completions' = [completions EXCEPT ![s] = @ + 1]
    /\ UNCHANGED <<runnerVars, tries, status, faults>>

(* Mutant: run_with_retry tries once more than max_retries + 1 times.       *)
AttemptFailsOneMore(r, s) ==
    /\ phase[r][s] = "attempt"
    /\ IF tries[r][s] <= MaxRetries[s]
       THEN tries' = [tries EXCEPT ![r][s] = @ + 1] /\ UNCHANGED phase
       ELSE SetPhase(r, s, "persistFail") /\ UNCHANGED tries
    /\ UNCHANGED <<runnerVars, result, completions, status, faults>>

(* Mutant: run_with_retry swallows the last exception.                      *)
AttemptFailsSwallowed(r, s) ==
    /\ phase[r][s] = "attempt"
    /\ IF tries[r][s] < MaxRetries[s]
       THEN tries' = [tries EXCEPT ![r][s] = @ + 1] /\ UNCHANGED phase
       ELSE SetPhase(r, s, "persistOk") /\ UNCHANGED tries
    /\ UNCHANGED <<runnerVars, result, completions, status, faults>>

(* LocalRunner.run raises: run_with_retry backs off, or gives up.           *)
AttemptFails(r, s) ==
    /\ phase[r][s] = "attempt"
    /\ IF tries[r][s] < MaxRetries[s]
       THEN tries' = [tries EXCEPT ![r][s] = @ + 1] /\ UNCHANGED phase
       ELSE SetPhase(r, s, "persistFail") /\ UNCHANGED tries
    /\ UNCHANGED <<runnerVars, result, completions, status, faults>>

(* A store exception here is taken for a failure of the segment.            *)
PersistSuccess(r, s) ==
    /\ phase[r][s] = "persistOk"
    /\ \/ Persist(s, "SUCCESS") /\ SetPhase(r, s, "done")
       \/ PersistFault(s, "SUCCESS") /\ SetPhase(r, s, "persistFail")
    /\ UNCHANGED <<runnerVars, tries, result, completions>>

PersistFailed(r, s) ==
    /\ phase[r][s] = "persistFail"
    /\ \/ Persist(s, "FAILED") /\ SetPhase(r, s, "done")
       \/ PersistFault(s, "FAILED") /\ SetPhase(r, s, "error")
    /\ UNCHANGED <<runnerVars, tries, result, completions>>

(* The process dies, or the event loop closes and cancels abandoned tasks.  *)
StopProcess ==
    /\ \/ ctl \in Active
       \/ \E r \in Runs, s \in Segments : phase[r][s] \in LivePhases
    /\ ctl' = IF ctl \in Active THEN "crashed" ELSE ctl
    /\ phase' = [r \in Runs |-> [s \in Segments |->
                    IF phase[r][s] \in LivePhases THEN "dead" ELSE phase[r][s]]]
    /\ UNCHANGED <<run, wave, unread, pending, consumed, tries, result,
                   completions, status, faults>>

-----------------------------------------------------------------------------
RunnerStep ==
    \/ \E s \in Segments : ReadState(s) \/ ConsumeCompleted(s)
    \/ SkipWave \/ LaunchWave \/ LastWaveDone
    \/ GatherDone \/ TaskErrorRaised \/ CheckWave \/ FinishRun

TaskStep(r, s) == \/ PersistRunning(r, s)
                  \/ AttemptSucceeds(r, s) \/ AttemptFails(r, s)
                  \/ PersistSuccess(r, s) \/ PersistFailed(r, s)

Next == \/ StartRun
        \/ RunnerStep
        \/ \E r \in Runs, s \in Segments : TaskStep(r, s)
        \/ ReadFault \/ HeartbeatFault
        \/ StopProcess

Spec == Init /\ [][Next]_vars

(* The event loop runs every task that is ready, and a pipe run ends.       *)
FairSpec == /\ Spec
            /\ WF_vars(RunnerStep)
            /\ \A r \in Runs, s \in Segments : WF_vars(TaskStep(r, s))

-----------------------------------------------------------------------------
(* Properties.                                                              *)

Done == {s \in Segments : completions[s] > 0}
Live(r, s) == phase[r][s] \in LivePhases

(* A segment whose task is alive waits for nothing any more: the pipes of   *)
(* all its dependencies have completed, in this invocation or in one that   *)
(* crashed before it (segment.py:23 "IDs of segments that must complete     *)
(* before this one can start").  For the modes that stop on failure.        *)
DependenciesFirst ==
    \A r \in Runs, s \in Segments :
        Live(r, s) => \A d \in Needs[s] : completions[d] > 0

(* A run that reports success has run every segment of the opus to its end, *)
(* however many invocations it took and whatever the store lost: no segment *)
(* is counted as successful because it was skipped, cancelled or dropped.   *)
SuccessIsComplete ==
    ctl = "returned" /\ ReportsSuccess(run) => Done = Segments

(* The store agrees with the report: after a successful run a resume of the *)
(* same run_id has nothing left to do.  A failing store call voids this,    *)
(* and so does the cancellation of a task between its successful result and *)
(* its record, which leaves RUNNING in the store.                           *)
NothingLeftToResume ==
    HasStore /\ faults = 0 /\ ctl = "returned" /\ ReportsSuccess(run) =>
        \A s \in Segments : status[s] = "SUCCESS" \/ phase[run][s] = "cancelled"

(* Tasks that are alive at the same time belong to one wave, and no two of  *)
(* them execute the same segment: neither the next wave nor a resumed run   *)
(* overtakes a task that early exit or a crash left behind.  A failing      *)
(* store call voids this: the tasks that the runner then abandons go on.    *)
TasksDoNotOverlap ==
    faults = 0 => \A q, r \in Runs : \A i, j \in DOMAIN Waves :
        \A s \in Waves[i], t \in Waves[j] :
            Live(q, s) /\ Live(r, t) => i = j /\ (s = t => q = r)

(* A segment recorded as SUCCESS is never started again under this run_id   *)
(* (README.md:826 "already-SUCCESS segments are skipped"), although the     *)
(* lookup and the start are separated by whole waves.  While the store works.*)
SuccessNotRestarted ==
    [][faults = 0 => \A r \in Runs, s \in Segments :
          phase[r][s] = "none" /\ phase'[r][s] = "created"
              => status[s] # "SUCCESS"]_vars

(* No segment before s, direct or indirect dependency, failed in this run:  *)
(* s lies in a set closed under dependencies in which at most s has failed. *)
OnHealthyBranch(s) ==
    \E B \in SUBSET Segments :
        /\ s \in B
        /\ \A t \in B : Needs[t] \subseteq B
        /\ \A t \in B \ {s} : result[run][t] # "failed"

(* README.md:816 "continue unrelated branches": when a run returns, it has  *)
(* given a task to every segment that had not completed before and comes    *)
(* after no failed one, whatever failed or was cancelled beside it.  What   *)
(* becomes of the failed branch itself is FailedBranchSkipped.              *)
UnrelatedBranchesContinue ==
    ctl = "returned" => \A s \in Segments :
        OnHealthyBranch(s) => phase[run][s] # "none" \/ s \in Done

(* What is implemented: the ledger of a durable opus.                       *)
Ledger == INSTANCE SegmentLedger WITH
             lossy     <- faults > 0,
             completed <- Done,
             recorded  <- {s \in Segments : status[s] = "SUCCESS"}
LedgerSpec == Ledger!Spec

(* Every invocation of run() comes to an end, whichever pipes fail and how  *)
(* often: failed and cancelled segments keep no wave open, the retries of a *)
(* segment are bounded, and a cancelled task is not waited for.             *)
RunEnds == ctl \in Active ~> ctl \in Ended

(* README.md:816, CONTINUE_INDEPENDENT_BRANCHES "Skip the failed branch":   *)
(* no task runs a segment one of whose dependencies failed in the same run. *)
FailedBranchSkipped ==
    OnFailure = "CONTINUE_INDEPENDENT_BRANCHES" =>
        \A r \in Runs, s \in Segments :
            Live(r, s) => \A d \in Needs[s] : result[r][d] # "failed"
=============================================================================
