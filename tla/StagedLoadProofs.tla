-------------------------- MODULE StagedLoadProofs --------------------------
(***************************************************************************)
(* FULL loads are all or nothing, and PARTIAL loads replace their scope by  *)
(* what they read: for every table, every number of PARTIAL loads beside    *)
(* the FULL one, every batch size, and any number of changes, failures and  *)
(* crashes.                                                                 *)
(***************************************************************************)
EXTENDS StagedLoad, TLAPS

Full == {j \in Jobs : Mode[j] = "FULL"}

(* The types of the variables, and what a FULL load in progress relies on.  *)
Types ==
    /\ src \in Table /\ live \in Table /\ staging \in Table
    /\ staged \in BOOLEAN /\ redirect \in [Sinks -> BOOLEAN]
    /\ pc \in [Jobs -> {"idle", "open", "copy"}]
    /\ snap \in [Jobs -> Table]
    /\ todo \in [Jobs -> SUBSET Keys] /\ missing \in [Jobs -> SUBSET Keys]
    /\ overtaken \in [Jobs -> BOOLEAN]
    /\ changes \in 0..MaxChanges /\ failures \in 0..MaxFailures

Directed == \A j \in Full : pc[j] # "idle" => redirect[SinkOf[j]] /\ staged

LEMMA TypeParts == TypeOK <=> Types /\ Directed
  BY DEF TypeOK, Types, Directed, Full

LEMMA OneFull == ASSUME NEW i \in Full, NEW j \in Full PROVE i = j
  BY LoadAssumption DEF Full

LEMMA EmptyTable == Empty \in Table
  BY LoadAssumption DEF Empty, Table, Versions

(* A write keeps the types, and goes to one of the two tables.              *)
LEMMA UpsertTypes ==
    ASSUME Types, NEW j \in Jobs, NEW B \in SUBSET todo[j], Upsert(j, B)
    PROVE  live' \in Table /\ staging' \in Table
<1> DEFINE Merge(t) == [k \in Keys |-> IF k \in B THEN snap[j][k] ELSE t[k]]
<1>1. \A t \in Table : Merge(t) \in Table
  BY DEF Types, Table
<1>2. \/ staging' = Merge(staging) /\ live' = live
      \/ live' = Merge(live) /\ staging' = staging
  BY DEF Upsert
<1> QED BY <1>1, <1>2 DEF Types

(* Every step keeps the types.                                              *)
LEMMA TypesStep == ASSUME Types, [Next]_vars PROVE Types'
<1> USE LoadAssumption
<1>1. ASSUME NEW k \in Keys, Change(k) PROVE Types'
  BY <1>1 DEF Types, Change, dbVars, jobVars, Table
<1>2. ASSUME NEW j \in Jobs, Prepare(j) PROVE Types'
  BY <1>2, EmptyTable DEF Types, Prepare, Start, Sinks
<1>3. ASSUME NEW j \in Jobs, DeleteScope(j) PROVE Types'
  <2>1. live' \in Table
    BY <1>3 DEF DeleteScope, Types, Table, Versions
  <2> QED BY <1>3, <2>1 DEF Types, DeleteScope, Start
<1>4. ASSUME NEW j \in Jobs, OpenCursor(j) PROVE Types'
  <2>1. [k \in Keys |-> IF k \in Query[j] THEN src[k] ELSE 0] \in Table
    BY DEF Types, Table, Versions
  <2>2. {k \in Query[j] : src[k] # 0} \subseteq Keys
    OBVIOUS
  <2> QED BY <1>4, <2>1, <2>2 DEF Types, OpenCursor, dbVars
<1>5. ASSUME NEW j \in Jobs, WriteBatch(j) PROVE Types'
  <2>1. PICK B \in Batches(j) : Upsert(j, B) /\ todo' = [todo EXCEPT ![j] = @ \ B]
    BY <1>5 DEF WriteBatch
  <2>2. B \in SUBSET todo[j]
    BY DEF Batches
  <2> QED BY <1>5, <2>1, <2>2, UpsertTypes DEF Types, WriteBatch
<1>6. ASSUME NEW j \in Jobs, DeadLetter(j) PROVE Types'
  <2>1. PICK B \in SUBSET todo[j] :
           /\ UNCHANGED <<live, staging>> \/ \E K \in SUBSET B : Upsert(j, K)
           /\ todo' = [todo EXCEPT ![j] = @ \ B]
           /\ missing' = [missing EXCEPT ![j] = @ \cup B]
    BY <1>6 DEF DeadLetter, Batches
  <2>2. live' \in Table /\ staging' \in Table
    <3>1. CASE UNCHANGED <<live, staging>>
      BY <3>1 DEF Types
    <3>2. ASSUME NEW K \in SUBSET B, Upsert(j, K)
          PROVE  live' \in Table /\ staging' \in Table
      <4>1. K \in SUBSET todo[j]
        OBVIOUS
      <4> QED BY <3>2, <4>1, UpsertTypes
    <3> QED BY <2>1, <3>1, <3>2
  <2>3. failures' \in 0..MaxFailures
    BY <1>6 DEF DeadLetter, Types
  <2>4. UNCHANGED <<src, staged, redirect, pc, snap, overtaken, changes>>
    BY <1>6 DEF DeadLetter
  <2> QED BY <2>1, <2>2, <2>3, <2>4 DEF Types
<1>7. ASSUME Swap PROVE /\ live' \in Table /\ staging' \in Table
                        /\ staged' \in BOOLEAN /\ overtaken' \in [Jobs -> BOOLEAN]
  BY <1>7, EmptyTable DEF Swap, Types
<1>8. ASSUME NEW j \in Jobs, CommitFullLoad(j) PROVE Types'
  BY <1>7, <1>8, EmptyTable DEF Types, CommitFullLoad, End, Sinks
<1>9. ASSUME NEW j \in Jobs, FinishPartial(j) PROVE Types'
  BY <1>9, EmptyTable DEF Types, FinishPartial, End, dbVars
<1>10. ASSUME NEW j \in Jobs, Fail(j) PROVE Types'
  <2>1. /\ live' \in Table /\ staging' \in Table
        /\ staged' \in BOOLEAN /\ overtaken' \in [Jobs -> BOOLEAN]
    BY <1>7, <1>10 DEF Fail, dbVars, Types
  <2>2. failures' \in 0..MaxFailures
    BY <1>10 DEF Fail, Types
  <2>3. End(j) /\ UNCHANGED <<src, redirect, missing, changes>>
    BY <1>10 DEF Fail
  <2> QED BY <2>1, <2>2, <2>3, EmptyTable DEF Types, End
<1>11. CASE Crash
  BY <1>11, EmptyTable DEF Types, Crash, dbVars
<1>12. CASE UNCHANGED vars
  BY <1>12 DEF Types, vars
<1> QED BY <1>1, <1>2, <1>3, <1>4, <1>5, <1>6, <1>8, <1>9, <1>10, <1>11, <1>12
           DEF Next, JobStep

(* Only the FULL job ends its own redirection, when it ends itself.         *)
LEMMA DirectedStep == ASSUME Types, Directed, [Next]_vars PROVE Directed'
<1> USE LoadAssumption DEF Directed, Types
<1>1. ASSUME NEW k \in Keys, Change(k) PROVE Directed'
  BY <1>1 DEF Change, dbVars, jobVars
<1>2. ASSUME NEW j \in Jobs, Prepare(j) PROVE Directed'
  BY <1>2, OneFull DEF Prepare, Start, Full, Sinks
<1>3. ASSUME NEW j \in Jobs, DeleteScope(j) PROVE Directed'
  BY <1>3 DEF DeleteScope, Start, Full
<1>4. ASSUME NEW j \in Jobs, OpenCursor(j) PROVE Directed'
  BY <1>4 DEF OpenCursor, dbVars, Full
<1>5. ASSUME NEW j \in Jobs, WriteBatch(j) \/ DeadLetter(j) PROVE Directed'
  BY <1>5 DEF WriteBatch, DeadLetter, dbVars
<1>6. ASSUME NEW j \in Jobs, CommitFullLoad(j) PROVE Directed'
  BY <1>6, OneFull DEF CommitFullLoad, End, Full
<1>7. ASSUME NEW j \in Jobs, FinishPartial(j) PROVE Directed'
  BY <1>7 DEF FinishPartial, End, dbVars, Full
<1>8. ASSUME NEW j \in Jobs, Fail(j) PROVE Directed'
  <2>1. CASE UNCHANGED staged
    BY <1>8, <2>1 DEF Fail, End, Full
  <2>2. CASE j \in Full
    BY <1>8, <2>2, OneFull DEF Fail, End
  <2> QED BY <1>8, <2>1, <2>2 DEF Fail, dbVars, Full
<1>9. CASE Crash
  BY <1>9 DEF Crash, Full
<1>10. CASE UNCHANGED vars
  BY <1>10 DEF vars
<1> QED BY <1>1, <1>2, <1>3, <1>4, <1>5, <1>6, <1>7, <1>8, <1>9, <1>10 DEF Next, JobStep

LEMMA TypesInit == Init => Types /\ Directed
<1> SUFFICES ASSUME Init PROVE Types /\ Directed
  OBVIOUS
<1> USE LoadAssumption
<1>1. src \in Table /\ live \in Table /\ staging \in Table
  BY EmptyTable DEF Init, Table, Versions
<1>2. snap \in [Jobs -> Table] /\ todo \in [Jobs -> SUBSET Keys]
      /\ missing \in [Jobs -> SUBSET Keys]
  BY EmptyTable DEF Init
<1>3. /\ pc \in [Jobs -> {"idle", "open", "copy"}]
      /\ overtaken \in [Jobs -> BOOLEAN] /\ redirect \in [Sinks -> BOOLEAN]
      /\ staged \in BOOLEAN
  BY DEF Init
<1>4. changes \in 0..MaxChanges /\ failures \in 0..MaxFailures
  BY DEF Init
<1>5. Directed
  BY DEF Init, Directed, Full
<1> QED BY <1>1, <1>2, <1>3, <1>4, <1>5 DEF Types

(* TypeOK holds of every state, whatever jobs share a sink.                 *)
THEOREM TypeCorrect == Spec => []TypeOK
<1>1. Types /\ Directed /\ [Next]_vars => (Types /\ Directed)'
  BY TypesStep, DirectedStep
<1>2. Types /\ Directed => TypeOK
  BY TypeParts
<1> QED BY <1>1, <1>2, TypesInit, PTL DEF Spec

-----------------------------------------------------------------------------
(* FullIsAtomic.  A PARTIAL load that shares the sink object of the FULL    *)
(* load would write into its staging table: either they share none, or the *)
(* jobs run one at a time.                                                  *)
Separate ==
    \/ Exclusive
    \/ \A i, j \in Jobs : Mode[i] = "FULL" /\ Mode[j] = "PARTIAL" => SinkOf[i] # SinkOf[j]

Alone == Exclusive => \A i, j \in Jobs : pc[i] # "idle" /\ pc[j] # "idle" => i = j

OnlyFullRedirects ==
    \A s \in Sinks : redirect[s] => \E j \in Full : SinkOf[j] = s

(* But for what was dead-lettered, the staging table holds what the cursor  *)
(* of j saw, less what is still to be written.                              *)
Copied(j) == \A k \in Keys \ missing[j] :
                staging[k] = IF k \in todo[j] THEN 0 ELSE snap[j][k]

StagingIsCopy ==
    \A j \in Full : /\ pc[j] = "open" => staging = Empty
                    /\ pc[j] = "copy" => Copied(j)

LInv == Types /\ Directed /\ Alone /\ OnlyFullRedirects /\ StagingIsCopy

LEMMA AloneStep == ASSUME Types, Alone, [Next]_vars PROVE Alone'
<1> USE LoadAssumption DEF Alone, Types
<1>1. ASSUME NEW k \in Keys, Change(k) PROVE Alone'
  BY <1>1 DEF Change, jobVars
<1>2. ASSUME NEW j \in Jobs, Prepare(j) \/ DeleteScope(j) PROVE Alone'
  BY <1>2 DEF Prepare, DeleteScope, MayStart, Start
<1>3. ASSUME NEW j \in Jobs, OpenCursor(j) PROVE Alone'
  BY <1>3 DEF OpenCursor
<1>4. ASSUME NEW j \in Jobs, WriteBatch(j) \/ DeadLetter(j) PROVE Alone'
  BY <1>4 DEF WriteBatch, DeadLetter
<1>5. ASSUME NEW j \in Jobs, pc' = [pc EXCEPT ![j] = "idle"] PROVE Alone'
  BY <1>5
<1>6. ASSUME NEW j \in Jobs, CommitFullLoad(j) \/ FinishPartial(j) \/ Fail(j)
      PROVE  Alone'
  BY <1>5, <1>6 DEF CommitFullLoad, FinishPartial, Fail, End
<1>7. CASE Crash
  BY <1>7 DEF Crash
<1>8. CASE UNCHANGED vars
  BY <1>8 DEF vars
<1> QED BY <1>1, <1>2, <1>3, <1>4, <1>6, <1>7, <1>8 DEF Next, JobStep

LEMMA RedirectsStep ==
    ASSUME Types, OnlyFullRedirects, [Next]_vars PROVE OnlyFullRedirects'
<1> USE LoadAssumption DEF OnlyFullRedirects, Types
<1>1. ASSUME UNCHANGED redirect PROVE OnlyFullRedirects'
  BY <1>1
<1>2. ASSUME NEW j \in Jobs, Prepare(j) PROVE OnlyFullRedirects'
  BY <1>2 DEF Prepare, Full
<1>3. ASSUME NEW j \in Jobs, CommitFullLoad(j) PROVE OnlyFullRedirects'
  BY <1>3 DEF CommitFullLoad
<1>4. CASE Crash
  BY <1>4 DEF Crash
<1>5. ASSUME NEW k \in Keys, Change(k) PROVE UNCHANGED redirect
  BY <1>5 DEF Change
<1>6. ASSUME NEW j \in Jobs, DeleteScope(j) \/ OpenCursor(j) \/ WriteBatch(j)
                             \/ DeadLetter(j) \/ FinishPartial(j) \/ Fail(j)
      PROVE  UNCHANGED redirect
  BY <1>6 DEF DeleteScope, OpenCursor, WriteBatch, DeadLetter, FinishPartial, Fail
<1> QED BY <1>1, <1>2, <1>3, <1>4, <1>5, <1>6 DEF Next, JobStep, vars

(* While the FULL load is under way, no other job writes into the staging.  *)
LEMMA NoIntruder ==
    ASSUME Separate, LInv, NEW j \in Full, pc[j] # "idle",
           NEW i \in Jobs, i # j, pc[i] # "idle"
    PROVE  i \notin Full /\ ~Redirected(i)
<1>1. i \notin Full
  BY OneFull
<1>2. ~Exclusive
  BY DEF LInv, Alone, Full
<1>3. SinkOf[j] # SinkOf[i]
  BY <1>1, <1>2, LoadAssumption DEF Separate, Full
<1>4. ~Redirected(i)
  BY <1>3, OneFull DEF LInv, OnlyFullRedirects, Redirected, Sinks
<1> QED BY <1>1, <1>4

LEMMA CopyStep == ASSUME Separate, LInv, [Next]_vars PROVE StagingIsCopy'
<1> USE LoadAssumption DEF LInv, Types
<1> SUFFICES ASSUME NEW j \in Full
             PROVE  /\ pc'[j] = "open" => staging' = Empty
                    /\ pc'[j] = "copy" => Copied(j)'
  BY DEF StagingIsCopy
<1> DEFINE Goal == /\ pc'[j] = "open" => staging' = Empty
                   /\ pc'[j] = "copy" => Copied(j)'
<1> j \in Jobs /\ Mode[j] = "FULL"
  BY DEF Full
<1>1. ASSUME pc'[j] = pc[j], snap'[j] = snap[j], todo'[j] = todo[j],
             missing'[j] = missing[j], pc[j] # "idle" => staging' = staging
      PROVE  Goal
  BY <1>1 DEF StagingIsCopy, Copied
<1>2. ASSUME pc'[j] = "idle" PROVE Goal
  BY <1>2
<1>3. ASSUME NEW k \in Keys, Change(k) PROVE Goal
  BY <1>1, <1>3 DEF Change, dbVars, jobVars
<1>4. ASSUME NEW i \in Jobs, Prepare(i) PROVE Goal
  <2>1. i = j
    BY <1>4, OneFull DEF Prepare, Full
  <2> QED BY <1>4, <2>1 DEF Prepare, Start
<1>5. ASSUME NEW i \in Jobs, DeleteScope(i) PROVE Goal
  BY <1>1, <1>5 DEF DeleteScope, Start
<1>6. ASSUME NEW i \in Jobs, OpenCursor(i) PROVE Goal
  <2>1. CASE i # j
    BY <1>1, <1>6, <2>1 DEF OpenCursor, dbVars
  <2>2. CASE i = j
    <3>1. Query[j] = Keys
      OBVIOUS
    <3>2. snap'[j] = src /\ todo'[j] = {k \in Keys : src[k] # 0}
      BY <1>6, <2>2, <3>1 DEF OpenCursor, Table
    <3>3. staging' = Empty /\ pc'[j] = "copy"
      BY <1>6, <2>2 DEF OpenCursor, StagingIsCopy, dbVars
    <3> QED BY <3>2, <3>3 DEF Copied, Empty
  <2> QED BY <2>1, <2>2
<1>7. ASSUME NEW i \in Jobs, WriteBatch(i) PROVE Goal
  <2>0. pc[i] = "copy"
    BY <1>7 DEF WriteBatch
  <2>1. PICK B \in SUBSET todo[i] : Upsert(i, B) /\ todo' = [todo EXCEPT ![i] = @ \ B]
    BY <1>7 DEF WriteBatch, Batches
  <2>2. CASE i # j
    <3>1. pc[j] # "idle" => staging' = staging
      BY <2>0, <2>1, <2>2, NoIntruder DEF Upsert
    <3> QED BY <1>1, <1>7, <2>1, <2>2, <3>1 DEF WriteBatch
  <2>3. CASE i = j
    <3>1. staging' = [k \in Keys |-> IF k \in B THEN snap[j][k] ELSE staging[k]]
      BY <2>0, <2>1, <2>3 DEF Upsert, Redirected, Directed
    <3>2. Copied(j)
      BY <2>0, <2>3 DEF StagingIsCopy
    <3>3. todo'[j] = todo[j] \ B /\ missing' = missing /\ snap' = snap /\ pc' = pc
      BY <1>7, <2>1, <2>3 DEF WriteBatch
    <3> QED BY <2>0, <2>1, <2>3, <3>1, <3>2, <3>3 DEF Copied
  <2> QED BY <2>2, <2>3
<1>8. ASSUME NEW i \in Jobs, DeadLetter(i) PROVE Goal
  <2>1. PICK B \in SUBSET todo[i] :
           /\ UNCHANGED <<live, staging>> \/ \E K \in SUBSET B : Upsert(i, K)
           /\ todo' = [todo EXCEPT ![i] = @ \ B]
           /\ missing' = [missing EXCEPT ![i] = @ \cup B]
    BY <1>8 DEF DeadLetter, Batches
  <2>2. pc[i] = "copy" /\ UNCHANGED <<pc, snap>>
    BY <1>8 DEF DeadLetter
  <2>3. CASE i # j
    <3>1. pc[j] # "idle" => staging' = staging
      BY <2>1, <2>2, <2>3, NoIntruder DEF Upsert
    <3> QED BY <1>1, <2>1, <2>2, <2>3, <3>1
  <2>4. CASE i = j
    <3>1. \A k \in Keys \ B : staging'[k] = staging[k]
      <4>1. ASSUME NEW K \in SUBSET B, Upsert(i, K)
            PROVE  \A k \in Keys \ B : staging'[k] = staging[k]
        BY <4>1 DEF Upsert
      <4> QED BY <2>1, <4>1
    <3>2. todo'[j] = todo[j] \ B /\ missing'[j] = missing[j] \cup B
      BY <2>1, <2>4
    <3>3. Copied(j)
      BY <2>2, <2>4 DEF StagingIsCopy
    <3> QED BY <2>2, <2>4, <3>1, <3>2, <3>3 DEF Copied
  <2> QED BY <2>3, <2>4
<1>9. ASSUME NEW i \in Jobs, CommitFullLoad(i) PROVE Goal
  <2>1. i = j
    BY <1>9, OneFull DEF CommitFullLoad, Full
  <2> QED BY <1>2, <1>9, <2>1 DEF CommitFullLoad, End
<1>10. ASSUME NEW i \in Jobs, FinishPartial(i) PROVE Goal
  BY <1>1, <1>10 DEF FinishPartial, End, dbVars
<1>11. ASSUME NEW i \in Jobs, Fail(i) PROVE Goal
  <2>1. CASE i = j
    BY <1>2, <1>11, <2>1 DEF Fail, End
  <2>2. CASE i # j
    <3>1. staging' = staging
      BY <1>11, <2>2, OneFull DEF Fail, dbVars, Full
    <3> QED BY <1>1, <1>11, <2>2, <3>1 DEF Fail, End
  <2> QED BY <2>1, <2>2
<1>12. CASE Crash
  BY <1>2, <1>12 DEF Crash
<1>13. CASE UNCHANGED vars
  BY <1>1, <1>13 DEF vars
<1> QED BY <1>3, <1>4, <1>5, <1>6, <1>7, <1>8, <1>9, <1>10, <1>11, <1>12, <1>13
           DEF Next, JobStep

(* The swap of a load that has written everything.                          *)
LEMMA SwapIsCopy ==
    ASSUME LInv, NEW j \in Full, pc[j] = "copy", todo[j] = {}, missing[j] = {}, Swap
    PROVE  live' = snap[j]
<1>1. \A k \in Keys : staging[k] = snap[j][k]
  BY DEF LInv, StagingIsCopy, Copied
<1>2. staging \in Table /\ snap[j] \in Table
  BY DEF LInv, Types, Full
<1>3. staging = snap[j]
  BY <1>1, <1>2 DEF Table
<1> QED BY <1>3 DEF Swap

LEMMA AtomicStep ==
    ASSUME LInv, [Next]_vars, NEW j \in Jobs, Mode[j] = "FULL", Moves(j), live' # live,
           missing[j] = {}
    PROVE  live' = snap[j]
<1> USE LoadAssumption DEF LInv, Types, Moves
<1> j \in Full
  BY DEF Full
<1>1. ASSUME NEW k \in Keys, Change(k) PROVE FALSE
  BY <1>1 DEF Change, dbVars
<1>2. ASSUME NEW i \in Jobs, Prepare(i) PROVE FALSE
  BY <1>2 DEF Prepare
<1>3. ASSUME NEW i \in Jobs, DeleteScope(i) PROVE FALSE
  BY <1>3 DEF DeleteScope, Start
<1>4. ASSUME NEW i \in Jobs, OpenCursor(i) \/ FinishPartial(i)
      PROVE  FALSE
  BY <1>4 DEF OpenCursor, FinishPartial, dbVars
<1>5. ASSUME NEW i \in Jobs, WriteBatch(i) PROVE FALSE
  <2>1. i = j
    BY <1>5 DEF WriteBatch
  <2>2. Redirected(i)
    BY <1>5, <2>1 DEF WriteBatch, Directed, Redirected
  <2> QED BY <1>5, <2>2 DEF WriteBatch, Upsert
<1>10. ASSUME NEW i \in Jobs, DeadLetter(i) PROVE FALSE
  <2>1. i = j
    BY <1>10 DEF DeadLetter
  <2>2. Redirected(i)
    BY <1>10, <2>1 DEF DeadLetter, Directed, Redirected
  <2> QED BY <1>10, <2>2 DEF DeadLetter, Upsert
<1>6. ASSUME NEW i \in Jobs, CommitFullLoad(i) PROVE live' = snap[j]
  <2>1. i = j
    BY <1>6, OneFull DEF CommitFullLoad, Full
  <2> QED BY <1>6, <2>1, SwapIsCopy DEF CommitFullLoad
<1>7. ASSUME NEW i \in Jobs, Fail(i) PROVE live' = snap[j]
  <2>1. Mode[i] = "FULL" /\ pc[i] = "copy" /\ todo[i] = {} /\ Swap
    BY <1>7 DEF Fail, dbVars
  <2>2. i = j
    BY <2>1, OneFull DEF Full
  <2> QED BY <2>1, <2>2, SwapIsCopy
<1>8. CASE Crash
  BY <1>8 DEF Crash, dbVars
<1>9. CASE UNCHANGED vars
  BY <1>9 DEF vars
<1> QED BY <1>1, <1>2, <1>3, <1>4, <1>5, <1>6, <1>7, <1>8, <1>9, <1>10
           DEF Next, JobStep

LEMMA LInvInit == Init => LInv
  BY TypesInit DEF Init, LInv, Alone, OnlyFullRedirects, StagingIsCopy, Full

(* A FULL load none of whose batches was dead-lettered changes the table in *)
(* one step, into exactly what its cursor saw: for any tables, jobs,        *)
(* batches and failures, when no PARTIAL load shares its sink object or the *)
(* jobs run one at a time.                                                  *)
THEOREM FullLoadsAreAtomic == ASSUME Separate PROVE Spec => FullIsAtomic
<1>1. LInv /\ [Next]_vars => LInv'
  BY TypesStep, DirectedStep, AloneStep, RedirectsStep, CopyStep
     DEF LInv
<1>2. LInv /\ [Next]_vars =>
        [\A j \in Jobs : /\ Mode[j] = "FULL" /\ Moves(j) /\ live' # live
                         /\ missing[j] = {}
            => live' = snap[j]]_vars
  BY AtomicStep
<1> QED BY <1>1, <1>2, LInvInit, PTL DEF Spec, FullIsAtomic

-----------------------------------------------------------------------------
(* PartialIsExact.  Even when the jobs run one at a time, a sink object     *)
(* that a failed FULL load left redirected would misdirect a PARTIAL load;  *)
(* and two PARTIAL loads of the scope side by side mix what they saw.       *)
Partial == {j \in Jobs : Mode[j] = "PARTIAL"}

OwnSinks == \A i \in Full, j \in Partial : SinkOf[i] # SinkOf[j]

OnePartial == Exclusive \/ \A i, j \in Partial : i = j

(* Under way, the scope holds what the load has written and nothing else.   *)
ScopeIsCopy ==
    \A j \in Partial : ~overtaken[j] =>
        /\ pc[j] = "open" => \A k \in Scope : live[k] = 0
        /\ pc[j] = "copy" => \A k \in Scope \ missing[j] :
              live[k] = IF k \in todo[j] THEN 0 ELSE snap[j][k]

PInv == Types /\ Directed /\ Alone /\ OnlyFullRedirects /\ ScopeIsCopy

(* While the PARTIAL load is under way, no other one is.                    *)
LEMMA NoRival ==
    ASSUME OnePartial, Alone, NEW j \in Partial, pc[j] # "idle",
           NEW i \in Partial, pc[i] # "idle"
    PROVE  i = j
BY DEF OnePartial, Alone, Partial

LEMMA ScopeStep ==
    ASSUME OwnSinks, OnePartial, PInv, [Next]_vars PROVE ScopeIsCopy'
<1> USE LoadAssumption DEF PInv, Types
<1> SUFFICES ASSUME NEW j \in Partial, ~overtaken'[j]
             PROVE  /\ pc'[j] = "open" => \A k \in Scope : live'[k] = 0
                    /\ pc'[j] = "copy" => \A k \in Scope \ missing'[j] :
                          live'[k] = IF k \in todo'[j] THEN 0 ELSE snap'[j][k]
  BY DEF ScopeIsCopy
<1> DEFINE Goal == /\ pc'[j] = "open" => \A k \in Scope : live'[k] = 0
                   /\ pc'[j] = "copy" => \A k \in Scope \ missing'[j] :
                         live'[k] = IF k \in todo'[j] THEN 0 ELSE snap'[j][k]
<1> j \in Jobs /\ Mode[j] = "PARTIAL" /\ j \notin Full
  BY DEF Partial, Full
<1>1. ASSUME pc'[j] = pc[j], snap'[j] = snap[j], todo'[j] = todo[j],
             missing'[j] = missing[j], overtaken'[j] = overtaken[j],
             pc[j] # "idle" => live' = live
      PROVE  Goal
  BY <1>1 DEF ScopeIsCopy
<1>2. ASSUME pc'[j] = "idle" PROVE Goal
  BY <1>2
<1>3. ASSUME NEW k \in Keys, Change(k) PROVE Goal
  BY <1>1, <1>3 DEF Change, dbVars, jobVars
<1>4. ASSUME NEW i \in Jobs, Prepare(i) PROVE Goal
  <2>1. i # j
    BY <1>4 DEF Prepare
  <2> QED BY <1>1, <1>4, <2>1 DEF Prepare, Start
<1>5. ASSUME NEW i \in Jobs, DeleteScope(i) PROVE Goal
  <2>1. CASE i = j
    <3>1. pc'[j] = "open" /\ \A k \in Scope : live'[k] = 0
      BY <1>5, <2>1 DEF DeleteScope, Start
    <3> QED BY <3>1
  <2>2. CASE i # j
    <3>1. i \in Partial
      BY <1>5 DEF DeleteScope, Partial
    <3>2. pc[j] = "idle"
      BY <1>5, <2>2, <3>1 DEF DeleteScope, MayStart, OnePartial
    <3> QED BY <1>1, <1>5, <2>2, <3>2 DEF DeleteScope, Start
  <2> QED BY <2>1, <2>2
<1>6. ASSUME NEW i \in Jobs, OpenCursor(i) PROVE Goal
  <2>1. CASE i # j
    BY <1>1, <1>6, <2>1 DEF OpenCursor, dbVars
  <2>2. CASE i = j
    <3>1. Scope \subseteq Query[j]
      OBVIOUS
    <3>2. \A k \in Scope : snap'[j][k] = src[k] /\ (k \in todo'[j] <=> src[k] # 0)
      BY <1>6, <2>2, <3>1 DEF OpenCursor
    <3>3. \A k \in Scope : live'[k] = 0
      BY <1>6, <2>2 DEF OpenCursor, ScopeIsCopy, dbVars
    <3>4. pc'[j] = "copy"
      BY <1>6, <2>2 DEF OpenCursor
    <3> QED BY <3>2, <3>3, <3>4
  <2> QED BY <2>1, <2>2
<1>7. ASSUME NEW i \in Jobs, WriteBatch(i) PROVE Goal
  <2>1. PICK B \in SUBSET todo[i] : Upsert(i, B) /\ todo' = [todo EXCEPT ![i] = @ \ B]
    BY <1>7 DEF WriteBatch, Batches
  <2>2. /\ pc[i] = "copy"
        /\ UNCHANGED <<pc, snap, missing, overtaken>>
    BY <1>7 DEF WriteBatch
  <2>3. CASE i = j
    <3>1. ~Redirected(j)
      BY DEF OwnSinks, OnlyFullRedirects, Redirected, Sinks
    <3>2. live' = [k \in Keys |-> IF k \in B THEN snap[j][k] ELSE live[k]]
      BY <2>1, <2>3, <3>1 DEF Upsert
    <3>3. \A k \in Scope \ missing[j] :
             live[k] = IF k \in todo[j] THEN 0 ELSE snap[j][k]
      BY <2>2, <2>3 DEF ScopeIsCopy
    <3>4. todo'[j] = todo[j] \ B /\ B \subseteq todo[j]
      BY <2>1, <2>3
    <3>5. \A k \in Scope \ missing[j] :
             live'[k] = IF k \in todo'[j] THEN 0 ELSE snap[j][k]
      BY <3>2, <3>3, <3>4
    <3> QED BY <2>2, <2>3, <3>5
  <2>4. CASE i # j
    <3>1. ASSUME pc[j] # "idle" PROVE live' = live
      <4>1. i \in Full
        BY <2>2, <2>4, <3>1, NoRival DEF Partial, Full
      <4>2. Redirected(i)
        BY <2>2, <4>1 DEF Directed, Redirected
      <4> QED BY <2>1, <4>2 DEF Upsert
    <3> QED BY <1>1, <2>1, <2>2, <2>4, <3>1
  <2> QED BY <2>3, <2>4
<1>8. ASSUME NEW i \in Jobs, DeadLetter(i) PROVE Goal
  <2>1. PICK B \in SUBSET todo[i] :
           /\ UNCHANGED <<live, staging>> \/ \E K \in SUBSET B : Upsert(i, K)
           /\ todo' = [todo EXCEPT ![i] = @ \ B]
           /\ missing' = [missing EXCEPT ![i] = @ \cup B]
    BY <1>8 DEF DeadLetter, Batches
  <2>2. pc[i] = "copy" /\ UNCHANGED <<pc, snap, overtaken>>
    BY <1>8 DEF DeadLetter
  <2>3. CASE i # j
    <3>1. ASSUME pc[j] # "idle" PROVE live' = live
      <4>1. i \in Full
        BY <2>2, <2>3, <3>1, NoRival DEF Partial, Full
      <4>2. Redirected(i)
        BY <2>2, <4>1 DEF Directed, Redirected
      <4> QED BY <2>1, <4>2 DEF Upsert
    <3> QED BY <1>1, <2>1, <2>2, <2>3, <3>1
  <2>4. CASE i = j
    <3>1. \A k \in Keys \ B : live'[k] = live[k]
      <4>1. ASSUME NEW K \in SUBSET B, Upsert(i, K)
            PROVE  \A k \in Keys \ B : live'[k] = live[k]
        BY <4>1 DEF Upsert
      <4> QED BY <2>1, <4>1
    <3>2. todo'[j] = todo[j] \ B /\ missing'[j] = missing[j] \cup B
      BY <2>1, <2>4
    <3>3. \A k \in Scope \ missing[j] :
             live[k] = IF k \in todo[j] THEN 0 ELSE snap[j][k]
      BY <2>2, <2>4 DEF ScopeIsCopy
    <3> QED BY <2>2, <2>4, <3>1, <3>2, <3>3
  <2> QED BY <2>3, <2>4
<1>9. ASSUME NEW i \in Jobs, CommitFullLoad(i) PROVE Goal
  BY <1>9 DEF CommitFullLoad, Swap
<1>10. ASSUME NEW i \in Jobs, FinishPartial(i) PROVE Goal
  BY <1>1, <1>2, <1>10 DEF FinishPartial, End, dbVars
<1>11. ASSUME NEW i \in Jobs, Fail(i) PROVE Goal
  <2>1. CASE i = j
    BY <1>2, <1>11, <2>1 DEF Fail, End
  <2>2. CASE i # j
    <3>1. UNCHANGED <<dbVars, overtaken>>
      BY <1>11 DEF Fail, Swap
    <3> QED BY <1>1, <1>11, <2>2, <3>1 DEF Fail, End, dbVars
  <2> QED BY <2>1, <2>2
<1>12. CASE Crash
  BY <1>2, <1>12 DEF Crash
<1>13. CASE UNCHANGED vars
  BY <1>1, <1>13 DEF vars
<1> QED BY <1>3, <1>4, <1>5, <1>6, <1>7, <1>8, <1>9, <1>10, <1>11, <1>12, <1>13
           DEF Next, JobStep

(* A PARTIAL load that ends well and was not overtaken by a FULL load has   *)
(* replaced its scope by what its cursor saw, less what was dead-lettered:  *)
(* for any table, scope and batch size, next to a FULL load that may fail   *)
(* or crash at any point, when it has a sink object of its own and no other *)
(* PARTIAL load of the scope is under way.                                  *)
THEOREM PartialLoadsAreExact ==
    ASSUME OwnSinks, OnePartial PROVE Spec => PartialIsExact
<1>1. Init => PInv
  BY LInvInit DEF Init, LInv, PInv, ScopeIsCopy, Partial
<1>2. PInv /\ [Next]_vars => PInv'
  BY TypesStep, DirectedStep, AloneStep, RedirectsStep, ScopeStep DEF PInv
<1>3. PInv /\ [Next]_vars =>
        [\A j \in Jobs : FinishPartial(j) /\ ~overtaken[j] =>
            \A k \in Scope \ missing[j] : live'[k] = snap[j][k]]_vars
  <2> SUFFICES ASSUME PInv, NEW j \in Jobs, FinishPartial(j), ~overtaken[j],
                      NEW k \in Scope \ missing[j]
               PROVE  live'[k] = snap[j][k]
    OBVIOUS
  <2>1. j \in Partial /\ pc[j] = "copy" /\ todo[j] = {} /\ live' = live
    BY DEF FinishPartial, Partial, dbVars
  <2> QED BY <2>1 DEF PInv, ScopeIsCopy
<1> QED BY <1>1, <1>2, <1>3, PTL DEF Spec, PartialIsExact
=============================================================================
