----------------------------- MODULE StagedLoad -----------------------------
(***************************************************************************)
(* FULL and PARTIAL loads of one target table: LocalRunner.run (runner.py) *)
(* with prepare_full_load, write, commit_full_load and delete_scope of     *)
(* PostgresSink and SQLServerSink.  A FULL load fills {table}_staging and  *)
(* swaps it with the table; a PARTIAL load deletes its scope and writes    *)
(* the replacement.  Where write() goes is decided by the attribute        *)
(* _staging of the sink object, which jobs may share: a replay of a window *)
(* runs the pipe in PARTIAL mode with the sink object of its FULL loads    *)
(* (replay/runner.py, _apply_scope).                                       *)
(*                                                                         *)
(* The sinks are given an upsert key, so that a table maps keys to row     *)
(* versions; version 0 means that there is no row.                         *)
(***************************************************************************)
EXTENDS Naturals, FiniteSets

CONSTANTS
    Keys,          \* primary keys
    MaxVersion,    \* bound: versions of a row
    Jobs,          \* loads of the table; each one runs again and again
    Mode,          \* Mode[j]: "FULL" or "PARTIAL"
    SinkOf,        \* SinkOf[j]: the sink object of its pipe
    Query,         \* Query[j]: keys that its source query returns
    Scope,         \* keys that the scope of the PARTIAL jobs covers
    Brokered,      \* jobs run by BrokerPipeRunner, that dead-letter a batch
    Exclusive,     \* TRUE: one job at a time
    BatchSize,     \* batch_size
    MaxChanges,    \* bound: changes of the source
    MaxFailures    \* bound: failures of jobs, dead-lettered batches, crashes

ASSUME LoadAssumption ==
    /\ MaxVersion \in Nat \ {0}
    /\ Mode \in [Jobs -> {"FULL", "PARTIAL"}]
    /\ Query \in [Jobs -> SUBSET Keys] /\ Scope \subseteq Keys
    /\ \A j \in Jobs : Query[j] = IF Mode[j] = "FULL" THEN Keys ELSE Query[j] \cup Scope
    /\ \A i, j \in Jobs : Mode[i] = "FULL" /\ Mode[j] = "FULL" => i = j
    /\ Brokered \subseteq Jobs /\ Exclusive \in BOOLEAN
    /\ BatchSize \in Nat \ {0} /\ MaxChanges \in Nat /\ MaxFailures \in Nat

Versions == 0..MaxVersion
Table    == [Keys -> Versions]
Empty    == [k \in Keys |-> 0]
Sinks    == {SinkOf[j] : j \in Jobs}

VARIABLES
    src,        \* the source table
    live,       \* the target table
    staging,    \* {table}_staging
    staged,     \* it exists
    redirect,   \* redirect[s]: _staging of sink object s
    pc,         \* where each job stands
    snap,       \* what the cursor of the job sees
    todo,       \* keys it has not written yet
    missing,    \* keys of its batches that were dead-lettered, written or not
    overtaken,  \* history: the target was swapped since the job began
    changes, failures

vars == <<src, live, staging, staged, redirect, pc, snap, todo, missing,
          overtaken, changes, failures>>

dbVars  == <<live, staging, staged>>
jobVars == <<pc, snap, todo, missing, overtaken>>

(* The type invariant; while a FULL load is under way, its sink is          *)
(* redirected to a staging table that exists.                               *)
TypeOK ==
    /\ src \in Table /\ live \in Table /\ staging \in Table
    /\ staged \in BOOLEAN /\ redirect \in [Sinks -> BOOLEAN]
    /\ pc \in [Jobs -> {"idle", "open", "copy"}]
    /\ snap \in [Jobs -> Table]
    /\ todo \in [Jobs -> SUBSET Keys] /\ missing \in [Jobs -> SUBSET Keys]
    /\ overtaken \in [Jobs -> BOOLEAN]
    /\ changes \in 0..MaxChanges /\ failures \in 0..MaxFailures
    /\ \A j \in Jobs : Mode[j] = "FULL" /\ pc[j] # "idle" =>
                          redirect[SinkOf[j]] /\ staged

Init ==
    /\ src \in [Keys -> {0, 1}] /\ live = Empty
    /\ staging = Empty /\ staged = FALSE
    /\ redirect = [s \in Sinks |-> FALSE]
    /\ pc = [j \in Jobs |-> "idle"] /\ snap = [j \in Jobs |-> Empty]
    /\ todo = [j \in Jobs |-> {}] /\ missing = [j \in Jobs |-> {}]
    /\ overtaken = [j \in Jobs |-> FALSE]
    /\ changes = 0 /\ failures = 0

-----------------------------------------------------------------------------
(* A row of the source is inserted, updated or deleted.                     *)
Change(k) ==
    /\ changes < MaxChanges /\ changes' = changes + 1
    /\ \E v \in Versions \ {src[k]} : src' = [src EXCEPT ![k] = v]
    /\ UNCHANGED <<dbVars, redirect, jobVars, failures>>

MayStart(j) == pc[j] = "idle" /\ (Exclusive => \A i \in Jobs : pc[i] = "idle")

Start(j) == /\ pc' = [pc EXCEPT ![j] = "open"]
            /\ missing' = [missing EXCEPT ![j] = {}]
            /\ overtaken' = [overtaken EXCEPT ![j] = FALSE]
            /\ UNCHANGED <<src, snap, todo, changes, failures>>

(* Mutant: the staging table keeps what an earlier load left there.         *)
PrepareNoTruncate(j) ==
    /\ Mode[j] = "FULL" /\ MayStart(j) /\ Start(j)
    /\ staged' = TRUE
    /\ redirect' = [redirect EXCEPT ![SinkOf[j]] = TRUE]
    /\ UNCHANGED <<live, staging>>

(* Mutant: the sink is not redirected.                                      *)
PrepareNoRedirect(j) ==
    /\ Mode[j] = "FULL" /\ MayStart(j) /\ Start(j)
    /\ staging' = Empty /\ staged' = TRUE
    /\ UNCHANGED <<live, redirect>>

(* prepare_full_load: create and truncate the staging table, redirect.      *)
Prepare(j) ==
    /\ Mode[j] = "FULL" /\ MayStart(j) /\ Start(j)
    /\ staging' = Empty /\ staged' = TRUE
    /\ redirect' = [redirect EXCEPT ![SinkOf[j]] = TRUE]
    /\ UNCHANGED live

(* Mutant: the scope is not deleted.                                        *)
DeleteNothing(j) ==
    /\ Mode[j] = "PARTIAL" /\ MayStart(j) /\ Start(j)
    /\ UNCHANGED <<live, staging, staged, redirect>>

(* delete_scope, always in the live table.                                  *)
DeleteScope(j) ==
    /\ Mode[j] = "PARTIAL" /\ MayStart(j) /\ Start(j)
    /\ live' = [k \in Keys |-> IF k \in Scope THEN 0 ELSE live[k]]
    /\ UNCHANGED <<staging, staged, redirect>>

(* source.read: the cursor sees the source as it is now.                    *)
OpenCursor(j) ==
    /\ pc[j] = "open"
    /\ pc' = [pc EXCEPT ![j] = "copy"]
    /\ snap' = [snap EXCEPT ![j] = [k \in Keys |-> IF k \in Query[j] THEN src[k] ELSE 0]]
    /\ todo' = [todo EXCEPT ![j] = {k \in Query[j] : src[k] # 0}]
    /\ UNCHANGED <<src, dbVars, redirect, missing, overtaken, changes, failures>>

Batches(j) == {B \in SUBSET todo[j] :
                  /\ B # {} /\ Cardinality(B) <= BatchSize
                  /\ Cardinality(B) = BatchSize \/ B = todo[j]}

Redirected(j) == redirect[SinkOf[j]]

(* sink.write of batch B: an upsert into the table that _write_table names. *)
Upsert(j, B) ==
    LET Merge(t) == [k \in Keys |-> IF k \in B THEN snap[j][k] ELSE t[k]]
    IN IF Redirected(j) THEN staged /\ staging' = Merge(staging) /\ UNCHANGED live
                        ELSE live' = Merge(live) /\ UNCHANGED staging

(* Mutant: what does not fill a batch is not written.                       *)
WriteFullBatch(j) ==
    /\ pc[j] = "copy"
    /\ \E B \in Batches(j) :
          /\ IF Cardinality(B) = BatchSize THEN Upsert(j, B)
                                           ELSE UNCHANGED <<live, staging>>
          /\ todo' = [todo EXCEPT ![j] = @ \ B]
    /\ UNCHANGED <<src, staged, redirect, pc, snap, missing, overtaken, changes,
                   failures>>

WriteBatch(j) ==
    /\ pc[j] = "copy"
    /\ \E B \in Batches(j) :
          /\ Upsert(j, B)
          /\ todo' = [todo EXCEPT ![j] = @ \ B]
    /\ UNCHANGED <<src, staged, redirect, pc, snap, missing, overtaken, changes,
                   failures>>

(* A redirected write finds no staging table.                               *)
NoTable(j) == pc[j] = "copy" /\ todo[j] # {} /\ Redirected(j) /\ ~staged

(* write_from_broker: write of batch B raises, B is dead-lettered, and the  *)
(* load goes on without it.  SQLServerSink.write does not roll back, so a   *)
(* later commit keeps the rows K that were sent before it raised.           *)
DeadLetter(j) ==
    /\ j \in Brokered /\ pc[j] = "copy"
    /\ \/ failures < MaxFailures /\ failures' = failures + 1
       \/ NoTable(j) /\ UNCHANGED failures
    /\ \E B \in Batches(j) :
          /\ \/ UNCHANGED <<live, staging>>
             \/ \E K \in SUBSET B : Upsert(j, K)
          /\ todo' = [todo EXCEPT ![j] = @ \ B]
          /\ missing' = [missing EXCEPT ![j] = @ \cup B]
    /\ UNCHANGED <<src, staged, redirect, pc, snap, overtaken, changes>>

(* The transaction of commit_full_load.                                     *)
Swap == /\ live' = staging /\ staging' = Empty /\ staged' = FALSE
        /\ overtaken' = [i \in Jobs |-> TRUE]

(* The run returns or raises; its local state is gone.                      *)
End(j) == /\ pc' = [pc EXCEPT ![j] = "idle"]
          /\ snap' = [snap EXCEPT ![j] = Empty]
          /\ todo' = [todo EXCEPT ![j] = {}]

CommitFullLoad(j) ==
    /\ Mode[j] = "FULL" /\ pc[j] = "copy" /\ todo[j] = {} /\ staged
    /\ Swap
    /\ redirect' = [redirect EXCEPT ![SinkOf[j]] = FALSE]
    /\ End(j)
    /\ UNCHANGED <<src, missing, changes, failures>>

FinishPartial(j) ==
    /\ Mode[j] = "PARTIAL" /\ pc[j] = "copy" /\ todo[j] = {}
    /\ End(j)
    /\ UNCHANGED <<src, dbVars, redirect, missing, overtaken, changes, failures>>

(* The run of j raises; the transaction of the swap may have gone through   *)
(* (that of a write too: WriteBatch, then Fail).  teardown leaves _staging  *)
(* as it is.                                                                *)
Fail(j) ==
    /\ pc[j] # "idle"
    /\ \/ failures < MaxFailures /\ failures' = failures + 1
       \/ j \notin Brokered /\ NoTable(j) /\ UNCHANGED failures
    /\ \/ UNCHANGED <<dbVars, overtaken>>
       \/ Mode[j] = "FULL" /\ pc[j] = "copy" /\ todo[j] = {} /\ staged /\ Swap
    /\ End(j)
    /\ UNCHANGED <<src, redirect, missing, changes>>

(* The process dies; the next one makes new sink objects.                   *)
Crash ==
    /\ failures < MaxFailures /\ failures' = failures + 1
    /\ redirect' = [s \in Sinks |-> FALSE]
    /\ pc' = [j \in Jobs |-> "idle"] /\ snap' = [j \in Jobs |-> Empty]
    /\ todo' = [j \in Jobs |-> {}]
    /\ UNCHANGED <<src, dbVars, missing, overtaken, changes>>

JobStep(j) == \/ Prepare(j) \/ DeleteScope(j) \/ OpenCursor(j) \/ WriteBatch(j)
              \/ CommitFullLoad(j) \/ FinishPartial(j)

Next == \/ \E k \in Keys : Change(k)
        \/ \E j \in Jobs : JobStep(j) \/ DeadLetter(j) \/ Fail(j)
        \/ Crash

Spec == Init /\ [][Next]_vars

(* Every job is run again when it has ended, and a run goes on.             *)
FairSpec == Spec /\ \A j \in Jobs : WF_vars(JobStep(j))

-----------------------------------------------------------------------------
(* Properties.                                                              *)

Moves(j) == pc'[j] # pc[j] \/ todo'[j] # todo[j]

(* A FULL load is all or nothing (README.md:323 "atomically swapped with    *)
(* the live table. If the run fails mid-way, the live table is untouched"): *)
(* if none of its batches was dead-lettered, it changes the table in one    *)
(* step, into exactly what its cursor saw, however many loads failed before *)
(* it and whatever they left in the staging table.  (After a dead-lettered  *)
(* batch write_from_broker swaps all the same; nothing is claimed of that.) *)
FullIsAtomic ==
    [][\A j \in Jobs : /\ Mode[j] = "FULL" /\ Moves(j) /\ live' # live
                       /\ missing[j] = {}
          => live' = snap[j]]_vars

(* A PARTIAL load that ends well has replaced its scope by what its cursor  *)
(* saw (README.md:333 "deletes existing rows in the scope, then writes the  *)
(* new data"), unless a FULL load of the table overtook it.                 *)
PartialIsExact ==
    [][\A j \in Jobs : FinishPartial(j) /\ ~overtaken[j] =>
          \A k \in Scope \ missing[j] : live'[k] = snap[j][k]]_vars

(* When the source has come to rest and failures stop, the target equals    *)
(* the source again and again: nothing that failed loads left behind stays. *)
EventuallyFresh == []<>(live = src)
=============================================================================
