-------------------------- MODULE IncrementalCopy --------------------------
(***************************************************************************)
(* Incremental copies of one pipe (runner.py, LocalRunner.run and _flush   *)
(* with CopyMode.INCREMENTAL), started through POST /pipes/{id}/run        *)
(* (api/routes/pipes.py, run_pipe): load the bookmark, read the rows after *)
(* it, write them batch by batch, advance the bookmark after every batch,  *)
(* save it at the end.  Requests are served by threads that share the      *)
(* bookmark store, so several copies may be under way.                     *)
(*                                                                         *)
(* A bookmark value is a natural number, 0 the value the pipe is given     *)
(* first, together with its form: Redis returns it as a string.  A row is  *)
(* its identity and the key in its bookmark column.                        *)
(***************************************************************************)
EXTENDS Naturals, FiniteSets

CONSTANTS
    Rows,           \* rows the source table may come to hold
    Key,            \* Key[x]: value of x in the bookmark column
    Kept,           \* rows the processors do not drop
    BatchSize,      \* LocalRunner batch_size
    Columns,        \* kinds of bookmark column and driver, see column
    Ordered,        \* the source query has ORDER BY the bookmark column
    SharedObject,   \* InMemoryBookmarkStore: load returns the stored object
    SinkCommits,    \* sink.commit_bookmark persists (both SQL sinks: no-op)
    Runners,        \* threads that serve run requests
    InitialRows,    \* rows in the table at the beginning
    MaxFailures     \* bound: runs that fail, time out or crash

ASSUME CopyAssumption ==
    /\ Key \in [Rows -> Nat \ {0}]
    /\ Kept \subseteq Rows /\ InitialRows \subseteq Rows
    /\ BatchSize \in Nat \ {0}
    /\ Columns \subseteq {"text", "converted", "strict"}
    /\ Ordered \in BOOLEAN /\ SharedObject \in BOOLEAN /\ SinkCommits \in BOOLEAN
    /\ "store" \notin Runners
    /\ MaxFailures \in Nat

VARIABLES
    column,     \* "text", or another type for which the driver converts a
                \* string (SQL Server) or is strict and raises (asyncpg)
    present,    \* rows in the source table
    late,       \* history: rows that came at or below what was read already
    bm,         \* bookmark values: of the store and of each runner's copy
    asText,     \* bookmarks whose value is a string though the column is not
    pc,         \* where the run of each runner stands
    todo,       \* rows of its result set not yet fetched
    batch,      \* rows it has fetched and not yet flushed
    copies,     \* copies[x]: row x was written 0, 1 or (2) several times
    failures    \* runs ended by an exception, a timeout or a crash

vars == <<column, present, late, bm, asText, pc, todo, batch, copies, failures>>

source    == <<column, present, late>>
bookmarks == <<bm, asText>>

Phases == {"idle", "loaded", "reading", "writing", "committing"}

(* The type invariant; a run holds a batch, and never more than batch_size  *)
(* rows, only until it has flushed it.                                      *)
TypeOK ==
    /\ column \in Columns
    /\ present \subseteq Rows /\ late \subseteq present
    /\ asText \subseteq Runners \cup {"store"}
    /\ SharedObject \/ column = "text" => asText = {}
    /\ bm \in [Runners \cup {"store"} -> Nat]
    /\ pc \in [Runners -> Phases]
    /\ todo \in [Runners -> SUBSET Rows]
    /\ batch \in [Runners -> SUBSET Rows]
    /\ copies \in [Rows -> 0..2]
    /\ failures \in 0..MaxFailures
    /\ \A r \in Runners : pc[r] \in {"writing", "committing"} <=> batch[r] # {}
    /\ \A r \in Runners : batch[r] # {} => Cardinality(batch[r]) <= BatchSize

Init ==
    /\ column \in Columns
    /\ present = InitialRows /\ late = {}
    /\ asText = {}
    /\ bm = [o \in Runners \cup {"store"} |-> 0]
    /\ pc = [r \in Runners |-> "idle"]
    /\ todo = [r \in Runners |-> {}] /\ batch = [r \in Runners |-> {}]
    /\ copies = [x \in Rows |-> 0]
    /\ failures = 0

(* The Bookmark object that runner r passes to LocalRunner.run.             *)
Obj(r) == IF SharedObject THEN "store" ELSE r

(* _compute_new_bookmark_value: the greatest key of the raw batch.          *)
NewValue(B) == {v \in {Key[x] : x \in B} : \A x \in B : Key[x] <= v}

(* The store has passed x by, or a run under way will when it ends.         *)
Passed(x) ==
    \/ Key[x] <= bm["store"]
    \/ \E r \in Runners :
          /\ pc[r] # "idle"
          /\ \/ Key[x] <= bm[Obj(r)]
             \/ \E y \in todo[r] \cup batch[r] : Key[x] <= Key[y]

(* A row is added to the source table, with any key: a transaction that     *)
(* commits late brings an old updated_at or sequence number with it.        *)
Insert(x) ==
    /\ x \notin present
    /\ present' = present \cup {x}
    /\ late' = IF Passed(x) THEN late \cup {x} ELSE late
    /\ UNCHANGED <<column, bookmarks, pc, todo, batch, copies, failures>>

(* The forms of the bookmarks after the store has saved one: RedisBookmark- *)
(* Store writes str(value), which is another value unless it was a string.  *)
SavedAsText == IF SharedObject \/ column = "text" THEN asText
                                                 ELSE asText \cup {"store"}

(* run_pipe: bookmark_store.load, before setup of source and sink.          *)
Load(r) ==
    /\ pc[r] = "idle"
    /\ bm' = [bm EXCEPT ![Obj(r)] = bm["store"]]
    /\ asText' = IF "store" \in asText THEN asText \cup {Obj(r)}
                                       ELSE asText \ {Obj(r)}
    /\ pc' = [pc EXCEPT ![r] = "loaded"]
    /\ UNCHANGED <<source, todo, batch, copies, failures>>

(* The driver raises for a string where the column has another type.        *)
Refused(r) == column = "strict" /\ Obj(r) \in asText

(* Mutant: the source is not given the bookmark.                            *)
OpenCursorFromStart(r) ==
    /\ pc[r] = "loaded"
    /\ todo' = [todo EXCEPT ![r] = present]
    /\ pc' = [pc EXCEPT ![r] = "reading"]
    /\ UNCHANGED <<source, bookmarks, batch, copies, failures>>

(* source.read(bookmark): the cursor sees the rows after bookmark.value.    *)
OpenCursor(r) ==
    /\ pc[r] = "loaded" /\ ~Refused(r)
    /\ todo' = [todo EXCEPT ![r] = {x \in present : Key[x] > bm[Obj(r)]}]
    /\ pc' = [pc EXCEPT ![r] = "reading"]
    /\ UNCHANGED <<source, bookmarks, batch, copies, failures>>

(* source.read raises, and the run with it, before anything was read.       *)
CursorRefused(r) ==
    /\ pc[r] = "loaded" /\ Refused(r)
    /\ pc' = [pc EXCEPT ![r] = "idle"]
    /\ UNCHANGED <<source, bookmarks, todo, batch, copies, failures>>

(* Mutant: the tail is not flushed, only full batches are.                  *)
ReadFullBatch(r) ==
    /\ pc[r] = "reading" /\ Cardinality(todo[r]) >= BatchSize
    /\ \E B \in SUBSET todo[r] :
          /\ Cardinality(B) = BatchSize
          /\ Ordered => \A x \in B, y \in todo[r] \ B : Key[x] <= Key[y]
          /\ batch' = [batch EXCEPT ![r] = B]
          /\ todo' = [todo EXCEPT ![r] = IF Cardinality(@ \ B) < BatchSize THEN {}
                                        ELSE @ \ B]
    /\ pc' = [pc EXCEPT ![r] = "writing"]
    /\ UNCHANGED <<source, bookmarks, copies, failures>>

(* The read loop fills a batch, or fetches the tail.                        *)
ReadBatch(r) ==
    /\ pc[r] = "reading" /\ todo[r] # {}
    /\ \E B \in SUBSET todo[r] :
          /\ B # {} /\ Cardinality(B) <= BatchSize
          /\ Cardinality(B) = BatchSize \/ B = todo[r]
          /\ Ordered => \A x \in B, y \in todo[r] \ B : Key[x] <= Key[y]
          /\ batch' = [batch EXCEPT ![r] = B]
          /\ todo' = [todo EXCEPT ![r] = @ \ B]
    /\ pc' = [pc EXCEPT ![r] = "writing"]
    /\ UNCHANGED <<source, bookmarks, copies, failures>>

(* sink.write of the records that the processors left.                      *)
Written(r) == [x \in Rows |-> IF x \in batch[r] \cap Kept /\ copies[x] < 2
                             THEN copies[x] + 1 ELSE copies[x]]

(* The bookmark of the run will advance: the processors left a record and   *)
(* the value would change, as it does when a string meets the column's type.*)
Advances(r) == /\ batch[r] \cap Kept # {}
               /\ Obj(r) \in asText \/ bm[Obj(r)] \notin NewValue(batch[r])

(* Mutant: the batch is not reset when its bookmark stays.                  *)
WriteKeepsBatch(r) ==
    /\ pc[r] = "writing"
    /\ copies' = Written(r)
    /\ IF Advances(r)
       THEN pc' = [pc EXCEPT ![r] = "committing"]
       ELSE pc' = [pc EXCEPT ![r] = "reading"]
    /\ UNCHANGED <<source, bookmarks, todo, batch, failures>>

(* _flush up to the return of sink.write.                                   *)
WriteBatch(r) ==
    /\ pc[r] = "writing"
    /\ copies' = Written(r)
    /\ IF Advances(r)
       THEN pc' = [pc EXCEPT ![r] = "committing"] /\ UNCHANGED batch
       ELSE pc' = [pc EXCEPT ![r] = "reading"] /\ batch' = [batch EXCEPT ![r] = {}]
    /\ UNCHANGED <<source, bookmarks, todo, failures>>

(* What commit_bookmark leaves in the store.                                *)
Committed(v) == IF SinkCommits THEN [bm EXCEPT !["store"] = v] ELSE bm
CommittedAsText == IF SinkCommits THEN SavedAsText ELSE asText

(* Mutant: the caller's Bookmark object is not updated in place.            *)
CommitNotInPlace(r) ==
    /\ pc[r] = "committing"
    /\ \E v \in NewValue(batch[r]) : bm' = Committed(v)
    /\ asText' = CommittedAsText
    /\ pc' = [pc EXCEPT ![r] = "reading"]
    /\ batch' = [batch EXCEPT ![r] = {}]
    /\ UNCHANGED <<source, todo, copies, failures>>

(* sink.commit_bookmark(updated), then the caller's object in place.        *)
CommitBookmark(r) ==
    /\ pc[r] = "committing"
    /\ \E v \in NewValue(batch[r]) : bm' = [Committed(v) EXCEPT ![Obj(r)] = v]
    /\ asText' = CommittedAsText \ {Obj(r)}
    /\ pc' = [pc EXCEPT ![r] = "reading"]
    /\ batch' = [batch EXCEPT ![r] = {}]
    /\ UNCHANGED <<source, todo, copies, failures>>

(* The run succeeds and run_pipe saves the bookmark.                        *)
Finish(r) ==
    /\ pc[r] = "reading" /\ todo[r] = {}
    /\ bm' = [bm EXCEPT !["store"] = bm[Obj(r)]]
    /\ asText' = SavedAsText
    /\ pc' = [pc EXCEPT ![r] = "idle"]
    /\ UNCHANGED <<source, todo, batch, copies, failures>>

(* The run of r ends by an exception or by the timeout of run_pipe.  A      *)
(* write or a commit under way may have reached the database nevertheless.  *)
Fail(r) ==
    /\ pc[r] # "idle" /\ failures < MaxFailures
    /\ failures' = failures + 1
    /\ copies' \in {copies} \cup IF pc[r] = "writing" THEN {Written(r)} ELSE {}
    /\ \/ UNCHANGED bookmarks
       \/ /\ pc[r] = "committing"
          /\ \E v \in NewValue(batch[r]) : bm' = Committed(v)
          /\ asText' = CommittedAsText
    /\ pc' = [pc EXCEPT ![r] = "idle"]
    /\ todo' = [todo EXCEPT ![r] = {}] /\ batch' = [batch EXCEPT ![r] = {}]
    /\ UNCHANGED source

(* The process dies with all its runs.  An InMemoryBookmarkStore is lost;   *)
(* the next process gives the pipe its first value again.                   *)
Crash ==
    /\ failures < MaxFailures
    /\ failures' = failures + 1
    /\ bm' = IF SharedObject THEN [bm EXCEPT !["store"] = 0] ELSE bm
    /\ pc' = [r \in Runners |-> "idle"]
    /\ todo' = [r \in Runners |-> {}] /\ batch' = [r \in Runners |-> {}]
    /\ UNCHANGED <<source, asText, copies>>

RunStep(r) == \/ OpenCursor(r) \/ CursorRefused(r) \/ ReadBatch(r)
              \/ WriteBatch(r) \/ CommitBookmark(r) \/ Finish(r)

Next == \/ \E x \in Rows : Insert(x)
        \/ \E r \in Runners : Load(r) \/ RunStep(r) \/ Fail(r)
        \/ Crash

Spec == Init /\ [][Next]_vars

(* A run that was started goes on; the schedule starts the next one.        *)
FairSpec == Spec /\ \A r \in Runners : WF_vars(RunStep(r)) /\ WF_vars(Load(r))

-----------------------------------------------------------------------------
(* Properties.                                                              *)

(* The rows that the source owes to the sink.  A late row is not among them:*)
(* it is below a bookmark, or below what a run will leave as one, before    *)
(* any cursor could have seen it, and no copy reads it.                     *)
Owed == (present \cap Kept) \ late

(* No row is skipped: what lies at or below the stored bookmark has been    *)
(* written to the sink or dropped by a processor, so that a copy started    *)
(* from it, after whatever failure, misses nothing (runner.py:41 "advances  *)
(* the bookmark only after each successful sink write").  It needs ordered  *)
(* reads of distinct keys, or else a bookmark that only successful runs     *)
(* save: a failed run that leaves its bookmark behind (SharedObject,        *)
(* SinkCommits) skips the rest of a tie cut by the border of a batch.       *)
NothingSkipped ==
    \A x \in Owed : Key[x] <= bm["store"] => copies[x] > 0

(* Duplicates come from failures only: with one runner and no failure every *)
(* row is written at most once over any number of runs.                     *)
DuplicatesNeedFailure == failures = 0 => \A x \in Rows : copies[x] <= 1

(* The bookmark in the store is a high-water mark: no step of a run moves   *)
(* it backwards (README.md:364 "Bookmarks track the high-water mark").      *)
(* Only the crash of an in-memory store resets it.  It needs ordered reads: *)
(* without ORDER BY a later batch may have the smaller values.              *)
HighWaterMark ==
    [][bm'["store"] >= bm["store"] \/ (SharedObject /\ bm'["store"] = 0)]_vars

(* While runs keep being started, every row of the source that is not late  *)
(* and that the processors keep reaches the sink, also one that arrives in  *)
(* mid-run or below rows that no run has taken up yet.  It needs a source   *)
(* that takes the bookmark as the store returns it: with a strict driver    *)
(* and Redis every run after the first save is refused.                     *)
EventuallyCopied == \A x \in Rows : x \in Owed ~> copies[x] > 0
=============================================================================
