----------------------- MODULE IncrementalCopyProofs -----------------------
(***************************************************************************)
(* Incremental copies skip no row, whenever the reads are ordered by        *)
(* distinct keys or the bookmark is saved at the end only; and with one     *)
(* runner and ordered reads the stored bookmark is a high-water mark and    *)
(* duplicates come from failures only.  For every table, every batch size   *)
(* and both kinds of bookmark store.                                        *)
(***************************************************************************)
EXTENDS IncrementalCopy, TLAPS

Objects == Runners \cup {"store"}

USE DEF source, bookmarks

(* The part of TypeOK about the batches.                                    *)
BatchOK ==
    /\ \A r \in Runners : pc[r] \in {"writing", "committing"} <=> batch[r] # {}
    /\ \A r \in Runners : batch[r] # {} => Cardinality(batch[r]) <= BatchSize

(* Every step keeps the types.                                              *)
LEMMA TypeStep == ASSUME TypeOK, [Next]_vars PROVE TypeOK'
<1> USE CopyAssumption
<1> USE DEF TypeOK, Phases
<1>1. ASSUME NEW x \in Rows, Insert(x) PROVE TypeOK'
  BY <1>1 DEF Insert
<1>2. ASSUME NEW r \in Runners, Load(r) PROVE TypeOK'
  BY <1>2 DEF Load, Obj
<1>3. ASSUME NEW r \in Runners, OpenCursor(r) \/ CursorRefused(r) PROVE TypeOK'
  BY <1>3 DEF OpenCursor, CursorRefused
<1>4. ASSUME NEW r \in Runners, ReadBatch(r) PROVE TypeOK'
  <2>1. PICK B \in SUBSET todo[r] :
            /\ B # {} /\ Cardinality(B) <= BatchSize
            /\ batch' = [batch EXCEPT ![r] = B]
            /\ todo' = [todo EXCEPT ![r] = todo[r] \ B]
    BY <1>4 DEF ReadBatch
  <2>2. /\ pc' = [pc EXCEPT ![r] = "writing"]
        /\ UNCHANGED <<source, bookmarks, copies, failures>>
    BY <1>4 DEF ReadBatch
  <2>3. batch'[r] = B /\ \A q \in Runners \ {r} : batch'[q] = batch[q]
    BY <2>1
  <2>4. \A q \in Runners : batch'[q] # {} => Cardinality(batch'[q]) <= BatchSize
    <3>1. Cardinality(batch'[r]) <= BatchSize
      BY <2>1, <2>3
    <3>2. ASSUME NEW q \in Runners \ {r}, batch'[q] # {}
          PROVE  Cardinality(batch'[q]) <= BatchSize
      BY <2>3, <3>2
    <3> QED BY <3>1, <3>2
  <2>5. \A q \in Runners : pc'[q] \in {"writing", "committing"} <=> batch'[q] # {}
    BY <2>1, <2>2, <2>3
  <2>6. todo' \in [Runners -> SUBSET Rows] /\ batch' \in [Runners -> SUBSET Rows]
    BY <2>1
  <2> QED BY <2>2, <2>4, <2>5, <2>6
<1>5. ASSUME NEW r \in Runners PROVE Written(r) \in [Rows -> 0..2]
  BY DEF Written
<1>6. ASSUME NEW r \in Runners, WriteBatch(r) PROVE TypeOK'
  <2>1. \/ pc' = [pc EXCEPT ![r] = "committing"] /\ UNCHANGED batch
        \/ pc' = [pc EXCEPT ![r] = "reading"] /\ batch' = [batch EXCEPT ![r] = {}]
    BY <1>6 DEF WriteBatch
  <2>2. /\ pc[r] = "writing" /\ copies' = Written(r)
        /\ UNCHANGED <<source, bookmarks, todo, failures>>
    BY <1>6 DEF WriteBatch
  <2>3. BatchOK'
    BY <2>1, <2>2 DEF BatchOK
  <2>4. /\ pc' \in [Runners -> Phases] /\ batch' \in [Runners -> SUBSET Rows]
        /\ copies' \in [Rows -> 0..2] /\ UNCHANGED <<source, bookmarks, todo, failures>>
    BY <1>5, <2>1, <2>2
  <2> QED BY <2>3, <2>4 DEF BatchOK
<1>7. ASSUME NEW r \in Runners, NEW v \in NewValue(batch[r])
      PROVE  v \in Nat /\ Committed(v) \in [Objects -> Nat]
  <2>1. v \in Nat
    BY DEF NewValue
  <2> QED BY <2>1 DEF Committed, Objects
<1>13. /\ SavedAsText \subseteq Objects /\ CommittedAsText \subseteq Objects
       /\ SharedObject \/ column = "text" => SavedAsText = {} /\ CommittedAsText = {}
  BY DEF SavedAsText, CommittedAsText, Objects
<1>8. ASSUME NEW r \in Runners, CommitBookmark(r) PROVE TypeOK'
  BY <1>7, <1>8, <1>13 DEF CommitBookmark, Obj, Objects
<1>9. ASSUME NEW r \in Runners, Finish(r) PROVE TypeOK'
  BY <1>9, <1>13 DEF Finish, Obj, Objects
<1>10. ASSUME NEW r \in Runners, Fail(r) PROVE TypeOK'
  <2>1. copies' \in [Rows -> 0..2]
    BY <1>5, <1>10 DEF Fail
  <2>2. \/ UNCHANGED bookmarks
        \/ asText' = CommittedAsText /\ \E v \in NewValue(batch[r]) : bm' = Committed(v)
    BY <1>10 DEF Fail
  <2>3. /\ bm' \in [Objects -> Nat] /\ asText' \subseteq Objects
        /\ SharedObject \/ column = "text" => asText' = {}
    BY <1>7, <1>13, <2>2 DEF Objects
  <2>4. /\ pc' \in [Runners -> Phases] /\ UNCHANGED source
        /\ todo' \in [Runners -> SUBSET Rows] /\ batch' \in [Runners -> SUBSET Rows]
        /\ failures' \in 0..MaxFailures
    BY <1>10 DEF Fail
  <2>5. BatchOK'
    BY <1>10 DEF Fail, BatchOK
  <2> QED BY <2>1, <2>3, <2>4, <2>5 DEF Objects, BatchOK
<1>11. CASE Crash
  BY <1>11 DEF Crash
<1>12. CASE UNCHANGED vars
  BY <1>12 DEF vars
<1> QED
  BY <1>1, <1>2, <1>3, <1>4, <1>6, <1>8, <1>9, <1>10, <1>11, <1>12 DEF Next, RunStep

(* TypeOK holds of every state.                                             *)
THEOREM TypeCorrect == Spec => []TypeOK
<1>1. Init => TypeOK
  BY CopyAssumption DEF Init, TypeOK, Phases
<1> QED BY <1>1, TypeStep, PTL DEF Spec

-----------------------------------------------------------------------------
(* The inductive invariant for ordered reads of distinct keys.              *)

DistinctKeys == \A x, y \in Rows : Key[x] = Key[y] => x = y

(* Bookmarks that the store may come to hold: its own and those of runs     *)
(* under way.                                                               *)
InUse == {"store"} \cup {Obj(r) : r \in {q \in Runners : pc[q] # "idle"}}

(* Every bookmark in use, not only the stored one, covers what it passed.   *)
AllCovered == \A o \in InUse : \A x \in Owed : Key[x] <= bm[o] => copies[x] > 0

(* A run holds rows of the table only between its cursor and its end, and   *)
(* fetches them in the order of their keys.                                 *)
Window ==
    \A r \in Runners :
        /\ todo[r] \subseteq present /\ batch[r] \subseteq present
        /\ pc[r] \in {"idle", "loaded"} => todo[r] = {}
        /\ pc[r] \notin {"writing", "committing"} => batch[r] = {}
        /\ \A x \in batch[r], y \in todo[r] : Key[x] < Key[y]

(* A row that is neither written nor held by the run lies beyond the rows   *)
(* that the run holds; a batch about to be committed is written.            *)
Beyond ==
    \A r \in Runners :
        /\ \A x \in Owed \ (todo[r] \cup batch[r]) :
              copies[x] = 0 => \A y \in todo[r] \cup batch[r] : Key[y] < Key[x]
        /\ pc[r] = "committing" => \A x \in batch[r] \cap Kept : copies[x] > 0

IInv == TypeOK /\ AllCovered /\ Window /\ Beyond

(* The invariant without its type part.                                     *)
Covering == AllCovered /\ Window /\ Beyond

(* A row once written stays written.                                        *)
LEMMA CopiesGrow ==
    ASSUME TypeOK, [Next]_vars
    PROVE  \A x \in Rows : copies[x] > 0 => copies'[x] > 0
<1> USE DEF TypeOK
<1>1. ASSUME NEW r \in Runners PROVE \A x \in Rows : copies[x] > 0 => Written(r)[x] > 0
  BY DEF Written
<1>2. ASSUME NEW r \in Runners, WriteBatch(r) \/ Fail(r)
      PROVE  copies' = copies \/ copies' = Written(r)
  BY <1>2 DEF WriteBatch, Fail
<1>3. ASSUME NEW r \in Runners,
             \/ Load(r) \/ OpenCursor(r) \/ CursorRefused(r) \/ ReadBatch(r)
             \/ CommitBookmark(r) \/ Finish(r)
      PROVE  copies' = copies
  BY <1>3 DEF Load, OpenCursor, CursorRefused, ReadBatch, CommitBookmark, Finish
<1>4. CASE Crash \/ (\E x \in Rows : Insert(x)) \/ UNCHANGED vars
  BY <1>4 DEF Crash, Insert, vars
<1> QED BY <1>1, <1>2, <1>3, <1>4 DEF Next, RunStep

(* A new row is late, or beyond every bookmark in use and every row in hand.*)
LEMMA NewRowIsBeyond ==
    ASSUME TypeOK, NEW x \in Rows, Insert(x)
    PROVE  /\ UNCHANGED <<bm, pc, todo, batch, copies>> /\ present' = present \cup {x}
           /\ Owed' = Owed \/ (Owed' = Owed \cup {x} /\ ~Passed(x))
           /\ x \notin present
<1>1. /\ UNCHANGED <<bm, pc, todo, batch, copies>> /\ present' = present \cup {x}
      /\ late' = IF Passed(x) THEN late \cup {x} ELSE late
      /\ x \notin present
  BY DEF Insert
<1>2. late \subseteq present
  BY DEF TypeOK
<1>3. CASE Passed(x)
  <2>1. Owed' = Owed
    BY <1>1, <1>2, <1>3 DEF Owed
  <2> QED BY <1>1, <2>1
<1>4. CASE ~Passed(x)
  <2>1. Owed' = (IF x \in Kept THEN Owed \cup {x} ELSE Owed)
    BY <1>1, <1>2, <1>4 DEF Owed
  <2> QED BY <1>1, <1>4, <2>1
<1> QED BY <1>3, <1>4

LEMMA InsertStep ==
    ASSUME IInv, NEW x \in Rows, Insert(x) PROVE Covering'
<1> USE CopyAssumption DEF IInv, TypeOK
<1>1. /\ UNCHANGED <<bm, pc, todo, batch, copies>> /\ present' = present \cup {x}
      /\ Owed' = Owed \/ (Owed' = Owed \cup {x} /\ ~Passed(x))
      /\ x \notin present
  BY NewRowIsBeyond
<1>2. InUse' = InUse
  BY <1>1 DEF InUse, Obj
<1>3. AllCovered'
  <2>1. SUFFICES ASSUME NEW o \in InUse, NEW y \in Owed', Key[y] <= bm[o]
                 PROVE  copies[y] > 0
    BY <1>1, <1>2 DEF AllCovered
  <2>2. CASE y \in Owed
    BY <2>1, <2>2 DEF AllCovered
  <2>3. CASE y \notin Owed
    <3>1. y = x /\ ~Passed(x)
      BY <1>1, <2>1, <2>3
    <3>2. Passed(x)
      BY <2>1, <3>1 DEF InUse, Passed
    <3> QED BY <3>1, <3>2
  <2> QED BY <2>2, <2>3
<1>4. Window'
  BY <1>1 DEF Window
<1>5. ASSUME NEW r \in Runners, ~Passed(x), NEW y \in todo[r] \cup batch[r]
      PROVE  Key[y] < Key[x]
  <2>1. pc[r] # "idle" /\ y \in Rows
    BY <1>5 DEF Window
  <2>2. ~(Key[x] <= Key[y])
    BY <1>5, <2>1 DEF Passed
  <2> QED BY <2>1, <2>2
<1>6. Beyond'
  BY <1>1, <1>5 DEF Beyond
<1> QED BY <1>3, <1>4, <1>6 DEF Covering

LEMMA LoadStep ==
    ASSUME IInv, NEW r \in Runners, Load(r) PROVE Covering'
<1> USE CopyAssumption DEF IInv, TypeOK, Load
<1>1. Owed' = Owed
  BY DEF Owed
<1>2. \A o \in InUse' : \E p \in InUse : bm'[o] = bm[p]
  BY DEF InUse, Obj
<1>3. AllCovered'
  BY <1>1, <1>2 DEF AllCovered
<1>4. Window'
  BY DEF Window
<1>5. Beyond'
  BY <1>1 DEF Beyond, Window
<1> QED BY <1>3, <1>4, <1>5 DEF Covering

(* A run that its cursor refuses leaves everything as it was.               *)
LEMMA CursorRefusedStep ==
    ASSUME IInv, NEW r \in Runners, CursorRefused(r) PROVE Covering'
<1> USE DEF IInv, TypeOK, CursorRefused
<1>1. Owed' = Owed /\ InUse' \subseteq InUse
  BY DEF Owed, InUse, Obj
<1>2. AllCovered'
  BY <1>1 DEF AllCovered
<1>3. Window'
  BY DEF Window
<1>4. Beyond'
  BY <1>1 DEF Beyond
<1> QED BY <1>2, <1>3, <1>4 DEF Covering

(* What the cursor leaves out is covered by the bookmark it starts from.    *)
LEMMA OpenCursorStep ==
    ASSUME IInv, NEW r \in Runners, OpenCursor(r) PROVE Covering'
<1> USE CopyAssumption DEF IInv, TypeOK, OpenCursor
<1>1. Obj(r) \in InUse /\ Obj(r) \in Objects
  BY DEF Obj, Objects, InUse
<1>2. Owed' = Owed /\ InUse' = InUse
  BY DEF Owed, InUse, Obj
<1>3. AllCovered'
  BY <1>2 DEF AllCovered
<1>4. Window'
  BY DEF Window
<1>5. ASSUME NEW x \in Owed \ todo'[r] PROVE copies[x] > 0
  BY <1>1, <1>5 DEF AllCovered, Objects, Owed
<1>6. Beyond'
  BY <1>2, <1>5 DEF Beyond, Window
<1> QED BY <1>3, <1>4, <1>6 DEF Covering

(* An ordered fetch of distinct keys takes the rows before all others.      *)
LEMMA ReadBatchStep ==
    ASSUME Ordered, DistinctKeys, IInv, NEW r \in Runners, ReadBatch(r) PROVE Covering'
<1> USE CopyAssumption DEF IInv, TypeOK
<1>1. PICK B \in SUBSET todo[r] :
          /\ \A x \in B, y \in todo[r] \ B : Key[x] <= Key[y]
          /\ batch' = [batch EXCEPT ![r] = B]
          /\ todo' = [todo EXCEPT ![r] = todo[r] \ B]
  BY DEF ReadBatch
<1>2. /\ pc[r] = "reading" /\ pc' = [pc EXCEPT ![r] = "writing"]
      /\ UNCHANGED <<source, bm, copies>>
  BY DEF ReadBatch
<1>3. Owed' = Owed /\ InUse' = InUse
  BY <1>2 DEF Owed, InUse, Obj
<1>4. AllCovered'
  BY <1>2, <1>3 DEF AllCovered
<1>5. \A x \in B, y \in todo[r] \ B : Key[x] < Key[y]
  BY <1>1 DEF DistinctKeys
<1>6. Window'
  BY <1>1, <1>2, <1>5 DEF Window
<1>7. todo'[r] \cup batch'[r] = todo[r] \cup batch[r]
  BY <1>1, <1>2 DEF Window
<1>8. \A q \in Runners : q # r => todo'[q] = todo[q] /\ batch'[q] = batch[q]
  BY <1>1
<1>9. Beyond'
  BY <1>2, <1>3, <1>7, <1>8 DEF Beyond
<1> QED BY <1>4, <1>6, <1>9 DEF Covering

(* After the write the kept rows of the batch are in the sink.              *)
LEMMA WriteBatchStep ==
    ASSUME IInv, NEW r \in Runners, WriteBatch(r), [Next]_vars PROVE Covering'
<1> USE CopyAssumption DEF IInv, TypeOK
<1>1. /\ copies' = Written(r) /\ UNCHANGED <<source, bm, todo>> /\ pc[r] = "writing"
      /\ \/ pc' = [pc EXCEPT ![r] = "committing"] /\ UNCHANGED batch
         \/ pc' = [pc EXCEPT ![r] = "reading"] /\ batch' = [batch EXCEPT ![r] = {}]
  BY DEF WriteBatch
<1>2. \A x \in Rows : copies[x] > 0 => copies'[x] > 0
  BY CopiesGrow
<1>3. \A x \in batch[r] \cap Kept : copies'[x] > 0
  BY <1>1 DEF Written
<1>4. Owed' = Owed /\ InUse' = InUse /\ Owed \subseteq Rows \cap Kept
  BY <1>1 DEF Owed, InUse, Obj
<1>5. AllCovered'
  BY <1>1, <1>2, <1>4 DEF AllCovered
<1>6. Window'
  BY <1>1 DEF Window
<1>7. ASSUME NEW q \in Runners,
             NEW x \in Owed \ (todo'[q] \cup batch'[q]), copies'[x] = 0,
             NEW y \in todo'[q] \cup batch'[q]
      PROVE  Key[y] < Key[x]
  <2>1. copies[x] = 0 /\ x \in Rows
    BY <1>2, <1>4, <1>7
  <2>2. y \in todo[q] \cup batch[q]
    BY <1>1
  <2>3. x \notin todo[q] \cup batch[q]
    BY <1>1, <1>3, <1>4, <1>7
  <2> QED BY <2>1, <2>2, <2>3 DEF Beyond
<1>8. ASSUME NEW q \in Runners, pc'[q] = "committing", NEW x \in batch'[q] \cap Kept
      PROVE  copies'[x] > 0
  BY <1>1, <1>2, <1>3, <1>8 DEF Beyond
<1> QED BY <1>4, <1>5, <1>6, <1>7, <1>8 DEF Covering, Beyond

(* The greatest key of a written batch is a covered bookmark.               *)
LEMMA NewValueCovered ==
    ASSUME IInv, NEW r \in Runners, pc[r] = "committing", NEW v \in NewValue(batch[r])
    PROVE  \A x \in Owed : Key[x] <= v => copies[x] > 0
<1> USE CopyAssumption DEF IInv, TypeOK
<1>1. PICK y \in batch[r] : v = Key[y]
  BY DEF NewValue
<1>2. Owed \subseteq Rows \cap Kept
  BY DEF Owed
<1>3. ASSUME NEW x \in Owed, Key[x] <= v, copies[x] = 0 PROVE FALSE
  <2>1. CASE x \in batch[r]
    BY <1>2, <1>3, <2>1 DEF Beyond
  <2>2. CASE x \in todo[r]
    BY <1>1, <1>3, <2>2 DEF Window
  <2>3. CASE x \notin todo[r] \cup batch[r]
    BY <1>1, <1>2, <1>3, <2>3 DEF Beyond
  <2> QED BY <2>1, <2>2, <2>3
<1>4. \A x \in Owed : copies[x] \in 0..2
  BY <1>2
<1> QED BY <1>3, <1>4

LEMMA CommitBookmarkStep ==
    ASSUME IInv, NEW r \in Runners, CommitBookmark(r) PROVE Covering'
<1> USE CopyAssumption DEF IInv, TypeOK
<1>1. PICK v \in NewValue(batch[r]) : bm' = [Committed(v) EXCEPT ![Obj(r)] = v]
  BY DEF CommitBookmark
<1>2. /\ pc[r] = "committing" /\ pc' = [pc EXCEPT ![r] = "reading"]
      /\ batch' = [batch EXCEPT ![r] = {}] /\ UNCHANGED <<source, todo, copies>>
  BY DEF CommitBookmark
<1>3. Owed' = Owed /\ InUse' = InUse
  BY <1>2 DEF Owed, InUse, Obj
<1>4. \A o \in InUse : bm'[o] = bm[o] \/ bm'[o] = v
  BY <1>1 DEF Committed, InUse, Obj
<1>8. Owed \subseteq Kept
  BY DEF Owed
<1>5. AllCovered'
  BY <1>2, <1>3, <1>4, NewValueCovered DEF AllCovered
<1>6. Window'
  BY <1>2 DEF Window
<1>7. Beyond'
  BY <1>2, <1>3, <1>8 DEF Beyond, Window
<1> QED BY <1>5, <1>6, <1>7 DEF Covering

LEMMA FinishStep ==
    ASSUME IInv, NEW r \in Runners, Finish(r) PROVE Covering'
<1> USE CopyAssumption DEF IInv, TypeOK, Finish
<1>1. Obj(r) \in InUse
  BY DEF InUse
<1>2. Owed' = Owed /\ InUse' \subseteq InUse
  BY DEF Owed, InUse, Obj
<1>3. \A o \in Objects : bm'[o] = IF o = "store" THEN bm[Obj(r)] ELSE bm[o]
  BY DEF Objects
<1>7. InUse' \subseteq Objects
  BY DEF InUse, Obj, Objects
<1>4. AllCovered'
  BY <1>1, <1>2, <1>3, <1>7 DEF AllCovered
<1>5. Window'
  BY DEF Window
<1>6. Beyond'
  BY <1>2 DEF Beyond, Window
<1> QED BY <1>4, <1>5, <1>6 DEF Covering

(* A failed run leaves at most a covered bookmark behind.                   *)
LEMMA FailStep ==
    ASSUME IInv, NEW r \in Runners, Fail(r), [Next]_vars PROVE Covering'
<1> USE CopyAssumption DEF IInv, TypeOK
<1>1. /\ pc' = [pc EXCEPT ![r] = "idle"] /\ UNCHANGED source
      /\ todo' = [todo EXCEPT ![r] = {}] /\ batch' = [batch EXCEPT ![r] = {}]
  BY DEF Fail
<1>2. \A x \in Rows : copies[x] > 0 => copies'[x] > 0
  BY CopiesGrow
<1>3. Owed' = Owed /\ InUse' \subseteq InUse /\ Owed \subseteq Rows
  BY <1>1 DEF Owed, InUse, Obj
<1>4. bm' = bm \/ (pc[r] = "committing" /\ \E v \in NewValue(batch[r]) : bm' = Committed(v))
  BY DEF Fail
<1>5. AllCovered'
  <2>1. CASE bm' = bm
    BY <1>2, <1>3, <2>1 DEF AllCovered
  <2>2. ASSUME pc[r] = "committing", NEW v \in NewValue(batch[r]), bm' = Committed(v)
        PROVE  AllCovered'
    <3>1. \A o \in InUse : bm'[o] = bm[o] \/ bm'[o] = v
      BY <2>2 DEF Committed, InUse, Obj
    <3> QED BY <1>2, <1>3, <2>2, <3>1, NewValueCovered DEF AllCovered
  <2> QED BY <1>4, <2>1, <2>2
<1>6. Window'
  BY <1>1 DEF Window
<1>7. \A x \in Rows : copies'[x] = 0 => copies[x] = 0
  BY <1>2
<1>8. Beyond'
  BY <1>1, <1>2, <1>3, <1>7 DEF Beyond, Window
<1> QED BY <1>5, <1>6, <1>8 DEF Covering

LEMMA CrashStep ==
    ASSUME IInv, Crash PROVE Covering'
<1> USE CopyAssumption DEF IInv, TypeOK, Crash
<1>1. Owed' = Owed /\ InUse' = {"store"} /\ Owed \subseteq Rows
  BY DEF Owed, InUse
<1>2. bm'["store"] = bm["store"] \/ bm'["store"] = 0
  OBVIOUS
<1>3. AllCovered'
  BY <1>1, <1>2 DEF AllCovered, InUse
<1>4. Window' /\ Beyond'
  BY DEF Window, Beyond
<1> QED BY <1>3, <1>4 DEF Covering

(* The invariant is inductive for ordered reads of distinct keys.           *)
THEOREM OrderedInvariance ==
    ASSUME Ordered, DistinctKeys PROVE Spec => []IInv
<1>1. Init => IInv
  <2> SUFFICES ASSUME Init PROVE IInv
    OBVIOUS
  <2>1. TypeOK
    BY CopyAssumption DEF Init, TypeOK, Phases
  <2>2. AllCovered
    BY CopyAssumption DEF Init, AllCovered, Owed, InUse
  <2>3. Window /\ Beyond
    BY DEF Init, Window, Beyond
  <2> QED BY <2>1, <2>2, <2>3 DEF IInv
<1>2. IInv /\ [Next]_vars => IInv'
  <2> SUFFICES ASSUME IInv, [Next]_vars PROVE Covering'
    BY TypeStep DEF IInv, Covering
  <2>1. CASE UNCHANGED vars
    BY <2>1 DEF vars, IInv, Covering, AllCovered, Window, Beyond, Owed, InUse, Obj
  <2>2. CASE Crash
    BY <2>2, CrashStep
  <2>3. CASE \E x \in Rows : Insert(x)
    BY <2>3, InsertStep
  <2>4. ASSUME NEW r \in Runners, Load(r) \/ RunStep(r) \/ Fail(r) PROVE Covering'
    BY <2>4, LoadStep, OpenCursorStep, CursorRefusedStep, ReadBatchStep, WriteBatchStep,
       CommitBookmarkStep, FinishStep, FailStep DEF RunStep
  <2> QED BY <2>1, <2>2, <2>3, <2>4 DEF Next
<1> QED BY <1>1, <1>2, PTL DEF Spec

(* With ordered reads of distinct keys no run, however many of them fail,   *)
(* crash or overlap, leaves a stored bookmark beyond an unwritten row that  *)
(* is not late.                                                             *)
THEOREM OrderedCopySkipsNothing ==
    ASSUME Ordered, DistinctKeys PROVE Spec => []NothingSkipped
<1>1. IInv => NothingSkipped
  BY DEF IInv, AllCovered, NothingSkipped, InUse
<1> QED BY <1>1, OrderedInvariance, PTL

-----------------------------------------------------------------------------
(* Saved at the end: a bookmark that only successful runs put in the store  *)
(* needs neither ordered reads nor distinct keys.                           *)

(* A run holds rows only between its cursor and its end.                    *)
Holding ==
    \A r \in Runners :
        /\ todo[r] \subseteq present /\ batch[r] \subseteq present
        /\ pc[r] \in {"idle", "loaded"} => todo[r] = {}
        /\ pc[r] \notin {"writing", "committing"} => batch[r] = {}

(* What a run under way has neither written nor in hand lies beyond its own *)
(* bookmark, which may jump back and forth, and beyond all it has in hand.  *)
RunLeavesNothing ==
    \A r \in Runners : pc[r] # "idle" =>
        \A x \in Owed \ (todo[r] \cup batch[r]) : copies[x] = 0 =>
            /\ bm[r] < Key[x]
            /\ \A y \in todo[r] \cup batch[r] : Key[y] < Key[x]

(* The kept rows of a batch whose bookmark is committed are written.        *)
WrittenWhenCommitting ==
    \A r \in Runners :
        pc[r] = "committing" => \A x \in batch[r] \cap Kept : copies[x] > 0

SInv == /\ TypeOK /\ NothingSkipped /\ Holding /\ RunLeavesNothing
        /\ WrittenWhenCommitting

(* No step lets a run hold rows at the wrong time.                          *)
LEMMA HoldingStep == ASSUME TypeOK, Holding, [Next]_vars PROVE Holding'
<1> USE DEF TypeOK, Holding
<1>1. ASSUME NEW x \in Rows, Insert(x) PROVE Holding'
  BY <1>1 DEF Insert
<1>2. ASSUME NEW r \in Runners, Load(r) \/ Finish(r) PROVE Holding'
  BY <1>2 DEF Load, Finish
<1>3. ASSUME NEW r \in Runners, OpenCursor(r) \/ CursorRefused(r) PROVE Holding'
  BY <1>3 DEF OpenCursor, CursorRefused
<1>4. ASSUME NEW r \in Runners, ReadBatch(r) PROVE Holding'
  <2>1. PICK B \in SUBSET todo[r] :
            /\ batch' = [batch EXCEPT ![r] = B]
            /\ todo' = [todo EXCEPT ![r] = todo[r] \ B]
    BY <1>4 DEF ReadBatch
  <2>2. /\ pc[r] = "reading" /\ pc' = [pc EXCEPT ![r] = "writing"]
        /\ UNCHANGED present
    BY <1>4 DEF ReadBatch
  <2> QED BY <2>1, <2>2
<1>5. ASSUME NEW r \in Runners, WriteBatch(r) \/ CommitBookmark(r) PROVE Holding'
  <2>1. /\ UNCHANGED <<present, todo>> /\ pc[r] \in {"writing", "committing"}
        /\ \/ pc' = [pc EXCEPT ![r] = "committing"] /\ UNCHANGED batch
           \/ pc' = [pc EXCEPT ![r] = "reading"] /\ batch' = [batch EXCEPT ![r] = {}]
    BY <1>5 DEF WriteBatch, CommitBookmark
  <2> QED BY <2>1
<1>6. ASSUME NEW r \in Runners, Fail(r) PROVE Holding'
  <2>1. /\ pc' = [pc EXCEPT ![r] = "idle"] /\ UNCHANGED present
        /\ todo' = [todo EXCEPT ![r] = {}] /\ batch' = [batch EXCEPT ![r] = {}]
    BY <1>6 DEF Fail
  <2> QED BY <2>1
<1>7. CASE Crash \/ UNCHANGED vars
  BY <1>7 DEF Crash, vars
<1> QED BY <1>1, <1>2, <1>3, <1>4, <1>5, <1>6, <1>7 DEF Next, RunStep

(* The new bookmark is the key of a row of the batch and the greatest.      *)
LEMMA NewValueOfBatch ==
    ASSUME TypeOK, NEW r \in Runners, NEW v \in NewValue(batch[r])
    PROVE  /\ v \in Nat /\ \E y \in batch[r] : v = Key[y]
           /\ \A x \in batch[r] : Key[x] <= v
BY CopyAssumption DEF TypeOK, NewValue

(* What is written stays written while its bookmark is under way.           *)
LEMMA WrittenStep ==
    ASSUME TypeOK, Holding, WrittenWhenCommitting, [Next]_vars
    PROVE  WrittenWhenCommitting'
<1> USE DEF TypeOK
<1>1. \A x \in Rows : copies[x] > 0 => copies'[x] > 0
  BY CopiesGrow DEF TypeOK
<1>2. ASSUME NEW r \in Runners, WriteBatch(r) PROVE WrittenWhenCommitting'
  <2>1. /\ copies' = Written(r) /\ UNCHANGED <<todo>>
        /\ \/ pc' = [pc EXCEPT ![r] = "committing"] /\ UNCHANGED batch
           \/ pc' = [pc EXCEPT ![r] = "reading"] /\ batch' = [batch EXCEPT ![r] = {}]
    BY <1>2 DEF WriteBatch
  <2>2. \A x \in batch[r] \cap Kept : copies'[x] > 0
    BY <2>1 DEF Written
  <2> QED BY <1>1, <2>1, <2>2 DEF WrittenWhenCommitting
<1>3. ASSUME NEW q \in Runners, pc'[q] = "committing",
             pc[q] = "committing" /\ batch'[q] = batch[q]
      PROVE  \A x \in batch'[q] \cap Kept : copies'[x] > 0
  BY <1>1, <1>3 DEF WrittenWhenCommitting
<1>4. ASSUME NEW r \in Runners, NEW q \in Runners, pc'[q] = "committing",
             \/ Load(r) \/ OpenCursor(r) \/ CursorRefused(r) \/ ReadBatch(r)
             \/ CommitBookmark(r) \/ Finish(r) \/ Fail(r)
      PROVE  pc[q] = "committing" /\ batch'[q] = batch[q]
  BY <1>4 DEF Load, OpenCursor, CursorRefused, ReadBatch, CommitBookmark, Finish, Fail
<1>5. CASE Crash \/ UNCHANGED vars \/ \E x \in Rows : Insert(x)
  BY <1>5 DEF Crash, vars, Insert, WrittenWhenCommitting
<1> QED
  BY <1>2, <1>3, <1>4, <1>5 DEF Next, RunStep, WrittenWhenCommitting

(* A step of any run leaves nothing behind in a run, if only a complete     *)
(* run writes to the store.                                                 *)
LEMMA RunLeavesNothingStep ==
    ASSUME ~SharedObject, ~SinkCommits, SInv, [Next]_vars
    PROVE  NothingSkipped' /\ RunLeavesNothing'
<1> USE CopyAssumption DEF SInv, TypeOK
<1>1. \A x \in Rows : copies'[x] = 0 => copies[x] = 0
  BY CopiesGrow DEF TypeOK
<1>2. \A r \in Runners : Obj(r) = r /\ r # "store"
  BY DEF Obj
<1>0. Owed \subseteq Rows \cap Kept /\ Owed \subseteq present
  BY DEF Owed
<1>13. UNCHANGED source => Owed' = Owed
  BY DEF Owed
<1>3. ASSUME NEW x \in Rows, Insert(x) PROVE NothingSkipped' /\ RunLeavesNothing'
  <2>1. /\ UNCHANGED <<bm, pc, todo, batch, copies>>
        /\ Owed' = Owed \/ (Owed' = Owed \cup {x} /\ ~Passed(x))
    BY <1>3, NewRowIsBeyond DEF TypeOK
  <2>2. ASSUME ~Passed(x)
        PROVE  /\ bm["store"] < Key[x]
               /\ \A r \in Runners : pc[r] # "idle" =>
                     /\ bm[r] < Key[x]
                     /\ \A y \in todo[r] \cup batch[r] : Key[y] < Key[x]
    <3>1. ASSUME NEW r \in Runners, pc[r] # "idle", NEW y \in todo[r] \cup batch[r]
          PROVE  Key[y] < Key[x]
      <4>1. y \in Rows /\ ~(Key[x] <= Key[y])
        BY <2>2, <3>1 DEF Passed
      <4> QED BY <4>1
    <3> QED BY <1>2, <2>2, <3>1 DEF Passed
  <2>3. NothingSkipped'
    BY <2>1, <2>2 DEF NothingSkipped
  <2>4. RunLeavesNothing'
    BY <2>1, <2>2 DEF RunLeavesNothing
  <2> QED BY <2>3, <2>4
<1>4. ASSUME NEW r \in Runners, Load(r) PROVE NothingSkipped' /\ RunLeavesNothing'
  <2>1. /\ bm' = [bm EXCEPT ![r] = bm["store"]] /\ pc[r] = "idle"
        /\ pc' = [pc EXCEPT ![r] = "loaded"]
        /\ UNCHANGED <<source, todo, batch, copies>>
    BY <1>0, <1>13, <1>2, <1>4 DEF Load
  <2>2. NothingSkipped'
    BY <1>0, <1>13, <1>2, <2>1 DEF NothingSkipped
  <2>3. bm'[r] = bm["store"] /\ todo[r] = {} /\ batch[r] = {}
    BY <1>0, <1>13, <2>1 DEF Holding
  <2>4. \A x \in Owed : copies[x] = 0 => bm["store"] < Key[x]
    BY <1>0 DEF NothingSkipped
  <2>5. RunLeavesNothing'
    BY <1>0, <1>13, <2>1, <2>3, <2>4 DEF RunLeavesNothing
  <2> QED BY <1>0, <1>13, <2>2, <2>5
<1>5. ASSUME NEW r \in Runners, OpenCursor(r)
      PROVE  NothingSkipped' /\ RunLeavesNothing'
  <2>1. /\ todo' = [todo EXCEPT ![r] = {x \in present : Key[x] > bm[r]}]
        /\ pc[r] = "loaded" /\ pc' = [pc EXCEPT ![r] = "reading"]
        /\ UNCHANGED <<source, bm, batch, copies>>
    BY <1>0, <1>13, <1>2, <1>5 DEF OpenCursor
  <2>2. NothingSkipped'
    BY <1>0, <1>13, <2>1 DEF NothingSkipped
  <2>3. todo[r] = {} /\ batch[r] = {}
    BY <1>0, <1>13, <2>1 DEF Holding
  <2>4. \A x \in Owed \ todo'[r] : copies[x] # 0
    BY <1>0, <1>13, <2>1, <2>3 DEF RunLeavesNothing
  <2>5. RunLeavesNothing'
    BY <1>0, <1>13, <2>1, <2>4 DEF RunLeavesNothing
  <2> QED BY <1>0, <1>13, <2>2, <2>5
<1>6. ASSUME NEW r \in Runners, ReadBatch(r)
      PROVE  NothingSkipped' /\ RunLeavesNothing'
  <2>1. PICK B \in SUBSET todo[r] :
            /\ batch' = [batch EXCEPT ![r] = B]
            /\ todo' = [todo EXCEPT ![r] = todo[r] \ B]
    BY <1>0, <1>13, <1>6 DEF ReadBatch
  <2>2. /\ pc[r] = "reading" /\ pc' = [pc EXCEPT ![r] = "writing"]
        /\ UNCHANGED <<source, bm, copies>>
    BY <1>0, <1>13, <1>6 DEF ReadBatch
  <2>3. todo'[r] \cup batch'[r] = todo[r] \cup batch[r]
    BY <1>0, <1>13, <2>1, <2>2 DEF Holding
  <2>4. \A q \in Runners : q # r => todo'[q] = todo[q] /\ batch'[q] = batch[q]
    BY <1>0, <1>13, <2>1
  <2>5. RunLeavesNothing'
    BY <1>0, <1>13, <2>2, <2>3, <2>4 DEF RunLeavesNothing
  <2> QED BY <1>0, <1>13, <2>2, <2>5 DEF NothingSkipped
<1>7. ASSUME NEW r \in Runners, WriteBatch(r)
      PROVE  NothingSkipped' /\ RunLeavesNothing'
  <2>1. /\ copies' = Written(r) /\ UNCHANGED <<source, bm, todo>>
        /\ pc[r] = "writing"
        /\ \/ pc' = [pc EXCEPT ![r] = "committing"] /\ UNCHANGED batch
           \/ pc' = [pc EXCEPT ![r] = "reading"] /\ batch' = [batch EXCEPT ![r] = {}]
    BY <1>0, <1>13, <1>7 DEF WriteBatch
  <2>2. \A x \in batch[r] \cap Kept : copies'[x] # 0
    BY <1>0, <1>13, <2>1 DEF Written
  <2>3. ASSUME NEW q \in Runners, pc'[q] # "idle",
               NEW x \in Owed \ (todo'[q] \cup batch'[q]),
               copies'[x] = 0
        PROVE  /\ bm[q] < Key[x]
               /\ \A y \in todo'[q] \cup batch'[q] : Key[y] < Key[x]
    <3>1. copies[x] = 0 /\ pc[q] # "idle"
      BY <1>0, <1>13, <1>1, <2>1, <2>3
    <3>2. x \notin todo[q] \cup batch[q]
      BY <1>0, <1>13, <2>1, <2>2, <2>3
    <3>3. todo'[q] \cup batch'[q] \subseteq todo[q] \cup batch[q]
      BY <1>0, <1>13, <2>1
    <3> QED BY <3>1, <3>2, <3>3 DEF RunLeavesNothing
  <2>4. RunLeavesNothing'
    BY <1>0, <1>13, <2>1, <2>3 DEF RunLeavesNothing
  <2>5. NothingSkipped'
    BY <1>0, <1>13, <1>1, <2>1, CopiesGrow DEF NothingSkipped
  <2> QED BY <1>0, <1>13, <2>4, <2>5
<1>8. ASSUME NEW r \in Runners, CommitBookmark(r)
      PROVE  NothingSkipped' /\ RunLeavesNothing'
  <2>1. PICK v \in NewValue(batch[r]) : bm' = [bm EXCEPT ![r] = v]
    BY <1>0, <1>13, <1>2, <1>8 DEF CommitBookmark, Committed
  <2>2. /\ pc[r] = "committing" /\ pc' = [pc EXCEPT ![r] = "reading"]
        /\ batch' = [batch EXCEPT ![r] = {}] /\ UNCHANGED <<source, todo, copies>>
    BY <1>0, <1>13, <1>8 DEF CommitBookmark
  <2>3. NothingSkipped'
    BY <1>0, <1>13, <1>2, <2>1, <2>2 DEF NothingSkipped
  <2>4. \E y \in batch[r] : v = Key[y]
    BY NewValueOfBatch
  <2>5. ASSUME NEW x \in Owed \ todo[r], copies[x] = 0
        PROVE  v < Key[x] /\ \A y \in todo[r] : Key[y] < Key[x]
    <3>1. x \notin batch[r]
      BY <1>0, <1>13, <2>2, <2>5 DEF WrittenWhenCommitting
    <3> QED BY <1>0, <1>13, <2>2, <2>4, <2>5, <3>1 DEF RunLeavesNothing
  <2>6. RunLeavesNothing'
    BY <1>0, <1>13, <2>1, <2>2, <2>5 DEF RunLeavesNothing
  <2> QED BY <1>0, <1>13, <2>3, <2>6
<1>9. ASSUME NEW r \in Runners, Finish(r)
      PROVE  NothingSkipped' /\ RunLeavesNothing'
  <2>1. /\ bm' = [bm EXCEPT !["store"] = bm[r]] /\ pc[r] = "reading"
        /\ pc' = [pc EXCEPT ![r] = "idle"] /\ todo[r] = {}
        /\ UNCHANGED <<source, todo, batch, copies>>
    BY <1>0, <1>13, <1>2, <1>9 DEF Finish
  <2>2. \A x \in Owed : copies[x] = 0 => bm[r] < Key[x]
    BY <1>0, <1>13, <2>1 DEF RunLeavesNothing, Holding
  <2>3. NothingSkipped'
    BY <1>0, <1>13, <2>1, <2>2 DEF NothingSkipped
  <2>4. RunLeavesNothing'
    BY <1>0, <1>13, <1>2, <2>1 DEF RunLeavesNothing
  <2> QED BY <1>0, <1>13, <2>3, <2>4
<1>10. ASSUME NEW r \in Runners, Fail(r)
       PROVE  NothingSkipped' /\ RunLeavesNothing'
  <2>1. /\ pc' = [pc EXCEPT ![r] = "idle"] /\ UNCHANGED source
        /\ todo' = [todo EXCEPT ![r] = {}] /\ batch' = [batch EXCEPT ![r] = {}]
        /\ bm' = bm
    BY <1>0, <1>13, <1>10 DEF Fail, Committed
  <2>2. NothingSkipped'
    BY <1>0, <1>13, <2>1, CopiesGrow DEF NothingSkipped
  <2>3. RunLeavesNothing'
    BY <1>0, <1>13, <1>1, <2>1 DEF RunLeavesNothing
  <2> QED BY <1>0, <1>13, <2>2, <2>3
<1>14. ASSUME NEW r \in Runners, CursorRefused(r)
       PROVE  NothingSkipped' /\ RunLeavesNothing'
  BY <1>13, <1>14 DEF CursorRefused, NothingSkipped, RunLeavesNothing
<1>11. CASE Crash
  BY <1>0, <1>13, <1>11 DEF Crash, NothingSkipped, RunLeavesNothing
<1>12. CASE UNCHANGED vars
  BY <1>0, <1>13, <1>12 DEF vars, NothingSkipped, RunLeavesNothing
<1> QED
  BY <1>0, <1>13, <1>3, <1>4, <1>5, <1>6, <1>7, <1>8, <1>9, <1>10, <1>11, <1>12,
     <1>14 DEF Next, RunStep

(* The invariant is inductive for a bookmark saved at the end.              *)
THEOREM SavedAtEndInvariance ==
    ASSUME ~SharedObject, ~SinkCommits PROVE Spec => []SInv
<1>1. Init => SInv
  <2> SUFFICES ASSUME Init PROVE SInv
    OBVIOUS
  <2>1. TypeOK
    BY CopyAssumption DEF Init, TypeOK, Phases
  <2>2. NothingSkipped
    BY CopyAssumption DEF Init, NothingSkipped, Owed
  <2>3. Holding /\ RunLeavesNothing /\ WrittenWhenCommitting
    BY DEF Init, Holding, RunLeavesNothing, WrittenWhenCommitting
  <2> QED BY <2>1, <2>2, <2>3 DEF SInv
<1>2. SInv /\ [Next]_vars => SInv'
  <2> SUFFICES ASSUME SInv, [Next]_vars PROVE SInv'
    OBVIOUS
  <2>1. TypeOK' /\ Holding' /\ WrittenWhenCommitting'
    BY TypeStep, HoldingStep, WrittenStep DEF SInv
  <2> QED BY <2>1, RunLeavesNothingStep DEF SInv
<1> QED BY <1>1, <1>2, PTL DEF Spec

(* If neither the sink nor the store learns a bookmark before the run has   *)
(* succeeded, the saved bookmark skips no row, though a tie may lie across  *)
(* batches, batches come in any order, and runs overlap and fail.           *)
THEOREM SavedAtEndSkipsNothing ==
    ASSUME ~SharedObject, ~SinkCommits PROVE Spec => []NothingSkipped
<1>1. SInv => NothingSkipped
  BY DEF SInv
<1> QED BY <1>1, SavedAtEndInvariance, PTL

-----------------------------------------------------------------------------
(* One runner and ordered reads: the stored bookmark only grows, and rows   *)
(* are written once.                                                        *)

OneRunner == \E r \in Runners : Runners = {r}

(* The bookmark of the run is ahead of the stored one, the rows it has in   *)
(* hand are not before its bookmark, and it fetches them in order.          *)
Ahead ==
    \A r \in Runners :
        /\ pc[r] # "idle" => bm["store"] <= bm[Obj(r)]
        /\ \A y \in todo[r] \cup batch[r] : bm[Obj(r)] <= Key[y]
        /\ \A x \in batch[r], y \in todo[r] : Key[x] <= Key[y]

(* A run that has not opened its cursor starts from the stored bookmark.    *)
StartsAtStore == \A r \in Runners : pc[r] = "loaded" => bm[Obj(r)] = bm["store"]

HInv == TypeOK /\ Holding /\ Ahead /\ StartsAtStore

(* A new bookmark is not before the old one.                                *)
LEMMA NewValueAhead ==
    ASSUME HInv, NEW r \in Runners, pc[r] = "committing", NEW v \in NewValue(batch[r])
    PROVE  /\ bm["store"] <= bm[Obj(r)] /\ bm[Obj(r)] <= v
           /\ \A y \in todo[r] : v <= Key[y]
<1>1. PICK x \in batch[r] : v = Key[x]
  BY NewValueOfBatch DEF HInv
<1> QED BY <1>1 DEF HInv, Ahead

LEMMA AheadStep ==
    ASSUME Ordered, OneRunner, HInv, [Next]_vars PROVE Ahead'
<1> USE CopyAssumption DEF HInv, TypeOK
<1>1. \A r \in Runners : Obj(r) \in Objects /\ (Obj(r) = "store" \/ Obj(r) = r)
  BY DEF Obj, Objects
<1>2. bm \in [Objects -> Nat]
  BY DEF Objects
<1>3. ASSUME NEW x \in Rows, Insert(x) PROVE Ahead'
  BY <1>3 DEF Insert, Ahead, Obj
<1>4. ASSUME NEW r \in Runners, Load(r) PROVE Ahead'
  <2>1. todo'[r] = {} /\ batch'[r] = {} /\ bm'["store"] = bm'[Obj(r)]
    BY <1>1, <1>2, <1>4 DEF Load, Holding, Objects
  <2>2. bm'["store"] \in Nat
    BY <1>4 DEF Load
  <2>3. \A q \in Runners : q = r
    BY DEF OneRunner
  <2> QED BY <2>1, <2>2, <2>3 DEF Ahead, Obj
<1>5. ASSUME NEW r \in Runners, OpenCursor(r) PROVE Ahead'
  <2>1. /\ todo'[r] = {x \in present : Key[x] > bm[Obj(r)]} /\ batch'[r] = {}
        /\ bm' = bm /\ pc[r] # "idle"
    BY <1>5 DEF OpenCursor, Holding
  <2>2. \A y \in todo'[r] : bm[Obj(r)] <= Key[y]
    BY <1>1, <1>2, <2>1
  <2>3. \A q \in Runners : q = r
    BY DEF OneRunner
  <2> QED BY <2>1, <2>2, <2>3 DEF Ahead, Obj
<1>6. ASSUME NEW r \in Runners, ReadBatch(r) PROVE Ahead'
  <2>1. PICK B \in SUBSET todo[r] :
            /\ \A x \in B, y \in todo[r] \ B : Key[x] <= Key[y]
            /\ batch' = [batch EXCEPT ![r] = B]
            /\ todo' = [todo EXCEPT ![r] = todo[r] \ B]
    BY <1>6 DEF ReadBatch
  <2>2. bm' = bm /\ pc[r] # "idle"
    BY <1>6 DEF ReadBatch
  <2>3. \A q \in Runners : q = r
    BY DEF OneRunner
  <2> QED BY <2>1, <2>2, <2>3 DEF Ahead, Obj
<1>7. ASSUME NEW r \in Runners, WriteBatch(r) PROVE Ahead'
  <2>1. /\ UNCHANGED <<bm, todo>> /\ pc[r] # "idle"
        /\ batch' = batch \/ batch' = [batch EXCEPT ![r] = {}]
    BY <1>7 DEF WriteBatch
  <2>2. \A q \in Runners : q = r
    BY DEF OneRunner
  <2> QED BY <2>1, <2>2 DEF Ahead, Obj
<1>8. ASSUME NEW r \in Runners, CommitBookmark(r) PROVE Ahead'
  <2>1. PICK v \in NewValue(batch[r]) : bm' = [Committed(v) EXCEPT ![Obj(r)] = v]
    BY <1>8 DEF CommitBookmark
  <2>2. /\ pc[r] = "committing" /\ batch'[r] = {} /\ todo' = todo
    BY <1>8 DEF CommitBookmark
  <2>3. /\ bm["store"] <= v /\ v \in Nat /\ \A y \in todo[r] : v <= Key[y]
    BY <1>2, <1>1, <2>1, <2>2, NewValueAhead, NewValueOfBatch DEF Objects
  <2>4. bm'[Obj(r)] = v /\ (bm'["store"] = v \/ bm'["store"] = bm["store"])
    BY <1>1, <1>2, <2>1 DEF Committed, Objects
  <2>5. \A q \in Runners : q = r
    BY DEF OneRunner
  <2> QED BY <2>2, <2>3, <2>4, <2>5 DEF Ahead, Obj
<1>9. ASSUME NEW r \in Runners, Finish(r) \/ Fail(r) PROVE Ahead'
  <2>1. todo'[r] = {} /\ batch'[r] = {} /\ pc'[r] = "idle"
    BY <1>9 DEF Finish, Fail, Holding
  <2>2. \A q \in Runners : q = r
    BY DEF OneRunner
  <2> QED BY <2>1, <2>2 DEF Ahead
<1>10. CASE Crash
  BY <1>10 DEF Crash, Ahead
<1>11. CASE UNCHANGED vars
  BY <1>11 DEF vars, Ahead, Obj
<1>12. ASSUME NEW r \in Runners, CursorRefused(r) PROVE Ahead'
  BY <1>12 DEF CursorRefused, Ahead, Obj
<1> QED
  BY <1>3, <1>4, <1>5, <1>6, <1>7, <1>8, <1>9, <1>10, <1>11, <1>12 DEF Next, RunStep

LEMMA StartStep ==
    ASSUME OneRunner, HInv, [Next]_vars PROVE StartsAtStore'
<1> USE CopyAssumption DEF HInv, TypeOK
<1>1. ASSUME NEW r \in Runners, Load(r) PROVE StartsAtStore'
  <2>1. bm'[Obj(r)] = bm'["store"] /\ \A q \in Runners : q = r
    BY <1>1 DEF Load, Obj, OneRunner
  <2> QED BY <2>1 DEF StartsAtStore, Obj
<1>2. ASSUME NEW r \in Runners,
             \/ OpenCursor(r) \/ CursorRefused(r) \/ ReadBatch(r) \/ WriteBatch(r)
             \/ CommitBookmark(r) \/ Finish(r) \/ Fail(r)
      PROVE  StartsAtStore'
  <2>1. pc'[r] # "loaded" /\ \A q \in Runners : q = r
    BY <1>2 DEF OpenCursor, CursorRefused, ReadBatch, WriteBatch, CommitBookmark,
                Finish, Fail, OneRunner
  <2> QED BY <2>1 DEF StartsAtStore
<1>3. CASE Crash
  BY <1>3 DEF Crash, StartsAtStore
<1>4. CASE UNCHANGED vars \/ \E x \in Rows : Insert(x)
  BY <1>4 DEF vars, Insert, StartsAtStore, Obj
<1> QED BY <1>1, <1>2, <1>3, <1>4 DEF Next, RunStep

LEMMA AheadInvariance == ASSUME Ordered, OneRunner PROVE Spec => []HInv
<1>1. Init => HInv
  BY CopyAssumption DEF Init, HInv, TypeOK, Phases, Holding, Ahead, StartsAtStore
<1>2. HInv /\ [Next]_vars => HInv'
  BY TypeStep, HoldingStep, AheadStep, StartStep DEF HInv
<1> QED BY <1>1, <1>2, PTL DEF Spec

(* No step moves the stored bookmark backwards, a failing one included;     *)
(* only the crash of an in-memory store resets it.                          *)
LEMMA StoreGrows ==
    ASSUME HInv, [Next]_vars
    PROVE  bm'["store"] >= bm["store"] \/ (SharedObject /\ bm'["store"] = 0)
<1> USE CopyAssumption DEF HInv, TypeOK
<1>1. bm \in [Objects -> Nat] /\ \A r \in Runners : Obj(r) \in Objects
  BY DEF Objects, Obj
<1>2. CASE UNCHANGED bm
  BY <1>1, <1>2 DEF Objects
<1>3. ASSUME NEW r \in Runners, Load(r) PROVE bm'["store"] = bm["store"]
  BY <1>1, <1>3 DEF Load, Objects
<1>4. ASSUME NEW r \in Runners, pc[r] = "committing", NEW v \in NewValue(batch[r]),
             bm'["store"] = v \/ bm'["store"] = bm["store"]
      PROVE  bm'["store"] >= bm["store"]
  BY <1>1, <1>4, NewValueAhead, NewValueOfBatch DEF Objects
<1>5. ASSUME NEW r \in Runners, CommitBookmark(r) PROVE bm'["store"] >= bm["store"]
  <2>1. PICK v \in NewValue(batch[r]) : bm' = [Committed(v) EXCEPT ![Obj(r)] = v]
    BY <1>5 DEF CommitBookmark
  <2>2. bm'["store"] = v \/ bm'["store"] = bm["store"]
    BY <1>1, <2>1 DEF Committed, Objects
  <2> QED BY <1>4, <1>5, <2>2 DEF CommitBookmark
<1>6. ASSUME NEW r \in Runners, Finish(r) PROVE bm'["store"] >= bm["store"]
  <2>1. bm'["store"] = bm[Obj(r)] /\ pc[r] # "idle"
    BY <1>1, <1>6 DEF Finish, Objects
  <2> QED BY <1>1, <2>1 DEF Ahead, Objects
<1>7. ASSUME NEW r \in Runners, Fail(r) PROVE bm'["store"] >= bm["store"]
  <2>1. CASE bm' = bm
    BY <1>1, <2>1 DEF Objects
  <2>2. ASSUME pc[r] = "committing", NEW v \in NewValue(batch[r]), bm' = Committed(v)
        PROVE  bm'["store"] >= bm["store"]
    BY <1>1, <1>4, <2>2 DEF Committed, Objects
  <2> QED BY <1>7, <2>1, <2>2 DEF Fail
<1>8. CASE Crash
  BY <1>1, <1>8 DEF Crash, Objects
<1>9. ASSUME NEW r \in Runners,
             OpenCursor(r) \/ CursorRefused(r) \/ ReadBatch(r) \/ WriteBatch(r)
      PROVE  UNCHANGED bm
  BY <1>9 DEF OpenCursor, CursorRefused, ReadBatch, WriteBatch
<1>10. CASE UNCHANGED vars \/ \E x \in Rows : Insert(x)
  BY <1>2, <1>10 DEF vars, Insert
<1> QED
  BY <1>2, <1>3, <1>5, <1>6, <1>7, <1>8, <1>9, <1>10, <1>1 DEF Next, RunStep, Objects

(* The stored bookmark of a pipe that one thread at a time runs over an     *)
(* ordered query is a high-water mark, for both kinds of store and of sink, *)
(* ties and failures included.                                              *)
THEOREM BookmarkNeverFallsBack ==
    ASSUME Ordered, OneRunner PROVE Spec => HighWaterMark
<1>1. HInv /\ [Next]_vars =>
        [bm'["store"] >= bm["store"] \/ (SharedObject /\ bm'["store"] = 0)]_vars
  BY StoreGrows
<1> QED BY <1>1, AheadInvariance, PTL DEF Spec, HighWaterMark

(* While nothing has failed: what the run has in hand is not written, apart *)
(* from the batch whose bookmark is under way, and what is written lies at  *)
(* or below the bookmark that the next cursor starts from.                  *)
Once ==
    failures = 0 => \A r \in Runners :
        /\ \A x \in Rows : copies[x] <= 1
        /\ \A x \in todo[r] : copies[x] = 0 /\ x \notin batch[r]
        /\ pc[r] = "writing" => \A x \in batch[r] : copies[x] = 0
        /\ \A x \in Rows : copies[x] > 0 =>
              \/ pc[r] = "idle" /\ Key[x] <= bm["store"]
              \/ pc[r] # "idle" /\ Key[x] <= bm[Obj(r)]
              \/ pc[r] = "committing" /\ x \in batch[r]

DInv == HInv /\ Once

LEMMA OnceStep ==
    ASSUME Ordered, OneRunner, DInv, [Next]_vars PROVE Once'
<1> USE CopyAssumption DEF DInv, HInv, TypeOK
<1> SUFFICES ASSUME failures' = 0, NEW q \in Runners
    PROVE  /\ \A x \in Rows : copies'[x] <= 1
           /\ \A x \in todo'[q] : copies'[x] = 0 /\ x \notin batch'[q]
           /\ pc'[q] = "writing" => \A x \in batch'[q] : copies'[x] = 0
           /\ \A x \in Rows : copies'[x] > 0 =>
                 \/ pc'[q] = "idle" /\ Key[x] <= bm'["store"]
                 \/ pc'[q] # "idle" /\ Key[x] <= bm'[Obj(q)]
                 \/ pc'[q] = "committing" /\ x \in batch'[q]
  BY DEF Once, Obj
<1>1. bm \in [Objects -> Nat] /\ Obj(q) \in Objects
  BY DEF Objects, Obj
<1>2. \A r \in Runners : r = q
  BY DEF OneRunner
<1>3. failures = 0 =>
         /\ \A x \in Rows : copies[x] <= 1
         /\ \A x \in todo[q] : copies[x] = 0 /\ x \notin batch[q]
         /\ pc[q] = "writing" => \A x \in batch[q] : copies[x] = 0
         /\ \A x \in Rows : copies[x] > 0 =>
               \/ pc[q] = "idle" /\ Key[x] <= bm["store"]
               \/ pc[q] # "idle" /\ Key[x] <= bm[Obj(q)]
               \/ pc[q] = "committing" /\ x \in batch[q]
  BY DEF Once
<1>4. ASSUME NEW x \in Rows, Insert(x) PROVE Once'
  BY <1>4 DEF Insert, Once, Obj
<1>5. CASE Load(q)
  <2>1. /\ todo' = todo /\ batch' = batch /\ copies' = copies /\ failures' = failures
        /\ pc'[q] = "loaded" /\ bm'[Obj(q)] = bm["store"] /\ pc[q] = "idle"
    BY <1>1, <1>5 DEF Load, Objects
  <2> QED BY <1>3, <2>1
<1>6. CASE OpenCursor(q)
  <2>1. /\ todo'[q] = {x \in present : Key[x] > bm[Obj(q)]} /\ batch'[q] = {}
        /\ copies' = copies /\ failures' = failures /\ bm' = bm
        /\ pc[q] = "loaded" /\ pc'[q] = "reading"
    BY <1>6 DEF OpenCursor, Holding
  <2>2. \A x \in todo'[q] : copies[x] = 0
    BY <1>1, <1>3, <2>1
  <2> QED BY <1>3, <2>1, <2>2
<1>7. CASE ReadBatch(q)
  <2>1. PICK B \in SUBSET todo[q] :
            /\ batch' = [batch EXCEPT ![q] = B]
            /\ todo' = [todo EXCEPT ![q] = todo[q] \ B]
    BY <1>7 DEF ReadBatch
  <2>2. /\ copies' = copies /\ failures' = failures /\ bm' = bm
        /\ pc[q] = "reading" /\ pc'[q] = "writing"
    BY <1>7 DEF ReadBatch
  <2> QED BY <1>3, <2>1, <2>2
<1>8. CASE WriteBatch(q)
  <2>1. /\ copies' = Written(q) /\ failures' = failures /\ bm' = bm /\ todo' = todo
        /\ pc[q] = "writing"
        /\ \/ pc'[q] = "committing" /\ batch' = batch
           \/ /\ pc'[q] = "reading" /\ batch'[q] = {}
              /\ batch[q] \cap Kept = {} \/ bm[Obj(q)] \in NewValue(batch[q])
    BY <1>8 DEF WriteBatch, Advances
  <2>2. \A x \in Rows : copies'[x] = IF x \in batch[q] \cap Kept THEN 1 ELSE copies[x]
    BY <1>3, <2>1 DEF Written
  <2>3. \A x \in todo[q] : x \in Rows /\ copies'[x] = 0
    BY <1>3, <2>1, <2>2
  <2>4. ASSUME NEW x \in Rows, copies'[x] > 0, pc'[q] # "committing"
        PROVE  Key[x] <= bm[Obj(q)]
    <3>1. CASE x \in batch[q] \cap Kept
      BY <2>1, <2>4, <3>1, NewValueOfBatch
    <3>2. CASE x \notin batch[q] \cap Kept
      BY <1>3, <2>1, <2>2, <2>4, <3>2
    <3> QED BY <3>1, <3>2
  <2>5. ASSUME NEW x \in Rows, copies'[x] > 0, pc'[q] = "committing"
        PROVE  Key[x] <= bm[Obj(q)] \/ x \in batch'[q]
    BY <1>3, <2>1, <2>2, <2>5
  <2>6. \A x \in Rows : copies'[x] <= 1
    BY <1>3, <2>1, <2>2
  <2> QED BY <2>1, <2>3, <2>4, <2>5, <2>6, <1>3
<1>9. CASE CommitBookmark(q)
  <2>1. PICK v \in NewValue(batch[q]) : bm' = [Committed(v) EXCEPT ![Obj(q)] = v]
    BY <1>9 DEF CommitBookmark
  <2>2. /\ pc[q] = "committing" /\ pc'[q] = "reading" /\ batch'[q] = {}
        /\ todo' = todo /\ copies' = copies /\ failures' = failures
    BY <1>9 DEF CommitBookmark
  <2>3. bm[Obj(q)] <= v /\ v \in Nat /\ \A x \in batch[q] : Key[x] <= v
    BY <2>1, <2>2, NewValueAhead, NewValueOfBatch
  <2>4. bm'[Obj(q)] = v
    BY <1>1, <2>1 DEF Committed, Objects
  <2>5. ASSUME NEW x \in Rows, copies[x] > 0 PROVE Key[x] <= v
    BY <1>1, <1>3, <2>2, <2>3, <2>5
  <2> QED BY <1>3, <2>2, <2>4, <2>5
<1>10. CASE Finish(q)
  <2>1. /\ todo' = todo /\ batch' = batch /\ copies' = copies /\ failures' = failures
        /\ pc[q] = "reading" /\ pc'[q] = "idle" /\ bm'["store"] = bm[Obj(q)]
    BY <1>1, <1>10 DEF Finish, Objects
  <2> QED BY <1>3, <2>1
<1>11. CASE Fail(q) \/ Crash
  BY <1>11 DEF Fail, Crash
<1>14. CASE CursorRefused(q)
  <2>1. /\ UNCHANGED <<bm, todo, batch, copies, failures>> /\ pc'[q] = "idle"
        /\ pc[q] = "loaded" /\ todo[q] = {} /\ batch[q] = {} /\ bm[Obj(q)] = bm["store"]
    BY <1>14 DEF CursorRefused, Holding, StartsAtStore
  <2> QED BY <1>3, <2>1
<1>12. CASE UNCHANGED vars
  BY <1>3, <1>12 DEF vars
<1>13. Once' =>
           /\ \A x \in Rows : copies'[x] <= 1
           /\ \A x \in todo'[q] : copies'[x] = 0 /\ x \notin batch'[q]
           /\ pc'[q] = "writing" => \A x \in batch'[q] : copies'[x] = 0
           /\ \A x \in Rows : copies'[x] > 0 =>
                 \/ pc'[q] = "idle" /\ Key[x] <= bm'["store"]
                 \/ pc'[q] # "idle" /\ Key[x] <= bm'[Obj(q)]
                 \/ pc'[q] = "committing" /\ x \in batch'[q]
  BY DEF Once, Obj
<1> QED
  BY <1>2, <1>4, <1>5, <1>6, <1>7, <1>8, <1>9, <1>10, <1>11, <1>12, <1>13, <1>14
     DEF Next, RunStep

(* While no run of a pipe has failed, runs of it one after the other over   *)
(* an ordered query write every row at most once, whatever ties its column  *)
(* has and wherever the borders of the batches fall.                        *)
THEOREM NoFailureNoDuplicate ==
    ASSUME Ordered, OneRunner PROVE Spec => []DuplicatesNeedFailure
<1>1. Init => Once
  BY CopyAssumption DEF Init, Once
<1>2. HInv /\ Once /\ [Next]_vars => Once'
  BY OnceStep DEF DInv
<1>3. Once => DuplicatesNeedFailure
  BY DEF Once, DuplicatesNeedFailure, OneRunner
<1> QED BY <1>1, <1>2, <1>3, AheadInvariance, PTL DEF Spec
=============================================================================
