--------------------------- MODULE SegmentLedger ---------------------------
(***************************************************************************)
(* What a durable opus promises, whatever waves, tasks, retries, crashes   *)
(* and restarts lie underneath: a segment's pipe completes only after the  *)
(* pipes of all its dependencies, a SUCCESS is written to the run state    *)
(* only for a segment that completed, and as long as no call of the store  *)
(* has failed, a SUCCESS once written is never taken back.                 *)
(* OpusRun implements this module when failures stop the opus.             *)
(***************************************************************************)
CONSTANTS Segments,       \* the segments of the opus
          Needs           \* Needs[s]: the segments that s waits for

VARIABLES completed,      \* segments whose pipe ran to its end at least once
          recorded,       \* segments the run state shows as SUCCESS
          lossy           \* a call of the store has failed

vars == <<completed, recorded, lossy>>

Init == completed = {} /\ recorded = {} /\ lossy = FALSE

Complete(s) == /\ Needs[s] \subseteq completed
               /\ completed' = completed \cup {s}
               /\ UNCHANGED <<recorded, lossy>>

Record(s) == /\ s \in completed
             /\ recorded' = recorded \cup {s}
             /\ UNCHANGED <<completed, lossy>>

(* A call of the store fails; the write it carried may be lost or not.      *)
StoreFails == /\ lossy' = TRUE
              /\ recorded' \subseteq completed
              /\ UNCHANGED completed

Forget(s) == /\ lossy
             /\ recorded' = recorded \ {s}
             /\ UNCHANGED <<completed, lossy>>

Next == \/ \E s \in Segments : Complete(s) \/ Record(s) \/ Forget(s)
        \/ StoreFails

Spec == Init /\ [][Next]_vars
=============================================================================
