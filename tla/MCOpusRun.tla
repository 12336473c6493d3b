----------------------------- MODULE MCOpusRun -----------------------------
(* Small opuses for OpusRun; the waves are those that OpusGraph computes.   *)
EXTENDS OpusRun

(* Two waves of two: a and b are roots, c waits for ANY of them, d for b.   *)
LadderDeps == [s \in {"a", "b", "c", "d"} |->
                  CASE s = "c" -> {"a", "b"} [] s = "d" -> {"b"} [] OTHER -> {}]
LadderWaves == << {"a", "b"}, {"c", "d"} >>

(* Three roots of one wave and d behind one of them.                        *)
RootsDeps  == [s \in {"a", "b", "c", "d"} |-> IF s = "d" THEN {"a"} ELSE {}]
RootsWaves == << {"a", "b", "c"}, {"d"} >>

(* c joins the two roots a and b.                                           *)
JoinDeps  == [s \in {"a", "b", "c"} |-> IF s = "c" THEN {"a", "b"} ELSE {}]
JoinWaves == << {"a", "b"}, {"c"} >>

AllWait == [s \in Segments |-> "ALL"]
MajorityWait == [s \in Segments |-> IF s = "d" THEN "ALL" ELSE "MAJORITY"]
CAny == [s \in Segments |-> IF s = "c" THEN "ANY" ELSE "ALL"]
NoRetry == [s \in Segments |-> 0]
OneRetry == [s \in Segments |-> 1]
=============================================================================
