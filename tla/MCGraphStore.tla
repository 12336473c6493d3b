---------------------------- MODULE MCGraphStore ----------------------------
(* Two runs of one pipe and one of a pipe that reads what the first writes. *)
EXTENDS GraphStore

MCPipeOf    == [w \in Writers |-> IF w = "r3" THEN "q" ELSE "p"]
MCReadsFrom == [p \in {"p", "q"} |-> IF p = "p" THEN "a" ELSE "b"]
MCWritesTo  == [p \in {"p", "q"} |-> IF p = "p" THEN "b" ELSE "c"]
=============================================================================
