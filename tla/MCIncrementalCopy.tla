------------------------- MODULE MCIncrementalCopy -------------------------
(* Small tables for IncrementalCopy; a row is named by a number.            *)
EXTENDS IncrementalCopy

Distinct == [x \in Rows |-> x]
(* Rows 2 and 3 carry the same key, across the border of batches of two.    *)
Tied     == [x \in Rows |-> IF x = 3 THEN 2 ELSE x]
KeepAll  == Rows
DropLast == Rows \ {2, 4}
=============================================================================
