---------------------------- MODULE MCOpusGraph ----------------------------
(* Graphs of up to three segments whose lists name up to two dependencies,  *)
(* the same one twice included.                                             *)
EXTENDS OpusGraph

MCIds == {"a", "b", "c"}
Lists == {<< >>} \cup {<<d>> : d \in MCIds} \cup {<<d, e>> : d, e \in MCIds}
=============================================================================
