---------------------------- MODULE MCStagedLoad ----------------------------
(* One FULL and one PARTIAL load of a table.                                *)
EXTENDS StagedLoad

MCJobs  == {"full", "partial"}
MCMode  == [j \in MCJobs |-> IF j = "full" THEN "FULL" ELSE "PARTIAL"]

(* Two pipes, each with a sink object of its own.                           *)
OwnSink    == [j \in MCJobs |-> j]
ScopeQuery == [j \in MCJobs |-> IF j = "full" THEN Keys ELSE Scope]
=============================================================================
