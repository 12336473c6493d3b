---------------------------- MODULE MCApiServer ----------------------------
(* Runs of the server in which the source grows, or requests fail; the two  *)
(* together are left to the theorems of ApiServerProofs.                    *)
EXTENDS ApiServer

(* Bound: one kind of disturbance.                                          *)
OneDisturbance == rows = InitialRows \/ faults = 0
=============================================================================
