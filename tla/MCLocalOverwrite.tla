-------------------------- MODULE MCLocalOverwrite --------------------------
(* LocalOverwrite for TLC: the set of all faults. *)
EXTENDS LocalAttempt

AllFaults == {"io", "remove", "cancel", "process", "writer"}
=============================================================================
