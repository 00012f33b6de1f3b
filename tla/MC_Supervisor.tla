--------------------------- MODULE MC_Supervisor ---------------------------
(* Two callers of Stop, so that one claims the record and the other waits; *)
(* two forks, so that a worker outlives the leader and forks again.        *)
EXTENDS Supervisor

CONSTANTS s1, s2
=============================================================================
