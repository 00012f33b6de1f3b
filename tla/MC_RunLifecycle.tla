-------------------------- MODULE MC_RunLifecycle --------------------------
(* Two runs of one agent, two calls at once.                               *)
EXTENDS RunLifecycle, TLC

Symmetry == Permutations(RunID) \cup Permutations(RequestID)
                \cup Permutations(Handler)
=============================================================================
