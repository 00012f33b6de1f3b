---------------------------- MODULE MC_EventBus ----------------------------
(* One buffer of two events, so that queues overflow and events are        *)
(* evicted within a few commits.                                           *)
EXTENDS EventBus, TLC

Symmetry == Permutations(RequestID)
=============================================================================
