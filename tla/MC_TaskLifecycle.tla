-------------------------- MODULE MC_TaskLifecycle --------------------------
(* An agent, a reviewer and an outsider; two tasks and three results, so   *)
(* that a task is rejected, reported again and reopened while the other    *)
(* one competes for result IDs.                                            *)
EXTENDS TaskLifecycle

CONSTANTS agent, reviewer, outsider, t1, t2, r1, r2, r3
=============================================================================
