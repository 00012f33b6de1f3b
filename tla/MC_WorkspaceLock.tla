-------------------------- MODULE MC_WorkspaceLock --------------------------
(* Three processes: the smallest number with which one closes while two    *)
(* others open.                                                            *)
EXTENDS WorkspaceLock

CONSTANTS a, b, c, i1, i2, i3, i4
=============================================================================
