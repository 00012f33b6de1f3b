--------------------------- MODULE MC_StateStore ---------------------------
(* Two callers that share two request IDs, two payloads, and room for      *)
(* three of the four possible commits.                                     *)
EXTENDS StateStore

CONSTANTS alice, bob, q1, q2, create, update
=============================================================================
