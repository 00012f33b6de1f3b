---------------------------- MODULE MC_Delivery ----------------------------
(* Two agents and one whose ID is no path segment, two messages and one    *)
(* control record.  An external agent uses one of the message IDs, so that *)
(* the other message meets a queue that is blocked; a pass breaks off once.*)
EXTENDS Delivery

CONSTANTS m1, m2, ack1
=============================================================================
