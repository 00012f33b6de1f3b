--------------------------- MODULE MC_Transport ---------------------------
(* One session makes two calls out of a command, a stop, an event batch    *)
(* with a deadline, a snapshot too large for a file and a command whose    *)
(* request is too long for one.                                            *)
EXTENDS Transport

CONSTANTS s1, q1, q2, q3

Query(name) == [kind |-> "query", arg |-> name]
MCOp == {Command(q1), Stop(q2), Query("events"), Query("snapshot"), Command(q3)}
MCAnswer == {OK, Failed}
MCTimed == {Query("events")}
MCLarge == {Query("snapshot")}
MCLong == {Command(q3)}
=============================================================================
