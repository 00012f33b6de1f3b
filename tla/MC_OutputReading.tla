------------------------- MODULE MC_OutputReading -------------------------
(* Two bytes on one channel and one on the other, chunks of up to two, and *)
(* a reader that asks without a limit or for one byte at most.             *)
EXTENDS OutputReading

CONSTANTS stdout, stderr

MCChannel == {stdout, stderr}
MCMaxBytes == [c \in MCChannel |-> IF c = stdout THEN 2 ELSE 1]
MCLimit == {0, 1}
=============================================================================
