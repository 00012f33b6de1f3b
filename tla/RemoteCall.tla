----------------------------- MODULE RemoteCall -----------------------------
(***************************************************************************)
(* What the file transport promises a caller: its calls follow each other, *)
(* and each returns, at most once, an answer that was computed for it      *)
(* while it waited.  An answer may be computed several times before one is *)
(* published, a computed one may be lost, and the caller may give up or    *)
(* disappear; once an answer is published nothing replaces it.             *)
(***************************************************************************)
EXTENDS Sequences

CONSTANTS Caller, Op, Answer, None

VARIABLES asked,     \* the operation each caller waits for
          computed,  \* an answer nobody can read yet
          answer,    \* the answer that waits to be taken
          returned   \* the calls that have returned, None for a lost answer

vars == <<asked, computed, answer, returned>>

Init ==
    /\ asked = [c \in Caller |-> None] /\ computed = [c \in Caller |-> None]
    /\ answer = [c \in Caller |-> None] /\ returned = [c \in Caller |-> <<>>]

Ask(c, op) ==
    /\ asked[c] = None /\ asked' = [asked EXCEPT ![c] = op]
    /\ UNCHANGED <<computed, answer, returned>>

Compute(c, a) ==
    /\ asked[c] # None /\ answer[c] = None
    /\ computed' = [computed EXCEPT ![c] = a]
    /\ UNCHANGED <<asked, answer, returned>>

Lose(c) ==
    /\ computed' = [computed EXCEPT ![c] = None]
    /\ UNCHANGED <<asked, answer, returned>>

Publish(c) ==
    /\ computed[c] # None /\ answer[c] = None
    /\ answer' = [answer EXCEPT ![c] = computed[c]]
    /\ computed' = [computed EXCEPT ![c] = None]
    /\ UNCHANGED <<asked, returned>>

Ends(c) ==
    /\ asked[c] # None
    /\ asked' = [asked EXCEPT ![c] = None]
    /\ computed' = [computed EXCEPT ![c] = None]
    /\ answer' = [answer EXCEPT ![c] = None]

Returns(c, a) ==
    returned' = [returned EXCEPT ![c] = Append(@, [op |-> asked[c], answer |-> a])]

Take(c) == answer[c] # None /\ Ends(c) /\ Returns(c, answer[c])
GiveUp(c) == Ends(c) /\ Returns(c, None)
Abandon(c) == Ends(c) /\ UNCHANGED returned

Next == \E c \in Caller :
    \/ \E op \in Op : Ask(c, op)
    \/ \E a \in Answer : Compute(c, a)
    \/ Lose(c) \/ Publish(c) \/ Take(c) \/ GiveUp(c) \/ Abandon(c)

Spec == Init /\ [][Next]_vars
=============================================================================
