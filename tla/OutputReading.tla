--------------------------- MODULE OutputReading ---------------------------
(***************************************************************************)
(* Reading a run's output through the host while it is captured:           *)
(* `harnessing run-output -attach` (cmd/harnessing/run_output.go) over     *)
(* OutputJournal.  The transport between them is RemoteCall, which         *)
(* Transport implements: the host may read the journal several times for   *)
(* one call, and its answer may be old when it is taken.                   *)
(*                                                                         *)
(* The reader asks for what follows the last byte it has, with a byte      *)
(* limit or without, and keeps every chunk it is given.                    *)
(***************************************************************************)
EXTENDS OutputJournal

CONSTANTS Reader, None,
          Limit,      \* the byte limits it asks with, 0 is none
          MaxReads    \* bound of the model: calls of the reader

ASSUME LimitAssumption == Limit \subseteq Nat
ASSUME ReadsAssumption == MaxReads \in Nat

VARIABLES asked, computed, answer, returned

calls == <<asked, computed, answer, returned>>
allVars == <<vars, calls>>

ReadOp == [after : Nat, limit : Limit]
Output == [chunks : Seq(Entry), capture : {"unknown", "", "complete", "interrupted", "failed"}]

C == INSTANCE RemoteCall WITH
        Caller <- {Reader}, Op <- ReadOp, Answer <- Output

ReadingTypeOK ==
    /\ TypeOK
    /\ asked[Reader] \in ReadOp \cup {None}
    /\ computed[Reader] \in Output \cup {None}
    /\ answer[Reader] \in Output \cup {None}

ReadingInit == Init /\ C!Init

(* The chunks the reader has been given, in the order of its calls.        *)
Given(call) == IF call.answer = None THEN <<>> ELSE call.answer.chunks
ChunksOf(done) ==
    LET got[k \in 0..Len(done)] == IF k = 0 THEN <<>> ELSE got[k - 1] \o Given(done[k])
    IN  got[Len(done)]

Got == ChunksOf(returned[Reader])

ReaderAsks ==
    /\ Len(returned[Reader]) < MaxReads
    /\ \E limit \in Limit : C!Ask(Reader, [after |-> EndOf(Got), limit |-> limit])
    /\ UNCHANGED vars

(* Dispatch of ReadOutput, on the journal as it is then.                   *)
HostReads ==
    /\ up /\ asked[Reader] # None
    /\ C!Compute(Reader, ReadAfter(asked[Reader].after, asked[Reader].limit))
    /\ UNCHANGED vars

HostPublishes == up /\ C!Publish(Reader) /\ UNCHANGED vars
ReaderTakes == C!Take(Reader) /\ UNCHANGED vars

(* A computed answer that was not published is lost with the process.      *)
ReadingNext ==
    \/ ReaderAsks \/ HostReads \/ HostPublishes \/ ReaderTakes
    \/ (WorkerStep \/ CaptureStep \/ StopStep) /\ UNCHANGED calls
    \/ (HostStarts \/ StartGoesWrong) /\ UNCHANGED calls
    \/ HostDies /\ C!Lose(Reader)

ReadingSpec == ReadingInit /\ [][ReadingNext]_allVars
               /\ \A c \in Channel : WF_allVars((DrainCopies(c) \/ DrainEnds(c)) /\ UNCHANGED calls)
               /\ WF_allVars(CaptureFinishes /\ UNCHANGED calls)

-----------------------------------------------------------------------------
(* The reader has a prefix of the journal, each chunk once and in order,   *)
(* as long as no torn line has made an appended chunk unreadable; and once *)
(* it is told that the capture is complete and that nothing follows, it    *)
(* has every byte the worker wrote (run-output's -after-offset, ReadAfter  *)
(* and Finish).  A chunk above the limit is the exception: nothing is ever *)
(* returned from its offset on.                                            *)
AllReadable == \A c \in Channel : HasBytes(c, taken[c])

Blocked(op) == op.limit > 0 /\ \E i \in DOMAIN file :
    file[i].offset = op.after /\ file[i].len > op.limit

ReaderHasPrefix ==
    /\ AllReadable => IsPrefix(Got, file)
    /\ returned[Reader] # <<>> =>
        LET call == Last(returned[Reader])
        IN  call.answer.capture = "complete" /\ call.answer.chunks = <<>>
                => \/ Blocked(call.op)
                   \/ \A c \in Channel : \A n \in 1..written[c] :
                        \E i \in DOMAIN Got : Holds(Got[i], c, n)

=============================================================================
