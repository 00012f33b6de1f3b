--------------------------- MODULE OutputJournal ---------------------------
(***************************************************************************)
(* The output of one run, from the worker's pipes to the journal: the      *)
(* drains of Supervisor.drainAndCapture, the Journal they append to, and   *)
(* the Finish that the next host.Open calls for a run it cannot vouch for. *)
(*                                                                         *)
(* One drain per channel copies what it finds in its pipe, up to a buffer, *)
(* into one journal entry.  An entry is one line of the run's file and     *)
(* carries the offset where the last line that parses ends.  Appends,      *)
(* reads and Finish exclude each other (Journal.mu).  A line may be        *)
(* written in part, by a full disk or by the end of the process, and the   *)
(* next append goes on behind it.                                          *)
(*                                                                         *)
(* Bytes are counted: the n-th byte that the worker wrote to a channel is  *)
(* <<channel, n>>, and an entry holds the bytes first + 1 to first + len.  *)
(***************************************************************************)
EXTENDS Naturals, Sequences, SequencesExt

CONSTANTS Channel,
          MaxChunk,   \* what one read of a pipe returns at most
          MaxBytes,   \* bound of the model: bytes the worker writes to each
          MaxFaults   \* bound of the model: host deaths and failing writes

ASSUME ChunkAssumption == MaxChunk \in Nat \ {0}
ASSUME BytesAssumption == MaxBytes \in [Channel -> Nat]
ASSUME FaultsAssumption == MaxFaults \in Nat

VARIABLES
    up, faults,     \* the host process, and the failures so far
    run,            \* the run in the store: active is Starting or Running
    missed,         \* history: this host has left the capture without outcome
    written, closed,\* the worker's ends of the pipes
    taken, drain,   \* the host's ends, and the two copying goroutines
    file, tail,     \* the lines a scan can parse, and how the file ends
    jammed,         \* the file has a line too long for the scanner
    status          \* the .status file, "none" when there is none yet and
                    \* "missing" when Finish could not open it

pipes == <<written, closed>>
capture == <<taken, drain>>
journal == <<file, tail, jammed, status>>
vars == <<up, faults, run, missed, pipes, capture, journal>>

Entry == [channel : Channel, offset : Nat, first : Nat, len : Nat \ {0}]

(* cut: the file ends in a part of a line; open: in a line that parses but *)
(* has no newline yet.                                                     *)
TypeOK ==
    /\ up \in BOOLEAN /\ faults \in 0..MaxFaults
    /\ run \in {"active", "stopping", "exited", "recovery"} /\ missed \in BOOLEAN
    /\ closed \in [Channel -> BOOLEAN]
    /\ drain \in [Channel -> {"copying", "ended", "failed", "finished", "gone"}]
    /\ written \in [Channel -> Nat] /\ taken \in [Channel -> Nat]
    /\ \A c \in Channel : taken[c] <= written[c] /\ written[c] <= MaxBytes[c]
    /\ file \in Seq(Entry) /\ tail \in {"clean", "cut", "open"}
    /\ tail = "open" => file # <<>>
    /\ jammed \in BOOLEAN
    /\ status \in {"none", "missing", "", "complete", "interrupted"}
    /\ ~up => \A c \in Channel : drain[c] \in {"gone", "finished"}

(* Start has spawned the worker.                                           *)
Init ==
    /\ up = TRUE /\ faults = 0 /\ run = "active" /\ missed = FALSE
    /\ written = [c \in Channel |-> 0] /\ closed = [c \in Channel |-> FALSE]
    /\ taken = [c \in Channel |-> 0] /\ drain = [c \in Channel |-> "copying"]
    /\ file = <<>> /\ tail = "clean" /\ jammed = FALSE /\ status = "none"

Fault == faults < MaxFaults /\ faults' = faults + 1

-----------------------------------------------------------------------------
(* The worker and whoever inherited its pipes.  Writing to a pipe nobody   *)
(* reads fails.                                                            *)

WorkerWrites(c) ==
    /\ ~closed[c] /\ drain[c] = "copying" /\ written[c] < MaxBytes[c]
    /\ written' = [written EXCEPT ![c] = @ + 1]
    /\ UNCHANGED <<up, faults, run, missed, closed, capture, journal>>

WorkerCloses(c) ==
    /\ ~closed[c]
    /\ closed' = [closed EXCEPT ![c] = TRUE]
    /\ UNCHANGED <<up, faults, run, missed, written, capture, journal>>

(* StopRun commits its intent, calls the supervisor and commits what it    *)
(* returned; called again with its request ID it goes on to the supervisor *)
(* whatever the run is.  Of a run of an earlier host that knows nothing.   *)
StopIsIntended ==
    /\ up /\ run = "active" /\ run' = "stopping"
    /\ UNCHANGED <<up, faults, missed, pipes, capture, journal>>

StopIsRecorded ==
    /\ up /\ run # "active"
    /\ \/ run' = "recovery"
       \/ run' = "exited" /\ \A c \in Channel : drain[c] # "gone"
    /\ UNCHANGED <<up, faults, missed, pipes, capture, journal>>

-----------------------------------------------------------------------------
(* The journal.                                                            *)

(* Append takes the offset from the last line that parses.                 *)
EndOf(entries) ==
    IF entries = <<>> THEN 0 ELSE Last(entries).offset + Last(entries).len

(* Mutant: the offset counts the bytes of the channel.                     *)
NewEntryMutant(c, n) ==
    [channel |-> c, offset |-> taken[c], first |-> taken[c], len |-> n]

NewEntry(c, n) ==
    [channel |-> c, offset |-> EndOf(file), first |-> taken[c], len |-> n]

(* One line fits bufio.Scanner's 64 KiB, but two that a tear has joined    *)
(* may exceed it; a scan stops there and sees nothing that follows.        *)
MayJam == jammed' \in {jammed, jammed \/ tail # "clean"}

(* What the write of a line leaves when it is complete.  Behind a part of  *)
(* a line it completes that line, which does not parse; behind a line      *)
(* without its newline it spoils both.                                     *)
AppendLine(e) ==
    /\ tail' = "clean" /\ MayJam
    /\ file' = CASE tail = "clean" /\ ~jammed -> Append(file, e)
                 [] tail = "open" -> Front(file)
                 [] OTHER -> file

(* What a write that is cut short may leave: nothing, a part of the line,  *)
(* or all of it but the newline.                                           *)
TearLine(e) ==
    \/ UNCHANGED <<file, tail, jammed>>
    \/ /\ tail' = "cut" /\ MayJam
       /\ file' = IF tail = "open" THEN Front(file) ELSE file
    \/ /\ tail = "clean" /\ ~jammed
       /\ tail' = "open" /\ file' = Append(file, e) /\ UNCHANGED jammed

(* ReadAfter passes over the entries before the offset and takes those     *)
(* that follow, up to the first one that exceeds the byte limit (0 is      *)
(* none).  A missing file has no status; a line too long fails the call,   *)
(* unless the limit ended the scan before it.                              *)
(* Mutant: the chunk at the offset is passed over, too.                    *)
PassedOverMutant(e, after) == e.offset <= after

PassedOver(e, after) == e.offset < after

ReadStart == [chunks |-> <<>>, used |-> 0, full |-> FALSE]
ReadLine(read, e, after, limit) ==
    IF read.full \/ PassedOver(e, after) THEN read
    ELSE IF limit > 0 /\ read.used + e.len > limit THEN [read EXCEPT !.full = TRUE]
    ELSE [chunks |-> Append(read.chunks, e), used |-> read.used + e.len, full |-> FALSE]

ReadLines(after, limit) ==
    LET read[k \in 0..Len(file)] ==
            IF k = 0 THEN ReadStart ELSE ReadLine(read[k - 1], file[k], after, limit)
    IN  read[Len(file)]

HasFile == file # <<>> \/ tail # "clean" \/ \E c \in Channel : taken[c] > 0

ReadAfter(after, limit) ==
    LET read == ReadLines(after, limit)
    IN  IF jammed /\ ~read.full
        THEN [chunks |-> <<>>, capture |-> "failed"]
        ELSE [chunks |-> read.chunks,
              capture |-> IF HasFile /\ status \notin {"none", "missing"}
                          THEN status ELSE "unknown"]

(* Finish truncates the file and writes it: failing in between it is left  *)
(* empty, failing before it is what it was.  Its callers ignore the error. *)
Finish(outcome) ==
    \/ status' = outcome /\ missed' = FALSE /\ UNCHANGED faults
    \/ /\ status' \in {"", IF status = "none" THEN "missing" ELSE status}
       /\ missed' = TRUE /\ Fault

-----------------------------------------------------------------------------
(* The capture.  The two drains share one writer under a lock, so that one *)
(* chunk is appended at a time.                                            *)

(* Mutant: the whole buffer is appended, whatever the read returned.       *)
ChunkMutant(c) == IF taken[c] < written[c] THEN 1..MaxChunk ELSE {}

Chunk(c) == 1..(IF written[c] - taken[c] < MaxChunk
                THEN written[c] - taken[c] ELSE MaxChunk)

DrainCopies(c) ==
    /\ up /\ drain[c] = "copying"
    /\ \E n \in Chunk(c) :
        /\ taken' = [taken EXCEPT ![c] = @ + n]
        /\ AppendLine(NewEntry(c, n))
    /\ UNCHANGED <<up, faults, run, missed, pipes, drain, status>>

(* The write or its fsync fails, or the host's context has ended: io.Copy  *)
(* returns, the pipe is closed and the failure is kept for Finish.         *)
DrainFails(c) ==
    /\ up /\ drain[c] = "copying" /\ Fault
    /\ drain' = [drain EXCEPT ![c] = "failed"]
    /\ \E n \in Chunk(c) :
        /\ taken' = [taken EXCEPT ![c] = @ + n]
        /\ AppendLine(NewEntry(c, n)) \/ TearLine(NewEntry(c, n))
    /\ UNCHANGED <<up, run, missed, pipes, status>>

DrainEnds(c) ==
    /\ up /\ drain[c] = "copying" /\ closed[c] /\ taken[c] = written[c]
    /\ drain' = [drain EXCEPT ![c] = "ended"]
    /\ UNCHANGED <<up, faults, run, missed, pipes, taken, journal>>

(* Once both have returned the outcome is published.                       *)
Outcome ==
    IF \E c \in Channel : drain[c] = "failed" THEN "interrupted" ELSE "complete"

(* Mutants: one drain is waited for; a failed one returns without Finish.  *)
BothReturnedMutant ==
    /\ \E c \in Channel : drain[c] \in {"ended", "failed"}
    /\ \A c \in Channel : drain[c] \in {"copying", "ended", "failed"}
BothEndedMutant == \A c \in Channel : drain[c] = "ended"

BothReturned == \A c \in Channel : drain[c] \in {"ended", "failed"}

CaptureFinishes ==
    /\ up /\ BothReturned
    /\ Finish(Outcome)
    /\ drain' = [c \in Channel |-> "finished"]
    /\ UNCHANGED <<up, run, pipes, taken, file, tail, jammed>>

-----------------------------------------------------------------------------
(* The host.                                                               *)

Gone(c) == IF drain[c] = "finished" THEN "finished" ELSE "gone"

(* The process ends, perhaps in the middle of an append or of Finish.      *)
HostDies ==
    /\ up /\ up' = FALSE /\ Fault
    /\ drain' = [c \in Channel |-> Gone(c)]
    /\ \/ UNCHANGED <<taken, journal>>
       \/ \E c \in Channel : \E n \in Chunk(c) :
            /\ drain[c] = "copying"
            /\ taken' = [taken EXCEPT ![c] = @ + n]
            /\ AppendLine(NewEntry(c, n)) \/ TearLine(NewEntry(c, n))
            /\ UNCHANGED status
       \/ /\ BothReturned
          /\ status' \in {"", Outcome}
          /\ UNCHANGED <<taken, file, tail, jammed>>
    /\ UNCHANGED <<run, missed, pipes>>

(* open: a run still Starting or Running is reconciled to RecoveryRequired,*)
(* and Finish is called for every run in that state, not for one that a    *)
(* stop has settled or that its host left Stopping.                        *)
Reconciled == IF run = "active" THEN "recovery" ELSE run

HostStarts ==
    /\ ~up /\ up' = TRUE
    /\ run' = Reconciled
    /\ \/ run' = "recovery" /\ Finish("interrupted")
       \/ run' # "recovery" /\ missed' = TRUE /\ UNCHANGED <<status, faults>>
    /\ UNCHANGED <<pipes, capture, file, tail, jammed>>

(* A store that cannot be read is no error: the host goes on without the   *)
(* reconciliation, or without the Finish after it.  A reconciliation that  *)
(* cannot be committed, or whose commit is uncertain, ends open.           *)
StartGoesWrong ==
    /\ ~up /\ up' \in BOOLEAN /\ Fault
    /\ run' \in {run, Reconciled} /\ missed' = TRUE
    /\ UNCHANGED <<pipes, capture, journal>>

WorkerStep == \E c \in Channel : WorkerWrites(c) \/ WorkerCloses(c)
CaptureStep ==
    \/ \E c \in Channel : DrainCopies(c) \/ DrainFails(c) \/ DrainEnds(c)
    \/ CaptureFinishes
StopStep == StopIsIntended \/ StopIsRecorded
HostStep == StopStep \/ HostDies \/ HostStarts \/ StartGoesWrong

Next == WorkerStep \/ CaptureStep \/ HostStep

(* The goroutines of a live process go on.                                 *)
Fairness ==
    /\ \A c \in Channel : WF_vars(DrainCopies(c) \/ DrainEnds(c))
    /\ WF_vars(CaptureFinishes)

Spec == Init /\ [][Next]_vars
FairSpec == Spec /\ Fairness

-----------------------------------------------------------------------------
(* A capture reported complete is complete: both pipes had been closed by  *)
(* everyone who held them, and every byte written to them can be read from *)
(* the journal, in order (drainAndCapture's clean EOF, every append        *)
(* durable), with no line that makes every read fail.                      *)
Holds(e, c, n) == e.channel = c /\ e.first < n /\ n <= e.first + e.len

(* The entries of c hold its first k bytes, each once, in order.           *)
Of(c) == {i \in DOMAIN file : file[i].channel = c}
HasBytes(c, k) ==
    /\ \A n \in 1..k : \E i \in DOMAIN file : Holds(file[i], c, n)
    /\ \A i \in Of(c) : file[i].first + file[i].len <= k
    /\ \A i, j \in Of(c) : i < j => file[i].first + file[i].len <= file[j].first

CompleteIsComplete == status = "complete" => ~jammed /\
    \A c \in Channel : closed[c] /\ HasBytes(c, written[c])

(* The entries that can be read follow each other without gap or overlap,  *)
(* whatever lines were torn: an offset names one byte of the journal       *)
(* (Append's scan for the last line that parses).                          *)
OffsetsTile == \A i \in DOMAIN file :
    file[i].offset = EndOf(SubSeq(file, 1, i - 1))

(* When everyone has closed the pipes and a host stays up, the outcome is  *)
(* published, although drains fail and hosts die, in an append or in a     *)
(* Finish, unless this host has missed it: its Finish failed, it could not *)
(* read the store, or it found the run Stopping or Exited (the drains of   *)
(* drainAndCapture, host.open and ReconcileStuckRuns).                     *)
Published == status \in {"complete", "interrupted"}

CaptureEnds ==
    <>[]up => (\A c \in Channel : closed[c]) ~> (Published \/ missed)

=============================================================================
