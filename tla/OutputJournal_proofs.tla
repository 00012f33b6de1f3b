------------------------ MODULE OutputJournal_proofs ------------------------
(***************************************************************************)
(* Proofs about OutputJournal and OutputReading, for any channels, chunk   *)
(* sizes, amounts of output, numbers of failures, readers' limits and      *)
(* calls.                                                                  *)
(*                                                                         *)
(* The entries that can be read follow each other without gap or overlap,  *)
(* whatever lines were torn: a line that is written adds an entry at the   *)
(* end of the last one, loses the last one, or changes nothing (Written).  *)
(*                                                                         *)
(* A capture reported complete is complete: while no drain has failed the  *)
(* file ends cleanly and every byte taken is in an entry (Unharmed), and   *)
(* once both have ended nothing can change any more (Whole).               *)
(*                                                                         *)
(* A reader has the first entries of the journal: an answer, computed now  *)
(* or long ago, is an interval of the entries that follows what the reader *)
(* has (Sound), because entries that can all be read are never lost        *)
(* (ReadableBefore).  ReadLines and ChunksOf are recursive functions; what *)
(* they compute is shown by induction over the sets of the positions       *)
(* where it holds (Steps).                                                 *)
(***************************************************************************)
EXTENDS OutputReading, SequenceTheorems, WellFoundedInduction, TLAPS

IInv == TypeOK /\ OffsetsTile

Written(e) == file' \in {file, Append(file, e)} \/ (file # <<>> /\ file' = Front(file))

-----------------------------------------------------------------------------
(* A chunk is at least one byte and at most what the pipe holds.           *)
LEMMA ChunkSize ==
  ASSUME TypeOK, NEW c \in Channel, NEW n \in Chunk(c)
  PROVE  n \in Nat \ {0} /\ taken[c] + n <= written[c]
<1>1. written[c] \in Nat /\ taken[c] \in Nat /\ taken[c] <= written[c]
  BY DEF TypeOK
<1> QED
  BY <1>1, ChunkAssumption DEF Chunk

(* The bytes of the pipe that the host has taken.                          *)
TakenOK ==
    /\ taken \in [Channel -> Nat]
    /\ \A c \in Channel : taken[c] <= written[c]

LEMMA TakenStep ==
  ASSUME TypeOK, UNCHANGED written,
         \/ UNCHANGED taken
         \/ \E c \in Channel : \E n \in Chunk(c) :
                taken' = [taken EXCEPT ![c] = @ + n]
  PROVE  TakenOK'
<1>1. CASE UNCHANGED taken
  BY <1>1 DEF TypeOK, TakenOK
<1>2. ASSUME NEW c \in Channel, NEW n \in Chunk(c),
             taken' = [taken EXCEPT ![c] = @ + n]
      PROVE  TakenOK'
  <2>1. n \in Nat \ {0} /\ taken[c] + n <= written[c]
    BY ChunkSize
  <2>2. taken[c] \in Nat
    BY DEF TypeOK
  <2>3. taken[c] + n \in Nat
    BY <2>1, <2>2
  <2> QED
    BY <1>2, <2>1, <2>3 DEF TypeOK, TakenOK
<1> QED
  BY <1>1, <1>2

LEMMA EndIsNat ==
  ASSUME NEW s \in Seq(Entry)
  PROVE  EndOf(s) \in Nat
<1>1. CASE s = <<>>
  BY <1>1 DEF EndOf
<1>2. CASE s # <<>>
  <2>1. Len(s) \in Nat \ {0}
    BY <1>2, EmptySeq
  <2>2. s[Len(s)] \in Entry
    BY <2>1, ElementOfSeq
  <2> QED
    BY <1>2, <2>2 DEF EndOf, Last, Entry
<1> QED
  BY <1>1, <1>2

LEMMA NewEntryType ==
  ASSUME TypeOK, NEW c \in Channel, NEW n \in Chunk(c)
  PROVE  NewEntry(c, n) \in Entry /\ NewEntry(c, n).offset = EndOf(file)
<1>1. n \in Nat \ {0} /\ taken[c] \in Nat
  BY ChunkSize DEF TypeOK
<1>2. EndOf(file) \in Nat
  BY EndIsNat DEF TypeOK
<1> QED
  BY <1>1, <1>2 DEF NewEntry, Entry

-----------------------------------------------------------------------------
(* Each of the three ways keeps the entries adjacent.                      *)
LEMMA FrontIsSeq ==
  ASSUME NEW s \in Seq(Entry), s # <<>>
  PROVE  /\ Front(s) \in Seq(Entry) /\ Len(Front(s)) = Len(s) - 1
         /\ \A i \in 1..(Len(s) - 1) : Front(s)[i] = s[i]
<1>1. Len(s) \in Nat \ {0}
  BY EmptySeq
<1>2. \A i \in 1..(Len(s) - 1) : s[i] \in Entry
  BY <1>1, ElementOfSeq
<1> DEFINE front == SubSeq(s, 1, Len(s) - 1)
<1>3. /\ front \in Seq(Entry)
      /\ Len(front) = IF 1 <= Len(s) - 1 THEN Len(s) - 1 - 1 + 1 ELSE 0
      /\ \A i \in 1..(Len(s) - 1 - 1 + 1) : front[i] = s[1 + i - 1]
  BY <1>1, <1>2, SubSeqProperties
<1> HIDE DEF front
<1>4. Len(front) = Len(s) - 1
  <2> DEFINE n == Len(s)
  <2>1. n \in Nat \ {0} /\ Len(front) = IF 1 <= n - 1 THEN n - 1 - 1 + 1 ELSE 0
    BY <1>1, <1>3
  <2> HIDE DEF n
  <2>2. (IF 1 <= n - 1 THEN n - 1 - 1 + 1 ELSE 0) = n - 1
    BY <2>1
  <2>3. Len(front) = n - 1
    BY <2>1, <2>2
  <2> QED
    BY <2>3 DEF n
<1>5. ASSUME NEW i \in 1..(Len(s) - 1)
      PROVE  front[i] = s[i]
  <2>1. i \in 1..(Len(s) - 1 - 1 + 1) /\ 1 + i - 1 = i
    BY <1>1
  <2>2. front[i] = s[1 + i - 1]
    BY <1>3, <2>1
  <2> QED
    BY <2>1, <2>2
<1> QED
  BY <1>3, <1>4, <1>5 DEF Front, front

(* What ends before an entry depends on the entry before it alone.         *)
Tiles(s) == \A i \in 1..Len(s) :
    s[i].offset = IF i = 1 THEN 0 ELSE s[i - 1].offset + s[i - 1].len

LEMMA TilesIsOffsetsTile ==
  ASSUME NEW s \in Seq(Entry)
  PROVE  Tiles(s) <=> \A i \in DOMAIN s :
                        s[i].offset = EndOf(SubSeq(s, 1, i - 1))
<1>1. ASSUME NEW i \in 1..Len(s)
      PROVE  EndOf(SubSeq(s, 1, i - 1)) =
                IF i = 1 THEN 0 ELSE s[i - 1].offset + s[i - 1].len
  <2>1. CASE i = 1
    <3>1. SubSeq(s, 1, 0) = <<>>
      OBVIOUS
    <3> QED
      BY <2>1, <3>1 DEF EndOf
  <2>2. CASE i # 1
    <3> DEFINE before == SubSeq(s, 1, i - 1)
    <3>1. i - 1 \in 1..Len(s) /\ Len(s) \in Nat
      BY <2>2
    <3>2. /\ before \in Seq(Entry) /\ Len(before) = i - 1
          /\ before[i - 1] = s[i - 1]
      BY <3>1
    <3>3. before # <<>>
      BY <3>1, <3>2
    <3> HIDE DEF before
    <3>4. EndOf(before) = s[i - 1].offset + s[i - 1].len
      BY <3>2, <3>3 DEF EndOf, Last
    <3> QED
      BY <2>2, <3>4 DEF before
  <2> QED
    BY <2>1, <2>2
<1>2. DOMAIN s = 1..Len(s)
  OBVIOUS
<1> QED
  BY <1>1, <1>2 DEF Tiles

LEMMA WrittenTiles ==
  ASSUME TypeOK, OffsetsTile, NEW e \in Entry, e.offset = EndOf(file), Written(e)
  PROVE  file' \in Seq(Entry) /\ OffsetsTile'
<1>1. file \in Seq(Entry) /\ Tiles(file)
  BY TilesIsOffsetsTile DEF TypeOK, OffsetsTile
<1>2. file' \in Seq(Entry) /\ Tiles(file')
  <2>1. CASE file' = file
    <3>1. file' \in Seq(Entry)
      BY <1>1, <2>1
    <3>2. Tiles(file')
      BY <1>1, <2>1, Zenon
    <3> QED
      BY <3>1, <3>2
  <2>2. CASE file' = Append(file, e)
    <3>1. e.offset = IF file = <<>> THEN 0
                     ELSE file[Len(file)].offset + file[Len(file)].len
      BY DEF EndOf, Last
    <3>2. /\ file' \in Seq(Entry) /\ Len(file') = Len(file) + 1
          /\ Len(file) \in Nat
          /\ \A i \in 1..Len(file) : file'[i] = file[i]
          /\ file'[Len(file) + 1] = e
      BY <1>1, <2>2
    <3>3. file = <<>> <=> Len(file) = 0
      BY <1>1
    <3>4. ASSUME NEW i \in 1..Len(file')
          PROVE  file'[i].offset =
                    IF i = 1 THEN 0 ELSE file'[i - 1].offset + file'[i - 1].len
      <4>1. CASE i \in 1..Len(file)
        BY <1>1, <3>2, <4>1 DEF Tiles
      <4>2. CASE i = Len(file) + 1
        BY <3>1, <3>2, <3>3, <4>2
      <4> QED
        BY <3>2, <4>1, <4>2
    <3> QED
      BY <3>2, <3>4 DEF Tiles
  <2>3. CASE file # <<>> /\ file' = Front(file)
    <3>1. /\ file' \in Seq(Entry) /\ Len(file') = Len(file) - 1
          /\ Len(file) \in Nat
          /\ \A i \in 1..(Len(file) - 1) : file'[i] = file[i]
      BY <1>1, <2>3, FrontIsSeq, EmptySeq
    <3>2. ASSUME NEW i \in 1..Len(file')
          PROVE  file'[i].offset =
                    IF i = 1 THEN 0 ELSE file'[i - 1].offset + file'[i - 1].len
      <4>1. /\ i \in 1..Len(file) /\ file'[i] = file[i]
            /\ i # 1 => file'[i - 1] = file[i - 1]
        BY <3>1
      <4>2. file[i].offset = IF i = 1 THEN 0 ELSE file[i - 1].offset + file[i - 1].len
        BY <1>1, <4>1 DEF Tiles
      <4> QED
        BY <4>1, <4>2
    <3> QED
      BY <3>1, <3>2 DEF Tiles
  <2> QED
    BY <2>1, <2>2, <2>3 DEF Written
<1> QED
  BY <1>2, TilesIsOffsetsTile DEF OffsetsTile

-----------------------------------------------------------------------------
(* Complete and torn lines write in one of the three ways.                 *)
LEMMA LinesAreWritten ==
  ASSUME TypeOK, NEW e \in Entry, AppendLine(e) \/ TearLine(e)
  PROVE  /\ Written(e)
         /\ tail' \in {"clean", "cut", "open"} /\ jammed' \in BOOLEAN
         /\ tail' = "open" => file' # <<>>
<1>1. /\ tail \in {"clean", "cut", "open"} /\ jammed \in BOOLEAN
      /\ tail = "open" => file # <<>>
      /\ file \in Seq(Entry)
  BY DEF TypeOK
<1>2. Append(file, e) # <<>>
  BY <1>1
<1>3. CASE AppendLine(e)
  <2>1. Written(e)
    BY <1>1, <1>3 DEF AppendLine, Written
  <2>2. tail' = "clean" /\ jammed' \in BOOLEAN
    BY <1>1, <1>3 DEF AppendLine, MayJam
  <2> QED
    BY <2>1, <2>2
<1>4. CASE TearLine(e)
  <2>1. Written(e)
    BY <1>1, <1>4 DEF TearLine, Written
  <2>2. jammed' \in BOOLEAN
    BY <1>1, <1>4 DEF TearLine, MayJam
  <2>3. tail' \in {"clean", "cut", "open"} /\ (tail' = "open" => file' # <<>>)
    BY <1>1, <1>2, <1>4 DEF TearLine
  <2> QED
    BY <2>1, <2>2, <2>3
<1> QED
  BY <1>3, <1>4

(* What a step may do to the file: nothing, or a line for a chunk of c.    *)
FileOK ==
    /\ file \in Seq(Entry) /\ tail \in {"clean", "cut", "open"}
    /\ tail = "open" => file # <<>>
    /\ jammed \in BOOLEAN
    /\ OffsetsTile

LineOf(c, n) == AppendLine(NewEntry(c, n)) \/ TearLine(NewEntry(c, n))

LEMMA FileStep ==
  ASSUME IInv,
         \/ UNCHANGED <<file, tail, jammed>>
         \/ \E c \in Channel : \E n \in Chunk(c) : LineOf(c, n)
  PROVE  FileOK'
<1>0. TypeOK /\ OffsetsTile
  BY DEF IInv
<1>1. CASE UNCHANGED <<file, tail, jammed>>
  BY <1>0, <1>1 DEF TypeOK, FileOK, OffsetsTile
<1>2. ASSUME NEW c \in Channel, NEW n \in Chunk(c), LineOf(c, n)
      PROVE  FileOK'
  <2> DEFINE e == NewEntry(c, n)
  <2>1. e \in Entry /\ e.offset = EndOf(file)
    BY <1>0, NewEntryType
  <2>2. /\ Written(e)
        /\ tail' \in {"clean", "cut", "open"} /\ jammed' \in BOOLEAN
        /\ tail' = "open" => file' # <<>>
    BY <1>0, <1>2, <2>1, LinesAreWritten DEF LineOf
  <2> HIDE DEF e
  <2>3. file' \in Seq(Entry) /\ OffsetsTile'
    BY <1>0, <2>1, <2>2, WrittenTiles
  <2> QED
    BY <2>2, <2>3 DEF FileOK
<1> QED
  BY <1>1, <1>2

-----------------------------------------------------------------------------
(* The rest of the state: who runs, what the worker has written, what is   *)
(* known of the run.                                                       *)
RestOK ==
    /\ up \in BOOLEAN /\ faults \in 0..MaxFaults
    /\ run \in {"active", "stopping", "exited", "recovery"} /\ missed \in BOOLEAN
    /\ closed \in [Channel -> BOOLEAN]
    /\ drain \in [Channel -> {"copying", "ended", "failed", "finished", "gone"}]
    /\ written \in [Channel -> Nat]
    /\ \A c \in Channel : written[c] <= MaxBytes[c]
    /\ status \in {"none", "missing", "", "complete", "interrupted"}
    /\ ~up => \A c \in Channel : drain[c] \in {"gone", "finished"}

LEMMA TypeParts ==
  TypeOK /\ OffsetsTile <=> RestOK /\ TakenOK /\ FileOK
BY DEF TypeOK, RestOK, TakenOK, FileOK

LEMMA FaultType ==
  ASSUME RestOK, Fault
  PROVE  faults' \in 0..MaxFaults
<1>1. faults \in 0..MaxFaults /\ faults < MaxFaults /\ faults' = faults + 1
  BY DEF RestOK, Fault
<1> QED
  BY <1>1, FaultsAssumption

LEMMA FinishType ==
  ASSUME RestOK, NEW outcome \in {"complete", "interrupted"}, Finish(outcome)
  PROVE  /\ status' \in {"none", "missing", "", "complete", "interrupted"}
         /\ faults' \in 0..MaxFaults /\ missed' \in BOOLEAN
<1>1. CASE status' = outcome /\ missed' = FALSE /\ UNCHANGED faults
  BY <1>1 DEF RestOK
<1>2. CASE /\ status' \in {"", IF status = "none" THEN "missing" ELSE status}
           /\ missed' = TRUE /\ Fault
  <2>1. faults' \in 0..MaxFaults
    BY <1>2, FaultType
  <2> QED
    BY <1>2, <2>1 DEF RestOK
<1> QED
  BY <1>1, <1>2 DEF Finish

LEMMA WorkerKeeps ==
  ASSUME IInv, WorkerStep
  PROVE  IInv'
<1>0. RestOK /\ TakenOK /\ FileOK
  BY TypeParts DEF IInv
<1>1. UNCHANGED <<file, tail, jammed>>
  BY DEF WorkerStep, WorkerWrites, WorkerCloses, journal
<1>2. FileOK'
  BY <1>1, FileStep
<1>3. ASSUME NEW c \in Channel, WorkerWrites(c)
      PROVE  RestOK' /\ TakenOK'
  <2>1. written[c] \in Nat /\ MaxBytes[c] \in Nat /\ written[c] < MaxBytes[c]
    BY <1>0, <1>3, BytesAssumption DEF RestOK, WorkerWrites
  <2>2. /\ written' = [written EXCEPT ![c] = @ + 1]
        /\ UNCHANGED <<up, faults, run, missed, closed, taken, drain, status>>
    BY <1>3 DEF WorkerWrites, capture, journal
  <2>3. written[c] + 1 \in Nat /\ written[c] + 1 <= MaxBytes[c]
    BY <2>1
  <2>4. written' \in [Channel -> Nat] /\ \A d \in Channel : written'[d] <= MaxBytes[d]
    BY <1>0, <2>2, <2>3 DEF RestOK
  <2>5. \A d \in Channel : taken[d] <= written'[d]
    <3> SUFFICES ASSUME NEW d \in Channel PROVE taken[d] <= written'[d]
      OBVIOUS
    <3>1. taken[d] \in Nat /\ written[d] \in Nat /\ taken[d] <= written[d]
      BY <1>0 DEF RestOK, TakenOK
    <3>2. written'[d] = written[d] \/ written'[d] = written[d] + 1
      BY <1>0, <2>2 DEF RestOK
    <3> QED
      BY <3>1, <3>2
  <2> QED
    BY <1>0, <2>2, <2>4, <2>5 DEF RestOK, TakenOK
<1>4. ASSUME NEW c \in Channel, WorkerCloses(c)
      PROVE  RestOK' /\ TakenOK'
  BY <1>0, <1>4 DEF RestOK, TakenOK, WorkerCloses, capture, journal
<1>5. TypeOK' /\ OffsetsTile' <=> RestOK' /\ TakenOK' /\ FileOK'
  BY TypeParts, PTL
<1> QED
  BY <1>2, <1>3, <1>4, <1>5 DEF WorkerStep, IInv

LEMMA CaptureKeeps ==
  ASSUME IInv, CaptureStep
  PROVE  IInv'
<1>0. TypeOK /\ RestOK /\ TakenOK /\ FileOK
  BY TypeParts DEF IInv
<1>1. ASSUME NEW c \in Channel, DrainCopies(c) \/ DrainFails(c)
      PROVE  RestOK' /\ TakenOK' /\ FileOK'
  <2>1. PICK n \in Chunk(c) : /\ taken' = [taken EXCEPT ![c] = @ + n]
                              /\ LineOf(c, n)
    BY <1>1 DEF DrainCopies, DrainFails, LineOf
  <2>2. /\ UNCHANGED <<up, run, missed, written, closed, status>>
        /\ drain' \in [Channel -> {"copying", "ended", "failed", "finished", "gone"}]
        /\ up
    BY <1>0, <1>1 DEF DrainCopies, DrainFails, RestOK, pipes
  <2>3. faults' \in 0..MaxFaults
    <3>1. CASE DrainCopies(c)
      BY <1>0, <3>1 DEF DrainCopies, RestOK
    <3>2. CASE DrainFails(c)
      BY <1>0, <3>2, FaultType DEF DrainFails
    <3> QED
      BY <1>1, <3>1, <3>2
  <2>4. RestOK'
    BY <1>0, <2>2, <2>3 DEF RestOK
  <2>5. TakenOK'
    BY <1>0, <2>1, <2>2, TakenStep
  <2>6. FileOK'
    BY <2>1, FileStep
  <2> QED
    BY <2>4, <2>5, <2>6
<1>2. ASSUME NEW c \in Channel, DrainEnds(c)
      PROVE  RestOK' /\ TakenOK' /\ FileOK'
  <2>1. UNCHANGED <<file, tail, jammed>>
    BY <1>2 DEF DrainEnds, journal
  <2>2. FileOK'
    BY <2>1, FileStep
  <2> QED
    BY <1>0, <1>2, <2>2 DEF RestOK, TakenOK, DrainEnds, pipes, journal
<1>3. ASSUME CaptureFinishes
      PROVE  RestOK' /\ TakenOK' /\ FileOK'
  <2>1. UNCHANGED <<up, run, pipes, taken, file, tail, jammed>> /\ Finish(Outcome) /\ up
    BY <1>3 DEF CaptureFinishes
  <2>2. Outcome \in {"complete", "interrupted"}
    BY DEF Outcome
  <2>3. /\ status' \in {"none", "missing", "", "complete", "interrupted"}
        /\ faults' \in 0..MaxFaults /\ missed' \in BOOLEAN
    BY <1>0, <2>1, <2>2, FinishType
  <2>4. drain' \in [Channel -> {"copying", "ended", "failed", "finished", "gone"}]
    BY <1>3 DEF CaptureFinishes
  <2>5. FileOK'
    BY <2>1, FileStep
  <2> QED
    BY <1>0, <2>1, <2>3, <2>4, <2>5 DEF RestOK, TakenOK, pipes
<1>4. TypeOK' /\ OffsetsTile' <=> RestOK' /\ TakenOK' /\ FileOK'
  BY TypeParts, PTL
<1> QED
  BY <1>1, <1>2, <1>3, <1>4 DEF CaptureStep, IInv

(* The steps of the host that leave the file and the drains alone.         *)
Control == StopStep \/ HostStarts \/ StartGoesWrong

LEMMA ControlStep ==
  ASSUME Control
  PROVE  /\ UNCHANGED <<file, tail, jammed, taken, drain, written, closed>>
         /\ status' \in {"interrupted", "", "missing", status}
BY DEF Control, StopStep, StopIsIntended, StopIsRecorded, HostStarts, StartGoesWrong,
       Finish, pipes, capture, journal

LEMMA HostKeeps ==
  ASSUME IInv, HostStep
  PROVE  IInv'
<1>0. TypeOK /\ RestOK /\ TakenOK /\ FileOK
  BY TypeParts DEF IInv
<1>1. ASSUME StopStep
      PROVE  RestOK' /\ TakenOK' /\ FileOK'
  <2>1. /\ UNCHANGED <<up, faults, missed, pipes, capture, journal>>
        /\ run' \in {"stopping", "exited", "recovery"}
    BY <1>1 DEF StopStep, StopIsIntended, StopIsRecorded
  <2>2. FileOK'
    BY <2>1, FileStep DEF journal
  <2> QED
    BY <1>0, <2>1, <2>2 DEF RestOK, TakenOK, pipes, capture, journal
<1>2. ASSUME HostDies
      PROVE  RestOK' /\ TakenOK' /\ FileOK'
  <2>1. /\ ~up' /\ up' \in BOOLEAN /\ UNCHANGED <<run, missed, written, closed>>
        /\ drain' = [c \in Channel |-> Gone(c)]
    BY <1>2 DEF HostDies, pipes
  <2>2. faults' \in 0..MaxFaults
    BY <1>0, <1>2, FaultType DEF HostDies
  <2>3. \A c \in Channel : Gone(c) \in {"gone", "finished"}
    BY DEF Gone
  <2>4. /\ drain' \in [Channel -> {"copying", "ended", "failed", "finished", "gone"}]
        /\ \A c \in Channel : drain'[c] \in {"gone", "finished"}
    BY <2>1, <2>3
  <2>5. \/ UNCHANGED <<taken, file, tail, jammed, status>>
        \/ /\ UNCHANGED status
           /\ \E c \in Channel : \E n \in Chunk(c) :
                 taken' = [taken EXCEPT ![c] = @ + n] /\ LineOf(c, n)
        \/ /\ UNCHANGED <<taken, file, tail, jammed>>
           /\ status' \in {"", Outcome}
    BY <1>2 DEF HostDies, LineOf, journal
  <2>6. status' \in {"none", "missing", "", "complete", "interrupted"}
    BY <1>0, <2>5 DEF RestOK, Outcome
  <2>7. RestOK'
    BY <1>0, <2>1, <2>2, <2>4, <2>6 DEF RestOK
  <2>8. TakenOK'
    BY <1>0, <2>1, <2>5, TakenStep
  <2>9. FileOK'
    BY <2>5, FileStep
  <2> QED
    BY <2>7, <2>8, <2>9
<1>3. ASSUME HostStarts \/ StartGoesWrong
      PROVE  RestOK' /\ TakenOK' /\ FileOK'
  <2>1. /\ ~up /\ up' \in BOOLEAN /\ run' \in {run, Reconciled}
        /\ UNCHANGED <<pipes, capture, file, tail, jammed>>
    BY <1>3 DEF HostStarts, StartGoesWrong, journal
  <2>2. /\ status' \in {"none", "missing", "", "complete", "interrupted"}
        /\ faults' \in 0..MaxFaults /\ missed' \in BOOLEAN
    <3>1. CASE Finish("interrupted")
      BY <1>0, <3>1, FinishType
    <3>2. CASE UNCHANGED <<status, faults>> /\ missed' = TRUE
      BY <1>0, <3>2 DEF RestOK
    <3>3. CASE StartGoesWrong
      BY <1>0, <3>3, FaultType DEF StartGoesWrong, RestOK, journal
    <3> QED
      BY <1>3, <3>1, <3>2, <3>3 DEF HostStarts
  <2>3. FileOK'
    BY <2>1, FileStep
  <2>4. run' \in {"active", "stopping", "exited", "recovery"}
    BY <1>0, <2>1 DEF RestOK, Reconciled
  <2> QED
    BY <1>0, <2>1, <2>2, <2>3, <2>4 DEF RestOK, TakenOK, pipes, capture
<1>4. TypeOK' /\ OffsetsTile' <=> RestOK' /\ TakenOK' /\ FileOK'
  BY TypeParts, PTL
<1> QED
  BY <1>1, <1>2, <1>3, <1>4 DEF HostStep, IInv

LEMMA InitInvariant ==
  ASSUME Init
  PROVE  IInv
<1>1. RestOK
  <2>1. /\ up = TRUE /\ missed = FALSE /\ run = "active" /\ status = "none"
        /\ faults \in 0..MaxFaults
    BY FaultsAssumption DEF Init
  <2>2. /\ written \in [Channel -> Nat] /\ closed \in [Channel -> BOOLEAN]
        /\ drain \in [Channel -> {"copying", "ended", "failed", "finished", "gone"}]
        /\ \A c \in Channel : written[c] <= MaxBytes[c]
    BY BytesAssumption DEF Init
  <2> QED
    BY <2>1, <2>2 DEF RestOK
<1>2. TakenOK
  BY DEF Init, TakenOK
<1>3. FileOK
  <2>1. file = <<>> /\ tail = "clean" /\ jammed = FALSE
    BY DEF Init
  <2>2. file \in Seq(Entry) /\ \A i \in DOMAIN file : FALSE
    BY <2>1
  <2>3. OffsetsTile
    BY <2>2 DEF OffsetsTile
  <2>4. jammed \in BOOLEAN
    BY <2>1
  <2> QED
    BY <2>1, <2>2, <2>3, <2>4 DEF FileOK
<1> QED
  BY <1>1, <1>2, <1>3, TypeParts DEF IInv

(* Every step of worker, drains and host keeps the entries adjacent.       *)
LEMMA StepInvariant ==
  ASSUME IInv, [Next]_vars
  PROVE  IInv'
<1>1. CASE UNCHANGED vars
  BY <1>1 DEF IInv, TypeOK, OffsetsTile, vars, pipes, capture, journal
<1> QED
  BY <1>1, WorkerKeeps, CaptureKeeps, HostKeeps DEF Next

(* The entries that can be read stay adjacent, and of their types.         *)
THEOREM Invariance == Spec => []IInv
BY InitInvariant, StepInvariant, PTL DEF Spec

(* An offset names one byte of what can be read of the journal, however    *)
(* many lines were torn and however many hosts died (Append's scan).       *)
THEOREM OffsetsNameBytes == Spec => []OffsetsTile
BY Invariance, PTL DEF IInv

(* The host takes no byte that the worker did not write, and the file, the *)
(* status and the drains stay what Append, Finish and drainAndCapture      *)
(* make of them.                                                           *)
THEOREM TypeCorrect == Spec => []TypeOK
BY Invariance, PTL DEF IInv

-----------------------------------------------------------------------------
(***************************************************************************)
(* A capture reported complete is complete.                                *)
(***************************************************************************)

(* The entries of a channel follow each other, and hold bytes that were    *)
(* taken from the pipe.                                                    *)
Ordered == \A i, j \in DOMAIN file :
    i < j /\ file[i].channel = file[j].channel =>
        file[i].first + file[i].len <= file[j].first
Behind == \A i \in DOMAIN file :
    file[i].first + file[i].len <= taken[file[i].channel]

(* Every byte that was taken is in some entry.                             *)
Covered == \A c \in Channel : \A n \in 1..taken[c] :
    \E i \in DOMAIN file : Holds(file[i], c, n)

(* What holds as long as nothing has failed, once a drain has read the end *)
(* of its pipe, and once nothing can change any more.                      *)
Unharmed == (\A c \in Channel : drain[c] \in {"copying", "ended"}) =>
    tail = "clean" /\ ~jammed /\ Covered
Drained == \A c \in Channel : drain[c] = "ended" => closed[c] /\ taken[c] = written[c]
Whole == /\ ~jammed /\ Covered
         /\ \A c \in Channel : /\ drain[c] \in {"finished", "gone"}
                               /\ closed[c] /\ taken[c] = written[c]
Promise == status = "complete" => Whole

JInv == IInv /\ Ordered /\ Behind /\ Unharmed /\ Drained /\ Promise

LEMMA FileFacts ==
  ASSUME IInv
  PROVE  /\ file \in Seq(Entry) /\ Len(file) \in Nat /\ DOMAIN file = 1..Len(file)
         /\ \A i \in DOMAIN file : /\ file[i] \in Entry /\ file[i].channel \in Channel
                                   /\ file[i].first \in Nat /\ file[i].len \in Nat \ {0}
         /\ \A c \in Channel : taken[c] \in Nat /\ written[c] \in Nat
         /\ taken \in [Channel -> Nat]
<1>1. file \in Seq(Entry)
  BY DEF IInv, TypeOK
<1>2. \A i \in DOMAIN file : file[i] \in Entry
  BY <1>1
<1>3. \A e \in Entry : e.channel \in Channel /\ e.first \in Nat /\ e.len \in Nat \ {0}
  BY DEF Entry
<1>4. Len(file) \in Nat /\ DOMAIN file = 1..Len(file)
  BY <1>1
<1>5. /\ \A c \in Channel : taken[c] \in Nat /\ written[c] \in Nat
      /\ taken \in [Channel -> Nat]
  BY DEF IInv, TypeOK
<1> QED
  BY <1>1, <1>2, <1>3, <1>4, <1>5

(* All bytes can be read if each is in some entry.                         *)
LEMMA ReadableIsCovered ==
  ASSUME IInv, Ordered, Behind
  PROVE  AllReadable <=> Covered
<1>1. ASSUME NEW c \in Channel
      PROVE  /\ \A i \in Of(c) : file[i].first + file[i].len <= taken[c]
             /\ \A i, j \in Of(c) : i < j => file[i].first + file[i].len <= file[j].first
  BY DEF Of, Ordered, Behind
<1> QED
  BY <1>1 DEF AllReadable, HasBytes, Covered

(* A chunk is taken from the pipe and a line is written for it.            *)
ChunkTaken(c, n) ==
    /\ taken' = [taken EXCEPT ![c] = @ + n]
    /\ LineOf(c, n)

LEMMA ChunkFacts ==
  ASSUME IInv, NEW c \in Channel, NEW n \in Chunk(c), ChunkTaken(c, n)
  PROVE  LET e == NewEntry(c, n)
         IN  /\ e \in Entry /\ e.channel = c /\ e.first = taken[c] /\ e.len = n
             /\ n \in Nat \ {0} /\ taken[c] \in Nat
             /\ taken'[c] = taken[c] + n
             /\ \A d \in Channel : d # c => taken'[d] = taken[d]
             /\ Written(e)
<1>1. n \in Nat \ {0} /\ taken \in [Channel -> Nat]
  BY ChunkSize, FileFacts DEF IInv
<1>2. NewEntry(c, n) \in Entry /\ Written(NewEntry(c, n))
  BY NewEntryType, LinesAreWritten DEF IInv, ChunkTaken, LineOf
<1>3. taken'[c] = taken[c] + n /\ \A d \in Channel : d # c => taken'[d] = taken[d]
  BY <1>1 DEF ChunkTaken
<1> QED
  BY <1>1, <1>2, <1>3 DEF NewEntry

(* What a line may do to the entries.                                      *)
LEMMA WrittenEntries ==
  ASSUME IInv, NEW e \in Entry, Written(e)
  PROVE  \/ file' = file
         \/ /\ file' = Append(file, e) /\ DOMAIN file' = 1..(Len(file) + 1)
            /\ \A i \in DOMAIN file : file'[i] = file[i]
            /\ file'[Len(file) + 1] = e
         \/ /\ file' = Front(file) /\ Len(file) \in DOMAIN file
            /\ DOMAIN file' = 1..(Len(file) - 1)
            /\ \A i \in DOMAIN file' : file'[i] = file[i]
<1>1. file \in Seq(Entry)
  BY DEF IInv, TypeOK
<1>2. CASE file' = Append(file, e)
  BY <1>1, <1>2
<1>3. CASE file # <<>> /\ file' = Front(file)
  <2>1. /\ file' \in Seq(Entry) /\ Len(file') = Len(file) - 1
        /\ \A i \in 1..(Len(file) - 1) : file'[i] = file[i]
    BY <1>1, <1>3, FrontIsSeq
  <2>2. Len(file) \in Nat /\ Len(file) # 0
    BY <1>1, <1>3, EmptySeq
  <2> QED
    BY <1>1, <1>3, <2>1, <2>2
<1> QED
  BY <1>2, <1>3 DEF Written

LEMMA ChunkKeepsOrder ==
  ASSUME IInv, Ordered, Behind, NEW c \in Channel, NEW n \in Chunk(c), ChunkTaken(c, n)
  PROVE  Ordered' /\ Behind'
<1> DEFINE e == NewEntry(c, n)
           N == Len(file)
<1>1. /\ e \in Entry /\ e.channel = c /\ e.first = taken[c] /\ e.len = n
      /\ n \in Nat \ {0} /\ taken[c] \in Nat
      /\ taken'[c] = taken[c] + n
      /\ \A d \in Channel : d # c => taken'[d] = taken[d]
      /\ Written(e)
  BY ChunkFacts
<1> HIDE DEF e
<1>2. /\ N \in Nat /\ DOMAIN file = 1..N
      /\ \A i \in DOMAIN file : /\ file[i] \in Entry /\ file[i].channel \in Channel
                                /\ file[i].first \in Nat /\ file[i].len \in Nat \ {0}
      /\ \A d \in Channel : taken[d] \in Nat
  BY FileFacts
<1>3. \A i \in DOMAIN file : file[i].first + file[i].len <= taken'[file[i].channel]
  BY <1>1, <1>2 DEF Behind
<1>4. CASE file' = file
  BY <1>3, <1>4 DEF Ordered, Behind
<1>5. CASE /\ DOMAIN file' = 1..(N + 1)
           /\ \A i \in DOMAIN file : file'[i] = file[i]
           /\ file'[N + 1] = e
  <2>1. Behind'
    <3> SUFFICES ASSUME NEW i \in 1..(N + 1)
                 PROVE  file'[i].first + file'[i].len <= taken'[file'[i].channel]
      BY <1>5 DEF Behind
    <3>1. CASE i \in 1..N
      BY <1>2, <1>3, <1>5, <3>1
    <3>2. CASE i = N + 1
      BY <1>1, <1>5, <3>2
    <3> QED
      BY <1>2, <3>1, <3>2
  <2>2. Ordered'
    <3> SUFFICES ASSUME NEW i \in 1..(N + 1), NEW j \in 1..(N + 1), i < j,
                        file'[i].channel = file'[j].channel
                 PROVE  file'[i].first + file'[i].len <= file'[j].first
      BY <1>5 DEF Ordered
    <3>1. i \in DOMAIN file /\ file'[i] = file[i]
      BY <1>2, <1>5
    <3>2. CASE j \in 1..N
      BY <1>2, <1>5, <3>1, <3>2 DEF Ordered
    <3>3. CASE j = N + 1
      <4>1. file[i].first + file[i].len <= taken[c]
        BY <1>1, <1>5, <3>1, <3>3 DEF Behind
      <4> QED
        BY <1>1, <1>5, <3>1, <3>3, <4>1
    <3> QED
      BY <1>2, <3>2, <3>3
  <2> QED
    BY <2>1, <2>2
<1>6. CASE /\ DOMAIN file' = 1..(N - 1)
           /\ \A i \in DOMAIN file' : file'[i] = file[i]
  <2>1. \A i \in DOMAIN file' : i \in DOMAIN file
    BY <1>2, <1>6
  <2>2. Behind'
    BY <1>3, <1>6, <2>1 DEF Behind
  <2>3. Ordered'
    BY <1>6, <2>1 DEF Ordered
  <2> QED
    BY <2>2, <2>3
<1> QED
  BY <1>1, <1>4, <1>5, <1>6, WrittenEntries

(* A chunk whose line is written behind a clean end can be read.           *)
LEMMA AppendCovers ==
  ASSUME IInv, Covered, tail = "clean", ~jammed,
         NEW c \in Channel, NEW n \in Chunk(c), ChunkTaken(c, n),
         AppendLine(NewEntry(c, n))
  PROVE  tail' = "clean" /\ ~jammed' /\ Covered'
<1> DEFINE e == NewEntry(c, n)
           N == Len(file)
<1>1. /\ e \in Entry /\ e.channel = c /\ e.first = taken[c] /\ e.len = n
      /\ n \in Nat \ {0} /\ taken[c] \in Nat
      /\ taken'[c] = taken[c] + n
      /\ \A d \in Channel : d # c => taken'[d] = taken[d]
  BY ChunkFacts
<1>2. tail' = "clean" /\ ~jammed' /\ file' = Append(file, e)
  BY DEF AppendLine, MayJam
<1> HIDE DEF e
<1>3. /\ N \in Nat /\ DOMAIN file = 1..N /\ DOMAIN file' = 1..(N + 1)
      /\ \A i \in DOMAIN file : file'[i] = file[i]
      /\ file'[N + 1] = e
  BY <1>1, <1>2, FileFacts
<1>4. ASSUME NEW d \in Channel, NEW k \in 1..taken'[d]
      PROVE  \E i \in DOMAIN file' : Holds(file'[i], d, k)
  <2>1. CASE k \in 1..taken[d]
    <3>1. PICK i \in DOMAIN file : Holds(file[i], d, k)
      BY <2>1 DEF Covered
    <3>2. i \in DOMAIN file' /\ file'[i] = file[i]
      BY <1>3
    <3> QED
      BY <3>1, <3>2
  <2>2. CASE k \notin 1..taken[d]
    <3>1. d = c /\ k \in Nat /\ taken[c] < k /\ k <= taken[c] + n
      BY <1>1, <2>2
    <3>2. Holds(file'[N + 1], d, k) /\ N + 1 \in DOMAIN file'
      BY <1>1, <1>3, <3>1 DEF Holds
    <3> QED
      BY <3>2
  <2> QED
    BY <2>1, <2>2
<1>5. Covered'
  BY <1>4 DEF Covered, Holds
<1> QED
  BY <1>2, <1>5

-----------------------------------------------------------------------------
(* The file changes when a chunk is taken, by a drain that still copies.   *)
LEMMA FileChanges ==
  ASSUME [Next]_vars
  PROVE  \/ UNCHANGED <<file, taken>>
         \/ \E c \in Channel : \E n \in Chunk(c) :
                drain[c] = "copying" /\ UNCHANGED status /\ ChunkTaken(c, n)
<1>1. CASE UNCHANGED vars
  BY <1>1 DEF vars, capture, journal
<1>2. CASE WorkerStep
  BY <1>2 DEF WorkerStep, WorkerWrites, WorkerCloses, capture, journal
<1>3. CASE CaptureStep
  <2>1. ASSUME NEW c \in Channel, DrainCopies(c) \/ DrainFails(c)
        PROVE  \E n \in Chunk(c) :
                  drain[c] = "copying" /\ UNCHANGED status /\ ChunkTaken(c, n)
    BY <2>1 DEF DrainCopies, DrainFails, ChunkTaken, LineOf
  <2>2. ASSUME NEW c \in Channel, DrainEnds(c)
        PROVE  UNCHANGED <<file, taken>>
    BY <2>2 DEF DrainEnds, journal
  <2>3. CASE CaptureFinishes
    BY <2>3 DEF CaptureFinishes
  <2> QED
    BY <1>3, <2>1, <2>2, <2>3 DEF CaptureStep
<1>4. CASE Control
  BY <1>4, ControlStep
<1>5. CASE HostDies
  BY <1>5 DEF HostDies, journal, ChunkTaken, LineOf
<1> QED
  BY <1>1, <1>2, <1>3, <1>4, <1>5 DEF Next, HostStep, Control

LEMMA OrderStep ==
  ASSUME IInv, Ordered, Behind, [Next]_vars
  PROVE  Ordered' /\ Behind'
<1>1. CASE UNCHANGED <<file, taken>>
  BY <1>1 DEF Ordered, Behind
<1> QED
  BY <1>1, FileChanges, ChunkKeepsOrder

(* What is whole stays so.                                                 *)
LEMMA WholeStays ==
  ASSUME Whole, UNCHANGED <<file, jammed, taken, written>>,
         \A c \in Channel : drain'[c] \in {"finished", "gone"} /\ closed'[c]
  PROVE  Whole'
<1>1. Covered'
  BY DEF Whole, Covered
<1> QED
  BY <1>1 DEF Whole

LEMMA WorkerKeepsWhole ==
  ASSUME JInv, WorkerStep
  PROVE  Unharmed' /\ Drained' /\ Promise'
<1>0. IInv /\ Unharmed /\ Drained /\ Promise
  BY DEF JInv
<1>1. UNCHANGED <<file, tail, jammed, taken, drain, status>>
  BY DEF WorkerStep, WorkerWrites, WorkerCloses, capture, journal
<1>2. Unharmed'
  BY <1>0, <1>1 DEF Unharmed, Covered
<1>3. ASSUME NEW c \in Channel, WorkerWrites(c)
      PROVE  Drained' /\ Promise'
  <2>1. /\ ~closed[c] /\ drain[c] = "copying" /\ UNCHANGED closed
        /\ \A d \in Channel : d # c => written'[d] = written[d]
    BY <1>0, <1>3 DEF WorkerWrites, IInv, TypeOK
  <2>2. Drained'
    BY <1>0, <1>1, <2>1 DEF Drained
  <2>3. ~Whole
    BY <2>1 DEF Whole
  <2> QED
    BY <1>0, <1>1, <2>2, <2>3 DEF Promise
<1>4. ASSUME NEW c \in Channel, WorkerCloses(c)
      PROVE  Drained' /\ Promise'
  <2>1. UNCHANGED written /\ \A d \in Channel : closed[d] => closed'[d]
    BY <1>0, <1>4 DEF WorkerCloses, IInv, TypeOK
  <2>2. Drained'
    BY <1>0, <1>1, <2>1 DEF Drained
  <2>3. Whole => Whole'
    BY <1>1, <2>1, WholeStays DEF Whole
  <2> QED
    BY <1>0, <1>1, <2>2, <2>3 DEF Promise
<1> QED
  BY <1>2, <1>3, <1>4 DEF WorkerStep

(* Once both drains have returned and neither has failed, all is there.    *)
LEMMA CompleteIsWhole ==
  ASSUME JInv, BothReturned, Outcome = "complete",
         UNCHANGED <<file, jammed, taken, written, closed>>,
         \A c \in Channel : drain'[c] \in {"finished", "gone"}
  PROVE  Whole'
<1>1. \A c \in Channel : drain[c] = "ended"
  BY DEF BothReturned, Outcome
<1>2. ~jammed /\ Covered /\ \A c \in Channel : closed[c] /\ taken[c] = written[c]
  BY <1>1 DEF JInv, Unharmed, Drained
<1>3. Covered'
  BY <1>2 DEF Covered
<1> QED
  BY <1>2, <1>3 DEF Whole

LEMMA CaptureKeepsWhole ==
  ASSUME JInv, CaptureStep
  PROVE  Unharmed' /\ Drained' /\ Promise'
<1>0. IInv /\ Unharmed /\ Drained /\ Promise
  BY DEF JInv
<1>1. ASSUME NEW c \in Channel, DrainCopies(c)
      PROVE  Unharmed' /\ Drained' /\ Promise'
  <2>1. PICK n \in Chunk(c) : ChunkTaken(c, n) /\ AppendLine(NewEntry(c, n))
    BY <1>1 DEF DrainCopies, ChunkTaken, LineOf
  <2>2. /\ drain[c] = "copying" /\ UNCHANGED <<drain, status, written, closed>>
        /\ \A d \in Channel : d # c => taken'[d] = taken[d]
    BY <1>0, <1>1, <2>1, ChunkFacts DEF DrainCopies, pipes
  <2>3. Unharmed'
    BY <1>0, <2>1, <2>2, AppendCovers DEF Unharmed
  <2>4. Drained'
    BY <1>0, <2>2 DEF Drained
  <2>5. Promise'
    BY <1>0, <2>2 DEF Promise, Whole
  <2> QED
    BY <2>3, <2>4, <2>5
<1>2. ASSUME NEW c \in Channel, DrainFails(c)
      PROVE  Unharmed' /\ Drained' /\ Promise'
  <2>1. PICK n \in Chunk(c) : ChunkTaken(c, n)
    BY <1>2 DEF DrainFails, ChunkTaken, LineOf
  <2>2. /\ drain[c] = "copying" /\ drain'[c] = "failed" /\ UNCHANGED <<status, written, closed>>
        /\ \A d \in Channel : d # c => taken'[d] = taken[d] /\ drain'[d] = drain[d]
    <3>1. \A d \in Channel : d # c => taken'[d] = taken[d]
      BY <1>0, <2>1, ChunkFacts
    <3> QED
      BY <1>0, <1>2, <3>1 DEF DrainFails, pipes, IInv, TypeOK
  <2>3. Unharmed'
    BY <2>2 DEF Unharmed
  <2>4. Drained'
    BY <1>0, <2>2 DEF Drained
  <2>5. Promise'
    BY <1>0, <2>2 DEF Promise, Whole
  <2> QED
    BY <2>3, <2>4, <2>5
<1>3. ASSUME NEW c \in Channel, DrainEnds(c)
      PROVE  Unharmed' /\ Drained' /\ Promise'
  <2>1. /\ drain[c] = "copying" /\ drain'[c] = "ended" /\ closed[c] /\ taken[c] = written[c]
        /\ UNCHANGED <<file, tail, jammed, taken, written, closed, status>>
        /\ \A d \in Channel : d # c => drain'[d] = drain[d]
    BY <1>0, <1>3 DEF DrainEnds, pipes, journal, IInv, TypeOK
  <2>2. Unharmed'
    BY <1>0, <2>1 DEF Unharmed, Covered
  <2>3. Drained'
    BY <1>0, <2>1 DEF Drained
  <2>4. Promise'
    BY <1>0, <2>1 DEF Promise, Whole
  <2> QED
    BY <2>2, <2>3, <2>4
<1>4. CASE CaptureFinishes
  <2>1. /\ UNCHANGED <<file, tail, jammed, taken, written, closed>>
        /\ \A c \in Channel : drain'[c] = "finished"
        /\ BothReturned
        /\ status' \in {Outcome, "", "missing", status}
    BY <1>4 DEF CaptureFinishes, Finish, pipes
  <2>2. Unharmed'
    BY <1>0, <2>1 DEF Unharmed, Covered
  <2>3. Drained'
    BY <2>1 DEF Drained
  <2>4. Whole => Whole'
    BY <2>1, WholeStays DEF Whole
  <2>5. Outcome = "complete" => Whole'
    BY <2>1, CompleteIsWhole
  <2>6. Promise'
    BY <1>0, <2>1, <2>4, <2>5 DEF Promise
  <2> QED
    BY <2>2, <2>3, <2>6
<1> QED
  BY <1>1, <1>2, <1>3, <1>4 DEF CaptureStep

LEMMA HostKeepsWhole ==
  ASSUME JInv, HostStep
  PROVE  Unharmed' /\ Drained' /\ Promise'
<1>0. IInv /\ Unharmed /\ Drained /\ Promise
  BY DEF JInv
<1>1. CASE Control
  <2>1. /\ UNCHANGED <<file, tail, jammed, taken, drain, written, closed>>
        /\ status' \in {"interrupted", "", "missing", status}
    BY <1>1, ControlStep
  <2>2. Unharmed' /\ Drained'
    BY <1>0, <2>1 DEF Unharmed, Drained, Covered
  <2>3. Whole => Whole'
    BY <2>1, WholeStays DEF Whole
  <2> QED
    BY <1>0, <2>1, <2>2, <2>3 DEF Promise
<1>2. CASE HostDies
  <2>1. /\ \A c \in Channel : drain'[c] \in {"finished", "gone"}
        /\ UNCHANGED <<written, closed>>
    BY <1>2 DEF HostDies, Gone, pipes
  <2>2. Drained'
    BY <2>1 DEF Drained
  <2>3. CASE UNCHANGED <<taken, journal>>
    <3>1. Unharmed'
      BY <1>0, <2>1, <2>3 DEF Unharmed, Covered, journal
    <3>2. Whole => Whole'
      BY <2>1, <2>3, WholeStays DEF Whole, journal
    <3> QED
      BY <1>0, <2>2, <2>3, <3>1, <3>2 DEF Promise, journal
  <2>4. CASE UNCHANGED status /\ \E c \in Channel : drain[c] = "copying"
    BY <1>0, <2>1, <2>2, <2>4 DEF Unharmed, Promise, Whole
  <2>5. CASE BothReturned /\ status' \in {"", Outcome} /\ UNCHANGED <<taken, file, tail, jammed>>
    <3>1. Unharmed'
      BY <1>0, <2>1, <2>5 DEF Unharmed, Covered
    <3>2. Outcome = "complete" => Whole'
      BY <2>1, <2>5, CompleteIsWhole
    <3> QED
      BY <2>2, <2>5, <3>1, <3>2 DEF Promise
  <2> QED
    BY <1>2, <2>3, <2>4, <2>5 DEF HostDies
<1> QED
  BY <1>1, <1>2 DEF HostStep, Control

LEMMA InitIsWhole == Init => JInv
<1> SUFFICES ASSUME Init PROVE Ordered /\ Behind /\ Unharmed /\ Drained /\ Promise
  BY InitInvariant DEF JInv
<1>1. /\ file = <<>> /\ DOMAIN file = {} /\ tail = "clean" /\ jammed = FALSE
      /\ status = "none" /\ \A c \in Channel : drain[c] = "copying" /\ taken[c] = 0
  BY DEF Init
<1>2. Covered
  BY <1>1 DEF Covered
<1> QED
  BY <1>1, <1>2 DEF Ordered, Behind, Unharmed, Drained, Promise

LEMMA StepIsWhole == JInv /\ [Next]_vars => JInv'
<1> SUFFICES ASSUME JInv, [Next]_vars PROVE JInv'
  OBVIOUS
<1>1. IInv' /\ Ordered' /\ Behind'
  BY StepInvariant, OrderStep DEF JInv
<1>2. CASE UNCHANGED vars
  BY <1>1, <1>2 DEF JInv, Unharmed, Drained, Promise, Whole, Covered, vars, pipes, capture, journal
<1> QED
  BY <1>1, <1>2, WorkerKeepsWhole, CaptureKeepsWhole, HostKeepsWhole DEF Next, JInv

(* While nothing has failed every byte taken can be read, and a capture    *)
(* that was called complete changes no more (drainAndCapture, Finish).     *)
THEOREM CaptureInvariance == Spec => []JInv
BY InitIsWhole, StepIsWhole, PTL DEF Spec

(* A capture reported complete holds every byte that was written to the    *)
(* two pipes, in order, and nothing more will be (drainAndCapture's clean  *)
(* end of both pipes, every append durable).                               *)
THEOREM CompletenessIsTrue == Spec => []CompleteIsComplete
<1>1. JInv => CompleteIsComplete
  <2> SUFFICES ASSUME JInv, status = "complete"
               PROVE  ~jammed /\ \A c \in Channel : closed[c] /\ HasBytes(c, written[c])
    BY DEF CompleteIsComplete
  <2>1. Whole /\ AllReadable
    BY ReadableIsCovered DEF JInv, Promise, Whole
  <2> QED
    BY <2>1 DEF Whole, AllReadable
<1> QED
  BY <1>1, CaptureInvariance, PTL

-----------------------------------------------------------------------------
(* A reader takes part in no step of the capture: what is proved of the    *)
(* capture holds in the composition with readers (ReadAfter reads only).   *)
THEOREM ReadersObserve == ReadingSpec => Spec /\ []OffsetsTile
<1>1. ReadingInit => Init
  BY DEF ReadingInit
<1>2. [ReadingNext]_allVars => [Next]_vars
  BY DEF ReadingNext, allVars, ReaderAsks, HostReads, HostPublishes, ReaderTakes,
         Next, HostStep
<1>3. ReadingSpec => Spec
  BY <1>1, <1>2, PTL DEF ReadingSpec, Spec
<1> QED
  BY <1>3, OffsetsNameBytes, PTL

-----------------------------------------------------------------------------
(***************************************************************************)
(* What a reader has.                                                      *)
(***************************************************************************)

(* Induction for a set: there is no least number outside it.               *)
LEMMA Steps ==
  ASSUME NEW N \in Nat, NEW P, 0 \in P,
         \A k \in 1..N : k - 1 \in P => k \in P
  PROVE  \A k \in 0..N : k \in P
<1> DEFINE R == {ss \in Nat \X Nat : ss[1] < ss[2]}
           Outside == {k \in 0..N : k \notin P}
<1>1. SUFFICES ASSUME Outside # {} PROVE FALSE
  OBVIOUS
<1>2. IsWellFoundedOn(R, Nat)
  BY NatLessThanWellFounded DEF OpToRel
<1>3. PICK m \in Outside : \A n \in Outside : <<n, m>> \notin R
  <2>1. Outside \subseteq Nat
    OBVIOUS
  <2> HIDE DEF Outside, R
  <2> QED
    BY <1>1, <1>2, <2>1, WFMin
<1>4. m \in 1..N /\ m \notin P
  BY <1>3
<1>5. m - 1 \in Outside /\ <<m - 1, m>> \in R
  BY <1>4
<1> QED
  BY <1>3, <1>5

(* A function that is defined from one number to the next exists, and is   *)
(* the only one.                                                           *)
Recursive(f, N, base, step) ==
    f[0] = base /\ \A k \in 1..N : f[k] = step[<<f[k - 1], k>>]

LEMMA RecursionExists ==
  ASSUME NEW N \in Nat, NEW T, NEW base \in T, NEW step \in [T \X (1..N) -> T]
  PROVE  \E f \in [0..N -> T] : Recursive(f, N, base, step)
<1> DEFINE P == {n \in 0..N : \E f \in [0..n -> T] : Recursive(f, n, base, step)}
<1>1. 0 \in P
  <2>1. [k \in 0..0 |-> base] \in [0..0 -> T]
        /\ Recursive([k \in 0..0 |-> base], 0, base, step)
    BY DEF Recursive
  <2> QED
    BY <2>1
<1>2. ASSUME NEW k \in 1..N, k - 1 \in P
      PROVE  k \in P
  <2>1. PICK f \in [0..(k - 1) -> T] : Recursive(f, k - 1, base, step)
    BY <1>2
  <2> DEFINE g == [n \in 0..k |-> IF n = k THEN step[<<f[k - 1], k>>] ELSE f[n]]
  <2>2. k - 1 \in 0..(k - 1) /\ f[k - 1] \in T
    BY <2>1
  <2>3. step[<<f[k - 1], k>>] \in T
    BY <2>2
  <2>4. g \in [0..k -> T]
    BY <2>1, <2>3
  <2>5. Recursive(g, k, base, step)
    <3>1. g[0] = base
      BY <2>1 DEF Recursive
    <3>2. ASSUME NEW n \in 1..k PROVE g[n] = step[<<g[n - 1], n>>]
      <4>1. n - 1 \in 0..k /\ n - 1 # k /\ n \in 0..k
        OBVIOUS
      <4>2. g[n - 1] = f[n - 1]
        BY <4>1
      <4>3. CASE n = k
        BY <4>1, <4>2, <4>3
      <4>4. CASE n # k
        <5>1. n \in 1..(k - 1)
          BY <4>4
        <5> QED
          BY <2>1, <4>1, <4>2, <4>4, <5>1 DEF Recursive
      <4> QED
        BY <4>3, <4>4
    <3> HIDE DEF g
    <3> QED
      BY <3>1, <3>2 DEF Recursive
  <2> HIDE DEF g
  <2> QED
    BY <2>4, <2>5
<1> HIDE DEF P
<1>3. N \in P
  BY <1>1, <1>2, Steps
<1> QED
  BY <1>3 DEF P

(* The chunks that the calls have returned.                                *)
Call == [op : ReadOp, answer : Output]

Gathered(done, got) ==
    got = [k \in 0..Len(done) |->
             IF k = 0 THEN <<>> ELSE got[k - 1] \o Given(done[k])]

LEMMA GivenType ==
  ASSUME NEW call \in Call
  PROVE  Given(call) \in Seq(Entry)
<1>1. call.answer \in Output
  BY DEF Call
<1>2. call.answer.chunks \in Seq(Entry)
  BY <1>1 DEF Output
<1> QED
  BY <1>2 DEF Given

LEMMA ChunksAreGathered ==
  ASSUME NEW done \in Seq(Call)
  PROVE  \E got \in [0..Len(done) -> Seq(Entry)] :
            Gathered(done, got) /\ ChunksOf(done) = got[Len(done)]
<1> DEFINE N == Len(done)
           T == Seq(Entry)
           step == [p \in T \X (1..N) |-> p[1] \o Given(done[p[2]])]
<1>1. N \in Nat /\ \A k \in 1..N : Given(done[k]) \in T
  BY GivenType
<1>2. step \in [T \X (1..N) -> T]
  BY <1>1
<1>3. PICK f \in [0..N -> T] : Recursive(f, N, <<>>, step)
  <2>1. <<>> \in T
    OBVIOUS
  <2> HIDE DEF step, T, N
  <2> QED
    BY <1>1, <1>2, <2>1, RecursionExists
<1>4. Gathered(done, f)
  <2>1. \A k \in 0..N : f[k] = IF k = 0 THEN <<>> ELSE f[k - 1] \o Given(done[k])
    <3> TAKE k \in 0..N
    <3>1. CASE k # 0
      <4>1. k \in 1..N /\ k - 1 \in 0..N
        BY <1>1, <3>1
      <4>2. f[k] = step[<<f[k - 1], k>>] /\ <<f[k - 1], k>> \in T \X (1..N)
        BY <1>3, <4>1 DEF Recursive
      <4> QED
        BY <3>1, <4>2
    <3> QED
      BY <1>3, <3>1 DEF Recursive
  <2>2. f = [k \in 0..N |-> f[k]]
    BY <1>3
  <2> QED
    BY <2>1, <2>2 DEF Gathered
<1>5. PICK g : Gathered(done, g) /\ ChunksOf(done) = g[N]
  BY <1>4 DEF ChunksOf, Gathered
<1>6. g \in [0..N -> T]
  <2> DEFINE P == {k \in 0..N : g[k] \in T}
  <2>1. 0 \in P
    BY <1>1, <1>5 DEF Gathered
  <2>2. \A k \in 1..N : k - 1 \in P => k \in P
    <3> TAKE k \in 1..N
    <3>1. k - 1 \in 0..N /\ k \in 0..N /\ k # 0
      BY <1>1
    <3>2. g[k] = g[k - 1] \o Given(done[k])
      BY <1>5, <3>1 DEF Gathered
    <3>3. ASSUME g[k - 1] \in T PROVE g[k] \in T
      <4>1. Given(done[k]) \in T
        BY <1>1
      <4> QED
        BY <3>2, <3>3, <4>1, ConcatProperties
    <3> QED
      BY <3>1, <3>3
  <2>3. \A k \in 0..N : k \in P
    <3> HIDE DEF P
    <3> QED
      BY <1>1, <2>1, <2>2, Steps
  <2> QED
    BY <1>5, <2>3 DEF Gathered
<1> QED
  BY <1>5, <1>6

LEMMA NoCallNoChunk == ChunksOf(<<>>) = <<>>
<1>1. <<>> \in Seq(Call) /\ Len(<<>>) = 0
  OBVIOUS
<1>2. PICK g : Gathered(<<>>, g) /\ ChunksOf(<<>>) = g[0]
  BY <1>1, ChunksAreGathered
<1> QED
  BY <1>1, <1>2 DEF Gathered

LEMMA CallAddsChunks ==
  ASSUME NEW done \in Seq(Call), NEW call \in Call
  PROVE  /\ ChunksOf(done) \in Seq(Entry)
         /\ ChunksOf(Append(done, call)) = ChunksOf(done) \o Given(call)
<1> DEFINE N == Len(done)
           more == Append(done, call)
<1>1. /\ N \in Nat /\ more \in Seq(Call) /\ Len(more) = N + 1
      /\ \A k \in 1..N : more[k] = done[k]
      /\ more[N + 1] = call
  OBVIOUS
<1> HIDE DEF more
<1>2. PICK f \in [0..N -> Seq(Entry)] : Gathered(done, f) /\ ChunksOf(done) = f[N]
  BY ChunksAreGathered
<1>3. PICK g \in [0..(N + 1) -> Seq(Entry)] : Gathered(more, g) /\ ChunksOf(more) = g[N + 1]
  BY <1>1, ChunksAreGathered
<1>4. g[N] = f[N]
  <2> DEFINE P == {k \in 0..N : g[k] = f[k]}
  <2>1. 0 \in P
    BY <1>1, <1>2, <1>3 DEF Gathered
  <2>2. \A k \in 1..N : k - 1 \in P => k \in P
    <3> TAKE k \in 1..N
    <3>1. k - 1 \in 0..N /\ k \in 0..N /\ k \in 0..(N + 1) /\ k # 0
      BY <1>1
    <3>2. g[k] = g[k - 1] \o Given(more[k])
      BY <1>1, <1>3, <3>1 DEF Gathered
    <3>3. f[k] = f[k - 1] \o Given(done[k])
      BY <1>2, <3>1 DEF Gathered
    <3> QED
      BY <1>1, <3>1, <3>2, <3>3
  <2>3. \A k \in 0..N : k \in P
    <3> HIDE DEF P
    <3> QED
      BY <1>1, <2>1, <2>2, Steps
  <2> QED
    BY <1>1, <2>3
<1>5. g[N + 1] = g[N] \o Given(call)
  <2>1. N + 1 \in 0..Len(more) /\ N + 1 # 0 /\ (N + 1) - 1 = N
    BY <1>1
  <2>2. g[N + 1] = g[(N + 1) - 1] \o Given(more[N + 1])
    BY <1>3, <2>1 DEF Gathered
  <2> QED
    BY <1>1, <2>1, <2>2
<1> QED
  BY <1>1, <1>2, <1>3, <1>4, <1>5 DEF more

-----------------------------------------------------------------------------
(* An entry ends where the next begins or before.                          *)
LEMMA OffsetsAscend ==
  ASSUME IInv
  PROVE  \A i, j \in DOMAIN file : i < j =>
            file[i].offset + file[i].len <= file[j].offset
<1> DEFINE N == Len(file)
           P == {j \in 0..N : j = 0 \/ \A i \in 1..(j - 1) :
                                file[i].offset + file[i].len <= file[j].offset}
<1>1. /\ N \in Nat /\ DOMAIN file = 1..N
      /\ \A i \in 1..N : file[i].offset \in Nat /\ file[i].len \in Nat
  <2>1. \A e \in Entry : e.offset \in Nat /\ e.len \in Nat
    BY DEF Entry
  <2> QED
    BY <2>1, FileFacts
<1>2. \A i \in 1..N : i # 1 => file[i].offset = file[i - 1].offset + file[i - 1].len
  BY TilesIsOffsetsTile, FileFacts DEF IInv, OffsetsTile, Tiles
<1>3. ASSUME NEW k \in 1..N, k - 1 \in P
      PROVE  k \in P
  <2> SUFFICES ASSUME NEW i \in 1..(k - 1)
               PROVE  file[i].offset + file[i].len <= file[k].offset
    OBVIOUS
  <2>1. k - 1 \in 1..N /\ i \in 1..N /\ k # 1
    BY <1>1
  <2>2. file[k].offset = file[k - 1].offset + file[k - 1].len
    BY <1>2, <2>1
  <2>3. CASE i = k - 1
    BY <1>1, <2>1, <2>2, <2>3
  <2>4. CASE i # k - 1
    <3>1. i \in 1..((k - 1) - 1) /\ k - 1 # 0
      BY <1>1, <2>1, <2>4
    <3>2. file[i].offset + file[i].len <= file[k - 1].offset
      BY <1>3, <3>1
    <3>3. /\ file[i].offset \in Nat /\ file[i].len \in Nat
          /\ file[k - 1].offset \in Nat /\ file[k - 1].len \in Nat
      BY <1>1, <2>1
    <3> QED
      BY <2>2, <3>2, <3>3
  <2> QED
    BY <2>3, <2>4
<1>4. \A k \in 0..N : k \in P
  <2>1. 0 \in P
    BY <1>1
  <2> HIDE DEF P
  <2> QED
    BY <1>1, <1>3, <2>1, Steps
<1>5. ASSUME NEW i \in 1..N, NEW j \in 1..N, i < j
      PROVE  file[i].offset + file[i].len <= file[j].offset
  <2>1. j \in 0..N /\ j # 0 /\ i \in 1..(j - 1)
    BY <1>1, <1>5
  <2> QED
    BY <1>4, <2>1
<1> QED
  BY <1>1, <1>5

(* The entries that follow the first m of the file.                        *)
Follows(chunks, m) ==
    /\ m + Len(chunks) <= Len(file)
    /\ \A i \in 1..Len(chunks) : chunks[i] = file[m + i]

(* Where a read starts that asks for what follows the first m entries.     *)
LEMMA StartOfRead ==
  ASSUME IInv, NEW m \in 0..Len(file),
         NEW s \in Seq(Entry), Len(s) = m, \A i \in 1..m : s[i] = file[i]
  PROVE  /\ EndOf(s) \in Nat
         /\ \A i \in DOMAIN file : PassedOver(file[i], EndOf(s)) <=> i <= m
         /\ m + 1 \in DOMAIN file => file[m + 1].offset = EndOf(s)
<1>1. /\ Len(file) \in Nat /\ DOMAIN file = 1..Len(file)
      /\ \A i \in DOMAIN file : file[i].offset \in Nat /\ file[i].len \in Nat \ {0}
  <2>1. \A e \in Entry : e.offset \in Nat /\ e.len \in Nat \ {0}
    BY DEF Entry
  <2> QED
    BY <2>1, FileFacts
<1>2. EndOf(s) = IF m = 0 THEN 0 ELSE file[m].offset + file[m].len
  <2>1. s = <<>> <=> m = 0
    BY EmptySeq
  <2>2. m # 0 => Last(s) = file[m]
    BY <1>1 DEF Last
  <2> QED
    BY <2>1, <2>2 DEF EndOf
<1>3. EndOf(s) \in Nat
  BY <1>1, <1>2
<1>4. ASSUME NEW i \in DOMAIN file, i <= m
      PROVE  file[i].offset < EndOf(s)
  <2>1. m \in DOMAIN file /\ m # 0 /\ i \in Nat /\ m \in Nat
    BY <1>1, <1>4
  <2>2. i = m \/ file[i].offset + file[i].len <= file[m].offset
    BY <1>4, <2>1, OffsetsAscend
  <2> QED
    BY <1>1, <1>2, <2>1, <2>2
<1>5. ASSUME NEW i \in DOMAIN file, ~(i <= m)
      PROVE  ~(file[i].offset < EndOf(s))
  <2>1. m # 0 => m \in DOMAIN file /\ m < i
    BY <1>1, <1>5
  <2>2. m # 0 => file[m].offset + file[m].len <= file[i].offset
    BY <2>1, OffsetsAscend
  <2> QED
    BY <1>1, <1>2, <1>3, <2>1, <2>2
<1>6. m + 1 \in DOMAIN file => file[m + 1].offset = EndOf(s)
  <2>1. m + 1 \in DOMAIN file => file[m + 1].offset =
            IF m + 1 = 1 THEN 0 ELSE file[(m + 1) - 1].offset + file[(m + 1) - 1].len
    BY <1>1, TilesIsOffsetsTile, FileFacts DEF IInv, OffsetsTile, Tiles
  <2>2. (m + 1) - 1 = m /\ (m + 1 = 1 <=> m = 0)
    BY <1>1
  <2> QED
    BY <1>2, <2>1, <2>2
<1> QED
  BY <1>3, <1>4, <1>5, <1>6 DEF PassedOver

-----------------------------------------------------------------------------
LEMMA Appended ==
  ASSUME NEW S, NEW s \in Seq(S), NEW e \in S
  PROVE  /\ Append(s, e) # <<>> /\ Len(Append(s, e)) = Len(s) + 1
         /\ Append(s, e)[Len(s) + 1] = e
         /\ \A i \in 1..Len(s) : Append(s, e)[i] = s[i]
OBVIOUS

(* A scan that has looked at the first k entries of the file.              *)
Read == [chunks : Seq(Entry), used : Nat, full : BOOLEAN]

Scanned(read, after, limit) ==
    read = [k \in 0..Len(file) |->
              IF k = 0 THEN ReadStart ELSE ReadLine(read[k - 1], file[k], after, limit)]

LEMMA ReadLineType ==
  ASSUME NEW read \in Read, NEW e \in Entry, NEW after, NEW limit
  PROVE  ReadLine(read, e, after, limit) \in Read
<1>1. /\ read.chunks \in Seq(Entry) /\ read.used \in Nat /\ read.full \in BOOLEAN
      /\ e.len \in Nat
  BY DEF Read, Entry
<1>2. [read EXCEPT !.full = TRUE] \in Read
  BY DEF Read
<1>3. Append(read.chunks, e) \in Seq(Entry) /\ read.used + e.len \in Nat
  BY <1>1
<1>4. [chunks |-> Append(read.chunks, e), used |-> read.used + e.len, full |-> FALSE] \in Read
  BY <1>3 DEF Read
<1> QED
  BY <1>2, <1>4 DEF ReadLine

LEMMA ReadIsScanned ==
  ASSUME IInv, NEW after, NEW limit
  PROVE  \E read \in [0..Len(file) -> Read] :
            /\ Scanned(read, after, limit)
            /\ ReadLines(after, limit) = read[Len(file)]
<1> DEFINE N == Len(file)
           step == [p \in Read \X (1..N) |-> ReadLine(p[1], file[p[2]], after, limit)]
<1>1. N \in Nat /\ \A k \in 1..N : file[k] \in Entry
  BY FileFacts
<1>2. step \in [Read \X (1..N) -> Read]
  BY <1>1, ReadLineType
<1>3. ReadStart \in Read
  BY DEF ReadStart, Read
<1>4. PICK f \in [0..N -> Read] : Recursive(f, N, ReadStart, step)
  <2> HIDE DEF step, N
  <2> QED
    BY <1>1, <1>2, <1>3, RecursionExists
<1>5. Scanned(f, after, limit)
  <2>1. \A k \in 0..N : f[k] = IF k = 0 THEN ReadStart
                               ELSE ReadLine(f[k - 1], file[k], after, limit)
    <3> TAKE k \in 0..N
    <3>1. CASE k # 0
      <4>1. k \in 1..N /\ k - 1 \in 0..N
        BY <1>1, <3>1
      <4>2. f[k] = step[<<f[k - 1], k>>] /\ <<f[k - 1], k>> \in Read \X (1..N)
        BY <1>4, <4>1 DEF Recursive
      <4> QED
        BY <3>1, <4>2
    <3> QED
      BY <1>4, <3>1 DEF Recursive
  <2>2. f = [k \in 0..N |-> f[k]]
    BY <1>4
  <2> QED
    BY <2>1, <2>2 DEF Scanned
<1>6. PICK g : Scanned(g, after, limit) /\ ReadLines(after, limit) = g[N]
  BY <1>5 DEF ReadLines, Scanned
<1>7. g \in [0..N -> Read]
  <2> DEFINE P == {k \in 0..N : g[k] \in Read}
  <2>1. 0 \in P
    BY <1>1, <1>3, <1>6 DEF Scanned
  <2>2. ASSUME NEW k \in 1..N, k - 1 \in P
        PROVE  k \in P
    <3>1. k - 1 \in 0..N /\ k \in 0..N /\ k # 0
      BY <1>1
    <3>2. g[k] = ReadLine(g[k - 1], file[k], after, limit)
      BY <1>6, <3>1 DEF Scanned
    <3> QED
      BY <1>1, <2>2, <3>1, <3>2, ReadLineType
  <2>3. \A k \in 0..N : k \in P
    <3> HIDE DEF P
    <3> QED
      BY <1>1, <2>1, <2>2, Steps
  <2> QED
    BY <1>6, <2>3 DEF Scanned
<1> QED
  BY <1>6, <1>7

(* What a scan has found after k entries, when it passes over the first m. *)
Found(read, k, m, limit) ==
    /\ Follows(read.chunks, m)
    /\ read.chunks = <<>> => read.used = 0
    /\ ~read.full => m + Len(read.chunks) = (IF k <= m THEN m ELSE k)
    /\ read.full /\ read.chunks = <<>> =>
          m + 1 \in DOMAIN file /\ limit > 0 /\ file[m + 1].len > limit

LEMMA ReadLineFinds ==
  ASSUME IInv, NEW m \in 0..Len(file), NEW limit \in Nat, NEW after,
         \A i \in DOMAIN file : PassedOver(file[i], after) <=> i <= m,
         NEW k \in 1..Len(file), NEW read \in Read, Found(read, k - 1, m, limit)
  PROVE  Found(ReadLine(read, file[k], after, limit), k, m, limit)
<1> DEFINE e == file[k]
           q == read.chunks
<1>1. /\ Len(file) \in Nat /\ k \in DOMAIN file /\ DOMAIN file = 1..Len(file)
      /\ e \in Entry /\ e.len \in Nat \ {0}
  BY FileFacts
<1>2. q \in Seq(Entry) /\ read.used \in Nat /\ read.full \in BOOLEAN /\ Len(q) \in Nat
  BY DEF Read
<1>3. CASE read.full
  BY <1>3 DEF ReadLine, Found
<1>4. CASE ~read.full /\ k <= m
  <2>1. k - 1 <= m /\ PassedOver(e, after)
    BY <1>1, <1>4
  <2> QED
    BY <1>4, <2>1 DEF ReadLine, Found
<1>5. CASE ~read.full /\ ~(k <= m)
  <2>1. ~PassedOver(e, after) /\ m + Len(q) = k - 1
    BY <1>1, <1>5 DEF Found
  <2>2. Follows(q, m) /\ (q = <<>> => read.used = 0)
    BY DEF Found
  <2>3. CASE limit > 0 /\ read.used + e.len > limit
    <3> DEFINE r == [read EXCEPT !.full = TRUE]
    <3>1. ReadLine(read, e, after, limit) = r
      BY <1>5, <2>1, <2>3 DEF ReadLine
    <3>2. r.chunks = q /\ r.used = read.used /\ r.full = TRUE
      BY DEF Read
    <3>3. q = <<>> => k = m + 1 /\ e.len > limit
      <4>1. q = <<>> => Len(q) = 0 /\ 0 + e.len > limit
        BY <2>2, <2>3
      <4> QED
        BY <1>1, <2>1, <4>1
    <3> HIDE DEF r, q
    <3>4. Found(r, k, m, limit)
      BY <1>1, <2>2, <2>3, <3>2, <3>3 DEF Found
    <3> QED
      BY <3>1, <3>4
  <2>4. CASE ~(limit > 0 /\ read.used + e.len > limit)
    <3> DEFINE t == Append(q, e)
               r == [chunks |-> t, used |-> read.used + e.len, full |-> FALSE]
    <3>1. ReadLine(read, e, after, limit) = r
      BY <1>5, <2>1, <2>4 DEF ReadLine
    <3>2. /\ t # <<>> /\ Len(t) = Len(q) + 1 /\ t[Len(q) + 1] = e
          /\ \A i \in 1..Len(q) : t[i] = q[i]
      <4> HIDE DEF e, q
      <4> QED
        BY <1>1, <1>2, Appended
    <3>3. r.chunks = t /\ r.full = FALSE
      OBVIOUS
    <3> HIDE DEF r, t, q
    <3>4. m + Len(t) = k
      <4>1. m \in Int /\ k \in Int /\ Len(q) \in Int /\ m + Len(q) = k - 1
        BY <1>1, <1>2, <2>1
      <4> QED
        BY <3>2, <4>1
    <3>5. Follows(t, m)
      <4>1. \A i \in 1..Len(q) : q[i] = file[m + i]
        BY <2>2 DEF Follows
      <4>2. m + (Len(q) + 1) = k
        BY <3>2, <3>4
      <4>3. ASSUME NEW i \in 1..Len(t) PROVE t[i] = file[m + i]
        <5>1. i \in 1..Len(q) \/ i = Len(q) + 1
          BY <1>2, <3>2
        <5> QED
          BY <3>2, <4>1, <4>2, <5>1
      <4> QED
        BY <1>1, <3>4, <4>3 DEF Follows
    <3>6. Found(r, k, m, limit)
      BY <1>5, <3>2, <3>3, <3>4, <3>5 DEF Found
    <3> QED
      BY <3>1, <3>6
  <2> QED
    BY <2>3, <2>4
<1> QED
  BY <1>3, <1>4, <1>5

LEMMA ReadFinds ==
  ASSUME IInv, NEW m \in 0..Len(file), NEW limit \in Nat, NEW after,
         \A i \in DOMAIN file : PassedOver(file[i], after) <=> i <= m
  PROVE  /\ ReadLines(after, limit) \in Read
         /\ Found(ReadLines(after, limit), Len(file), m, limit)
<1> DEFINE N == Len(file)
<1>1. N \in Nat
  BY FileFacts
<1>2. PICK g \in [0..N -> Read] : Scanned(g, after, limit) /\ ReadLines(after, limit) = g[N]
  BY ReadIsScanned
<1> DEFINE P == {k \in 0..N : Found(g[k], k, m, limit)}
<1>3. 0 \in P
  <2>1. g[0] = ReadStart
    BY <1>1, <1>2 DEF Scanned
  <2>2. Len(<<>>) = 0 /\ m + 0 = m /\ m <= N /\ 0 <= m
    BY <1>1
  <2>3. Found(ReadStart, 0, m, limit)
    BY <1>1, <2>2 DEF Found, Follows, ReadStart
  <2> QED
    BY <1>1, <2>1, <2>3
<1>4. ASSUME NEW k \in 1..N, k - 1 \in P
      PROVE  k \in P
  <2>1. k - 1 \in 0..N /\ k \in 0..N /\ k # 0 /\ g[k - 1] \in Read
    BY <1>1
  <2>2. g[k] = ReadLine(g[k - 1], file[k], after, limit)
    BY <1>2, <2>1 DEF Scanned
  <2>3. Found(g[k], k, m, limit)
    BY <1>4, <2>1, <2>2, ReadLineFinds
  <2> QED
    BY <2>1, <2>3
<1>5. \A k \in 0..N : k \in P
  <2> HIDE DEF P
  <2> QED
    BY <1>1, <1>3, <1>4, Steps
<1> QED
  BY <1>1, <1>2, <1>5

-----------------------------------------------------------------------------
(* What an answer tells, computed before or just now: as long as all bytes *)
(* can be read, what follows the m chunks the reader has; and at the end   *)
(* of a complete capture, that this was all.                               *)
AtEnd(out, op, m) == out.capture = "complete" /\ out.chunks = <<>> =>
    Whole /\ (Blocked(op) \/ m = Len(file))
Sound(out, op, m) == (Covered => Follows(out.chunks, m)) /\ AtEnd(out, op, m)

Calls ==
    /\ asked \in [{Reader} -> ReadOp \cup {None}]
    /\ computed \in [{Reader} -> Output \cup {None}]
    /\ answer \in [{Reader} -> Output \cup {None}]
    /\ returned \in [{Reader} -> Seq(Call)]
Pending == \A out \in {computed[Reader], answer[Reader]} : out # None =>
    asked[Reader] # None /\ Sound(out, asked[Reader], Len(Got))
AskedAfter == asked[Reader] # None => asked[Reader].after = EndOf(Got)
Prefix == Covered => Follows(Got, 0)
LastCall == returned[Reader] # <<>> =>
    AtEnd(Last(returned[Reader]).answer, Last(returned[Reader]).op, Len(Got))

RInv == JInv /\ Calls /\ Pending /\ AskedAfter /\ Prefix /\ LastCall

LEMMA GotType ==
  ASSUME Calls
  PROVE  returned[Reader] \in Seq(Call) /\ Got \in Seq(Entry) /\ Len(Got) \in Nat
<1>1. returned[Reader] \in Seq(Call)
  BY DEF Calls
<1>2. PICK got \in [0..Len(returned[Reader]) -> Seq(Entry)] : Got = got[Len(returned[Reader])]
  BY <1>1, ChunksAreGathered DEF Got
<1>3. Len(returned[Reader]) \in 0..Len(returned[Reader])
  BY <1>1
<1>4. Got \in Seq(Entry)
  BY <1>2, <1>3
<1> QED
  BY <1>1, <1>4, LenProperties

(* An entry that is there stays there, once all bytes can be read: what is *)
(* lost was a byte.                                                        *)
LEMMA ReadableBefore ==
  ASSUME JInv, [Next]_vars, Covered'
  PROVE  Covered /\ (file' = file \/ \E e \in Entry : file' = Append(file, e))
<1>1. CASE UNCHANGED <<file, taken>>
  BY <1>1 DEF Covered
<1>2. ASSUME NEW c \in Channel, NEW n \in Chunk(c), ChunkTaken(c, n)
      PROVE  Covered /\ \E e \in Entry : file' = Append(file, e)
  <2> DEFINE e == NewEntry(c, n)
             N == Len(file)
  <2>1. /\ e \in Entry /\ e.channel = c /\ e.first = taken[c] /\ e.len = n
        /\ n \in Nat \ {0} /\ taken[c] \in Nat
        /\ taken'[c] = taken[c] + n
        /\ \A d \in Channel : d # c => taken'[d] = taken[d]
        /\ Written(e)
    BY <1>2, ChunkFacts DEF JInv
  <2> HIDE DEF e
  <2>2. /\ N \in Nat /\ DOMAIN file = 1..N
        /\ \A i \in DOMAIN file : file[i].first \in Nat /\ file[i].len \in Nat
        /\ \A d \in Channel : taken[d] \in Nat
    BY FileFacts DEF JInv
  <2>3. ~ \E i \in DOMAIN file : Holds(file[i], c, taken[c] + n)
    BY <2>1, <2>2 DEF Holds, JInv, Behind
  <2>4. PICK i \in DOMAIN file' : Holds(file'[i], c, taken[c] + n)
    <3>1. taken[c] + n \in 1..taken'[c]
      BY <2>1
    <3>2. \A d \in Channel : \A k \in 1..taken'[d] :
             \E i \in DOMAIN file' : Holds(file'[i], d, k)
      BY DEF Covered, Holds
    <3> QED
      BY <3>1, <3>2
  <2>5. /\ file' = Append(file, e) /\ DOMAIN file' = 1..(N + 1)
        /\ \A j \in DOMAIN file : file'[j] = file[j]
        /\ file'[N + 1] = e
    <3>1. CASE file' = file
      BY <2>3, <2>4, <3>1
    <3>2. CASE /\ DOMAIN file' = 1..(N - 1)
               /\ \A j \in DOMAIN file' : file'[j] = file[j]
      <4>1. i \in DOMAIN file
        BY <2>2, <3>2
      <4> QED
        BY <2>3, <2>4, <3>2, <4>1
    <3> QED
      BY <2>1, <3>1, <3>2, WrittenEntries DEF JInv
  <2>6. ASSUME NEW d \in Channel, NEW k \in 1..taken[d]
        PROVE  \E j \in DOMAIN file : Holds(file[j], d, k)
    <3>1. k \in 1..taken'[d]
      BY <2>1, <2>2
    <3>2. PICK j \in DOMAIN file' : Holds(file'[j], d, k)
      BY <3>1 DEF Covered, Holds
    <3>3. j # N + 1
      BY <2>1, <2>2, <2>5, <3>2 DEF Holds
    <3>4. j \in DOMAIN file
      BY <2>2, <2>5, <3>3
    <3> QED
      BY <2>5, <3>2, <3>4
  <2> QED
    BY <2>1, <2>5, <2>6 DEF Covered
<1> QED
  BY <1>1, <1>2, FileChanges

(* A whole capture does not change any more.                               *)
LEMMA WholeStep ==
  ASSUME JInv, Whole, [Next]_vars
  PROVE  Whole' /\ UNCHANGED file
<1>1. \A c \in Channel : /\ drain[c] # "copying" /\ drain[c] \in {"finished", "gone"}
                         /\ closed[c] /\ taken[c] = written[c]
  BY DEF Whole
<1>2. CASE UNCHANGED vars
  BY <1>2 DEF vars, pipes, capture, journal, Whole, Covered
<1>3. CASE \E c \in Channel : \/ WorkerWrites(c) \/ WorkerCloses(c) \/ DrainCopies(c)
                              \/ DrainFails(c) \/ DrainEnds(c)
  BY <1>1, <1>3 DEF WorkerWrites, WorkerCloses, DrainCopies, DrainFails, DrainEnds
<1>4. CASE CaptureFinishes \/ Control \/ HostDies
  <2>1. /\ UNCHANGED <<file, jammed, taken, written, closed>>
        /\ \A c \in Channel : drain'[c] \in {"finished", "gone"}
    <3>1. CASE CaptureFinishes
      BY <3>1 DEF CaptureFinishes, pipes
    <3>2. CASE Control
      BY <1>1, <3>2, ControlStep
    <3>3. CASE HostDies
      BY <1>1, <3>3 DEF HostDies, Gone, pipes, journal
    <3> QED
      BY <1>4, <3>1, <3>2, <3>3
  <2>2. \A c \in Channel : closed'[c]
    BY <1>1, <2>1
  <2>3. Whole'
    BY <2>1, <2>2, WholeStays
  <2> QED
    BY <2>1, <2>3
<1> QED
  BY <1>2, <1>3, <1>4 DEF Next, WorkerStep, CaptureStep, HostStep, Control

LEMMA FollowsStays ==
  ASSUME JInv, [Next]_vars, Covered', NEW q \in Seq(Entry), NEW m \in Nat,
         Covered => Follows(q, m)
  PROVE  Follows(q, m)'
<1>1. /\ Len(file) \in Nat /\ file \in Seq(Entry)
      /\ Follows(q, m) /\ Len(q) \in Nat
  BY ReadableBefore, FileFacts, LenProperties DEF JInv
<1>2. CASE file' = file
  BY <1>1, <1>2 DEF Follows
<1>3. ASSUME NEW e \in Entry, file' = Append(file, e)
      PROVE  Follows(q, m)'
  <2>1. Len(file') = Len(file) + 1 /\ \A i \in 1..Len(file) : file'[i] = file[i]
    BY <1>1, <1>3, Appended
  <2>2. \A i \in 1..Len(q) : m + i \in 1..Len(file)
    BY <1>1 DEF Follows
  <2> QED
    BY <1>1, <2>1, <2>2 DEF Follows
<1> QED
  BY <1>2, <1>3, ReadableBefore

LEMMA AtEndStays ==
  ASSUME JInv, [Next]_vars, NEW out, NEW op, NEW m, AtEnd(out, op, m)
  PROVE  AtEnd(out, op, m)'
<1>1. CASE Whole
  <2>1. Whole' /\ file' = file
    BY <1>1, WholeStep
  <2> QED
    BY <2>1 DEF AtEnd, Blocked
<1>2. CASE ~Whole
  BY <1>2 DEF AtEnd
<1> QED
  BY <1>1, <1>2

(* A step of the capture keeps what the reader knows.                      *)
LEMMA CaptureKeepsReader ==
  ASSUME RInv, [Next]_vars, UNCHANGED <<asked, answer, returned>>, Calls',
         computed'[Reader] \in {computed[Reader], None}
  PROVE  Pending' /\ AskedAfter' /\ Prefix' /\ LastCall'
<1>0. JInv /\ Calls /\ Pending /\ AskedAfter /\ Prefix /\ LastCall
  BY DEF RInv
<1>1. UNCHANGED Got
  BY DEF Got
<1>2. Got \in Seq(Entry) /\ Len(Got) \in Nat
  BY <1>0, GotType
<1>3. PICK q \in Seq(Entry), m \in Nat : q = Got /\ m = Len(Got)
  BY <1>2
<1>4. q = Got' /\ m = Len(Got')
  BY <1>1, <1>3
<1>5. AskedAfter'
  BY <1>0, <1>1 DEF AskedAfter
<1>6. Prefix'
  <2>1. Covered' => Follows(q, 0)'
    BY <1>0, <1>3, FollowsStays DEF Prefix
  <2> QED
    BY <1>4, <2>1 DEF Prefix, Follows
<1>7. LastCall'
  <2>1. PICK call : call = Last(returned[Reader])
    OBVIOUS
  <2>2. call = Last(returned'[Reader])
    BY <2>1
  <2>3. returned[Reader] # <<>> => AtEnd(call.answer, call.op, m)
    BY <1>0, <1>3, <2>1 DEF LastCall
  <2>4. PICK out, op : out = call.answer /\ op = call.op
    OBVIOUS
  <2>5. returned[Reader] # <<>> => AtEnd(out, op, m)'
    BY <1>0, <2>3, <2>4, AtEndStays
  <2> QED
    BY <1>4, <2>2, <2>4, <2>5 DEF LastCall, AtEnd, Blocked
<1>8. Pending'
  <2> SUFFICES ASSUME NEW out \in {computed'[Reader], answer'[Reader]}, out # None
               PROVE  asked'[Reader] # None /\ Sound(out, asked[Reader], Len(Got))'
    BY DEF Pending, Sound, AtEnd, Follows, Blocked
  <2>1. out \in {computed[Reader], answer[Reader]} /\ out \in Output
    BY <1>0 DEF Calls
  <2>2. PICK op : op = asked[Reader] /\ op = asked'[Reader]
    OBVIOUS
  <2>3. op # None /\ Sound(out, op, m) /\ out.chunks \in Seq(Entry)
    BY <1>0, <1>3, <2>1, <2>2 DEF Pending, Output
  <2>4. AtEnd(out, op, m)'
    BY <1>0, <2>3, AtEndStays DEF Sound
  <2>5. PICK chunks \in Seq(Entry) : chunks = out.chunks
    BY <2>3
  <2>6. Covered' => Follows(chunks, m)'
    BY <1>0, <2>3, <2>5, FollowsStays DEF Sound
  <2> QED
    BY <1>4, <2>2, <2>3, <2>4, <2>5, <2>6 DEF Sound, AtEnd, Follows, Blocked
<1> QED
  BY <1>5, <1>6, <1>7, <1>8

-----------------------------------------------------------------------------
(* What ReadAfter returns is sound when it returns it.                     *)
LEMMA ReadIsSound ==
  ASSUME RInv, NEW op \in ReadOp, op.after = EndOf(Got)
  PROVE  /\ ReadAfter(op.after, op.limit) \in Output
         /\ Sound(ReadAfter(op.after, op.limit), op, Len(Got))
<1> DEFINE m == Len(Got)
           read == ReadLines(op.after, op.limit)
           out == ReadAfter(op.after, op.limit)
<1>0. Len(file) \in Nat /\ m \in Nat
  BY GotType, FileFacts DEF RInv, JInv
<1>1. /\ JInv /\ IInv /\ Prefix /\ Got \in Seq(Entry) /\ m \in Nat
      /\ Len(file) \in Nat /\ DOMAIN file = 1..Len(file)
      /\ op.limit \in Nat
      /\ status \in {"none", "missing", "", "complete", "interrupted"}
  BY GotType, FileFacts, LimitAssumption DEF RInv, JInv, IInv, TypeOK, ReadOp
<1>2. read \in Read
  <2>1. PICK got \in [0..Len(file) -> Read] : read = got[Len(file)]
    BY <1>1, ReadIsScanned
  <2>2. Len(file) \in 0..Len(file)
    BY <1>0
  <2> QED
    BY <2>1, <2>2
<1>3. /\ jammed /\ ~read.full => out.chunks = <<>> /\ out.capture = "failed"
      /\ ~(jammed /\ ~read.full) =>
            /\ out.chunks = read.chunks
            /\ out.capture \in {"unknown", "", "complete", "interrupted"}
            /\ out.capture = "complete" => status = "complete"
  BY <1>1 DEF ReadAfter
<1>4. out \in Output
  <2> DEFINE failed == [chunks |-> <<>>, capture |-> "failed"]
             found == [chunks |-> read.chunks,
                       capture |-> IF HasFile /\ status \notin {"none", "missing"}
                                   THEN status ELSE "unknown"]
  <2>1. out = failed \/ out = found
    BY DEF ReadAfter
  <2>2. failed \in Output
    BY DEF Output
  <2>3. read.chunks \in Seq(Entry)
    BY <1>2 DEF Read
  <2>4. found \in Output
    BY <1>1, <2>3 DEF Output
  <2> QED
    BY <2>1, <2>2, <2>4
<1>5. ASSUME Covered
      PROVE  /\ m \in 0..Len(file)
             /\ m + 1 \in DOMAIN file => file[m + 1].offset = op.after
             /\ Found(read, Len(file), m, op.limit)
  <2>0. 0 + m <= Len(file) /\ \A i \in 1..m : Got[i] = file[0 + i]
    BY <1>1, <1>5 DEF Prefix, Follows
  <2>1. \A i \in 1..m : Got[i] = file[i]
    <3> TAKE i \in 1..m
    <3>1. 0 + i = i
      OBVIOUS
    <3> QED
      BY <2>0, <3>1
  <2>2. m \in 0..Len(file)
    <3> HIDE DEF m
    <3>1. 0 + m <= Len(file)
      BY <2>0
    <3> QED
      BY <1>0, <3>1
  <2>3. /\ op.after \in Nat
        /\ \A i \in DOMAIN file : PassedOver(file[i], op.after) <=> i <= m
        /\ m + 1 \in DOMAIN file => file[m + 1].offset = op.after
    BY <1>1, <2>1, <2>2, StartOfRead
  <2> QED
    BY <1>1, <2>2, <2>3, ReadFinds
<1> HIDE DEF m, read, out
<1>6. ASSUME Covered PROVE Follows(out.chunks, m)
  <2>1. CASE jammed /\ ~read.full
    <3>1. Len(<<>>) = 0 /\ 1..0 = {}
      OBVIOUS
    <3>2. m + 0 <= Len(file)
      <4>1. m \in 0..Len(file)
        BY <1>5, <1>6
      <4> QED
        BY <1>0, <4>1
    <3>3. out.chunks = <<>>
      BY <1>3, <2>1
    <3> QED
      BY <3>1, <3>2, <3>3 DEF Follows
  <2>2. CASE ~(jammed /\ ~read.full)
    BY <1>3, <1>5, <1>6, <2>2 DEF Found
  <2> QED
    BY <2>1, <2>2
<1>7. AtEnd(out, op, m)
  <2> SUFFICES ASSUME out.capture = "complete", out.chunks = <<>>
               PROVE  Whole /\ (Blocked(op) \/ m = Len(file))
    BY DEF AtEnd
  <2>1. ~(jammed /\ ~read.full) /\ read.chunks = <<>> /\ status = "complete"
    BY <1>3
  <2>2. Whole /\ Covered
    BY <1>1, <2>1 DEF JInv, Promise, Whole
  <2>3. CASE read.full
    BY <1>5, <2>1, <2>2, <2>3 DEF Found, Blocked
  <2>4. CASE ~read.full
    <3>1. m + 0 = IF Len(file) <= m THEN m ELSE Len(file)
      <4>1. Len(<<>>) = 0
        OBVIOUS
      <4> QED
        BY <1>5, <2>1, <2>2, <2>4, <4>1 DEF Found
    <3>2. m \in 0..Len(file)
      BY <1>5, <2>2
    <3>3. m = Len(file)
      BY <1>0, <3>1, <3>2
    <3> QED
      BY <2>2, <3>3
  <2> QED
    BY <1>2, <2>2, <2>3, <2>4 DEF Read
<1> QED
  BY <1>4, <1>6, <1>7 DEF Sound, m, out

(* The steps of a call.                                                    *)
LEMMA AskKeeps ==
  ASSUME RInv, ReaderAsks
  PROVE  Calls' /\ Pending' /\ AskedAfter' /\ Prefix' /\ LastCall'
<1>0. JInv /\ Calls /\ Pending /\ AskedAfter /\ Prefix /\ LastCall
  BY DEF RInv
<1>1. PICK limit \in Limit :
         /\ asked[Reader] = None
         /\ asked' = [asked EXCEPT ![Reader] = [after |-> EndOf(Got), limit |-> limit]]
         /\ UNCHANGED <<computed, answer, returned, vars>>
  BY DEF ReaderAsks, C!Ask
<1>2. EndOf(Got) \in Nat
  BY <1>0, GotType, EndIsNat
<1>3. Calls'
  <2>1. [after |-> EndOf(Got), limit |-> limit] \in ReadOp
    BY <1>2 DEF ReadOp
  <2> HIDE DEF ReadOp, Output, Call
  <2> QED
    BY <1>0, <1>1, <2>1 DEF Calls
<1>4. UNCHANGED <<Got, file, status, written, closed, taken, drain, jammed>>
  BY <1>1 DEF Got, vars, pipes, capture, journal
<1>5. Pending'
  <2>1. computed[Reader] = None /\ answer[Reader] = None
    BY <1>0, <1>1 DEF Pending
  <2> QED
    BY <1>1, <2>1 DEF Pending
<1>6. AskedAfter'
  <2>1. asked'[Reader] = [after |-> EndOf(Got), limit |-> limit]
    BY <1>0, <1>1 DEF Calls
  <2> QED
    BY <1>4, <2>1 DEF AskedAfter
<1>7. Prefix' /\ LastCall'
  BY <1>0, <1>1, <1>4 DEF Prefix, LastCall, Covered, Follows, AtEnd, Whole, Blocked
<1> QED
  BY <1>3, <1>5, <1>6, <1>7

LEMMA AnswerKeeps ==
  ASSUME RInv, HostReads \/ HostPublishes
  PROVE  Calls' /\ Pending' /\ AskedAfter' /\ Prefix' /\ LastCall'
<1>0. JInv /\ Calls /\ Pending /\ AskedAfter /\ Prefix /\ LastCall
  BY DEF RInv
<1>1. UNCHANGED <<asked, returned, file, status, written, closed, taken, drain, jammed>>
  BY DEF HostReads, HostPublishes, C!Compute, C!Publish, vars, pipes, capture, journal
<1>2. UNCHANGED Got
  BY <1>1 DEF Got
<1>3. AskedAfter' /\ Prefix' /\ LastCall'
  BY <1>0, <1>1, <1>2
     DEF AskedAfter, Prefix, LastCall, Covered, Follows, AtEnd, Whole, Blocked
<1>4. ASSUME NEW out, Sound(out, asked[Reader], Len(Got))
      PROVE  Sound(out, asked[Reader], Len(Got))'
  BY <1>1, <1>2, <1>4 DEF Sound, Covered, Follows, AtEnd, Whole, Blocked
<1>5. /\ computed' \in [{Reader} -> Output \cup {None}]
      /\ answer' \in [{Reader} -> Output \cup {None}]
      /\ \A out \in {computed'[Reader], answer'[Reader]} : out # None =>
            asked[Reader] # None /\ Sound(out, asked[Reader], Len(Got))
  <2>1. CASE HostReads
    <3> DEFINE out == ReadAfter(asked[Reader].after, asked[Reader].limit)
    <3>1. /\ asked[Reader] # None /\ asked[Reader] \in ReadOp
          /\ computed' = [computed EXCEPT ![Reader] = out] /\ UNCHANGED answer
      BY <1>0, <2>1 DEF HostReads, C!Compute, Calls
    <3>2. out \in Output /\ Sound(out, asked[Reader], Len(Got))
      BY <1>0, <3>1, ReadIsSound DEF AskedAfter
    <3> HIDE DEF out
    <3>3. /\ computed' \in [{Reader} -> Output \cup {None}]
          /\ answer' \in [{Reader} -> Output \cup {None}]
          /\ computed'[Reader] = out /\ answer'[Reader] = answer[Reader]
      BY <1>0, <3>1, <3>2 DEF Calls
    <3> QED
      BY <1>0, <3>1, <3>2, <3>3 DEF Pending
  <2>2. CASE HostPublishes
    <3>1. /\ computed' \in [{Reader} -> Output \cup {None}]
          /\ answer' \in [{Reader} -> Output \cup {None}]
          /\ computed'[Reader] = None /\ answer'[Reader] = computed[Reader]
      BY <1>0, <2>2 DEF HostPublishes, C!Publish, Calls
    <3> QED
      BY <1>0, <3>1 DEF Pending
  <2> QED
    BY <2>1, <2>2
<1>6. Pending'
  BY <1>1, <1>4, <1>5 DEF Pending
<1>7. Calls'
  BY <1>0, <1>1, <1>5 DEF Calls
<1> QED
  BY <1>3, <1>6, <1>7

LEMMA TakeKeeps ==
  ASSUME RInv, ReaderTakes
  PROVE  Calls' /\ Pending' /\ AskedAfter' /\ Prefix' /\ LastCall'
<1>0. JInv /\ Calls /\ Pending /\ AskedAfter /\ Prefix /\ LastCall
  BY DEF RInv
<1> DEFINE out == answer[Reader]
           op == asked[Reader]
           call == [op |-> op, answer |-> out]
           done == returned[Reader]
<1>1. /\ asked' = [asked EXCEPT ![Reader] = None]
      /\ computed' = [computed EXCEPT ![Reader] = None]
      /\ answer' = [answer EXCEPT ![Reader] = None]
      /\ returned' = [returned EXCEPT ![Reader] = Append(@, call)]
      /\ out # None /\ op # None
      /\ UNCHANGED <<file, status, written, closed, taken, drain, jammed>>
  BY DEF ReaderTakes, C!Take, C!Ends, C!Returns, vars, pipes, capture, journal
<1>2. /\ out \in Output /\ op \in ReadOp /\ done \in Seq(Call)
      /\ Sound(out, op, Len(Got))
  BY <1>0, <1>1 DEF Calls, Pending
<1>3. call \in Call /\ out.chunks \in Seq(Entry)
  <2> HIDE DEF op, out
  <2>1. call \in Call
    BY <1>2 DEF Call
  <2> QED
    BY <1>2, <2>1 DEF Output
<1>4. Got \in Seq(Entry) /\ Len(Got) \in Nat
  BY <1>0, GotType
<1>5. returned'[Reader] = Append(done, call)
  BY <1>0, <1>1 DEF Calls
<1> HIDE DEF done
<1>6. Got' = Got \o out.chunks
  <2>1. ChunksOf(Append(done, call)) = ChunksOf(done) \o Given(call)
    BY <1>2, <1>3, CallAddsChunks
  <2>2. Given(call) = out.chunks
    BY <1>1 DEF Given
  <2> QED
    BY <1>5, <2>1, <2>2 DEF Got, done
<1>7. Calls'
  <2>1. Append(done, call) \in Seq(Call)
    BY <1>2, <1>3
  <2> QED
    BY <1>0, <1>1, <2>1 DEF Calls, done
<1>8. Pending' /\ AskedAfter'
  <2>1. asked'[Reader] = None /\ computed'[Reader] = None /\ answer'[Reader] = None
    BY <1>0, <1>1 DEF Calls
  <2> QED
    BY <2>1 DEF Pending, AskedAfter
<1> HIDE DEF call
<1>9. Prefix'
  <2> SUFFICES ASSUME Covered PROVE Follows(Got', 0)
    BY <1>1 DEF Prefix, Covered, Follows
  <2> DEFINE q == out.chunks
             m == Len(Got)
  <2>1. /\ m <= Len(file) /\ \A i \in 1..m : Got[i] = file[0 + i]
        /\ m + Len(q) <= Len(file) /\ \A i \in 1..Len(q) : q[i] = file[m + i]
    BY <1>0, <1>2 DEF Prefix, Sound, Follows
  <2>2. /\ Len(Got') = m + Len(q)
        /\ \A i \in 1..(m + Len(q)) : Got'[i] = IF i <= m THEN Got[i] ELSE q[i - m]
    BY <1>3, <1>4, <1>6, ConcatProperties
  <2>3. Len(q) \in Nat
    BY <1>3, LenProperties
  <2> HIDE DEF q
  <2>4. ASSUME NEW i \in 1..(m + Len(q)) PROVE Got'[i] = file[0 + i]
    <3>1. CASE i <= m
      <4>1. i \in 1..m
        BY <1>4, <2>3, <3>1
      <4> QED
        BY <2>1, <2>2, <3>1, <4>1
    <3>2. CASE ~(i <= m)
      <4>1. i - m \in 1..Len(q) /\ m + (i - m) = 0 + i
        BY <1>4, <2>3, <3>2
      <4>2. q[i - m] = file[m + (i - m)]
        BY <2>1, <4>1
      <4> QED
        BY <2>2, <3>2, <4>1, <4>2
    <3> QED
      BY <3>1, <3>2
  <2>5. 0 + Len(Got') <= Len(file)
    BY <1>4, <2>1, <2>2, <2>3
  <2> QED
    BY <2>2, <2>4, <2>5 DEF Follows
<1>10. LastCall'
  <2>1. Last(returned'[Reader]) = call
    <3>1. Append(done, call)[Len(Append(done, call))] = call
      BY <1>2, <1>3, Appended
    <3> QED
      BY <1>5, <3>1 DEF Last
  <2>2. Last(returned'[Reader]).answer = out /\ Last(returned'[Reader]).op = op
    BY <2>1 DEF call
  <2>3. out.chunks = <<>> => Got' = Got
    BY <1>4, <1>6, ConcatEmptySeq
  <2>4. AtEnd(out, op, Len(Got))
    BY <1>2 DEF Sound
  <2> HIDE DEF out, op
  <2>5. UNCHANGED Whole
    BY <1>1 DEF Whole, Covered
  <2>6. out.capture = "complete" /\ out.chunks = <<>> =>
           Whole' /\ (Blocked(op) \/ Len(Got') = Len(file))
    BY <2>3, <2>4, <2>5 DEF AtEnd
  <2> QED
    BY <1>1, <2>2, <2>6 DEF LastCall, AtEnd, Blocked
<1> QED
  BY <1>7, <1>8, <1>9, <1>10

(* Who has read to the end of a complete capture has every byte that was   *)
(* written, and before that the chunks are the first ones of the journal.  *)
THEOREM ReadingInvariance == ReadingSpec => []RInv
<1>1. ReadingInit => RInv
  <2> SUFFICES ASSUME ReadingInit PROVE RInv
    OBVIOUS
  <2>1. JInv
    BY InitIsWhole DEF ReadingInit
  <2>2. /\ asked = [c \in {Reader} |-> None] /\ computed = [c \in {Reader} |-> None]
        /\ answer = [c \in {Reader} |-> None] /\ returned = [c \in {Reader} |-> <<>>]
    BY DEF ReadingInit, C!Init
  <2>3. Calls
    <3>1. <<>> \in Seq(Call)
      OBVIOUS
    <3> HIDE DEF Call
    <3> QED
      BY <2>2, <3>1 DEF Calls
  <2>4. asked[Reader] = None /\ computed[Reader] = None /\ answer[Reader] = None
        /\ returned[Reader] = <<>>
    BY <2>2
  <2>5. Pending /\ AskedAfter /\ LastCall
    BY <2>4 DEF Pending, AskedAfter, LastCall
  <2>6. Prefix
    <3>1. Got = <<>> /\ Len(<<>>) = 0 /\ Len(file) \in Nat
      BY <2>1, <2>4, NoCallNoChunk, FileFacts DEF Got, JInv
    <3>2. 0 + 0 <= Len(file) /\ 1..0 = {}
      BY <3>1
    <3> QED
      BY <3>1, <3>2 DEF Prefix, Follows
  <2> QED
    BY <2>1, <2>3, <2>5, <2>6 DEF RInv
<1>2. RInv /\ [ReadingNext]_allVars => RInv'
  <2> SUFFICES ASSUME RInv, [ReadingNext]_allVars PROVE RInv'
    OBVIOUS
  <2>1. [Next]_vars
    BY DEF ReadingNext, allVars, ReaderAsks, HostReads, HostPublishes, ReaderTakes,
           Next, HostStep
  <2>2. JInv /\ JInv'
    BY <2>1, StepIsWhole DEF RInv
  <2>3. CASE \/ UNCHANGED calls
             \/ HostDies /\ C!Lose(Reader)
    <3>1. UNCHANGED <<asked, answer, returned>> /\ computed' \in
             {computed, [computed EXCEPT ![Reader] = None]}
      BY <2>3 DEF calls, C!Lose
    <3>2. Calls' /\ computed'[Reader] \in {computed[Reader], None}
      BY <3>1 DEF RInv, Calls
    <3> QED
      BY <2>1, <2>2, <3>1, <3>2, CaptureKeepsReader DEF RInv
  <2>4. CASE ReaderAsks \/ HostReads \/ HostPublishes \/ ReaderTakes
    BY <2>2, <2>4, AskKeeps, AnswerKeeps, TakeKeeps DEF RInv
  <2> QED
    BY <2>3, <2>4 DEF ReadingNext, allVars
<1> QED
  BY <1>1, <1>2, PTL DEF ReadingSpec

(* The calls of a reader carry the operations and the outputs that         *)
(* ReadAfter makes, and the capture keeps its types beside them.           *)
THEOREM ReadingTypeCorrect == ReadingSpec => []ReadingTypeOK
<1>1. RInv => ReadingTypeOK
  BY DEF RInv, JInv, IInv, Calls, ReadingTypeOK
<1> QED
  BY <1>1, ReadingInvariance, PTL

(* As long as no torn line has made a chunk unreadable, the reader has the *)
(* first chunks of the journal, each once; and when it is told that the    *)
(* capture is complete and nothing follows, it has all that was written,   *)
(* unless a chunk exceeds its limit (run-output's -after-offset, ReadAfter *)
(* and Finish).                                                            *)
THEOREM ReaderHasItAll == ReadingSpec => []ReaderHasPrefix
<1>1. RInv => ReaderHasPrefix
  <2> SUFFICES ASSUME RInv PROVE ReaderHasPrefix
    OBVIOUS
  <2>1. /\ JInv /\ IInv /\ Ordered /\ Behind /\ Calls /\ Prefix /\ LastCall
        /\ file \in Seq(Entry) /\ Len(file) \in Nat
        /\ Got \in Seq(Entry) /\ Len(Got) \in Nat
    BY GotType, FileFacts DEF RInv, JInv
  <2>2. ASSUME Covered
        PROVE  Len(Got) <= Len(file) /\ \A i \in 1..Len(Got) : Got[i] = file[i]
    <3>1. 0 + Len(Got) <= Len(file) /\ \A i \in 1..Len(Got) : Got[i] = file[0 + i]
      BY <2>1, <2>2 DEF Prefix, Follows
    <3>2. \A i \in 1..Len(Got) : 0 + i = i
      OBVIOUS
    <3> QED
      BY <2>1, <3>1, <3>2
  <2>3. AllReadable => IsPrefix(Got, file)
    <3> SUFFICES ASSUME Covered PROVE IsPrefix(Got, file)
      BY <2>1, ReadableIsCovered
    <3> DEFINE m == Len(Got)
               s == SubSeq(Got, 1, m)
               t == SubSeq(file, 1, m)
    <3>1. \A i \in 1..m : Got[i] \in Entry /\ file[i] \in Entry /\ Got[i] = file[i]
      BY <2>1, <2>2, ElementOfSeq
    <3>2. m \in Nat /\ m - 1 + 1 = m /\ \A i \in 1..m : 1 + i - 1 = i
      BY <2>1
    <3>3. /\ s \in Seq(Entry) /\ Len(s) = (IF 1 <= m THEN m - 1 + 1 ELSE 0)
          /\ \A i \in 1..(m - 1 + 1) : s[i] = Got[1 + i - 1]
      BY <3>1, <3>2, SubSeqProperties
    <3>4. /\ t \in Seq(Entry) /\ Len(t) = (IF 1 <= m THEN m - 1 + 1 ELSE 0)
          /\ \A i \in 1..(m - 1 + 1) : t[i] = file[1 + i - 1]
      BY <3>1, <3>2, SubSeqProperties
    <3> HIDE DEF s, t, m
    <3>5. Len(s) = m /\ Len(t) = m
      BY <3>2, <3>3, <3>4
    <3>6. \A i \in 1..m : s[i] = t[i]
      BY <3>1, <3>2, <3>3, <3>4
    <3>7. s = t
      BY <3>3, <3>4, <3>5, <3>6, SeqEqual
    <3> QED
      BY <2>2, <3>7 DEF IsPrefix, s, t, m
  <2>4. ASSUME returned[Reader] # <<>>,
               Last(returned[Reader]).answer.capture = "complete",
               Last(returned[Reader]).answer.chunks = <<>>,
               ~Blocked(Last(returned[Reader]).op),
               NEW c \in Channel, NEW n \in 1..written[c]
        PROVE  \E i \in DOMAIN Got : Holds(Got[i], c, n)
    <3>1. Whole /\ Len(Got) = Len(file)
      BY <2>1, <2>4 DEF LastCall, AtEnd
    <3>2. Covered /\ n \in 1..taken[c]
      BY <3>1 DEF Whole
    <3>3. PICK i \in DOMAIN file : Holds(file[i], c, n)
      BY <3>2 DEF Covered
    <3>4. i \in DOMAIN Got /\ Got[i] = file[i]
      BY <2>1, <2>2, <3>1, <3>2
    <3> QED
      BY <3>3, <3>4
  <2> QED
    BY <2>3, <2>4 DEF ReaderHasPrefix
<1> QED
  BY <1>1, ReadingInvariance, PTL

(* What the reader does is what RemoteCall lets a caller do, so that the   *)
(* file transport, which implements RemoteCall, can stand between it and   *)
(* the host (Client.ReadOutput, Dispatch).                                 *)
THEOREM ReaderIsACaller == ReadingSpec => C!Spec
<1>1. ReadingInit => C!Init
  BY DEF ReadingInit
<1>2. RInv /\ [ReadingNext]_allVars => [C!Next]_(C!vars)
  <2> SUFFICES ASSUME RInv, [ReadingNext]_allVars PROVE [C!Next]_(C!vars)
    OBVIOUS
  <2>1. CASE ReaderAsks
    <3>1. EndOf(Got) \in Nat
      BY GotType, EndIsNat DEF RInv
    <3>2. \A limit \in Limit : [after |-> EndOf(Got), limit |-> limit] \in ReadOp
      BY <3>1 DEF ReadOp
    <3> QED
      BY <2>1, <3>2 DEF ReaderAsks, C!Next
  <2>2. CASE HostReads
    <3>1. asked[Reader] \in ReadOp /\ asked[Reader].after = EndOf(Got)
      BY <2>2 DEF HostReads, RInv, Calls, AskedAfter
    <3>2. ReadAfter(asked[Reader].after, asked[Reader].limit) \in Output
      BY <3>1, ReadIsSound
    <3> QED
      BY <2>2, <3>2 DEF HostReads, C!Next
  <2>3. CASE HostPublishes \/ ReaderTakes \/ C!Lose(Reader)
    BY <2>3 DEF HostPublishes, ReaderTakes, C!Next
  <2>4. CASE UNCHANGED calls
    BY <2>4 DEF calls, C!vars
  <2> QED
    BY <2>1, <2>2, <2>3, <2>4 DEF ReadingNext, allVars
<1> QED
  BY <1>1, <1>2, ReadingInvariance, PTL DEF ReadingSpec, C!Spec

=============================================================================
