------------------------- MODULE StateStore_proofs -------------------------
(***************************************************************************)
(* Proofs about the two halves of the FileStore: StateStore, for every set *)
(* of callers, requests, payloads and every bound on revisions, and then   *)
(* WorkspaceLock, for any processes, inodes and number of crashes.         *)
(*                                                                         *)
(* The argument: every content a power loss may leave is a prefix of what  *)
(* state.json holds now (Prefixes), no such prefix ends below the line the *)
(* process believes durable (DurableLineSound), and a receipt is handed    *)
(* out only when its revision is at or below that line.                    *)
(***************************************************************************)
EXTENDS StateStore, WorkspaceLock, TLAPS

(* s is what d was when its revision was s.Revision.                       *)
IsPrefix(s, d) ==
    /\ s.Revision <= d.Revision
    /\ \A k \in Key :
          s.Receipts[k] =
              IF /\ d.Receipts[k] # NoReceipt
                 /\ d.Receipts[k].CommittedRevision <= s.Revision
              THEN d.Receipts[k] ELSE NoReceipt

Prefixes == disk \in survivors /\ \A s \in survivors : IsPrefix(s, disk)

CallSound ==
    call # NoCall =>
        /\ up
        /\ call.step = "writing" =>
              /\ disk.Receipts[call.key] = NoReceipt
              /\ disk.Revision < MaxRevision
        /\ call.step = "renamed" =>
              /\ disk.Revision # 0
              /\ disk.Receipts[call.key] =
                    [CommittedRevision |-> disk.Revision,
                     PayloadFingerprint |-> call.payload]

WithinBound == disk.Revision <= MaxRevision

IInv ==
    /\ TypeOK
    /\ Prefixes
    /\ CallSound
    /\ WithinBound
    /\ DurableLineSound
    /\ AckedSurvives
    /\ UncertainStands
    /\ OneEffectPerRequest

-----------------------------------------------------------------------------
(***************************************************************************)
(* Type correctness.                                                       *)
(***************************************************************************)

(* What Commit writes is a state again.                                    *)
LEMMA WorkingType ==
    ASSUME TypeOK, NEW k \in Key, NEW p \in Payload
    PROVE  /\ Working(k, p) \in State
           /\ Working(k, p).Revision = disk.Revision + 1
           /\ Working(k, p).Receipts =
                  [disk.Receipts EXCEPT ![k] =
                      [CommittedRevision |-> disk.Revision + 1,
                       PayloadFingerprint |-> p]]
           /\ Working(k, p).Effects = [disk.Effects EXCEPT ![k] = @ + 1]
<1> DEFINE r == [CommittedRevision |-> disk.Revision + 1,
                 PayloadFingerprint |-> p]
<1>1. disk \in State
  BY DEF TypeOK
<1>2. r \in Receipt
  BY <1>1 DEF State, Receipt
<1>3. [disk.Receipts EXCEPT ![k] = r] \in [Key -> Receipt \cup {NoReceipt}]
  BY <1>1, <1>2 DEF State
<1>4. [disk.Effects EXCEPT ![k] = @ + 1] \in [Key -> Nat]
  BY <1>1 DEF State
<1> QED
  BY <1>1, <1>3, <1>4 DEF State, Working

(* A ledger entry is a well-formed receipt.                                *)
LEMMA LookupType ==
    ASSUME TypeOK, NEW k \in Key, Lookup(k) # NoReceipt
    PROVE  /\ Lookup(k) \in Receipt
           /\ Lookup(k).CommittedRevision \in Nat \ {0}
           /\ Lookup(k).PayloadFingerprint \in Payload
BY DEF TypeOK, State, Lookup, Receipt

(* While a call is in progress it is a well-formed call.                   *)
LEMMA CallType ==
    ASSUME TypeOK, call # NoCall
    PROVE  call \in Call /\ call.key \in Key /\ call.payload \in Payload
BY DEF TypeOK, Call

(* The receipt of a call that has renamed its state is well formed.        *)
LEMMA CommittedReceiptType ==
    ASSUME TypeOK, CallSound, call # NoCall, call.step = "renamed"
    PROVE  CommittedReceipt \in Given
<1>1. call.key \in Key /\ call.payload \in Payload
  BY CallType
<1>2. disk.Revision \in Nat \ {0}
  BY DEF CallSound, TypeOK, State
<1> QED
  BY <1>1, <1>2 DEF CommittedReceipt, Given

(* A replay, whichever way its confirmation ends, keeps the types.         *)
LEMMA ConfirmType ==
    ASSUME TypeOK, NEW k \in Key, NEW p \in Payload,
           Lookup(k) # NoReceipt, ConfirmDurable(k, p)
    PROVE  TypeOK'
<1>1. Lookup(k).CommittedRevision \in Nat \ {0}
  BY LookupType
<1>2. GivenReceipt(k, p, Lookup(k)) \in Given
  BY <1>1 DEF GivenReceipt, Given
<1>3. CASE ConfirmCached(k, p)
  BY <1>2, <1>3 DEF TypeOK, ConfirmCached
<1>4. CASE ConfirmByFsync(k, p)
  BY <1>1, <1>2, <1>4 DEF TypeOK, ConfirmByFsync
<1>5. CASE ConfirmFails(k, p)
  BY <1>2, <1>5 DEF TypeOK, ConfirmFails
<1> QED
  BY <1>3, <1>4, <1>5 DEF ConfirmDurable

(* Every step keeps the types.  That the receipt of a renamed call has a   *)
(* positive revision takes CallSound.                                      *)
LEMMA TypeStep ==
    ASSUME TypeOK, CallSound, [Next]_vars
    PROVE  TypeOK'
<1>1. CASE Open
  BY <1>1 DEF Open, TypeOK
<1>2. CASE Close
  BY <1>2 DEF Close, TypeOK
<1>3. CASE \E k \in Key, p \in Payload : Replay(k, p)
  BY <1>3, ConfirmType DEF Replay
<1>4. CASE \E k \in Key : ResolveRequest(k)
  BY <1>4, ConfirmType, LookupType DEF ResolveRequest
<1>5. CASE \E k \in Key, p \in Payload : BeginCommit(k, p)
  BY <1>5 DEF BeginCommit, TypeOK, Call
<1>6. CASE WriteFails
  BY <1>6 DEF WriteFails, TypeOK
<1>7. CASE Rename
  <2>1. call \in Call /\ call.key \in Key /\ call.payload \in Payload
    BY <1>7, CallType DEF Rename
  <2>2. Working(call.key, call.payload) \in State
    BY <2>1, WorkingType
  <2>3. [call EXCEPT !.step = "renamed"] \in Call
    BY <2>1 DEF Call
  <2> QED
    BY <1>7, <2>2, <2>3 DEF Rename, TypeOK
<1>8. CASE FsyncSucceeds
  <2>1. CommittedReceipt \in Given
    BY <1>8, CommittedReceiptType DEF FsyncSucceeds
  <2> QED
    BY <1>8, <2>1 DEF FsyncSucceeds, TypeOK, State
<1>9. CASE FsyncFails
  <2>1. CommittedReceipt \in Given
    BY <1>9, CommittedReceiptType DEF FsyncFails
  <2> QED
    BY <1>9, <2>1 DEF FsyncFails, TypeOK
<1>10. CASE Crash
  BY <1>10 DEF Crash, TypeOK
<1>11. CASE Writeback
  BY <1>11 DEF Writeback, TypeOK
<1>12. CASE PowerLoss
  BY <1>12 DEF PowerLoss, TypeOK
<1>13. CASE UNCHANGED vars
  BY <1>13 DEF vars, TypeOK
<1> QED
  BY <1>1, <1>2, <1>3, <1>4, <1>5, <1>6, <1>7, <1>8, <1>9, <1>10, <1>11,
     <1>12, <1>13 DEF Next

-----------------------------------------------------------------------------
(***************************************************************************)
(* Facts about ledger entries and prefixes.                                *)
(***************************************************************************)

(* A receipt in a content makes an entry of it.                            *)
LEMMA ReceiptIsEntry ==
    ASSUME NEW s, NEW k \in Key, s.Receipts[k] # NoReceipt
    PROVE  [key |-> k, payload |-> s.Receipts[k].PayloadFingerprint,
            revision |-> s.Receipts[k].CommittedRevision] \in Entries(s)
BY DEF Entries

(* A content that keeps the receipts of another keeps its entries.         *)
LEMMA EntriesGrow ==
    ASSUME NEW s, NEW t,
           \A k \in Key : s.Receipts[k] # NoReceipt =>
                             t.Receipts[k] = s.Receipts[k]
    PROVE  Entries(s) \subseteq Entries(t)
BY DEF Entries

(* What survives is a part of what is applied.                             *)
LEMMA PrefixEntries ==
    ASSUME NEW s, IsPrefix(s, disk)
    PROVE  Entries(s) \subseteq Entries(disk)
<1>1. \A k \in Key : s.Receipts[k] # NoReceipt =>
                         disk.Receipts[k] = s.Receipts[k]
  BY DEF IsPrefix
<1> QED
  BY <1>1, EntriesGrow

(* A receipt at or below the revision of a prefix is in the prefix.        *)
LEMMA CoveredReceipt ==
    ASSUME NEW s, IsPrefix(s, disk), NEW k \in Key, Lookup(k) # NoReceipt,
           Lookup(k).CommittedRevision <= s.Revision
    PROVE  s.Receipts[k] = Lookup(k)
BY DEF IsPrefix, Lookup

(* A replay tells the caller exactly what the ledger holds.                *)
LEMMA GivenIsEntry ==
    ASSUME NEW s, NEW k \in Key, NEW p, Lookup(k) # NoReceipt,
           s.Receipts[k] = Lookup(k), p = Lookup(k).PayloadFingerprint
    PROVE  GivenReceipt(k, p, Lookup(k)) \in Entries(s)
BY ReceiptIsEntry DEF GivenReceipt

(* So does the first answer of a commit.                                   *)
LEMMA CommittedIsEntry ==
    ASSUME TypeOK, CallSound, call # NoCall, call.step = "renamed"
    PROVE  CommittedReceipt \in Entries(disk)
<1>1. /\ call.key \in Key
      /\ disk.Revision # 0
      /\ disk.Receipts[call.key] = [CommittedRevision |-> disk.Revision,
                                    PayloadFingerprint |-> call.payload]
  BY CallType DEF CallSound
<1>2. disk.Receipts[call.key] # NoReceipt
  <2>1. disk.Receipts[call.key] \in Receipt
    BY <1>1, CallType DEF Receipt, TypeOK, State
  <2> QED
    BY <2>1, NoReceiptAssumption
<1> QED
  BY <1>1, <1>2, ReceiptIsEntry DEF CommittedReceipt

(* Replay and ResolveRequest confirm a receipt for the payload it is bound *)
(* to.                                                                     *)
LEMMA Confirming ==
    ASSUME \/ \E k \in Key, p \in Payload : Replay(k, p)
           \/ \E k \in Key : ResolveRequest(k)
    PROVE  /\ Idle
           /\ \E k \in Key :
                 /\ Lookup(k) # NoReceipt
                 /\ ConfirmDurable(k, Lookup(k).PayloadFingerprint)
BY DEF Replay, ResolveRequest, SamePayload

(* A rename writes what Working describes and adds it to what may survive. *)
LEMMA RenameShape ==
    ASSUME IInv, Rename
    PROVE  /\ call.key \in Key
           /\ call.payload \in Payload
           /\ disk.Revision \in Nat
           /\ disk.Revision < MaxRevision
           /\ disk.Receipts[call.key] = NoReceipt
           /\ disk'.Revision = disk.Revision + 1
           /\ disk'.Receipts =
                 [disk.Receipts EXCEPT ![call.key] =
                     [CommittedRevision |-> disk.Revision + 1,
                      PayloadFingerprint |-> call.payload]]
           /\ disk'.Receipts[call.key] =
                 [CommittedRevision |-> disk.Revision + 1,
                  PayloadFingerprint |-> call.payload]
           /\ disk'.Receipts[call.key] # NoReceipt
           /\ \A k \in Key \ {call.key} :
                 disk'.Receipts[k] = disk.Receipts[k]
           /\ survivors' = survivors \cup {disk'}
<1>1. call.key \in Key /\ call.payload \in Payload
  BY CallType DEF IInv, Rename
<1>2. disk.Receipts \in [Key -> Receipt \cup {NoReceipt}]
  BY DEF IInv, TypeOK, State
<1>3. [CommittedRevision |-> disk.Revision + 1,
       PayloadFingerprint |-> call.payload] \in Receipt
  BY <1>1 DEF Receipt, IInv, TypeOK, State
<1>4. disk'.Receipts[call.key] # NoReceipt
  BY <1>1, <1>2, <1>3, NoReceiptAssumption DEF Rename, Working
<1> QED
  BY <1>1, <1>2, <1>4 DEF IInv, Rename, CallSound, Working, TypeOK, State

(* Every other step leaves the disk alone or takes it back to a survivor,  *)
(* and adds nothing to what may survive.                                   *)
LEMMA OtherShape ==
    ASSUME IInv, [Next]_vars, ~Rename
    PROVE  /\ survivors' \subseteq survivors
           /\ disk' \in survivors'
           /\ disk' # disk => PowerLoss
<1> USE DEF IInv, Prefixes
<1>1. CASE \/ \E k \in Key, p \in Payload : Replay(k, p)
           \/ \E k \in Key : ResolveRequest(k)
  BY <1>1, Confirming
     DEF ConfirmDurable, ConfirmCached, ConfirmByFsync, ConfirmFails
<1>2. CASE Open \/ Close \/ WriteFails \/ FsyncSucceeds \/ FsyncFails
  BY <1>2 DEF Open, Close, WriteFails, FsyncSucceeds, FsyncFails
<1>3. CASE \/ \E k \in Key, p \in Payload : BeginCommit(k, p)
           \/ Crash \/ Writeback \/ UNCHANGED vars
  BY <1>3 DEF BeginCommit, Crash, Writeback, vars
<1>4. CASE PowerLoss
  BY <1>4 DEF PowerLoss
<1> QED
  BY <1>1, <1>2, <1>3, <1>4 DEF Next

-----------------------------------------------------------------------------
(***************************************************************************)
(* Each part of IInv is kept by every step.                                *)
(***************************************************************************)

(* After a rename every possible survivor is a prefix of the new content;  *)
(* after a power loss the survivor is the content.                         *)
LEMMA PrefixesStep ==
    ASSUME IInv, [Next]_vars
    PROVE  Prefixes'
<1>1. CASE Rename
  <2>1. /\ disk'.Revision = disk.Revision + 1
        /\ disk.Revision \in Nat
        /\ call.key \in Key
        /\ disk.Receipts[call.key] = NoReceipt
        /\ disk'.Receipts[call.key].CommittedRevision = disk.Revision + 1
        /\ \A k \in Key \ {call.key} : disk'.Receipts[k] = disk.Receipts[k]
        /\ survivors' = survivors \cup {disk'}
    BY <1>1, RenameShape
  <2>2. ASSUME NEW s \in survivors
        PROVE  IsPrefix(s, disk')
    <3>1. IsPrefix(s, disk) /\ s.Revision \in Nat
      BY DEF IInv, Prefixes, TypeOK, State
    <3>2. s.Revision <= disk'.Revision
      BY <2>1, <3>1 DEF IsPrefix
    <3>3. ~(disk'.Receipts[call.key].CommittedRevision <= s.Revision)
      BY <2>1, <3>1 DEF IsPrefix
    <3>4. s.Receipts[call.key] = NoReceipt
      BY <2>1, <3>1 DEF IsPrefix
    <3> QED
      BY <2>1, <3>1, <3>2, <3>3, <3>4 DEF IsPrefix
  <2>3. IsPrefix(disk', disk')
    <3>1. ASSUME NEW k \in Key, disk'.Receipts[k] # NoReceipt
          PROVE  disk'.Receipts[k].CommittedRevision <= disk'.Revision
      <4>1. CASE k = call.key
        BY <2>1, <4>1
      <4>2. CASE k # call.key
        <5>1. disk.Receipts[k] # NoReceipt
          BY <2>1, <3>1, <4>2
        <5>2. disk.Receipts[k].CommittedRevision \in Nat
          BY <5>1 DEF IInv, TypeOK, State, Receipt
        <5>3. disk.Receipts[k].CommittedRevision <= disk.Revision
          BY <5>1 DEF IInv, Prefixes, IsPrefix
        <5> QED
          BY <2>1, <4>2, <5>2, <5>3
      <4> QED
        BY <4>1, <4>2
    <3>2. disk'.Revision <= disk'.Revision
      BY <2>1
    <3> QED
      BY <3>1, <3>2 DEF IsPrefix
  <2> QED
    BY <2>1, <2>2, <2>3 DEF Prefixes
<1>2. CASE PowerLoss
  <2>1. disk' \in survivors /\ survivors' = {disk'}
    BY <1>2 DEF PowerLoss
  <2>2. IsPrefix(disk', disk) /\ disk'.Revision \in Nat
    BY <2>1 DEF IInv, Prefixes, TypeOK, State
  <2>3. IsPrefix(disk', disk')
    BY <2>2 DEF IsPrefix
  <2> QED
    BY <2>1, <2>3 DEF Prefixes
<1>3. CASE ~Rename /\ ~PowerLoss
  <2>1. disk' = disk /\ survivors' \subseteq survivors /\ disk' \in survivors'
    BY <1>3, OtherShape
  <2> QED
    BY <2>1 DEF IInv, Prefixes, IsPrefix
<1> QED
  BY <1>1, <1>2, <1>3

(* The call that holds the mutex finds what it left.                       *)
LEMMA CallSoundStep ==
    ASSUME IInv, [Next]_vars
    PROVE  CallSound'
<1> USE DEF IInv
<1>1. CASE \E k \in Key, p \in Payload : BeginCommit(k, p)
  BY <1>1 DEF BeginCommit, CallSound, Lookup, Idle
<1>2. CASE Rename
  <2>1. call' = [call EXCEPT !.step = "renamed"] /\ up' = up /\ up
    BY <1>2 DEF Rename, CallSound
  <2>2. /\ call'.key = call.key
        /\ call'.payload = call.payload
        /\ call'.step = "renamed"
    BY <1>2, <2>1, CallType DEF Call, Rename
  <2>3. disk'.Revision = disk.Revision + 1 /\ disk.Revision \in Nat
    BY <1>2, RenameShape
  <2>4. disk'.Receipts[call.key] =
            [CommittedRevision |-> disk.Revision + 1,
             PayloadFingerprint |-> call.payload]
    BY <1>2, RenameShape
  <2> QED
    BY <2>1, <2>2, <2>3, <2>4 DEF CallSound
<1>3. CASE \/ \E k \in Key, p \in Payload : Replay(k, p)
           \/ \E k \in Key : ResolveRequest(k)
  BY <1>3, Confirming
     DEF ConfirmDurable, ConfirmCached, ConfirmByFsync, ConfirmFails,
         CallSound, Idle
<1>4. CASE Open \/ Close \/ Writeback \/ UNCHANGED vars
  BY <1>4 DEF Open, Close, Writeback, vars, CallSound, Idle
<1>5. CASE WriteFails \/ FsyncSucceeds \/ FsyncFails \/ Crash \/ PowerLoss
  BY <1>5 DEF WriteFails, FsyncSucceeds, FsyncFails, Crash, PowerLoss,
              CallSound
<1> QED
  BY <1>1, <1>2, <1>3, <1>4, <1>5 DEF Next

LEMMA WithinBoundStep ==
    ASSUME IInv, [Next]_vars
    PROVE  WithinBound'
<1>1. CASE Rename
  BY <1>1, RenameShape, MaxRevisionAssumption DEF WithinBound
<1>2. CASE PowerLoss
  <2>1. disk' \in survivors /\ disk'.Revision <= disk.Revision
    BY <1>2 DEF PowerLoss, IInv, Prefixes, IsPrefix
  <2>2. disk'.Revision \in Nat /\ disk.Revision \in Nat
    BY <2>1 DEF IInv, TypeOK, State
  <2> QED
    BY <2>1, <2>2, MaxRevisionAssumption DEF IInv, WithinBound
<1>3. CASE ~Rename /\ ~PowerLoss
  BY <1>3, OtherShape DEF IInv, WithinBound
<1> QED
  BY <1>1, <1>2, <1>3

(* durableRevision moves only after an fsync of at least that revision.    *)
LEMMA DurableLineStep ==
    ASSUME IInv, [Next]_vars
    PROVE  DurableLineSound'
<1>0. /\ disk \in survivors /\ durableRevision \in Nat
      /\ \A s \in survivors : s.Revision \in Nat /\ IsPrefix(s, disk)
      /\ up => \A s \in survivors : durableRevision <= s.Revision
  BY DEF IInv, TypeOK, State, Prefixes, DurableLineSound
<1>1. CASE Open
  BY <1>0, <1>1 DEF Open, DurableLineSound
<1>2. CASE \/ \E k \in Key, p \in Payload : Replay(k, p)
           \/ \E k \in Key : ResolveRequest(k)
  <2>1. PICK k \in Key : /\ up
                         /\ Lookup(k) # NoReceipt
                         /\ ConfirmDurable(k, Lookup(k).PayloadFingerprint)
    BY <1>2, Confirming DEF Idle
  <2>2. Lookup(k).CommittedRevision <= disk.Revision
    BY <1>0, <2>1 DEF IsPrefix, Lookup
  <2> QED
    BY <1>0, <2>1, <2>2
       DEF ConfirmDurable, ConfirmCached, ConfirmByFsync, ConfirmFails,
           DurableLineSound
<1>3. CASE Rename
  <2>1. /\ disk'.Revision = disk.Revision + 1
        /\ survivors' = survivors \cup {disk'}
        /\ UNCHANGED <<up, durableRevision>>
    BY <1>3, RenameShape DEF Rename
  <2>2. up => durableRevision <= disk'.Revision
    BY <1>0, <2>1
  <2> QED
    BY <1>0, <2>1, <2>2 DEF DurableLineSound
<1>4. CASE FsyncSucceeds
  BY <1>0, <1>4 DEF FsyncSucceeds, DurableLineSound
<1>5. CASE \/ \E k \in Key, p \in Payload : BeginCommit(k, p)
           \/ WriteFails \/ FsyncFails \/ Writeback \/ UNCHANGED vars
  BY <1>0, <1>5 DEF BeginCommit, WriteFails, FsyncFails, Writeback, vars,
                    DurableLineSound
<1>6. CASE Close \/ Crash \/ PowerLoss
  BY <1>6 DEF Close, Crash, PowerLoss, DurableLineSound
<1> QED
  BY <1>1, <1>2, <1>3, <1>4, <1>5, <1>6 DEF Next

(* A rename adds an entry and keeps the others.                            *)
LEMMA RenameKeepsEntries ==
    ASSUME IInv, Rename
    PROVE  Entries(disk) \subseteq Entries(disk')
<1>1. \A k \in Key : disk.Receipts[k] # NoReceipt =>
                         disk'.Receipts[k] = disk.Receipts[k]
  BY RenameShape
<1> QED
  BY <1>1, EntriesGrow

(* A receipt is given only when every possible survivor holds its entry.   *)
LEMMA AckedStep ==
    ASSUME IInv, [Next]_vars
    PROVE  AckedSurvives'
<1>0. /\ disk \in survivors
      /\ \A s \in survivors : IsPrefix(s, disk) /\ s.Revision \in Nat
      /\ \A s \in survivors : acked \subseteq Entries(s)
      /\ durableRevision \in Nat
      /\ up => \A s \in survivors : durableRevision <= s.Revision
      /\ TypeOK
  BY DEF IInv, TypeOK, State, Prefixes, AckedSurvives, DurableLineSound
<1>1. CASE \/ \E k \in Key, p \in Payload : Replay(k, p)
           \/ \E k \in Key : ResolveRequest(k)
  <2>1. PICK k \in Key : /\ up
                         /\ Lookup(k) # NoReceipt
                         /\ ConfirmDurable(k, Lookup(k).PayloadFingerprint)
    BY <1>1, Confirming DEF Idle
  <2> DEFINE given == GivenReceipt(k, Lookup(k).PayloadFingerprint, Lookup(k))
  <2>2. Lookup(k).CommittedRevision \in Nat
    BY <1>0, <2>1, LookupType
  <2>3. CASE ConfirmCached(k, Lookup(k).PayloadFingerprint)
    <3>1. ASSUME NEW s \in survivors
          PROVE  given \in Entries(s)
      <4>1. Lookup(k).CommittedRevision <= s.Revision
        BY <1>0, <2>1, <2>2, <2>3 DEF ConfirmCached, KnownDurable
      <4>2. s.Receipts[k] = Lookup(k)
        BY <1>0, <2>1, <4>1, CoveredReceipt
      <4> QED
        BY <2>1, <4>2, GivenIsEntry
    <3>2. acked' = acked \cup {given} /\ survivors' = survivors
      BY <2>3 DEF ConfirmCached
    <3> QED
      BY <1>0, <3>1, <3>2 DEF AckedSurvives, Entries
  <2>4. CASE ConfirmByFsync(k, Lookup(k).PayloadFingerprint)
    <3>1. given \in Entries(disk)
      BY <2>1, GivenIsEntry DEF Lookup
    <3>2. acked' = acked \cup {given} /\ survivors' = {disk}
      BY <2>4 DEF ConfirmByFsync
    <3> QED
      BY <1>0, <3>1, <3>2 DEF AckedSurvives, Entries
  <2>5. CASE ConfirmFails(k, Lookup(k).PayloadFingerprint)
    BY <1>0, <2>5 DEF ConfirmFails, AckedSurvives, Entries
  <2> QED
    BY <2>1, <2>3, <2>4, <2>5 DEF ConfirmDurable
<1>2. CASE Rename
  <2>1. survivors' = survivors \cup {disk'} /\ acked' = acked
    BY <1>2, RenameShape DEF Rename
  <2>2. acked \subseteq Entries(disk')
    BY <1>0, <1>2, RenameKeepsEntries
  <2> QED
    BY <1>0, <2>1, <2>2 DEF AckedSurvives, Entries
<1>3. CASE FsyncSucceeds
  <2>1. CommittedReceipt \in Entries(disk)
    BY <1>3, CommittedIsEntry DEF IInv, FsyncSucceeds
  <2>2. acked' = acked \cup {CommittedReceipt} /\ survivors' = {disk}
    BY <1>3 DEF FsyncSucceeds
  <2> QED
    BY <1>0, <2>1, <2>2 DEF AckedSurvives, Entries
<1>4. CASE \/ Open \/ Close \/ WriteFails \/ FsyncFails \/ Crash \/ Writeback
           \/ \E k \in Key, p \in Payload : BeginCommit(k, p)
           \/ PowerLoss \/ UNCHANGED vars
  <2>1. acked' = acked
    BY <1>4 DEF Open, Close, WriteFails, FsyncFails, Crash, Writeback,
                BeginCommit, PowerLoss, vars
  <2>2. survivors' \subseteq survivors
    BY <1>0, <1>4 DEF Open, Close, WriteFails, FsyncFails, Crash, Writeback,
                      BeginCommit, PowerLoss, vars
  <2> QED
    BY <1>0, <2>1, <2>2 DEF AckedSurvives, Entries
<1> QED
  BY <1>1, <1>2, <1>3, <1>4 DEF Next

(* An uncertain outcome is reported only for what the ledger holds.        *)
LEMMA UncertainStep ==
    ASSUME IInv, [Next]_vars
    PROVE  UncertainStands'
<1>0. uncertain \subseteq Entries(disk) /\ TypeOK /\ CallSound
  BY DEF IInv, UncertainStands
<1>1. CASE \/ \E k \in Key, p \in Payload : Replay(k, p)
           \/ \E k \in Key : ResolveRequest(k)
  <2>1. PICK k \in Key : /\ Lookup(k) # NoReceipt
                         /\ ConfirmDurable(k, Lookup(k).PayloadFingerprint)
    BY <1>1, Confirming
  <2>2. GivenReceipt(k, Lookup(k).PayloadFingerprint, Lookup(k))
            \in Entries(disk)
    BY <2>1, GivenIsEntry DEF Lookup
  <2> QED
    BY <1>0, <2>1, <2>2
       DEF ConfirmDurable, ConfirmCached, ConfirmByFsync, ConfirmFails,
           UncertainStands, Entries
<1>2. CASE Rename
  <2>1. uncertain \subseteq Entries(disk') /\ uncertain' = uncertain
    BY <1>0, <1>2, RenameKeepsEntries DEF Rename
  <2> QED
    BY <2>1 DEF UncertainStands, Entries
<1>3. CASE FsyncFails
  <2>1. CommittedReceipt \in Entries(disk)
    BY <1>0, <1>3, CommittedIsEntry DEF FsyncFails
  <2> QED
    BY <1>0, <1>3, <2>1 DEF FsyncFails, UncertainStands, Entries
<1>4. CASE PowerLoss
  BY <1>4 DEF PowerLoss, UncertainStands
<1>5. CASE \/ Open \/ Close \/ WriteFails \/ FsyncSucceeds \/ Crash
           \/ Writeback \/ UNCHANGED vars
           \/ \E k \in Key, p \in Payload : BeginCommit(k, p)
  <2>1. uncertain' = uncertain /\ disk' = disk
    BY <1>5 DEF Open, Close, WriteFails, FsyncSucceeds, Crash, Writeback,
                BeginCommit, vars
  <2> QED
    BY <1>0, <2>1 DEF UncertainStands, Entries
<1> QED
  BY <1>1, <1>2, <1>3, <1>4, <1>5 DEF Next

(* A rename adds one effect and the receipt that goes with it.             *)
LEMMA OneEffectStep ==
    ASSUME IInv, [Next]_vars
    PROVE  OneEffectPerRequest'
<1>0. /\ disk \in survivors
      /\ \A s \in survivors \cup {disk}, k \in Key :
             s.Effects[k] = IF s.Receipts[k] = NoReceipt THEN 0 ELSE 1
  BY DEF IInv, Prefixes, OneEffectPerRequest
<1>1. CASE Rename
  <2>1. /\ call.key \in Key
        /\ disk.Receipts[call.key] = NoReceipt
        /\ disk'.Receipts[call.key] # NoReceipt
        /\ \A k \in Key \ {call.key} : disk'.Receipts[k] = disk.Receipts[k]
        /\ survivors' = survivors \cup {disk'}
    BY <1>1, RenameShape
  <2>2. disk'.Effects = [disk.Effects EXCEPT ![call.key] = @ + 1]
    BY <1>1 DEF Rename, Working
  <2>3. disk.Effects \in [Key -> Nat]
    BY DEF IInv, TypeOK, State
  <2>4. \A k \in Key :
            disk'.Effects[k] = IF disk'.Receipts[k] = NoReceipt THEN 0 ELSE 1
    BY <1>0, <2>1, <2>2, <2>3
  <2> QED
    BY <1>0, <2>1, <2>4 DEF OneEffectPerRequest
<1>2. CASE ~Rename
  <2>1. survivors' \subseteq survivors /\ disk' \in survivors'
    BY <1>2, OtherShape
  <2> QED
    BY <1>0, <2>1 DEF OneEffectPerRequest
<1> QED
  BY <1>1, <1>2

-----------------------------------------------------------------------------
(***************************************************************************)
(* The theorems.                                                           *)
(***************************************************************************)

LEMMA InitInv == Init => IInv
<1> SUFFICES ASSUME Init PROVE IInv
  OBVIOUS
<1>1. EmptyState \in State
  BY DEF EmptyState, State
<1>2. TypeOK
  BY <1>1 DEF Init, TypeOK
<1>3. Prefixes
  BY DEF Init, Prefixes, IsPrefix, EmptyState
<1>4. CallSound /\ DurableLineSound /\ AckedSurvives /\ UncertainStands
  BY DEF Init, CallSound, DurableLineSound, AckedSurvives, UncertainStands
<1>5. WithinBound
  BY MaxRevisionAssumption DEF Init, WithinBound, EmptyState
<1>6. OneEffectPerRequest
  BY DEF Init, OneEffectPerRequest, EmptyState
<1> QED
  BY <1>2, <1>3, <1>4, <1>5, <1>6 DEF IInv

(* The inductive invariant holds in every reachable state, whatever the    *)
(* crashes, failed fsyncs and power losses.                                *)
THEOREM Invariance == Spec => []IInv
<1>1. IInv /\ [Next]_vars => IInv'
  <2> SUFFICES ASSUME IInv, [Next]_vars PROVE IInv'
    OBVIOUS
  <2>1. TypeOK'
    BY TypeStep DEF IInv
  <2> QED
    BY <2>1, PrefixesStep, CallSoundStep, WithinBoundStep, DurableLineStep,
       AckedStep, UncertainStep, OneEffectStep DEF IInv
<1> QED
  BY <1>1, InitInv, PTL DEF Spec

(* The variables always have their types.                                  *)
THEOREM TypeCorrect == Spec => []TypeOK
BY Invariance, PTL DEF IInv

(* A receipt that Commit or ResolveRequest has returned is found again     *)
(* after any crash or power loss.                                          *)
THEOREM ReceiptsSurvive == Spec => []AckedSurvives
BY Invariance, PTL DEF IInv

(* A request's Mutate has taken effect exactly once when the request has a *)
(* receipt and not at all when it has none.                                *)
THEOREM EffectsOnce == Spec => []OneEffectPerRequest
BY Invariance, PTL DEF IInv

(* The fsync that confirmDurable skips would have been redundant.          *)
THEOREM LineSound == Spec => []DurableLineSound
BY Invariance, PTL DEF IInv

(* OutcomeUncertain/Applied is the truth until the machine stops.          *)
THEOREM UncertainIsApplied == Spec => []UncertainStands
BY Invariance, PTL DEF IInv

-----------------------------------------------------------------------------
(***************************************************************************)
(* StateStore implements CommandLedger.                                    *)
(***************************************************************************)

(* The entries that every possible survivor holds: the refinement mapping  *)
(* of the abstract variable firm.                                          *)
Firm == {e \in Entries(disk) : \A s \in survivors : e \in Entries(s)}

(* A prefix that holds an entry holds every entry of a lower revision.     *)
LEMMA PrefixClosed ==
    ASSUME TypeOK, NEW s, IsPrefix(s, disk), s.Revision \in Nat,
           NEW e \in Entries(s), NEW d \in Entries(disk),
           d.revision < e.revision
    PROVE  d \in Entries(s)
<1>1. PICK i \in Key : /\ s.Receipts[i] # NoReceipt
                       /\ e.revision = s.Receipts[i].CommittedRevision
  BY DEF Entries
<1>2. PICK j \in Key :
        /\ disk.Receipts[j] # NoReceipt
        /\ d = [key |-> j, payload |-> disk.Receipts[j].PayloadFingerprint,
                revision |-> disk.Receipts[j].CommittedRevision]
  BY DEF Entries
<1>3. s.Receipts[i].CommittedRevision <= s.Revision
  BY <1>1 DEF IsPrefix
<1>4. /\ disk.Receipts[j].CommittedRevision \in Nat
      /\ s.Receipts[i].CommittedRevision \in Nat
  BY <1>1, <1>2 DEF TypeOK, State, Receipt, IsPrefix
<1>5. s.Receipts[j] = disk.Receipts[j]
  BY <1>1, <1>2, <1>3, <1>4 DEF IsPrefix
<1> QED
  BY <1>2, <1>5, ReceiptIsEntry

(* Every revision in the ledger is at most that of the disk.               *)
LEMMA EntryBelow ==
    ASSUME IInv, NEW e \in Entries(disk)
    PROVE  /\ e.revision <= disk.Revision
           /\ disk.Receipts[e.key] # NoReceipt
BY DEF Entries, IInv, Prefixes, IsPrefix

(* A rename is Apply.                                                      *)
LEMMA RenameApplies ==
    ASSUME IInv, Rename
    PROVE  Ledger!LedgerNext
<1> DEFINE e == [key |-> call.key, payload |-> call.payload,
                 revision |-> disk.Revision + 1]
<1>1. /\ call.key \in Key /\ call.payload \in Payload
      /\ disk.Revision \in Nat /\ disk.Revision < MaxRevision
      /\ disk.Receipts[call.key] = NoReceipt
      /\ disk'.Receipts[call.key] =
            [CommittedRevision |-> disk.Revision + 1,
             PayloadFingerprint |-> call.payload]
      /\ disk'.Receipts[call.key] # NoReceipt
      /\ \A k \in Key \ {call.key} : disk'.Receipts[k] = disk.Receipts[k]
      /\ survivors' = survivors \cup {disk'}
  BY RenameShape
<1>2. e \in Ledger!Entry
  BY <1>1, MaxRevisionAssumption DEF Ledger!Entry
<1>3. \A d \in Entries(disk) : d.key # e.key /\ d.revision < e.revision
  <2> TAKE d \in Entries(disk)
  <2>1. d.revision <= disk.Revision /\ disk.Receipts[d.key] # NoReceipt
    BY EntryBelow
  <2>2. d.revision \in Nat
    BY DEF Entries, IInv, TypeOK, State, Receipt
  <2> QED
    BY <1>1, <2>1, <2>2
<1>4. Entries(disk') = Entries(disk) \cup {e}
  BY <1>1 DEF Entries
<1>5. Firm' = Firm
  <2>1. disk \in survivors
    BY DEF IInv, Prefixes
  <2>2. Firm' = {x \in Entries(disk') :
                    \A s \in survivors \cup {disk'} : x \in Entries(s)}
    BY <1>1 DEF Firm, Entries
  <2> QED
    BY <1>4, <2>1, <2>2 DEF Firm
<1>6. acked' = acked
  BY DEF Rename
<1>7. Entries(disk)' = Entries(disk')
  BY DEF Entries
<1>8. Ledger!Apply(e)
  BY <1>3, <1>4, <1>5, <1>6, <1>7 DEF Ledger!Apply, Firm
<1> QED
  BY <1>2, <1>8 DEF Ledger!LedgerNext

(* A power loss is Lose.                                                   *)
LEMMA PowerLossLoses ==
    ASSUME IInv, PowerLoss
    PROVE  Ledger!LedgerNext
<1> DEFINE kept == Entries(disk')
<1>1. disk' \in survivors /\ survivors' = {disk'} /\ acked' = acked
  BY DEF PowerLoss
<1>2. IsPrefix(disk', disk) /\ disk'.Revision \in Nat /\ TypeOK
  BY <1>1 DEF IInv, Prefixes, TypeOK, State
<1>3. kept \subseteq Entries(disk)
  BY <1>2, PrefixEntries
<1>4. Firm \subseteq kept
  BY <1>1 DEF Firm
<1>5. \A e \in kept, d \in Entries(disk) :
          d.revision < e.revision => d \in kept
  BY <1>2, PrefixClosed
<1>6. Entries(disk)' = kept
  BY DEF Entries
<1>7. Firm' = kept
  <2>1. Firm' = {e \in Entries(disk') :
                    \A s \in survivors' : e \in Entries(s)}
    BY DEF Firm, Entries
  <2> QED
    BY <1>1, <2>1
<1>8. Ledger!Lose
  BY <1>1, <1>3, <1>4, <1>5, <1>6, <1>7 DEF Ledger!Lose, Firm
<1> QED
  BY <1>8 DEF Ledger!LedgerNext

(* An fsync, asked for or not, is MakeFirm.                                *)
LEMMA FsyncMakesFirm ==
    ASSUME disk' = disk, survivors' = {disk},
           \/ acked' = acked
           \/ \E e \in Entries(disk) : acked' = acked \cup {e}
    PROVE  Ledger!LedgerNext
<1>1. Entries(disk)' = Entries(disk)
  BY DEF Entries
<1>2. Firm' = Entries(disk)
  <2>1. Firm' = {e \in Entries(disk') :
                    \A s \in survivors' : e \in Entries(s)}
    BY DEF Firm, Entries
  <2> QED
    BY <2>1
<1>3. Ledger!MakeFirm
  BY <1>1, <1>2 DEF Ledger!MakeFirm, Firm
<1> QED
  BY <1>3 DEF Ledger!LedgerNext

(* A step that touches neither the files nor the receipts is a stutter.    *)
LEMMA Stutters ==
    ASSUME disk' = disk, survivors' = survivors, acked' = acked
    PROVE  UNCHANGED Ledger!ledgerVars
BY DEF Ledger!ledgerVars, Entries

(* Replays are Answer, MakeFirm or a stutter.                              *)
LEMMA ConfirmImplements ==
    ASSUME IInv, NEW k \in Key, up, Lookup(k) # NoReceipt,
           ConfirmDurable(k, Lookup(k).PayloadFingerprint)
    PROVE  [Ledger!LedgerNext]_Ledger!ledgerVars
<1> DEFINE p == Lookup(k).PayloadFingerprint
           given == GivenReceipt(k, p, Lookup(k))
<1>1. given \in Entries(disk)
  BY GivenIsEntry DEF Lookup
<1>2. CASE ConfirmCached(k, p)
  <2>1. ASSUME NEW s \in survivors PROVE given \in Entries(s)
    <3>1. /\ IsPrefix(s, disk) /\ s.Revision \in Nat
          /\ durableRevision <= s.Revision /\ durableRevision \in Nat
      BY DEF IInv, Prefixes, DurableLineSound, TypeOK, State
    <3>2. Lookup(k).CommittedRevision \in Nat
      BY LookupType DEF IInv
    <3>3. Lookup(k).CommittedRevision <= s.Revision
      BY <1>2, <3>1, <3>2 DEF ConfirmCached, KnownDurable
    <3>4. s.Receipts[k] = Lookup(k)
      BY <3>1, <3>3, CoveredReceipt
    <3> QED
      BY <3>4, GivenIsEntry
  <2>2. given \in Firm
    BY <1>1, <2>1 DEF Firm
  <2>3. /\ acked' = acked \cup {given}
        /\ Entries(disk)' = Entries(disk) /\ Firm' = Firm
    BY <1>2 DEF ConfirmCached, Entries, Firm
  <2>4. Ledger!Answer(given)
    BY <2>3 DEF Ledger!Answer, Firm
  <2> QED
    BY <2>2, <2>4 DEF Ledger!LedgerNext, Firm
<1>3. CASE ConfirmByFsync(k, p)
  <2>1. /\ disk' = disk /\ survivors' = {disk}
        /\ acked' = acked \cup {given}
    BY <1>3 DEF ConfirmByFsync
  <2> QED
    BY <1>1, <2>1, FsyncMakesFirm
<1>4. CASE ConfirmFails(k, p)
  BY <1>4, Stutters DEF ConfirmFails
<1> QED
  BY <1>2, <1>3, <1>4 DEF ConfirmDurable

(* Every step of the store is a step of the abstract ledger or a stutter.  *)
LEMMA StepImplements ==
    ASSUME IInv, [Next]_vars
    PROVE  [Ledger!LedgerNext]_Ledger!ledgerVars
<1>1. CASE Rename
  BY <1>1, RenameApplies
<1>2. CASE PowerLoss
  BY <1>2, PowerLossLoses
<1>3. CASE FsyncSucceeds
  <2>1. CommittedReceipt \in Entries(disk)
    BY <1>3, CommittedIsEntry DEF IInv, FsyncSucceeds
  <2> QED
    BY <1>3, <2>1, FsyncMakesFirm DEF FsyncSucceeds
<1>4. CASE Writeback
  BY <1>4, FsyncMakesFirm DEF Writeback
<1>5. CASE \/ \E k \in Key, p \in Payload : Replay(k, p)
           \/ \E k \in Key : ResolveRequest(k)
  BY <1>5, Confirming, ConfirmImplements DEF Idle
<1>6. CASE \/ Open \/ Close \/ WriteFails \/ FsyncFails \/ Crash
           \/ \E k \in Key, p \in Payload : BeginCommit(k, p)
           \/ UNCHANGED vars
  <2>1. disk' = disk /\ survivors' = survivors /\ acked' = acked
    BY <1>6 DEF Open, Close, WriteFails, FsyncFails, Crash, BeginCommit, vars
  <2> QED
    BY <2>1, Stutters
<1> QED
  BY <1>1, <1>2, <1>3, <1>4, <1>5, <1>6 DEF Next

(* The store keeps every promise of CommandLedger: at most one application *)
(* per request, in revision order, receipts only for what cannot be lost.  *)
THEOREM Implementation == Spec => ImplementsLedger
<1>1. Init => Ledger!LedgerInit
  BY DEF Init, Ledger!LedgerInit, EmptyState, Entries
<1>2. IInv /\ [Next]_vars => [Ledger!LedgerNext]_Ledger!ledgerVars
  BY StepImplements
<1> QED
  BY <1>1, <1>2, Invariance, PTL DEF Spec, ImplementsLedger, Ledger!LedgerSpec

-----------------------------------------------------------------------------
(***************************************************************************)
(* WorkspaceLock: until a Close has removed the name, at most one process  *)
(* holds the workspace.                                                    *)
(*                                                                         *)
(* The lock alone does not give that, since it belongs to an inode: who    *)
(* holds the workspace owns the flock of the file it has open (Owns), and  *)
(* until the first removal every open file is the one that .lock names     *)
(* (Named).                                                                *)
(***************************************************************************)

Owns == \A p \in Process : pc[p] = "holding" => owner[fd[p]] = p
Named == ~removed => \A p \in Process : fd[p] # None => fd[p] = path

LockIInv == LockTypeOK /\ Owns /\ Named

-----------------------------------------------------------------------------
(* A process that has the file open has an inode open.                     *)
LEMMA OpenInode ==
  ASSUME LockTypeOK, NEW p \in Process
  PROVE  pc[p] \in {"opened", "holding", "unlocked"} => fd[p] \in Inode
BY DEF LockTypeOK

LEMMA LockTypeStep ==
  ASSUME LockTypeOK, [LockNext]_lockVars
  PROVE  LockTypeOK'
<1>1. ASSUME NEW p \in Process, OpenFile(p)
      PROVE  LockTypeOK'
  <2>1. PICK i \in Inode : path' = i /\ fd' = [fd EXCEPT ![p] = i]
    BY <1>1 DEF LockTypeOK, OpenFile
  <2>2. pc' = [pc EXCEPT ![p] = "opened"] /\ UNCHANGED <<owner, removed, crashes>>
    BY <1>1 DEF OpenFile
  <2>3. i # None
    BY NoneAssumption
  <2> QED
    BY <2>1, <2>2, <2>3 DEF LockTypeOK, Step
<1>2. ASSUME NEW p \in Process, Lock(p) \/ Unlock(p)
      PROVE  LockTypeOK'
  <2>1. fd[p] \in Inode
    BY <1>2, OpenInode DEF Lock, Unlock
  <2> QED
    BY <1>2, <2>1 DEF LockTypeOK, Lock, Unlock, Step
<1>3. ASSUME NEW p \in Process, Busy(p) \/ CloseFile(p)
      PROVE  LockTypeOK'
  BY <1>3 DEF LockTypeOK, Busy, CloseFile, Step
<1>4. ASSUME NEW p \in Process, Remove(p)
      PROVE  LockTypeOK'
  BY <1>4 DEF LockTypeOK, Remove, Step
<1>5. ASSUME NEW p \in Process, ProcessDies(p)
      PROVE  LockTypeOK'
  BY <1>5, MaxCrashesAssumption DEF LockTypeOK, ProcessDies, Step
<1>6. UNCHANGED lockVars => LockTypeOK'
  BY DEF LockTypeOK, lockVars
<1> QED
  BY <1>1, <1>2, <1>3, <1>4, <1>5, <1>6 DEF LockNext

(* Only the owner gives a lock up, and taking one finds it free.           *)
LEMMA OwnsStep ==
  ASSUME LockIInv, [LockNext]_lockVars
  PROVE  Owns'
<1>0. LockTypeOK /\ Owns
  BY DEF LockIInv
<1>1. ASSUME NEW p \in Process, OpenFile(p) \/ Busy(p) \/ CloseFile(p) \/ Remove(p)
      PROVE  Owns'
  BY <1>0, <1>1 DEF LockTypeOK, Owns, OpenFile, Busy, CloseFile, Remove
<1>2. ASSUME NEW p \in Process, Lock(p)
      PROVE  Owns'
  <2>1. fd[p] \in Inode /\ owner[fd[p]] = None
    BY <1>0, <1>2, OpenInode DEF Lock
  <2>2. ASSUME NEW q \in Process, pc'[q] = "holding"
        PROVE  owner'[fd'[q]] = q
    <3>1. CASE q = p
      BY <1>0, <1>2, <2>1, <3>1 DEF LockTypeOK, Lock
    <3>2. CASE q # p
      <4>1. pc[q] = "holding" /\ owner[fd[q]] = q /\ fd'[q] = fd[q]
        BY <1>0, <1>2, <2>2, <3>2 DEF LockTypeOK, Owns, Lock
      <4>2. fd[q] # fd[p]
        BY <2>1, <4>1, NoneAssumption
      <4> QED
        BY <1>0, <1>2, <4>1, <4>2 DEF LockTypeOK, Lock
    <3> QED
      BY <3>1, <3>2
  <2> QED
    BY <2>2 DEF Owns
<1>3. ASSUME NEW p \in Process, Unlock(p)
      PROVE  Owns'
  <2>1. pc[p] = "holding" /\ owner[fd[p]] = p
    BY <1>0, <1>3 DEF Unlock, Owns
  <2>2. ASSUME NEW q \in Process, pc'[q] = "holding"
        PROVE  owner'[fd'[q]] = q
    <3>1. q # p /\ pc[q] = "holding" /\ owner[fd[q]] = q /\ fd'[q] = fd[q]
      BY <1>0, <1>3, <2>2 DEF LockTypeOK, Owns, Unlock
    <3>2. fd[q] # fd[p]
      BY <2>1, <3>1
    <3> QED
      BY <1>0, <1>3, <3>1, <3>2 DEF LockTypeOK, Unlock
  <2> QED
    BY <2>2 DEF Owns
<1>4. ASSUME NEW p \in Process, ProcessDies(p)
      PROVE  Owns'
  <2>1. ASSUME NEW q \in Process, pc'[q] = "holding"
        PROVE  owner'[fd'[q]] = q
    <3>1. q # p /\ pc[q] = "holding" /\ owner[fd[q]] = q /\ fd'[q] = fd[q]
      BY <1>0, <1>4, <2>1 DEF LockTypeOK, Owns, ProcessDies
    <3>2. fd[q] \in Inode
      BY <1>0, <3>1, OpenInode
    <3> QED
      BY <1>4, <3>1, <3>2 DEF ProcessDies
  <2> QED
    BY <2>1 DEF Owns
<1>5. UNCHANGED lockVars => Owns'
  BY <1>0 DEF Owns, lockVars
<1> QED
  BY <1>1, <1>2, <1>3, <1>4, <1>5 DEF LockNext

(* Nothing but Remove takes the name away, and a file is created only when *)
(* there is none.                                                          *)
LEMMA NamedStep ==
  ASSUME LockIInv, [LockNext]_lockVars
  PROVE  Named'
<1>0. LockTypeOK /\ Named
  BY DEF LockIInv
<1>1. ASSUME NEW p \in Process, OpenFile(p)
      PROVE  Named'
  BY <1>0, <1>1 DEF LockTypeOK, Named, OpenFile
<1>2. ASSUME NEW p \in Process,
             Lock(p) \/ Unlock(p) \/ Busy(p) \/ CloseFile(p) \/ ProcessDies(p)
      PROVE  Named'
  BY <1>0, <1>2 DEF LockTypeOK, Named, Lock, Unlock, Busy, CloseFile, ProcessDies
<1>3. ASSUME NEW p \in Process, Remove(p)
      PROVE  Named'
  BY <1>0, <1>3 DEF LockTypeOK, Named, Remove
<1>4. UNCHANGED lockVars => Named'
  BY <1>0 DEF Named, lockVars
<1> QED
  BY <1>1, <1>2, <1>3, <1>4 DEF LockNext

(* A holder owns the flock of its file, and before the first removal that  *)
(* file is the named one (Open's acquireLock, Close).                      *)
THEOREM LockInvariance == LockSpec => []LockIInv
<1>1. LockInit => LockIInv
  <2> SUFFICES ASSUME LockInit PROVE LockIInv
    OBVIOUS
  <2>1. LockTypeOK
    <3>1. pc \in [Process -> Step] /\ fd \in [Process -> Inode \cup {None}]
      BY DEF LockInit, Step
    <3>2. path \in Inode \cup {None} /\ owner \in [Inode -> Process \cup {None}]
      BY DEF LockInit
    <3>3. crashes \in 0..MaxCrashes
      <4>1. crashes = 0
        BY DEF LockInit
      <4> QED
        BY <4>1, MaxCrashesAssumption
    <3>4. removed \in BOOLEAN
      BY DEF LockInit
    <3>5. \A p \in Process : fd[p] = None /\ pc[p] = "idle"
      BY DEF LockInit
    <3> QED
      BY <3>1, <3>2, <3>3, <3>4, <3>5 DEF LockTypeOK
  <2>2. Owns /\ Named
    BY DEF LockInit, Owns, Named
  <2> QED
    BY <2>1, <2>2 DEF LockIInv
<1>2. LockIInv /\ [LockNext]_lockVars => LockIInv'
  BY LockTypeStep, OwnsStep, NamedStep DEF LockIInv
<1> QED
  BY <1>1, <1>2, PTL DEF LockSpec

(* Deaths of processes do not let a second one in: until some Close has    *)
(* removed the name, one process at most holds the workspace (Open's       *)
(* promise that a second one fails Busy).                                  *)
THEOREM Exclusion == LockSpec => []OneHolderUntilRemove
<1>1. LockIInv => OneHolderUntilRemove
  <2> SUFFICES ASSUME LockIInv, ~removed, NEW p \in Holding, NEW q \in Holding
               PROVE  p = q
    BY DEF OneHolderUntilRemove, OneHolder
  <2>1. owner[fd[p]] = p /\ owner[fd[q]] = q
    BY DEF LockIInv, Owns, Holding
  <2>2. fd[p] # None /\ fd[q] # None
    BY DEF LockIInv, LockTypeOK, Holding
  <2>3. fd[p] = path /\ fd[q] = path
    BY <2>2 DEF LockIInv, Named, Holding
  <2> QED
    BY <2>1, <2>3
<1> QED
  BY <1>1, LockInvariance, PTL

(* The system calls keep the types of their arguments.                     *)
THEOREM LockTypeCorrect == LockSpec => []LockTypeOK
BY LockInvariance, PTL DEF LockIInv

=============================================================================
