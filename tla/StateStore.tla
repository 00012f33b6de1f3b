---------------------------- MODULE StateStore ----------------------------
(***************************************************************************)
(* The file-backed state store: src/internal/adapters/statestore/file.go.  *)
(*                                                                         *)
(* One process at a time owns a workspace (module WorkspaceLock).  Under   *)
(* the store's mutex a Commit reads state.json, looks the request up in    *)
(* the receipt ledger, runs the caller's Mutate on a copy, writes the      *)
(* whole new state to a temporary file, renames it over state.json and     *)
(* fsyncs the directory.  The rename makes the change visible; only the    *)
(* directory fsync makes it survive a power loss.  A crash can fall        *)
(* between any two of these steps, and the fsync can fail.                 *)
(*                                                                         *)
(* The content of the snapshot is abstracted to Effects: how many times    *)
(* the Mutate of each request has changed it.                              *)
(***************************************************************************)
EXTENDS Naturals

CONSTANTS Caller,       \* host-established caller identities
          RequestID,    \* the request IDs they choose
          Payload,      \* payload fingerprints
          NoReceipt,    \* the absence of a ledger entry
          NoCall,       \* no Commit is between its first and its last step
          MaxRevision   \* bound of the model: commits stop at this revision

Key == Caller \X RequestID
Receipt == [CommittedRevision : Nat \ {0}, PayloadFingerprint : Payload]
Call == [key : Key, payload : Payload, step : {"writing", "renamed"}]

ASSUME MaxRevisionAssumption == MaxRevision \in Nat
ASSUME NoReceiptAssumption == NoReceipt \notin Receipt
ASSUME NoCallAssumption == NoCall \notin Call

VARIABLES
    disk,             \* what state.json holds for whoever reads it now
    survivors,        \* the contents a power loss may leave in state.json
    up,               \* whether a process has the store open
    durableRevision,  \* FileStore.durableRevision of that process
    call,             \* the Commit that holds FileStore.mu, or NoCall
    acked,            \* the receipts callers have been given
    uncertain         \* the receipts reported OutcomeUncertain/Applied since
                      \* the last power loss

vars == <<disk, survivors, up, durableRevision, call, acked, uncertain>>

State == [Revision : Nat,
          Receipts : [Key -> Receipt \cup {NoReceipt}],
          Effects  : [Key -> Nat]]

Given == [key : Key, payload : Payload, revision : Nat \ {0}]

TypeOK ==
    /\ disk \in State
    /\ survivors \subseteq State
    /\ up \in BOOLEAN
    /\ durableRevision \in Nat
    /\ call \in Call \cup {NoCall}
    /\ acked \subseteq Given
    /\ uncertain \subseteq Given

EmptyState == [Revision |-> 0,
               Receipts |-> [k \in Key |-> NoReceipt],
               Effects  |-> [k \in Key |-> 0]]

Init ==
    /\ disk = EmptyState
    /\ survivors = {EmptyState}
    /\ up = FALSE
    /\ durableRevision = 0
    /\ call = NoCall
    /\ acked = {}
    /\ uncertain = {}

-----------------------------------------------------------------------------

(* The store is open and nobody holds FileStore.mu.                        *)
Idle == up /\ call = NoCall

(* The ledger entry under receiptKey(caller, request), or NoReceipt.       *)
LookupMutant(k) == NoReceipt
Lookup(k) == disk.Receipts[k]

(* A request ID is bound to the payload it was first used with.            *)
SamePayloadMutant(r, p) == TRUE
SamePayload(r, p) == r.PayloadFingerprint = p

(* confirmDurable skips the fsync for what this process has already synced. *)
KnownDurableMutant(r) == TRUE
KnownDurable(r) == r.CommittedRevision <= durableRevision

(* What a caller that asked for payload p under k is told.                 *)
GivenReceipt(k, p, r) == [key |-> k, payload |-> p,
                          revision |-> r.CommittedRevision]

(* Open starts a new FileStore, which knows nothing to be durable.         *)
OpenMutant ==
    /\ ~up
    /\ up' = TRUE
    /\ durableRevision' = disk.Revision
    /\ UNCHANGED <<disk, survivors, call, acked, uncertain>>
Open ==
    /\ ~up
    /\ up' = TRUE
    /\ durableRevision' = 0
    /\ UNCHANGED <<disk, survivors, call, acked, uncertain>>

Close ==
    /\ Idle
    /\ up' = FALSE
    /\ UNCHANGED <<disk, survivors, durableRevision, call, acked, uncertain>>

(***************************************************************************)
(* Replays: the request already has a receipt.  No Mutate runs.  Commit    *)
(* compares the payload (a difference is a Conflict that changes nothing); *)
(* ResolveRequest carries none.  Both end in confirmDurable.               *)
(***************************************************************************)

ConfirmCached(k, p) ==
    /\ KnownDurable(Lookup(k))
    /\ acked' = acked \cup {GivenReceipt(k, p, Lookup(k))}
    /\ UNCHANGED <<disk, survivors, up, durableRevision, call, uncertain>>

ConfirmByFsync(k, p) ==
    /\ ~KnownDurable(Lookup(k))
    /\ survivors' = {disk}
    /\ durableRevision' = Lookup(k).CommittedRevision
    /\ acked' = acked \cup {GivenReceipt(k, p, Lookup(k))}
    /\ UNCHANGED <<disk, up, call, uncertain>>

ConfirmFails(k, p) ==
    /\ ~KnownDurable(Lookup(k))
    /\ uncertain' = uncertain \cup {GivenReceipt(k, p, Lookup(k))}
    /\ UNCHANGED <<disk, survivors, up, durableRevision, call, acked>>

ConfirmDurable(k, p) ==
    \/ ConfirmCached(k, p)
    \/ ConfirmByFsync(k, p)
    \/ ConfirmFails(k, p)

Replay(k, p) ==
    /\ Idle
    /\ Lookup(k) # NoReceipt
    /\ SamePayload(Lookup(k), p)
    /\ ConfirmDurable(k, p)

ResolveRequest(k) ==
    /\ Idle
    /\ Lookup(k) # NoReceipt
    /\ ConfirmDurable(k, Lookup(k).PayloadFingerprint)

(***************************************************************************)
(* A new command: Mutate, write, rename, fsync.  A Mutate or a read that   *)
(* fails changes nothing and is left out.                                  *)
(***************************************************************************)

BeginCommit(k, p) ==
    /\ Idle
    /\ Lookup(k) = NoReceipt
    /\ disk.Revision < MaxRevision
    /\ call' = [key |-> k, payload |-> p, step |-> "writing"]
    /\ UNCHANGED <<disk, survivors, up, durableRevision, acked, uncertain>>

(* The state Commit writes: the mutated snapshot at the next revision,     *)
(* together with its receipt.                                              *)
UnnumberedReceiptMutant(k, p) ==
    [Revision |-> disk.Revision + 1,
     Receipts |-> [disk.Receipts EXCEPT ![k] =
                      [CommittedRevision |-> disk.Revision,
                       PayloadFingerprint |-> p]],
     Effects  |-> [disk.Effects EXCEPT ![k] = @ + 1]]
WorkingMutant(k, p) ==
    [Revision |-> disk.Revision,
     Receipts |-> [disk.Receipts EXCEPT ![k] =
                      [CommittedRevision |-> disk.Revision + 1,
                       PayloadFingerprint |-> p]],
     Effects  |-> [disk.Effects EXCEPT ![k] = @ + 1]]
Working(k, p) ==
    [Revision |-> disk.Revision + 1,
     Receipts |-> [disk.Receipts EXCEPT ![k] =
                      [CommittedRevision |-> disk.Revision + 1,
                       PayloadFingerprint |-> p]],
     Effects  |-> [disk.Effects EXCEPT ![k] = @ + 1]]

(* The write or the rename fails: nothing was applied, a plain IOFailure.  *)
WriteFailsMutant ==
    /\ call # NoCall /\ call.step = "writing"
    /\ call' = NoCall
    /\ uncertain' = uncertain \cup {[key |-> call.key, payload |-> call.payload,
                                     revision |-> disk.Revision + 1]}
    /\ UNCHANGED <<disk, survivors, up, durableRevision, acked>>
WriteFails ==
    /\ call # NoCall /\ call.step = "writing"
    /\ call' = NoCall
    /\ UNCHANGED <<disk, survivors, up, durableRevision, acked, uncertain>>

Rename ==
    /\ call # NoCall /\ call.step = "writing"
    /\ disk' = Working(call.key, call.payload)
    /\ survivors' = survivors \cup {disk'}
    /\ call' = [call EXCEPT !.step = "renamed"]
    /\ UNCHANGED <<up, durableRevision, acked, uncertain>>

CommittedReceipt == [key |-> call.key, payload |-> call.payload,
                     revision |-> disk.Revision]

FsyncSucceeds ==
    /\ call # NoCall /\ call.step = "renamed"
    /\ survivors' = {disk}
    /\ durableRevision' = disk.Revision
    /\ acked' = acked \cup {CommittedReceipt}
    /\ call' = NoCall
    /\ UNCHANGED <<disk, up, uncertain>>

(* The change is applied but its durability is not confirmed.              *)
FsyncFailsMutant ==
    /\ call # NoCall /\ call.step = "renamed"
    /\ acked' = acked \cup {CommittedReceipt}
    /\ call' = NoCall
    /\ UNCHANGED <<disk, survivors, up, durableRevision, uncertain>>
FsyncFails ==
    /\ call # NoCall /\ call.step = "renamed"
    /\ uncertain' = uncertain \cup {CommittedReceipt}
    /\ call' = NoCall
    /\ UNCHANGED <<disk, survivors, up, durableRevision, acked>>

(***************************************************************************)
(* The environment.                                                        *)
(***************************************************************************)

(* The process dies; the kernel keeps what it renamed.                     *)
Crash ==
    /\ up
    /\ up' = FALSE
    /\ call' = NoCall
    /\ UNCHANGED <<disk, survivors, durableRevision, acked, uncertain>>

(* The kernel writes the directory back on its own.                        *)
Writeback ==
    /\ survivors' = {disk}
    /\ UNCHANGED <<disk, up, durableRevision, call, acked, uncertain>>

(* The machine stops: the last fsynced content or a later rename survives. *)
PowerLoss ==
    /\ up' = FALSE
    /\ call' = NoCall
    /\ disk' \in survivors
    /\ survivors' = {disk'}
    /\ uncertain' = {}
    /\ UNCHANGED <<durableRevision, acked>>

Next ==
    \/ Open
    \/ Close
    \/ \E k \in Key, p \in Payload : Replay(k, p)
    \/ \E k \in Key : ResolveRequest(k)
    \/ \E k \in Key, p \in Payload : BeginCommit(k, p)
    \/ WriteFails
    \/ Rename
    \/ FsyncSucceeds
    \/ FsyncFails
    \/ Crash
    \/ Writeback
    \/ PowerLoss

Spec == Init /\ [][Next]_vars

-----------------------------------------------------------------------------
(***************************************************************************)
(* Properties.                                                             *)
(***************************************************************************)

(* The ledger entries of a content of state.json.                          *)
Entries(s) ==
    {[key |-> k, payload |-> s.Receipts[k].PayloadFingerprint,
      revision |-> s.Receipts[k].CommittedRevision] :
        k \in {q \in Key : s.Receipts[q] # NoReceipt}}

(* A receipt a caller holds is found again, with the payload the caller    *)
(* asked for and the same revision, in whatever a power loss leaves:       *)
(* neither the first answer of Commit nor a replay may be given before     *)
(* the directory fsync that covers it.                                     *)
AckedSurvives == \A s \in survivors : acked \subseteq Entries(s)

(* The Mutate of a request has changed the snapshot once when the request  *)
(* has a receipt and never otherwise, now and after any power loss: retries*)
(* and crashes neither repeat an effect nor lose half of a commit.         *)
OneEffectPerRequest ==
    \A s \in survivors \cup {disk}, k \in Key :
        s.Effects[k] = IF s.Receipts[k] = NoReceipt THEN 0 ELSE 1

(* durableRevision never runs ahead of the fsyncs: whatever a power loss   *)
(* leaves reaches at least that revision.                                  *)
DurableLineSound == up => \A s \in survivors : durableRevision <= s.Revision

(* OutcomeUncertain says Applied: until a power loss the receipt is in the *)
(* ledger, so that the same request replays instead of running again.      *)
UncertainStands == uncertain \subseteq Entries(disk)

(* The store implements the abstract ledger of CommandLedger.              *)
Ledger == INSTANCE CommandLedger WITH
              ledger <- Entries(disk),
              firm <- {e \in Entries(disk) :
                          \A s \in survivors : e \in Entries(s)},
              answered <- acked

ImplementsLedger == Ledger!LedgerSpec

=============================================================================
