--------------------------- MODULE CommandLedger ---------------------------
(***************************************************************************)
(* What the state store promises its callers, without files or fsync.      *)
(*                                                                         *)
(* A caller's command, named by its key (caller and request ID), is        *)
(* applied at most once and gets a revision above every earlier one.  An   *)
(* entry becomes firm when no crash can take it back; only firm entries    *)
(* are answered with a receipt.  A power loss may drop a suffix of the     *)
(* entries that are not firm.                                              *)
(***************************************************************************)
EXTENDS Naturals

CONSTANTS Key,          \* the names of requests: caller and request ID
          Payload,      \* what a request asks for
          MaxRevision   \* bound of the model, as in StateStore

VARIABLES ledger,    \* the entries that are applied
          firm,      \* the entries that no crash can take back
          answered   \* the entries whose receipt a caller has been given

ledgerVars == <<ledger, firm, answered>>

Entry == [key : Key, payload : Payload, revision : 1..MaxRevision]

LedgerTypeOK ==
    /\ ledger \subseteq Entry
    /\ firm \subseteq Entry
    /\ answered \subseteq Entry

LedgerInit ==
    /\ ledger = {}
    /\ firm = {}
    /\ answered = {}

(* A command that has no entry yet is applied, above all that was applied. *)
Apply(e) ==
    /\ \A d \in ledger : d.key # e.key /\ d.revision < e.revision
    /\ ledger' = ledger \cup {e}
    /\ UNCHANGED <<firm, answered>>

(* Everything applied so far becomes firm, and perhaps one entry of it is  *)
(* answered in the same step.                                              *)
MakeFirm ==
    /\ firm' = ledger
    /\ \/ UNCHANGED answered
       \/ \E e \in ledger : answered' = answered \cup {e}
    /\ UNCHANGED ledger

(* A receipt is handed out for an entry that is firm already.              *)
Answer(e) ==
    /\ answered' = answered \cup {e}
    /\ UNCHANGED <<ledger, firm>>

(* A power loss keeps the firm entries and a prefix of the others.         *)
Lose ==
    /\ \E kept \in SUBSET ledger :
         /\ firm \subseteq kept
         /\ \A e \in kept, d \in ledger : d.revision < e.revision => d \in kept
         /\ ledger' = kept
         /\ firm' = kept
    /\ UNCHANGED answered

LedgerNext ==
    \/ \E e \in Entry : Apply(e)
    \/ MakeFirm
    \/ \E e \in firm : Answer(e)
    \/ Lose

LedgerSpec == LedgerInit /\ [][LedgerNext]_ledgerVars

-----------------------------------------------------------------------------

(* Every receipt a caller holds is backed by a firm entry.                 *)
AnsweredIsFirm == answered \subseteq firm /\ firm \subseteq ledger

(* A request has one entry, and a revision belongs to one request.         *)
OneEntryPerKey ==
    \A d, e \in ledger : (d.key = e.key \/ d.revision = e.revision) => d = e

=============================================================================
