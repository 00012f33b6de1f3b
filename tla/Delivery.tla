------------------------------ MODULE Delivery ------------------------------
(***************************************************************************)
(* Delivery of messages through the files of the mailbox: the message      *)
(* commands of src/internal/core/task/engine.go, the directories of        *)
(* src/internal/adapters/mailbox/file.go and the passes of the Deliverer   *)
(* (deliverer.go) that the command line and the serve loop drive.          *)
(*                                                                         *)
(* The facts of a message are commits of the engine; its envelope is a     *)
(* file.  The two never change together, so every file operation and every *)
(* commit of a pass is a step, and a pass may end after any of them, by an *)
(* error or by the death of the process.  Commands do not run during a     *)
(* pass: one process owns the workspace, and both its loops are            *)
(* sequential.  External agents write their files at any time.             *)
(***************************************************************************)
EXTENDS Integers, Sequences, FiniteSets, FiniteSetsExt

CONSTANTS Agent,       \* agents, numbered in the name order of their directories
          MessageID,
          ForeignID,   \* message IDs that external agents use as well
          RecordID,    \* IDs of acknowledgement control records
          Unsafe,      \* agents and message IDs that are no path segment
          None,
          MaxFaults    \* bound of the model on the passes that break off

ASSUME AgentAssumption == Agent \subseteq Nat /\ IsFiniteSet(Agent)
ASSUME ForeignAssumption == ForeignID \subseteq MessageID
ASSUME FaultsAssumption == MaxFaults \in Nat /\ None \notin MessageID

VARIABLES messages,    \* Snapshot.Messages, in the order they were queued
          inbox,       \* whose envelope is in an agent's inbox under a message ID
          archive,     \* message IDs of the envelopes in an agent's archive
          acks,        \* the message a pending control record acknowledges
          acksArchive, \* control records moved away: <<agent, record, message>>
          pass,        \* the local state of the Deliverer's pass
          asked,       \* history: the acknowledgements agents made
          faults

vars == <<messages, inbox, archive, acks, acksArchive, pass, asked, faults>>
files == <<inbox, archive, acks, acksArchive>>

(* What Publish and a scan tell apart: refers, the message names a task or *)
(* a message it replies to; large, its envelope exceeds maxEnvelopeBytes.  *)
Form == {"plain", "refers", "large"}

Message == [id : MessageID, to : Agent, form : Form,
            published : BOOLEAN, processed : BOOLEAN, acked : BOOLEAN]

(* at names the call that comes next; msg is the message of the loop body, *)
(* todo the directories still to scan, batch what the last scan returned.  *)
Pass == [at : {"idle", "deliver", "written", "ingest", "archive", "acks", "archiveAck"},
         pending : SUBSET MessageID, todo : SUBSET Agent, dir : Agent \cup {None},
         batch : SUBSET (MessageID \cup RecordID), item : MessageID \cup RecordID \cup {None}]

Idle == [at |-> "idle", pending |-> {}, todo |-> {}, dir |-> None,
         batch |-> {}, item |-> None]

TypeOK ==
    /\ messages \in Seq(Message)
    /\ \A i, j \in DOMAIN messages : messages[i].id = messages[j].id => i = j
    /\ inbox \in [Agent -> [MessageID -> {"none", "engine", "external"}]]
    /\ archive \in [Agent -> SUBSET MessageID]
    /\ acks \in [Agent -> [RecordID -> MessageID \cup {None}]]
    /\ acksArchive \subseteq Agent \X RecordID \X MessageID
    /\ pass \in Pass
    /\ asked \subseteq Agent \X MessageID
    /\ faults \in 0..MaxFaults

Init ==
    /\ messages = <<>>
    /\ inbox = [a \in Agent |-> [m \in MessageID |-> "none"]]
    /\ archive = [a \in Agent |-> {}]
    /\ acks = [a \in Agent |-> [r \in RecordID |-> None]]
    /\ acksArchive = {}
    /\ pass = Idle
    /\ asked = {}
    /\ faults = 0

-----------------------------------------------------------------------------
(* The message commands of the engine.                                     *)

Index(m) == CHOOSE i \in DOMAIN messages : messages[i].id = m
Known(m) == \E i \in DOMAIN messages : messages[i].id = m
IsProcessed(m) == Known(m) /\ messages[Index(m)].processed

(* Any non-empty IDs are accepted, and a body of any length.               *)
SendMessageMutant(m, a, form) ==
    /\ pass.at = "idle" /\ Len(messages) <= Cardinality(MessageID)
    /\ messages' = Append(messages, [id |-> m, to |-> a, form |-> form,
                                     published |-> FALSE, processed |-> FALSE,
                                     acked |-> FALSE])
    /\ UNCHANGED <<files, pass, asked, faults>>
SendMessage(m, a, form) ==
    /\ pass.at = "idle"
    /\ ~Known(m)
    /\ messages' = Append(messages, [id |-> m, to |-> a, form |-> form,
                                     published |-> FALSE, processed |-> FALSE,
                                     acked |-> FALSE])
    /\ UNCHANGED <<files, pass, asked, faults>>

(* Only the recipient may acknowledge; a repetition changes nothing.       *)
MayAcknowledge(a, m) == Known(m) /\ messages[Index(m)].to = a

Acknowledged(m) == [messages EXCEPT ![Index(m)].acked = TRUE]

AcknowledgeMessage(a, m) ==
    /\ pass.at = "idle"
    /\ MayAcknowledge(a, m)
    /\ messages' = Acknowledged(m)
    /\ asked' = asked \cup {<<a, m>>}
    /\ UNCHANGED <<files, pass, faults>>

-----------------------------------------------------------------------------
(* validID and readBounded: only an ID that is one path segment names a    *)
(* file, and a file over maxEnvelopeBytes is taken for absent.  The only   *)
(* ones here are the engine's: external agents keep to the bound.          *)

IsSafe(id) == id \notin Unsafe
IsLarge(m) == Known(m) /\ messages[Index(m)].form = "large"
CanRead(a, m) ==
    inbox[a][m] = "external" \/ (inbox[a][m] = "engine" /\ ~IsLarge(m))

-----------------------------------------------------------------------------
(* Files that external agents write: complete envelopes and control        *)
(* records, each under an ID of its own (a control record's is unique).    *)

ExternalEnvelope(a, m) ==
    /\ m \in ForeignID
    /\ inbox[a][m] = "none"
    /\ IsSafe(a) /\ IsSafe(m)
    /\ inbox' = [inbox EXCEPT ![a][m] = "external"]
    /\ UNCHANGED <<messages, archive, acks, acksArchive, pass, asked, faults>>

WriteAck(a, r, m) ==
    /\ IsSafe(a)
    /\ \A b \in Agent : acks[b][r] = None
    /\ \A f \in acksArchive : f[2] # r
    /\ acks' = [acks EXCEPT ![a][r] = m]
    /\ asked' = asked \cup {<<a, m>>}
    /\ UNCHANGED <<messages, inbox, archive, acksArchive, pass, faults>>

-----------------------------------------------------------------------------
(* DeliverPending: write the envelope, then record the fact.               *)

Begin ==
    /\ pass.at = "idle"
    /\ pass' = [pass EXCEPT !.at = "deliver"]
    /\ UNCHANGED <<messages, files, asked, faults>>

Unpublished == {i \in DOMAIN messages : ~messages[i].published}
NextUnpublished == messages[Min(Unpublished)]

(* Publish refuses an ID that is no path segment, in every pass.  Then it  *)
(* compares the envelope with a file it can read.  The comparison is Go's  *)
(* == on the struct: a task or reply ID is a pointer, and two decoded      *)
(* envelopes that carry one are never equal.                               *)
HasPath(msg) == IsSafe(msg.id) /\ IsSafe(msg.to)
IsFree(msg) == ~CanRead(msg.to, msg.id)
IsSameEnvelopeMutant(msg) == ~IsFree(msg)
IsSameEnvelope(msg) == inbox[msg.to][msg.id] = "engine" /\ msg.form = "plain"
Refused(msg) == ~HasPath(msg) \/ (~IsFree(msg) /\ ~IsSameEnvelope(msg))

Publish ==
    /\ pass.at = "deliver"
    /\ Unpublished # {}
    /\ LET msg == NextUnpublished
       IN \/ /\ HasPath(msg) /\ IsFree(msg)
             /\ inbox' = [inbox EXCEPT ![msg.to][msg.id] = "engine"]
             /\ pass' = [pass EXCEPT !.at = "written"]
          \/ /\ HasPath(msg) /\ IsSameEnvelope(msg)
             /\ pass' = [pass EXCEPT !.at = "written"]
             /\ UNCHANGED inbox
          \/ /\ Refused(msg)    \* InvalidArgument or Conflict ends the pass
             /\ pass' = Idle
             /\ UNCHANGED inbox
    /\ UNCHANGED <<messages, archive, acks, acksArchive, asked, faults>>

RecordMessagePublished ==
    /\ pass.at = "written"
    /\ messages' = [messages EXCEPT ![Min(Unpublished)].published = TRUE]
    /\ pass' = [pass EXCEPT !.at = "deliver"]
    /\ UNCHANGED <<files, asked, faults>>

-----------------------------------------------------------------------------
(* IngestPending: record what is found in the inboxes, then archive it.    *)

IsPendingMutant(msg) == msg.published /\ ~msg.processed /\ ~msg.acked
IsPending(msg) == msg.published /\ ~msg.processed

Pending == {i \in DOMAIN messages : IsPending(messages[i])}

BeginIngest ==
    /\ pass.at = "deliver"
    /\ Unpublished = {}
    /\ pass' = [pass EXCEPT !.at = "ingest",
                            !.pending = {messages[i].id : i \in Pending},
                            !.todo = {messages[i].to : i \in Pending}]
    /\ UNCHANGED <<messages, files, asked, faults>>

(* An inbox is searched for every pending message, whoever it is for; what *)
(* cannot be read is skipped and left.                                     *)
ScanInbox(a) ==
    /\ pass.at = "ingest" /\ pass.batch = {} /\ a \in pass.todo
    /\ pass' = [pass EXCEPT !.todo = @ \ {a},
                            !.batch = {m \in pass.pending : CanRead(a, m)}]
    /\ UNCHANGED <<messages, files, asked, faults>>

RecordMessageProcessed(m) ==
    /\ pass.at = "ingest" /\ m \in pass.batch
    /\ messages' = [messages EXCEPT ![Index(m)].processed = TRUE]
    /\ pass' = [pass EXCEPT !.at = "archive", !.batch = @ \ {m}, !.item = m]
    /\ UNCHANGED <<files, asked, faults>>

(* Archive is given the ID only: it takes the first directory with a file. *)
Holders(m) == {a \in Agent : inbox[a][m] # "none"}

Archive ==
    /\ pass.at = "archive"
    /\ IF Holders(pass.item) = {}
       THEN UNCHANGED <<inbox, archive>>
       ELSE LET a == Min(Holders(pass.item))
            IN /\ inbox' = [inbox EXCEPT ![a][pass.item] = "none"]
               /\ archive' = [archive EXCEPT ![a] = @ \cup {pass.item}]
    /\ pass' = [pass EXCEPT !.at = "ingest", !.item = None]
    /\ UNCHANGED <<messages, acks, acksArchive, asked, faults>>

-----------------------------------------------------------------------------
(* IngestAcks for the agents given: all of them in the serve loop, the     *)
(* caller of a command, or nobody for a command without a caller.          *)

Scopes == {Agent, {}} \cup {{a} : a \in Agent}

BeginAcks(scope) ==
    /\ pass.at = "ingest" /\ pass.batch = {} /\ pass.todo = {}
    /\ pass' = [Idle EXCEPT !.at = "acks", !.todo = scope]
    /\ UNCHANGED <<messages, files, asked, faults>>

(* An agent whose ID is no path segment ends the pass.                     *)
ScanAcks(a) ==
    /\ pass.at = "acks" /\ pass.batch = {} /\ a \in pass.todo
    /\ \/ /\ IsSafe(a)
          /\ pass' = [pass EXCEPT !.todo = @ \ {a}, !.dir = a,
                                  !.batch = {r \in RecordID : acks[a][r] # None}]
       \/ ~IsSafe(a) /\ pass' = Idle
    /\ UNCHANGED <<messages, files, asked, faults>>

(* A record the engine refuses is left in place.                           *)
IngestAckMutant(r) ==
    /\ pass.at = "acks" /\ r \in pass.batch
    /\ LET m == acks[pass.dir][r]
       IN IF MayAcknowledge(pass.dir, m)
          THEN messages' = Acknowledged(m)
          ELSE UNCHANGED messages
    /\ pass' = [pass EXCEPT !.at = "archiveAck", !.batch = @ \ {r}, !.item = r]
    /\ UNCHANGED <<files, asked, faults>>
IngestAck(r) ==
    /\ pass.at = "acks" /\ r \in pass.batch
    /\ LET m == acks[pass.dir][r]
       IN \/ /\ MayAcknowledge(pass.dir, m)
             /\ messages' = Acknowledged(m)
             /\ pass' = [pass EXCEPT !.at = "archiveAck", !.batch = @ \ {r}, !.item = r]
          \/ /\ ~MayAcknowledge(pass.dir, m)
             /\ pass' = [pass EXCEPT !.batch = @ \ {r}]
             /\ UNCHANGED messages
    /\ UNCHANGED <<files, asked, faults>>

ArchiveAck ==
    /\ pass.at = "archiveAck"
    /\ acksArchive' = acksArchive \cup {<<pass.dir, pass.item, acks[pass.dir][pass.item]>>}
    /\ acks' = [acks EXCEPT ![pass.dir][pass.item] = None]
    /\ pass' = [pass EXCEPT !.at = "acks", !.item = None]
    /\ UNCHANGED <<messages, inbox, archive, asked, faults>>

End ==
    /\ pass.at = "acks" /\ pass.batch = {} /\ pass.todo = {}
    /\ pass' = Idle
    /\ UNCHANGED <<messages, files, asked, faults>>

-----------------------------------------------------------------------------

(* An I/O error, a commit that fails or is uncertain, or the process dies. *)
BreakOff ==
    /\ pass.at # "idle"
    /\ faults < MaxFaults
    /\ faults' = faults + 1
    /\ pass' = Idle
    /\ UNCHANGED <<messages, files, asked>>

Work ==
    \/ Begin \/ Publish \/ RecordMessagePublished
    \/ BeginIngest \/ Archive
    \/ \E a \in Agent : ScanInbox(a)
    \/ \E m \in MessageID : RecordMessageProcessed(m)
    \/ \E scope \in Scopes : BeginAcks(scope)
    \/ \E a \in Agent : ScanAcks(a)
    \/ \E r \in RecordID : IngestAck(r)
    \/ ArchiveAck \/ End

Next ==
    \/ \E m \in MessageID, a \in Agent, form \in Form : SendMessage(m, a, form)
    \/ \E m \in MessageID, a \in Agent : AcknowledgeMessage(a, m)
    \/ \E m \in MessageID, a \in Agent : ExternalEnvelope(a, m)
    \/ \E m \in MessageID, a \in Agent, r \in RecordID : WriteAck(a, r, m)
    \/ Work
    \/ BreakOff

Spec == Init /\ [][Next]_vars

(* Every command and every tick of the serve loop runs a pass to its end.  *)
FairSpec == Spec /\ WF_vars(Work)

-----------------------------------------------------------------------------

(* Facts and files agree.  A published message's envelope has been made     *)
(* available to its recipient, in its inbox or by now in its archive; only *)
(* a published message is processed (the ordering deliverer.go:32-40       *)
(* claims although the engine does not check it); and no envelope leaves   *)
(* an inbox before the engine has it durably processed, whichever directory*)
(* Archive picks (deliverer.go:121-129, file.go:234).  An external         *)
(* envelope under the same ID must not pass for the engine's.              *)
FactsAreTrue ==
    /\ \A i \in DOMAIN messages :
           LET msg == messages[i]
           IN /\ msg.published => \/ inbox[msg.to][msg.id] = "engine"
                                  \/ msg.id \in archive[msg.to]
              /\ msg.processed => msg.published
    /\ \A a \in Agent : \A m \in archive[a] : IsProcessed(m)

(* A message is acknowledged only if its own recipient asked for it, by    *)
(* the command or by a control record in its own directory (engine.go:688, *)
(* deliverer.go:155); and a control record leaves the pending directory    *)
(* only when what it asks for is durable: a refused one stays, also for a  *)
(* message that is not known yet (deliverer.go:144-148).                   *)
AcksAreTrue ==
    /\ \A i \in DOMAIN messages :
           messages[i].acked => <<messages[i].to, messages[i].id>> \in asked
    /\ \A f \in acksArchive : Known(f[3]) /\ messages[Index(f[3])].acked

(* DeliverPending stops at the first message it cannot publish: its ID or  *)
(* its recipient's is no path segment, an external agent has used its ID,  *)
(* or a pass broke off behind its envelope and the envelope has pointers.  *)
Blocked == Unpublished # {} /\ Refused(NextUnpublished)

(* Published, but no scan will ever return it.                             *)
TooLarge(m) == \E i \in DOMAIN messages :
    messages[i].id = m /\ messages[i].form = "large" /\ messages[i].published

(* Whatever passes break off, again and again every message that is queued *)
(* has been processed, also behind one too large for a scan, unless it is  *)
(* that one or the head of the queue is refused (deliverer.go:50-55,       *)
(* assembly/session.go:62-67).                                             *)
ProcessedUnlessBlocked ==
    []<>(Blocked \/ \A m \in MessageID : Known(m) => IsProcessed(m) \/ TooLarge(m))

=============================================================================
