-------------------------- MODULE Delivery_proofs --------------------------
(***************************************************************************)
(* Proofs about Delivery, for any agents, message IDs, control records and *)
(* numbers of broken-off passes: what the snapshot records about a message *)
(* is true of the files, and acknowledgements are the recipients' own.     *)
(*                                                                         *)
(* Between two steps a pass relies on what it has seen: that the envelope  *)
(* it is about to record is there (Written), that what it collects from    *)
(* the inboxes is published (Collected), and that the control record it    *)
(* moves away has been obeyed (Requested).  No step of anybody else takes  *)
(* these back.                                                             *)
(***************************************************************************)
EXTENDS Delivery, SequenceTheorems, WellFoundedInduction, TLAPS

IsPublished(m) ==
    \E i \in DOMAIN messages : messages[i].id = m /\ messages[i].published
HasProcessed(m) ==
    \E i \in DOMAIN messages : messages[i].id = m /\ messages[i].processed
IsAcked(m) ==
    \E i \in DOMAIN messages : messages[i].id = m /\ messages[i].acked

(* FactsAreTrue and AcksAreTrue, without the index of a message.           *)
Facts ==
    /\ \A i \in DOMAIN messages :
          /\ messages[i].published =>
                \/ inbox[messages[i].to][messages[i].id] = "engine"
                \/ messages[i].id \in archive[messages[i].to]
          /\ messages[i].processed => messages[i].published
    /\ \A a \in Agent : \A m \in archive[a] : HasProcessed(m)
Acks ==
    /\ \A i \in DOMAIN messages :
          messages[i].acked => <<messages[i].to, messages[i].id>> \in asked
    /\ \A f \in acksArchive : IsAcked(f[3])

Written == pass.at = "written" =>
    /\ Unpublished # {}
    /\ inbox[NextUnpublished.to][NextUnpublished.id] = "engine"

Collected ==
    /\ pass.at \in {"idle", "deliver", "written"} => pass.batch = {}
    /\ pass.at \in {"ingest", "archive"} =>
          /\ pass.batch \subseteq pass.pending
          /\ \A m \in pass.pending : IsPublished(m)
    /\ pass.at = "archive" => pass.item \in MessageID /\ HasProcessed(pass.item)

Requested ==
    /\ \A a \in Agent, r \in RecordID :
          acks[a][r] # None => <<a, acks[a][r]>> \in asked
    /\ pass.at \in {"acks", "archiveAck"} => \A r \in pass.batch :
          pass.dir \in Agent /\ r \in RecordID /\ acks[pass.dir][r] # None
    /\ pass.at = "archiveAck" =>
          /\ pass.dir \in Agent /\ pass.item \in RecordID \ pass.batch
          /\ acks[pass.dir][pass.item] # None
          /\ IsAcked(acks[pass.dir][pass.item])

IInv == TypeOK /\ Facts /\ Acks /\ Written /\ Collected /\ Requested

-----------------------------------------------------------------------------
(* Min picks an element of a set of numbers: the first unpublished message *)
(* (DeliverPending), the first directory with a file (Archive).            *)
LEMMA MinNat ==
  ASSUME NEW S, S \subseteq Nat, S # {}
  PROVE  Min(S) \in S
<1> DEFINE R == {ss \in Nat \X Nat : ss[1] < ss[2]}
<1>1. IsWellFoundedOn(R, Nat)
  BY NatLessThanWellFounded DEF OpToRel
<1>2. PICK x \in S : \A y \in S : <<y, x>> \notin R
  BY <1>1, WFMin
<1>3. \A y \in S : x <= y
  <2> TAKE y \in S
  <2>1. x \in Nat /\ y \in Nat
    OBVIOUS
  <2>2. <<y, x>> \notin R
    BY <1>2
  <2>3. ~(y < x)
    BY <2>1, <2>2
  <2> QED
    BY <2>1, <2>3
<1> QED
  BY <1>3 DEF Min

LEMMA Domain ==
  ASSUME TypeOK
  PROVE  /\ DOMAIN messages = 1..Len(messages) /\ Len(messages) \in Nat
         /\ DOMAIN messages \subseteq Nat
         /\ \A i \in DOMAIN messages : messages[i] \in Message
         /\ \A i, j \in DOMAIN messages : messages[i].id = messages[j].id => i = j
BY DEF TypeOK

(* The index of a message that is known.                                   *)
LEMMA IndexOf ==
  ASSUME TypeOK, NEW m, Known(m)
  PROVE  /\ Index(m) \in DOMAIN messages /\ messages[Index(m)].id = m
         /\ \A i \in DOMAIN messages : messages[i].id = m => i = Index(m)
<1>1. Index(m) \in DOMAIN messages /\ messages[Index(m)].id = m
  BY DEF Known, Index
<1> QED
  BY <1>1, Domain

(* Processed and acknowledged, without the index.                          *)
LEMMA ByIndex ==
  ASSUME TypeOK, NEW m
  PROVE  /\ IsProcessed(m) <=> HasProcessed(m)
         /\ (Known(m) /\ messages[Index(m)].acked) <=> IsAcked(m)
<1>1. CASE Known(m)
  BY <1>1, IndexOf DEF IsProcessed, HasProcessed, IsAcked
<1>2. CASE ~Known(m)
  BY <1>2 DEF IsProcessed, HasProcessed, IsAcked, Known
<1> QED
  BY <1>1, <1>2

(* The message the pass delivers next.                                     *)
LEMMA FirstUnpublished ==
  ASSUME TypeOK, Unpublished # {}
  PROVE  /\ Min(Unpublished) \in DOMAIN messages
         /\ ~NextUnpublished.published
         /\ NextUnpublished \in Message
         /\ NextUnpublished.to \in Agent /\ NextUnpublished.id \in MessageID
<1>1. Min(Unpublished) \in Unpublished
  BY MinNat, Domain DEF Unpublished
<1> QED
  BY <1>1, Domain DEF Unpublished, NextUnpublished, Message

-----------------------------------------------------------------------------
(* The commits of the message commands set one flag of one message.        *)
SetFlags(i, published, processed, acked) ==
    /\ messages' \in Seq(Message)
    /\ DOMAIN messages' = DOMAIN messages
    /\ \A j \in DOMAIN messages \ {i} : messages'[j] = messages[j]
    /\ messages'[i].id = messages[i].id /\ messages'[i].to = messages[i].to
    /\ messages'[i].form = messages[i].form
    /\ messages'[i].published = published
    /\ messages'[i].processed = processed
    /\ messages'[i].acked = acked

LEMMA Flagged ==
  ASSUME TypeOK, NEW i \in DOMAIN messages
  PROVE  /\ messages' = [messages EXCEPT ![i].published = TRUE] =>
              SetFlags(i, TRUE, messages[i].processed, messages[i].acked)
         /\ messages' = [messages EXCEPT ![i].processed = TRUE] =>
              SetFlags(i, messages[i].published, TRUE, messages[i].acked)
         /\ messages' = [messages EXCEPT ![i].acked = TRUE] =>
              SetFlags(i, messages[i].published, messages[i].processed, TRUE)
<1>1. i \in 1..Len(messages) /\ messages \in Seq(Message) /\ messages[i] \in Message
  BY Domain DEF TypeOK
<1>2. ASSUME NEW e \in Message, messages' = [messages EXCEPT ![i] = e]
      PROVE  /\ messages' \in Seq(Message) /\ DOMAIN messages' = DOMAIN messages
             /\ \A j \in DOMAIN messages \ {i} : messages'[j] = messages[j]
             /\ messages'[i] = e
  BY <1>1, <1>2, ExceptSeq
<1>3. ASSUME messages' = [messages EXCEPT ![i].published = TRUE]
      PROVE  SetFlags(i, TRUE, messages[i].processed, messages[i].acked)
  <2> DEFINE e == [messages[i] EXCEPT !.published = TRUE]
  <2>1. e \in Message
    BY <1>1 DEF Message
  <2>2. messages'[i] = e
    BY <1>1, <1>2, <1>3, <2>1
  <2> QED
    BY <1>1, <1>2, <1>3, <2>1, <2>2 DEF SetFlags, Message
<1>4. ASSUME messages' = [messages EXCEPT ![i].processed = TRUE]
      PROVE  SetFlags(i, messages[i].published, TRUE, messages[i].acked)
  <2> DEFINE e == [messages[i] EXCEPT !.processed = TRUE]
  <2>1. e \in Message
    BY <1>1 DEF Message
  <2>2. messages'[i] = e
    BY <1>1, <1>2, <1>4, <2>1
  <2> QED
    BY <1>1, <1>2, <1>4, <2>1, <2>2 DEF SetFlags, Message
<1>5. ASSUME messages' = [messages EXCEPT ![i].acked = TRUE]
      PROVE  SetFlags(i, messages[i].published, messages[i].processed, TRUE)
  <2> DEFINE e == [messages[i] EXCEPT !.acked = TRUE]
  <2>1. e \in Message
    BY <1>1 DEF Message
  <2>2. messages'[i] = e
    BY <1>1, <1>2, <1>5, <2>1
  <2> QED
    BY <1>1, <1>2, <1>5, <2>1, <2>2 DEF SetFlags, Message
<1> QED
  BY <1>3, <1>4, <1>5

(* What a step may do to the messages: queue one, or set flags.            *)
Grows ==
    /\ DOMAIN messages \subseteq DOMAIN messages'
    /\ \A i \in DOMAIN messages :
          /\ messages'[i].id = messages[i].id /\ messages'[i].to = messages[i].to
          /\ messages[i].published => messages'[i].published
          /\ messages[i].processed => messages'[i].processed
          /\ messages[i].acked => messages'[i].acked

Unique == \A i, j \in DOMAIN messages : messages[i].id = messages[j].id => i = j

LEMMA FlagsGrow ==
  ASSUME TypeOK, NEW i \in DOMAIN messages, NEW p, NEW q, NEW a, SetFlags(i, p, q, a),
         messages[i].published => p, messages[i].processed => q, messages[i].acked => a
  PROVE  messages' \in Seq(Message) /\ Unique' /\ Grows
<1>1. DOMAIN messages' = DOMAIN messages /\ messages' \in Seq(Message)
  BY DEF SetFlags
<1>2. \A j \in DOMAIN messages : messages'[j].id = messages[j].id
  BY DEF SetFlags
<1>3. Unique'
  BY <1>1, <1>2, Domain DEF Unique
<1>4. ASSUME NEW j \in DOMAIN messages
      PROVE  /\ messages'[j].id = messages[j].id /\ messages'[j].to = messages[j].to
             /\ messages[j].published => messages'[j].published
             /\ messages[j].processed => messages'[j].processed
             /\ messages[j].acked => messages'[j].acked
  <2>1. CASE j = i
    BY <2>1 DEF SetFlags
  <2>2. CASE j # i
    BY <2>2 DEF SetFlags
  <2> QED
    BY <2>1, <2>2
<1> QED
  BY <1>1, <1>3, <1>4 DEF Grows

LEMMA SendMessageGrows ==
  ASSUME TypeOK, NEW m \in MessageID, NEW a \in Agent, NEW form \in Form,
         SendMessage(m, a, form)
  PROVE  /\ messages' \in Seq(Message) /\ Unique' /\ Grows
         /\ \A i \in DOMAIN messages : messages'[i] = messages[i]
         /\ \A i \in DOMAIN messages' \ DOMAIN messages :
               ~messages'[i].published /\ ~messages'[i].processed /\ ~messages'[i].acked
<1> DEFINE new == [id |-> m, to |-> a, form |-> form, published |-> FALSE,
                   processed |-> FALSE, acked |-> FALSE]
           n == Len(messages) + 1
<1>1. new \in Message
  BY DEF Message
<1>2. messages' = Append(messages, new) /\ messages \in Seq(Message)
  BY DEF SendMessage, TypeOK
<1>3. /\ messages' \in Seq(Message) /\ DOMAIN messages' = DOMAIN messages \cup {n}
      /\ n \notin DOMAIN messages /\ DOMAIN messages = 1..Len(messages)
      /\ messages'[n] = new
      /\ \A i \in DOMAIN messages : messages'[i] = messages[i]
  <2> HIDE DEF new
  <2> QED
    BY <1>1, <1>2
<1>4. \A i \in DOMAIN messages : messages[i].id # m
  BY DEF SendMessage, Known
<1>5. new.id = m /\ ~new.published /\ ~new.processed /\ ~new.acked
  OBVIOUS
<1> HIDE DEF new, n
<1>6. Unique'
  BY <1>3, <1>4, <1>5, Domain DEF Unique
<1> QED
  BY <1>3, <1>5, <1>6 DEF Grows

-----------------------------------------------------------------------------
(* The steps that move a pass on, or end it, without touching a file or a  *)
(* fact.                                                                   *)
LEMMA PassSteps ==
  ASSUME IInv,
         \/ Begin \/ BeginIngest \/ End \/ BreakOff
         \/ \E a \in Agent : ScanInbox(a) \/ ScanAcks(a)
         \/ \E scope \in Scopes : BeginAcks(scope)
  PROVE  IInv'
<1> USE DEF IInv
<1>1. UNCHANGED <<messages, inbox, archive, acks, acksArchive, asked>>
  BY DEF Begin, BeginIngest, End, BreakOff, ScanInbox, ScanAcks, BeginAcks, files
<1>2. pass \in Pass
  BY DEF TypeOK
<1>3. Idle \in Pass /\ Idle.at = "idle" /\ Idle.batch = {}
  BY DEF Idle, Pass
<1>4. /\ pass' \in Pass /\ pass'.at \in {"idle", "deliver", "ingest", "acks"}
      /\ pass'.at \in {"idle", "deliver"} => pass'.batch = {}
      /\ pass'.at = "ingest" =>
            pass'.batch \subseteq pass'.pending /\ \A m \in pass'.pending : IsPublished(m)
      /\ pass'.at = "acks" => \A r \in pass'.batch :
            pass'.dir \in Agent /\ r \in RecordID /\ acks[pass'.dir][r] # None
  <2>1. CASE Begin
    BY <1>2, <2>1 DEF Begin, Pass, Collected
  <2>2. CASE BeginIngest
    <3>1. /\ {messages[i].id : i \in Pending} \subseteq MessageID
          /\ {messages[i].to : i \in Pending} \subseteq Agent
      BY Domain DEF Pending, Message
    <3>2. \A i \in Pending : IsPublished(messages[i].id)
      BY DEF Pending, IsPending, IsPublished
    <3>3. pass.batch = {} /\ pass.at = "deliver"
      BY <2>2 DEF BeginIngest, Collected
    <3>4. /\ pass' \in Pass /\ pass'.at = "ingest" /\ pass'.batch = {}
          /\ pass'.pending = {messages[i].id : i \in Pending}
      BY <1>2, <2>2, <3>1, <3>3 DEF BeginIngest, Pass
    <3> QED
      BY <3>2, <3>4
  <2>3. CASE End \/ BreakOff
    BY <1>3, <2>3 DEF End, BreakOff
  <2>4. ASSUME NEW a \in Agent, ScanInbox(a)
        PROVE  /\ pass' \in Pass /\ pass'.at = "ingest" /\ pass'.pending = pass.pending
               /\ pass'.batch \subseteq pass.pending /\ pass.at = "ingest"
    <3>1. {m \in pass.pending : CanRead(a, m)} \subseteq MessageID
      BY <1>2 DEF Pass
    <3> QED
      BY <1>2, <2>4, <3>1 DEF ScanInbox, Pass
  <2>5. ASSUME NEW a \in Agent, ScanAcks(a)
        PROVE  \/ /\ pass' \in Pass /\ pass'.at = "acks" /\ pass'.dir = a
                  /\ pass'.batch = {r \in RecordID : acks[a][r] # None}
               \/ pass' = Idle
    <3>1. CASE pass' = [pass EXCEPT !.todo = @ \ {a}, !.dir = a,
                                    !.batch = {r \in RecordID : acks[a][r] # None}]
                /\ pass.at = "acks"
      BY <1>2, <3>1 DEF Pass
    <3> QED
      BY <2>5, <3>1 DEF ScanAcks
  <2>6. ASSUME NEW scope \in Scopes, BeginAcks(scope)
        PROVE  pass' \in Pass /\ pass'.at = "acks" /\ pass'.batch = {}
    <3>1. scope \subseteq Agent
      BY DEF Scopes
    <3> QED
      BY <1>3, <2>6, <3>1 DEF BeginAcks, Pass, Idle
  <2> QED
    BY <1>3, <2>1, <2>2, <2>3, <2>4, <2>5, <2>6 DEF Collected
<1>5. faults' \in 0..MaxFaults
  <2>1. faults \in 0..MaxFaults
    BY DEF TypeOK
  <2>2. CASE BreakOff
    BY <2>1, <2>2, FaultsAssumption DEF BreakOff
  <2>3. CASE ~BreakOff
    BY <2>1, <2>3 DEF Begin, BeginIngest, End, ScanInbox, ScanAcks, BeginAcks
  <2> QED
    BY <2>2, <2>3
<1>6. TypeOK'
  BY <1>1, <1>4, <1>5 DEF TypeOK
<1>7. Facts'
  BY <1>1 DEF Facts, HasProcessed
<1>8. Acks'
  BY <1>1 DEF Acks, IsAcked
<1>9. Written' /\ Collected' /\ Requested'
  BY <1>1, <1>4 DEF Written, Collected, Requested, IsPublished
<1> QED
  BY <1>6, <1>7, <1>8, <1>9

(* What agents do while a pass may be at any point: they add files.        *)
LEMMA ExternalEnvelopeStep ==
  ASSUME IInv, NEW m \in MessageID, NEW a \in Agent, ExternalEnvelope(a, m)
  PROVE  IInv'
<1> USE DEF IInv
<1>1. /\ UNCHANGED <<messages, archive, acks, acksArchive, pass, asked, faults>>
      /\ inbox' \in [Agent -> [MessageID -> {"none", "engine", "external"}]]
      /\ \A b \in Agent, k \in MessageID :
            inbox[b][k] = "engine" => inbox'[b][k] = "engine"
  BY DEF ExternalEnvelope, TypeOK
<1>2. TypeOK'
  BY <1>1 DEF TypeOK
<1>3. Facts'
  BY <1>1, Domain DEF Facts, HasProcessed, Message
<1>4. Acks' /\ Collected'
  BY <1>1 DEF Acks, Collected, IsAcked, IsPublished, HasProcessed
<1>5. Written'
  BY <1>1, FirstUnpublished DEF Written, NextUnpublished, Unpublished
<1>6. Requested'
  BY <1>1 DEF Requested, IsAcked
<1> QED
  BY <1>2, <1>3, <1>4, <1>5, <1>6

LEMMA WriteAckStep ==
  ASSUME IInv, NEW m \in MessageID, NEW a \in Agent, NEW r \in RecordID,
         WriteAck(a, r, m)
  PROVE  IInv'
<1> USE DEF IInv
<1>1. /\ UNCHANGED <<messages, inbox, archive, acksArchive, pass, faults>>
      /\ acks' \in [Agent -> [RecordID -> MessageID \cup {None}]]
      /\ asked' = asked \cup {<<a, m>>}
      /\ \A b \in Agent, k \in RecordID :
            acks'[b][k] = IF b = a /\ k = r THEN m ELSE acks[b][k]
      /\ \A b \in Agent : acks[b][r] = None
  BY DEF WriteAck, TypeOK
<1>2. TypeOK'
  BY <1>1 DEF TypeOK
<1>3. Facts' /\ Collected' /\ Written'
  BY <1>1 DEF Facts, Collected, Written, HasProcessed, IsPublished, Unpublished,
     NextUnpublished
<1>4. Acks'
  BY <1>1 DEF Acks, IsAcked
<1>5. Requested'
  <2>1. \A b \in Agent, k \in RecordID :
           acks'[b][k] # None => <<b, acks'[b][k]>> \in asked'
    BY <1>1 DEF Requested
  <2>2. \A b \in Agent, k \in RecordID : acks[b][k] # None => acks'[b][k] = acks[b][k]
    BY <1>1
  <2> QED
    BY <1>1, <2>1, <2>2 DEF Requested, IsAcked
<1> QED
  BY <1>2, <1>3, <1>4, <1>5

-----------------------------------------------------------------------------
(* An envelope written into an inbox leaves the other envelopes alone.     *)
LEMMA PutEnvelope ==
  ASSUME TypeOK, NEW a \in Agent, NEW m \in MessageID,
         inbox' = [inbox EXCEPT ![a][m] = "engine"]
  PROVE  /\ inbox' \in [Agent -> [MessageID -> {"none", "engine", "external"}]]
         /\ \A b \in Agent, k \in MessageID :
               inbox[b][k] = "engine" => inbox'[b][k] = "engine"
BY DEF TypeOK

(* The file operations of a pass.  Publish never replaces a file, and the  *)
(* envelope is there when the pass goes on to record it.                   *)
LEMMA PublishStep ==
  ASSUME IInv, Publish
  PROVE  IInv'
<1> USE DEF IInv
<1> DEFINE msg == NextUnpublished
<1>1. msg.to \in Agent /\ msg.id \in MessageID /\ pass.at = "deliver" /\ Unpublished # {}
  BY FirstUnpublished DEF Publish
<1>2. UNCHANGED <<messages, archive, acks, acksArchive, asked, faults>>
  BY DEF Publish
<1>3. /\ inbox' \in [Agent -> [MessageID -> {"none", "engine", "external"}]]
      /\ \A b \in Agent, k \in MessageID :
            inbox[b][k] = "engine" => inbox'[b][k] = "engine"
  <2>1. CASE inbox' = inbox
    BY <2>1 DEF TypeOK
  <2>2. CASE inbox' = [inbox EXCEPT ![msg.to][msg.id] = "engine"]
    <3>1. PICK a \in Agent, m \in MessageID : a = msg.to /\ m = msg.id
      BY <1>1
    <3> QED
      BY <2>2, <3>1, PutEnvelope
  <2> QED
    BY <2>1, <2>2 DEF Publish
<1>4. pass' \in Pass /\ pass'.batch = {} /\ pass'.at \in {"idle", "written"}
  <2>1. pass \in Pass /\ pass.batch = {}
    BY <1>1 DEF TypeOK, Collected
  <2>2. Idle \in Pass /\ Idle.at = "idle" /\ Idle.batch = {}
    BY DEF Idle, Pass
  <2>3. pass' = [pass EXCEPT !.at = "written"] \/ pass' = Idle
    BY DEF Publish
  <2> QED
    BY <2>1, <2>2, <2>3 DEF Pass
<1>5. pass'.at = "written" => inbox'[msg.to][msg.id] = "engine"
  <2>1. CASE inbox' = [inbox EXCEPT ![msg.to][msg.id] = "engine"]
    BY <1>1, <2>1 DEF TypeOK
  <2>2. CASE IsSameEnvelope(msg)
    BY <1>1, <1>3, <2>2 DEF IsSameEnvelope
  <2>3. CASE pass' = Idle
    BY <2>3 DEF Idle
  <2> QED
    BY <2>1, <2>2, <2>3 DEF Publish
<1> HIDE DEF msg
<1>6. TypeOK'
  BY <1>2, <1>3, <1>4 DEF TypeOK
<1>7. Facts'
  BY <1>2, <1>3, Domain DEF Facts, HasProcessed, Message
<1>8. Acks'
  BY <1>2 DEF Acks, IsAcked
<1>9. Written'
  <2>1. NextUnpublished' = msg /\ Unpublished' = Unpublished
    BY <1>2 DEF NextUnpublished, Unpublished, msg
  <2> QED
    BY <1>1, <1>5, <2>1 DEF Written
<1>10. Collected' /\ Requested'
  BY <1>2, <1>4 DEF Collected, Requested
<1> QED
  BY <1>6, <1>7, <1>8, <1>9, <1>10

(* Archive may pick another directory, but only under an ID that is        *)
(* processed.                                                              *)
LEMMA ArchiveStep ==
  ASSUME IInv, Archive
  PROVE  IInv'
<1> USE DEF IInv
<1> DEFINE m == pass.item
<1>1. m \in MessageID /\ HasProcessed(m) /\ pass.at = "archive"
  BY DEF Archive, Collected
<1>2. UNCHANGED <<messages, acks, acksArchive, asked, faults>>
  BY DEF Archive
<1>3. /\ pass' \in Pass /\ pass'.at = "ingest" /\ pass'.batch = pass.batch
      /\ pass'.pending = pass.pending
  BY DEF Archive, TypeOK, Pass
<1>4. /\ inbox' \in [Agent -> [MessageID -> {"none", "engine", "external"}]]
      /\ archive' \in [Agent -> SUBSET MessageID]
      /\ \A b \in Agent, k \in MessageID : inbox[b][k] = "engine" =>
            inbox'[b][k] = "engine" \/ k \in archive'[b]
      /\ \A b \in Agent : archive[b] \subseteq archive'[b]
                          /\ archive'[b] \subseteq archive[b] \cup {m}
  <2>1. CASE Holders(m) = {}
    BY <2>1 DEF Archive, TypeOK
  <2>2. CASE Holders(m) # {}
    <3> DEFINE a == Min(Holders(m))
    <3>1. a \in Agent
      BY <2>2, MinNat, AgentAssumption DEF Holders
    <3>2. /\ inbox' = [inbox EXCEPT ![a][m] = "none"]
          /\ archive' = [archive EXCEPT ![a] = @ \cup {m}]
      BY <2>2 DEF Archive
    <3> HIDE DEF a, m
    <3> QED
      BY <1>1, <3>1, <3>2 DEF TypeOK
  <2> QED
    BY <2>1, <2>2
<1> HIDE DEF m
<1>5. TypeOK'
  BY <1>2, <1>3, <1>4 DEF TypeOK
<1>6. Facts'
  <2>1. \A i \in DOMAIN messages : messages[i].to \in Agent /\ messages[i].id \in MessageID
    BY Domain DEF Message
  <2>2. \A i \in DOMAIN messages : messages[i].published =>
           \/ inbox'[messages[i].to][messages[i].id] = "engine"
           \/ messages[i].id \in archive'[messages[i].to]
    BY <1>4, <2>1 DEF Facts
  <2>3. \A a \in Agent : \A k \in archive'[a] : HasProcessed(k)
    BY <1>1, <1>4 DEF Facts
  <2> QED
    BY <1>2, <2>2, <2>3 DEF Facts, HasProcessed
<1>7. Acks' /\ Written'
  BY <1>2, <1>3 DEF Acks, IsAcked, Written
<1>8. Collected' /\ Requested'
  BY <1>1, <1>2, <1>3 DEF Collected, Requested, IsPublished
<1> QED
  BY <1>5, <1>6, <1>7, <1>8

(* The control record that is moved away is one that has been obeyed.      *)
LEMMA ArchiveAckStep ==
  ASSUME IInv, ArchiveAck
  PROVE  IInv'
<1> USE DEF IInv
<1> DEFINE d == pass.dir
           r == pass.item
           k == acks[d][r]
<1>1. /\ d \in Agent /\ r \in RecordID /\ r \notin pass.batch
      /\ k # None /\ IsAcked(k) /\ pass.at = "archiveAck"
  BY DEF ArchiveAck, Requested
<1>2. UNCHANGED <<messages, inbox, archive, asked, faults>>
  BY DEF ArchiveAck
<1>3. /\ pass' \in Pass /\ pass'.at = "acks" /\ pass'.batch = pass.batch
      /\ pass'.dir = d
  BY DEF ArchiveAck, TypeOK, Pass
<1>4. acksArchive' = acksArchive \cup {<<d, r, k>>} /\ k \in MessageID
  BY <1>1 DEF ArchiveAck, TypeOK
<1>5. acks' = [acks EXCEPT ![d][r] = None]
  BY DEF ArchiveAck
<1> HIDE DEF d, r, k
<1>6. /\ acks' \in [Agent -> [RecordID -> MessageID \cup {None}]]
      /\ \A b \in Agent, j \in RecordID :
            acks'[b][j] = IF b = d /\ j = r THEN None ELSE acks[b][j]
  BY <1>1, <1>5 DEF TypeOK
<1>7. TypeOK'
  BY <1>1, <1>2, <1>3, <1>4, <1>6 DEF TypeOK
<1>8. Facts' /\ Written' /\ Collected'
  BY <1>2, <1>3 DEF Facts, HasProcessed, Written, Collected
<1>9. Acks'
  BY <1>1, <1>2, <1>4 DEF Acks, IsAcked
<1>10. Requested'
  <2>1. \A b \in Agent, j \in RecordID :
           acks'[b][j] # None => <<b, acks'[b][j]>> \in asked'
    BY <1>2, <1>6 DEF Requested
  <2>2. \A j \in pass.batch : d \in Agent /\ j \in RecordID /\ acks[d][j] # None
    BY <1>1 DEF Requested, d
  <2>3. \A j \in pass'.batch :
           pass'.dir \in Agent /\ j \in RecordID /\ acks'[pass'.dir][j] # None
    BY <1>1, <1>3, <1>6, <2>2
  <2> QED
    BY <1>3, <2>1, <2>3 DEF Requested
<1> QED
  BY <1>7, <1>8, <1>9, <1>10

-----------------------------------------------------------------------------
(* The commits of the message commands.                                    *)

(* Facts of other messages outlive a commit.                               *)
LEMMA GrowsKeeps ==
  ASSUME Grows
  PROVE  \A m : /\ IsPublished(m) => IsPublished(m)'
                /\ HasProcessed(m) => HasProcessed(m)'
                /\ IsAcked(m) => IsAcked(m)'
BY DEF Grows, IsPublished, HasProcessed, IsAcked

LEMMA SendMessageStep ==
  ASSUME IInv, NEW m \in MessageID, NEW a \in Agent, NEW form \in Form,
         SendMessage(m, a, form)
  PROVE  IInv'
<1> USE DEF IInv
<1>1. /\ messages' \in Seq(Message) /\ Unique' /\ Grows
      /\ \A i \in DOMAIN messages : messages'[i] = messages[i]
      /\ \A i \in DOMAIN messages' \ DOMAIN messages :
            ~messages'[i].published /\ ~messages'[i].processed /\ ~messages'[i].acked
  BY SendMessageGrows
<1>2. /\ UNCHANGED <<inbox, archive, acks, acksArchive, pass, asked, faults>>
      /\ pass.at = "idle"
  BY DEF SendMessage, files
<1>3. TypeOK'
  BY <1>1, <1>2 DEF TypeOK, Unique
<1>4. Facts'
  <2>1. \A i \in DOMAIN messages' :
          /\ messages'[i].published =>
                \/ inbox[messages'[i].to][messages'[i].id] = "engine"
                \/ messages'[i].id \in archive[messages'[i].to]
          /\ messages'[i].processed => messages'[i].published
    BY <1>1 DEF Facts
  <2>2. \A b \in Agent : \A k \in archive[b] : HasProcessed(k)'
    BY <1>1, GrowsKeeps DEF Facts
  <2> QED
    BY <1>2, <2>1, <2>2 DEF Facts, HasProcessed
<1>5. Acks'
  <2>1. \A i \in DOMAIN messages' :
           messages'[i].acked => <<messages'[i].to, messages'[i].id>> \in asked
    BY <1>1 DEF Acks
  <2>2. \A f \in acksArchive : IsAcked(f[3])'
    BY <1>1, GrowsKeeps DEF Acks
  <2> QED
    BY <1>2, <2>1, <2>2 DEF Acks, IsAcked
<1>6. Written' /\ Collected' /\ Requested'
  BY <1>2 DEF Written, Collected, Requested
<1> QED
  BY <1>3, <1>4, <1>5, <1>6

(* An acknowledgement, by command or by control record: the recipient asked*)
(* for it.                                                                 *)
LEMMA Acknowledge ==
  ASSUME IInv, NEW a \in Agent, NEW m, MayAcknowledge(a, m),
         messages' = Acknowledged(m),
         <<a, m>> \in asked', asked \subseteq asked',
         UNCHANGED <<inbox, archive, acks, acksArchive>>
  PROVE  /\ messages' \in Seq(Message) /\ Unique' /\ Grows /\ Facts' /\ Acks'
         /\ IsAcked(m)'
<1> USE DEF IInv
<1> DEFINE i == Index(m)
<1>1. i \in DOMAIN messages /\ messages[i].id = m /\ messages[i].to = a
  BY IndexOf DEF MayAcknowledge
<1>2. SetFlags(i, messages[i].published, messages[i].processed, TRUE)
  <2>1. messages' = [messages EXCEPT ![i].acked = TRUE]
    BY DEF Acknowledged
  <2> HIDE DEF i
  <2> QED
    BY <1>1, <2>1, Flagged
<1> HIDE DEF i
<1>3. messages' \in Seq(Message) /\ Unique' /\ Grows
  BY <1>1, <1>2, FlagsGrow
<1>4. Facts'
  <2>1. \A j \in DOMAIN messages' : /\ messages'[j].id = messages[j].id
                                    /\ messages'[j].to = messages[j].to
                                    /\ messages'[j].published = messages[j].published
                                    /\ messages'[j].processed = messages[j].processed
                                    /\ j \in DOMAIN messages
    BY <1>2 DEF SetFlags
  <2>2. \A b \in Agent : \A k \in archive[b] : HasProcessed(k)'
    BY <1>3, GrowsKeeps DEF Facts
  <2> QED
    BY <2>1, <2>2 DEF Facts, HasProcessed
<1>5. Acks'
  <2>1. ASSUME NEW j \in DOMAIN messages', messages'[j].acked
        PROVE  <<messages'[j].to, messages'[j].id>> \in asked'
    <3>1. CASE j = i
      BY <1>1, <1>2, <3>1 DEF SetFlags
    <3>2. CASE j # i
      BY <1>2, <2>1, <3>2 DEF SetFlags, Acks
    <3> QED
      BY <3>1, <3>2
  <2>2. \A f \in acksArchive : IsAcked(f[3])'
    BY <1>3, GrowsKeeps DEF Acks
  <2> QED
    BY <2>1, <2>2 DEF Acks, IsAcked
<1>6. IsAcked(m)'
  BY <1>1, <1>2 DEF IsAcked, SetFlags
<1> QED
  BY <1>3, <1>4, <1>5, <1>6

LEMMA AcknowledgeMessageStep ==
  ASSUME IInv, NEW m \in MessageID, NEW a \in Agent, AcknowledgeMessage(a, m)
  PROVE  IInv'
<1> USE DEF IInv
<1>1. /\ UNCHANGED <<inbox, archive, acks, acksArchive, pass, faults>>
      /\ asked' = asked \cup {<<a, m>>} /\ pass.at = "idle"
      /\ MayAcknowledge(a, m) /\ messages' = Acknowledged(m)
  BY DEF AcknowledgeMessage, files
<1>2. messages' \in Seq(Message) /\ Unique' /\ Facts' /\ Acks'
  BY <1>1, Acknowledge
<1>3. TypeOK'
  BY <1>1, <1>2 DEF TypeOK, Unique
<1>4. Written' /\ Collected' /\ Requested'
  BY <1>1 DEF Written, Collected, Requested
<1> QED
  BY <1>2, <1>3, <1>4

LEMMA IngestAckStep ==
  ASSUME IInv, NEW r \in RecordID, IngestAck(r)
  PROVE  IInv'
<1> USE DEF IInv
<1>1. /\ UNCHANGED <<inbox, archive, acks, acksArchive, asked, faults>>
      /\ pass.at = "acks" /\ r \in pass.batch
  BY DEF IngestAck, files
<1>2. PICK d \in Agent, m \in MessageID :
         pass.dir = d /\ acks[d][r] = m /\ m # None /\ <<d, m>> \in asked
  BY <1>1, FaultsAssumption DEF Requested, TypeOK
<1>3. pass \in Pass
  BY DEF TypeOK
<1>4. CASE MayAcknowledge(d, m)
  <2>1. messages' = Acknowledged(m)
    BY <1>1, <1>2, <1>4 DEF IngestAck
  <2>2. pass' = [pass EXCEPT !.at = "archiveAck", !.batch = @ \ {r}, !.item = r]
    BY <1>1, <1>2, <1>4 DEF IngestAck
  <2>3. /\ pass' \in Pass /\ pass'.at = "archiveAck" /\ pass'.dir = d
        /\ pass'.batch = pass.batch \ {r} /\ pass'.item = r
    BY <1>1, <1>2, <1>3, <2>2 DEF Pass
  <2>4. messages' \in Seq(Message) /\ Unique' /\ Facts' /\ Acks' /\ IsAcked(m)'
    BY <1>1, <1>2, <1>4, <2>1, Acknowledge
  <2>5. TypeOK'
    BY <1>1, <2>3, <2>4 DEF TypeOK, Unique
  <2>6. Written' /\ Collected'
    BY <2>3 DEF Written, Collected
  <2>7. Requested'
    <3>1. \A b \in Agent, j \in RecordID :
             acks'[b][j] # None => <<b, acks'[b][j]>> \in asked'
      BY <1>1 DEF Requested
    <3>2. \A j \in pass'.batch :
             pass'.dir \in Agent /\ j \in RecordID /\ acks'[pass'.dir][j] # None
      BY <1>1, <1>2, <2>3 DEF Requested
    <3>3. acks'[pass'.dir][pass'.item] = m
      BY <1>1, <1>2, <2>3
    <3> QED
      BY <1>2, <2>3, <2>4, <3>1, <3>2, <3>3 DEF Requested, IsAcked
  <2> QED
    BY <2>4, <2>5, <2>6, <2>7
<1>5. CASE ~MayAcknowledge(d, m)
  <2>1. UNCHANGED messages /\ pass' = [pass EXCEPT !.batch = @ \ {r}]
    BY <1>1, <1>2, <1>5 DEF IngestAck
  <2>2. /\ pass' \in Pass /\ pass'.at = "acks" /\ pass'.dir = d
        /\ pass'.batch = pass.batch \ {r}
    BY <1>1, <1>2, <1>3, <2>1 DEF Pass
  <2>3. TypeOK'
    BY <1>1, <2>1, <2>2 DEF TypeOK
  <2>4. Facts' /\ Acks' /\ Written' /\ Collected'
    BY <1>1, <2>1, <2>2 DEF Facts, Acks, Written, Collected, HasProcessed, IsAcked
  <2>5. Requested'
    BY <1>1, <1>2, <2>2 DEF Requested
  <2> QED
    BY <2>3, <2>4, <2>5
<1> QED
  BY <1>4, <1>5

(* The published fact: its envelope is in the recipient's inbox.           *)
LEMMA RecordPublishedStep ==
  ASSUME IInv, RecordMessagePublished
  PROVE  IInv'
<1> USE DEF IInv
<1> DEFINE i == Min(Unpublished)
<1>1. /\ UNCHANGED <<inbox, archive, acks, acksArchive, asked, faults>>
      /\ pass.at = "written"
  BY DEF RecordMessagePublished, files
<1>2. i \in DOMAIN messages /\ inbox[messages[i].to][messages[i].id] = "engine"
  BY <1>1, FirstUnpublished DEF Written, NextUnpublished
<1>3. SetFlags(i, TRUE, messages[i].processed, messages[i].acked)
  <2>1. messages' = [messages EXCEPT ![i].published = TRUE]
    BY DEF RecordMessagePublished
  <2> HIDE DEF i
  <2> QED
    BY <1>2, <2>1, Flagged
<1>4. pass' \in Pass /\ pass'.at = "deliver" /\ pass'.batch = {}
  BY <1>1 DEF RecordMessagePublished, TypeOK, Pass, Collected
<1> HIDE DEF i
<1>5. messages' \in Seq(Message) /\ Unique' /\ Grows
  BY <1>2, <1>3, FlagsGrow
<1>6. TypeOK'
  BY <1>1, <1>4, <1>5 DEF TypeOK, Unique
<1>7. Facts'
  <2>1. ASSUME NEW j \in DOMAIN messages'
        PROVE  /\ messages'[j].published =>
                     \/ inbox[messages'[j].to][messages'[j].id] = "engine"
                     \/ messages'[j].id \in archive[messages'[j].to]
               /\ messages'[j].processed => messages'[j].published
    <3>1. CASE j = i
      BY <1>2, <1>3, <3>1 DEF SetFlags
    <3>2. CASE j # i
      BY <1>3, <3>2 DEF SetFlags, Facts
    <3> QED
      BY <3>1, <3>2
  <2>2. \A b \in Agent : \A k \in archive[b] : HasProcessed(k)'
    BY <1>5, GrowsKeeps DEF Facts
  <2> QED
    BY <1>1, <2>1, <2>2 DEF Facts, HasProcessed
<1>8. Acks'
  <2>1. \A j \in DOMAIN messages' : /\ messages'[j].id = messages[j].id
                                    /\ messages'[j].to = messages[j].to
                                    /\ messages'[j].acked = messages[j].acked
                                    /\ j \in DOMAIN messages
    BY <1>3 DEF SetFlags
  <2>2. \A f \in acksArchive : IsAcked(f[3])'
    BY <1>5, GrowsKeeps DEF Acks
  <2> QED
    BY <1>1, <2>1, <2>2 DEF Acks, IsAcked
<1>9. Written' /\ Collected'
  BY <1>4 DEF Written, Collected
<1>10. Requested'
  BY <1>1, <1>4 DEF Requested
<1> QED
  BY <1>6, <1>7, <1>8, <1>9, <1>10

(* The processed fact: the pass collected published messages only.         *)
LEMMA RecordProcessedStep ==
  ASSUME IInv, NEW m \in MessageID, RecordMessageProcessed(m)
  PROVE  IInv'
<1> USE DEF IInv
<1> DEFINE i == Index(m)
<1>1. /\ UNCHANGED <<inbox, archive, acks, acksArchive, asked, faults>>
      /\ pass.at = "ingest" /\ m \in pass.batch
  BY DEF RecordMessageProcessed, files
<1>2. IsPublished(m)
  BY <1>1 DEF Collected
<1>3. i \in DOMAIN messages /\ messages[i].id = m /\ messages[i].published
  BY <1>2, IndexOf DEF IsPublished, Known
<1>4. SetFlags(i, messages[i].published, TRUE, messages[i].acked)
  <2>1. messages' = [messages EXCEPT ![i].processed = TRUE]
    BY DEF RecordMessageProcessed
  <2> HIDE DEF i
  <2> QED
    BY <1>3, <2>1, Flagged
<1>5. /\ pass' \in Pass /\ pass'.at = "archive" /\ pass'.item = m
      /\ pass'.pending = pass.pending /\ pass'.batch = pass.batch \ {m}
  BY <1>1 DEF RecordMessageProcessed, TypeOK, Pass
<1> HIDE DEF i
<1>6. messages' \in Seq(Message) /\ Unique' /\ Grows
  BY <1>3, <1>4, FlagsGrow
<1>7. TypeOK'
  BY <1>1, <1>5, <1>6 DEF TypeOK, Unique
<1>8. HasProcessed(m)'
  BY <1>3, <1>4 DEF HasProcessed, SetFlags
<1>9. Facts'
  <2>1. ASSUME NEW j \in DOMAIN messages'
        PROVE  /\ messages'[j].published =>
                     \/ inbox[messages'[j].to][messages'[j].id] = "engine"
                     \/ messages'[j].id \in archive[messages'[j].to]
               /\ messages'[j].processed => messages'[j].published
    <3>1. CASE j = i
      BY <1>3, <1>4, <3>1 DEF SetFlags, Facts
    <3>2. CASE j # i
      BY <1>4, <3>2 DEF SetFlags, Facts
    <3> QED
      BY <3>1, <3>2
  <2>2. \A b \in Agent : \A k \in archive[b] : HasProcessed(k)'
    BY <1>6, GrowsKeeps DEF Facts
  <2> QED
    BY <1>1, <2>1, <2>2 DEF Facts, HasProcessed
<1>10. Acks'
  <2>1. \A j \in DOMAIN messages' : /\ messages'[j].id = messages[j].id
                                    /\ messages'[j].to = messages[j].to
                                    /\ messages'[j].acked = messages[j].acked
                                    /\ j \in DOMAIN messages
    BY <1>4 DEF SetFlags
  <2>2. \A f \in acksArchive : IsAcked(f[3])'
    BY <1>6, GrowsKeeps DEF Acks
  <2> QED
    BY <1>1, <2>1, <2>2 DEF Acks, IsAcked
<1>11. Written'
  BY <1>5 DEF Written
<1>12. Collected'
  <2>1. \A k \in pass'.pending : IsPublished(k)'
    BY <1>1, <1>5, <1>6, GrowsKeeps DEF Collected
  <2>2. pass'.batch \subseteq pass'.pending
    BY <1>1, <1>5 DEF Collected
  <2> QED
    BY <1>5, <1>8, <2>1, <2>2 DEF Collected, IsPublished, HasProcessed
<1>13. Requested'
  BY <1>1, <1>5 DEF Requested
<1> QED
  BY <1>7, <1>9, <1>10, <1>11, <1>12, <1>13

-----------------------------------------------------------------------------
LEMMA Start == Init => IInv
<1> SUFFICES ASSUME Init
             PROVE  IInv
  OBVIOUS
<1>1. TypeOK
  BY FaultsAssumption DEF Init, TypeOK, Idle, Pass
<1>2. DOMAIN messages = {} /\ pass.at = "idle" /\ pass.batch = {}
  BY DEF Init, Idle
<1> QED
  BY <1>1, <1>2 DEF Init, IInv, Facts, Acks, Written, Collected, Requested

LEMMA Stutter ==
  ASSUME IInv, UNCHANGED vars
  PROVE  IInv'
<1> USE DEF IInv, vars
<1>1. TypeOK'
  BY DEF TypeOK
<1>2. Facts' /\ Acks'
  BY DEF Facts, Acks, HasProcessed, IsAcked
<1>3. Written' /\ Collected' /\ Requested'
  BY DEF Written, Collected, Requested, Unpublished, NextUnpublished,
     IsPublished, HasProcessed, IsAcked
<1> QED
  BY <1>1, <1>2, <1>3

(* The inductive invariant holds for ever.                                 *)
THEOREM Invariance == Spec => []IInv
<1>1. IInv /\ [Next]_vars => IInv'
  BY PassSteps, ExternalEnvelopeStep, WriteAckStep, PublishStep, ArchiveStep,
     ArchiveAckStep, SendMessageStep, AcknowledgeMessageStep, IngestAckStep,
     RecordPublishedStep, RecordProcessedStep, Stutter DEF Next, Work
<1> QED
  BY <1>1, Start, PTL DEF Spec

(* The types of messages, files and pass hold, and message IDs are unique  *)
(* (SendMessage).                                                          *)
THEOREM TypeCorrect == Spec => []TypeOK
BY Invariance, PTL DEF IInv

(* What the snapshot records about a message is true of the files          *)
(* (DeliverPending, IngestPending, Archive).                               *)
THEOREM FactsHold == Spec => []FactsAreTrue
<1>1. IInv => FactsAreTrue
  <2> SUFFICES ASSUME IInv
               PROVE  FactsAreTrue
    OBVIOUS
  <2>1. \A m : HasProcessed(m) => IsProcessed(m)
    BY ByIndex DEF IInv
  <2> QED
    BY <2>1 DEF IInv, Facts, FactsAreTrue
<1> QED
  BY <1>1, Invariance, PTL

(* Acknowledgements are the recipients' own, and a control record is moved *)
(* away only when it is obeyed (AcknowledgeMessage, IngestAcks).           *)
THEOREM AcksHold == Spec => []AcksAreTrue
<1>1. IInv => AcksAreTrue
  <2> SUFFICES ASSUME IInv
               PROVE  AcksAreTrue
    OBVIOUS
  <2>1. \A m : IsAcked(m) => Known(m) /\ messages[Index(m)].acked
    BY ByIndex DEF IInv
  <2> QED
    BY <2>1 DEF IInv, Acks, AcksAreTrue
<1> QED
  BY <1>1, Invariance, PTL

=============================================================================
