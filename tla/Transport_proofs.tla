-------------------------- MODULE Transport_proofs --------------------------
(***************************************************************************)
(* Proofs about Transport, for any sessions, callers, operations, answers  *)
(* and bounds: the types of its state, that what clients are told of their *)
(* commands is true, that no call is dispatched after its client has the   *)
(* answer, and that the transport implements RemoteCall.                   *)
(*                                                                         *)
(* An answer passes from the engine through the host's hand and a file to  *)
(* the client, who attributes it to the request it wrote under the same    *)
(* name.  Each hand-over keeps two facts: the answer is true of the        *)
(* operation it is kept with (Truth), and the name still stands for that   *)
(* operation (Names), because no name is written twice.                    *)
(*                                                                         *)
(* The refinement needs two more.  The host takes a request in hand when   *)
(* it finds no answer that a client could read, and writes answers alone:  *)
(* what it has in hand is unanswered (Fresh), so that a computed answer is *)
(* for a call that waits and a published one replaces none.  And what a    *)
(* client has taken stays on file while its session lives (Answered).  The *)
(* same two bound how often the supervisor is called for a stop: there is  *)
(* room for one call more where an answer was lost, or is removed with the *)
(* session (Room, Bounded).                                                *)
(***************************************************************************)
EXTENDS Transport, SequenceTheorems, TLAPS

CallName == 1..MaxCalls

(* What a name stands for, on file and in the host's hand.                 *)
Stands(s, n, op) ==
    /\ n = AttachName => op = Attach
    /\ n = DetachName => op = Detach
    /\ n \in CallName => op \in Op /\ n <= client[s].calls

Names ==
    /\ \A s \in Session : \A n \in Name :
          /\ intake[s][n] # None => Stands(s, n, intake[s][n])
          /\ n \in CallName /\ responses[s][n] # None => n <= client[s].calls
    /\ \A s \in Session : client[s].phase = "calling" =>
          /\ client[s].name \in CallName
          /\ intake[s][client[s].name] # None
    /\ AttachName \notin host.queue
    /\ host.pc \in {"dispatch", "answer"} =>
          /\ host.name # AttachName
          /\ Stands(host.at, host.name, host.op)
          /\ intake[host.at][host.name] \in {None, host.op}

(* An answer OK to a command is given for a change that was committed, and *)
(* for a stop only after the supervisor was called under this very name.   *)
Truth(s, n, op, answer) ==
    answer = OK /\ op.kind \in {"command", "stop"} =>
        /\ op.arg \in ledger
        /\ op.kind = "stop" => signals[s][n] > 0

Truths ==
    /\ \A s \in Session : \A n \in Name :
          intake[s][n] # None => Truth(s, n, intake[s][n], responses[s][n])
    /\ host.pc = "answer" => Truth(host.at, host.name, host.op, host.answer)
    /\ \A s \in Session : \A i \in DOMAIN log[s] :
          Truth(s, log[s][i].name, log[s][i].op, log[s][i].answer)

IInv == TypeOK /\ Names /\ Truths

(* The parts of TypeOK.                                                    *)
FileType ==
    /\ intake \in [Session -> [Name -> Operation \cup {None}]]
    /\ responses \in [Session -> [Name -> Answer \cup {None}]]
    /\ tree \in [Session -> SUBSET {"intake", "responses"}]
    /\ \A s \in Session, n \in Name :
        /\ intake[s][n] # None => "intake" \in tree[s]
        /\ responses[s][n] # None => "responses" \in tree[s]

ClientType == client \in [Session -> Client] /\ log \in [Session -> Seq(Call)]

HostType ==
    /\ up \in BOOLEAN /\ bound \subseteq Session
    /\ host \in Host
    /\ host.pc \notin {"idle", "visit"} => host.at \in host.scan
    /\ host.pc \in {"dispatch", "answer"} => host.name # None /\ host.op # None
    /\ host.pc = "answer" => host.answer # None
    /\ ~up => host.pc = "idle" /\ bound = {}

EngineType == ledger \subseteq RequestID /\ signals \in [Session -> [Name -> Nat]]

(* The engine forgets no change and the history no call.                   *)
Onward ==
    /\ ledger \subseteq ledger'
    /\ \A s \in Session : \A n \in Name : signals[s][n] <= signals'[s][n]

LEMMA TypeParts ==
  TypeOK <=> /\ FileType /\ ClientType /\ HostType
             /\ faults \in 0..MaxFaults /\ EngineType
BY DEF TypeOK, FileType, ClientType, HostType, EngineType

LEMMA TypePartsNext ==
  ASSUME FileType', ClientType', HostType', faults' \in 0..MaxFaults,
         EngineType'
  PROVE  TypeOK'
BY DEF TypeOK, FileType, ClientType, HostType, EngineType

(* The three kinds of names are different names.                           *)
LEMMA NameKinds ==
  /\ AttachName \in Name /\ DetachName \in Name /\ CallName \subseteq Name
  /\ AttachName # DetachName
  /\ AttachName \notin CallName /\ DetachName \notin CallName
  /\ Name = {AttachName, DetachName} \cup CallName
BY BoundsAssumption DEF AttachName, DetachName, CallName, Name

-----------------------------------------------------------------------------
(* Files.                                                                  *)

LEMMA RequestWritten ==
  ASSUME FileType, NEW s \in Session, NEW n \in Name, NEW op \in Operation,
         WriteRequest(s, n, op)
  PROVE  /\ FileType'
         /\ intake'[s][n] = op /\ responses' = responses
         /\ \A t \in Session : \A m \in Name :
               t # s \/ m # n => intake'[t][m] = intake[t][m]
<1> DEFINE row == [intake[s] EXCEPT ![n] = op]
<1>1. /\ intake' = [intake EXCEPT ![s] = row] /\ responses' = responses
      /\ tree' = [tree EXCEPT ![s] = @ \cup {"intake"}]
  BY DEF WriteRequest
<1>2. /\ row \in [Name -> Operation \cup {None}] /\ row[n] = op
      /\ \A m \in Name : m # n => row[m] = intake[s][m]
  BY DEF FileType
<1> HIDE DEF row
<1>3. /\ intake' \in [Session -> [Name -> Operation \cup {None}]]
      /\ intake'[s] = row /\ \A t \in Session : t # s => intake'[t] = intake[t]
  BY <1>1, <1>2 DEF FileType
<1>4. /\ tree' \in [Session -> SUBSET {"intake", "responses"}]
      /\ "intake" \in tree'[s]
      /\ \A t \in Session : tree[t] \subseteq tree'[t]
  BY <1>1 DEF FileType
<1>5. \A t \in Session, m \in Name :
        /\ intake'[t][m] # None => "intake" \in tree'[t]
        /\ responses'[t][m] # None => "responses" \in tree'[t]
  BY <1>1, <1>3, <1>4 DEF FileType
<1>6. FileType'
  BY <1>1, <1>3, <1>4, <1>5 DEF FileType
<1> QED
  BY <1>1, <1>2, <1>3, <1>6

LEMMA ResponseWritten ==
  ASSUME FileType, faults \in 0..MaxFaults, NEW s \in Session, NEW n \in Name,
         NEW a \in Answer, WriteResponse(s, n, a)
  PROVE  /\ FileType' /\ faults' \in 0..MaxFaults
         /\ intake' = intake
         /\ \A t \in Session : \A m \in Name :
               \/ responses'[t][m] = responses[t][m]
               \/ t = s /\ m = n /\ responses'[t][m] = a
<1> DEFINE row == [responses[s] EXCEPT ![n] = a]
<1>1. /\ intake' = intake
      /\ tree' = [tree EXCEPT ![s] = @ \cup {"responses"}]
      /\ \/ responses' = [responses EXCEPT ![s] = row]
         \/ responses' = responses
  BY DEF WriteResponse
<1>2. /\ row \in [Name -> Answer \cup {None}] /\ row[n] = a
      /\ \A m \in Name : m # n => row[m] = responses[s][m]
  BY DEF FileType
<1> HIDE DEF row
<1>3. /\ responses' \in [Session -> [Name -> Answer \cup {None}]]
      /\ responses'[s] = row \/ responses'[s] = responses[s]
      /\ \A t \in Session : t # s => responses'[t] = responses[t]
  BY <1>1, <1>2 DEF FileType
<1>4. /\ tree' \in [Session -> SUBSET {"intake", "responses"}]
      /\ "responses" \in tree'[s]
      /\ \A t \in Session : tree[t] \subseteq tree'[t]
  BY <1>1 DEF FileType
<1>5. \A t \in Session, m \in Name :
        /\ intake'[t][m] # None => "intake" \in tree'[t]
        /\ responses'[t][m] # None => "responses" \in tree'[t]
  BY <1>1, <1>3, <1>4 DEF FileType
<1>6. faults' \in 0..MaxFaults
  <2>1. faults' = faults \/ (faults < MaxFaults /\ faults' = faults + 1)
    BY DEF WriteResponse
  <2> QED
    BY <2>1, BoundsAssumption
<1>7. FileType'
  BY <1>1, <1>3, <1>4, <1>5 DEF FileType
<1>8. ASSUME NEW t \in Session, NEW m \in Name
      PROVE  \/ responses'[t][m] = responses[t][m]
             \/ t = s /\ m = n /\ responses'[t][m] = a
  BY <1>2, <1>3
<1> QED
  BY <1>1, <1>6, <1>7, <1>8

-----------------------------------------------------------------------------
(* The records of clients.                                                 *)
LEMMA ClientChanged ==
  ASSUME client \in [Session -> Client], NEW s \in Session, NEW r \in Client,
         client' = [client EXCEPT ![s] = r]
  PROVE  /\ client' \in [Session -> Client] /\ client'[s] = r
         /\ \A t \in Session : t # s => client'[t] = client[t]
OBVIOUS

(* A client whose phase changes keeps its name and the count of its calls. *)
LEMMA PhaseChanged ==
  ASSUME client \in [Session -> Client], NEW s \in Session, NEW phase \in Phases,
         \/ client' = [client EXCEPT ![s].phase = phase]
         \/ \E todo \in SUBSET {"intake", "responses"} :
              client' = [client EXCEPT ![s].phase = phase, ![s].todo = todo]
  PROVE  /\ client' \in [Session -> Client] /\ client'[s].phase = phase
         /\ client'[s].calls = client[s].calls /\ client'[s].name = client[s].name
         /\ \A t \in Session : t # s => client'[t] = client[t]
<1>0. client[s] \in Client
  OBVIOUS
<1>1. CASE client' = [client EXCEPT ![s].phase = phase]
  <2> DEFINE r == [client[s] EXCEPT !.phase = phase]
  <2>1. client' = [client EXCEPT ![s] = r]
    BY <1>1, Zenon
  <2>2. /\ r \in Client /\ r.phase = phase /\ r.calls = client[s].calls
        /\ r.name = client[s].name
    BY <1>0 DEF Client
  <2> HIDE DEF r
  <2> QED
    BY <2>1, <2>2, ClientChanged
<1>2. ASSUME NEW todo \in SUBSET {"intake", "responses"},
             client' = [client EXCEPT ![s].phase = phase, ![s].todo = todo]
      PROVE  /\ client' \in [Session -> Client] /\ client'[s].phase = phase
             /\ client'[s].calls = client[s].calls /\ client'[s].name = client[s].name
             /\ \A t \in Session : t # s => client'[t] = client[t]
  <2> DEFINE r == [client[s] EXCEPT !.phase = phase, !.todo = todo]
  <2>1. client' = [client EXCEPT ![s] = r]
    BY <1>2
  <2>2. /\ r \in Client /\ r.phase = phase /\ r.calls = client[s].calls
        /\ r.name = client[s].name
    BY <1>0 DEF Client
  <2> HIDE DEF r
  <2> QED
    BY <2>1, <2>2, ClientChanged
<1> QED
  BY <1>1, <1>2

(* So does one that goes on removing.                                      *)
LEMMA TodoChanged ==
  ASSUME client \in [Session -> Client], NEW s \in Session, NEW d,
         client' = [client EXCEPT ![s].todo = @ \ {d}]
  PROVE  /\ client' \in [Session -> Client] /\ client'[s].phase = client[s].phase
         /\ client'[s].todo = client[s].todo \ {d}
         /\ client'[s].calls = client[s].calls /\ client'[s].name = client[s].name
         /\ \A t \in Session : t # s => client'[t] = client[t]
<1> DEFINE r == [client[s] EXCEPT !.todo = @ \ {d}]
<1>1. client' = [client EXCEPT ![s] = r]
  BY Zenon
<1>2. /\ r \in Client /\ r.phase = client[s].phase /\ r.calls = client[s].calls
      /\ r.name = client[s].name /\ r.todo = client[s].todo \ {d}
  BY DEF Client
<1> HIDE DEF r
<1> QED
  BY <1>1, <1>2, ClientChanged

(* A client that begins a call has a name for it.                          *)
LEMMA CallBegun ==
  ASSUME client \in [Session -> Client], NEW s \in Session, NEW phase \in Phases,
         NEW n \in Name, NEW k \in 0..MaxCalls,
         \/ /\ client' = [client EXCEPT ![s].phase = phase, ![s].name = n]
            /\ k = client[s].calls
         \/ client' = [client EXCEPT ![s].phase = phase, ![s].name = n, ![s].calls = k]
  PROVE  /\ client' \in [Session -> Client]
         /\ client'[s].phase = phase /\ client'[s].name = n /\ client'[s].calls = k
         /\ \A t \in Session : t # s => client'[t] = client[t]
<1>0. client[s] \in Client
  OBVIOUS
<1>1. CASE /\ client' = [client EXCEPT ![s].phase = phase, ![s].name = n]
           /\ k = client[s].calls
  <2> DEFINE r == [client[s] EXCEPT !.phase = phase, !.name = n]
  <2>1. client' = [client EXCEPT ![s] = r]
    BY <1>1
  <2>2. r \in Client /\ r.phase = phase /\ r.calls = k /\ r.name = n
    BY <1>0, <1>1 DEF Client
  <2> HIDE DEF r
  <2> QED
    BY <2>1, <2>2, ClientChanged
<1>2. CASE client' = [client EXCEPT ![s].phase = phase, ![s].name = n, ![s].calls = k]
  <2> DEFINE r == [client[s] EXCEPT !.phase = phase, !.name = n, !.calls = k]
  <2>1. client' = [client EXCEPT ![s] = r]
    BY <1>2
  <2>2. r \in Client /\ r.phase = phase /\ r.calls = k /\ r.name = n
    BY <1>0 DEF Client
  <2> HIDE DEF r
  <2> QED
    BY <2>1, <2>2, ClientChanged
<1> QED
  BY <1>1, <1>2

-----------------------------------------------------------------------------
(* The steps of clients.                                                   *)

(* A reserved operation is no command.                                     *)
LEMMA Reserved == /\ Attach.kind \notin {"command", "stop"}
                  /\ Detach.kind \notin {"command", "stop"}
BY DEF Attach, Detach

(* What a client step may do without disturbing the host: write a request  *)
(* under a name that is not in use, remove files, log a true answer.       *)
NewRequest(s, n) ==
    /\ Stands(s, n, intake[s][n])'
    /\ n \in CallName => n > client[s].calls

LEMMA ClientKeeps ==
  ASSUME IInv, UNCHANGED <<up, bound, host, ledger, signals>>,
         FileType', ClientType', faults' \in 0..MaxFaults,
         \A t \in Session : client[t].calls <= client'[t].calls,
         \A t \in Session : \A m \in Name :
            /\ responses'[t][m] \in {responses[t][m], None}
            /\ intake'[t][m] \in {intake[t][m], None} \/ NewRequest(t, m),
         \A t \in Session : client'[t].phase = "calling" =>
            client'[t].name \in CallName /\ intake'[t][client'[t].name] # None,
         \A t \in Session : \A i \in DOMAIN log'[t] :
            Truth(t, log'[t][i].name, log'[t][i].op, log'[t][i].answer)
  PROVE  IInv'
<1>0. /\ FileType /\ ClientType /\ HostType /\ Names /\ Truths
      /\ EngineType
  BY TypeParts DEF IInv
<1>1. TypeOK'
  <2>1. HostType' /\ EngineType'
    BY <1>0 DEF HostType, EngineType
  <2> QED
    BY <1>0, <2>1, TypePartsNext
<1>2. \A t \in Session : client[t].calls \in Nat /\ client'[t].calls \in Nat
  BY <1>0, BoundsAssumption DEF ClientType, Client
<1>3. \A n \in CallName : n \in Nat
  BY BoundsAssumption DEF CallName
<1>4. ASSUME NEW t \in Session, NEW m \in Name
      PROVE  /\ intake'[t][m] # None => Stands(t, m, intake[t][m])'
             /\ m \in CallName /\ responses'[t][m] # None => m <= client'[t].calls
             /\ intake'[t][m] # None => Truth(t, m, intake[t][m], responses[t][m])'
  <2>1. responses'[t][m] # None => responses'[t][m] = responses[t][m]
    OBVIOUS
  <2>2. m \in CallName /\ responses[t][m] # None => m <= client[t].calls
    BY <1>0 DEF Names
  <2>3. m \in CallName /\ responses'[t][m] # None => m <= client'[t].calls
    BY <1>2, <1>3, <2>1, <2>2
  <2>4. CASE intake'[t][m] = None
    BY <2>3, <2>4
  <2>5. CASE intake'[t][m] # None /\ intake'[t][m] = intake[t][m]
    <3>1. Stands(t, m, intake[t][m]) /\ Truth(t, m, intake[t][m], responses[t][m])
      BY <1>0, <2>5 DEF Names, Truths
    <3>2. Stands(t, m, intake[t][m])'
      BY <1>2, <1>3, <2>5, <3>1 DEF Stands
    <3>3. Truth(t, m, intake[t][m], responses[t][m])'
      BY <2>1, <2>5, <3>1, AnswerAssumption, NoneAssumption DEF Truth
    <3> QED
      BY <2>3, <3>2, <3>3
  <2>6. CASE NewRequest(t, m)
    <3>1. Stands(t, m, intake[t][m])' /\ (m \in CallName => m > client[t].calls)
      BY <2>6 DEF NewRequest
    <3>2. CASE m \in CallName
      <4>1. responses'[t][m] = None
        BY <1>2, <1>3, <2>1, <2>2, <3>1, <3>2
      <4> QED
        BY <2>3, <3>1, <4>1, AnswerAssumption, NoneAssumption DEF Truth
    <3>3. CASE m \notin CallName
      <4>1. intake'[t][m] \in {Attach, Detach}
        BY <3>1, <3>3, NameKinds DEF Stands
      <4> QED
        BY <2>3, <3>1, <4>1, Reserved DEF Truth
    <3> QED
      BY <3>2, <3>3
  <2> QED
    BY <2>4, <2>5, <2>6
<1>5. ASSUME host.pc \in {"dispatch", "answer"}
      PROVE  /\ host.name # AttachName
             /\ Stands(host.at, host.name, host.op)'
             /\ intake'[host.at][host.name] \in {None, host.op}
  <2>1. /\ host.at \in Session /\ host.name \in Name
        /\ host.op # None
    BY <1>0, <1>5 DEF HostType, Host
  <2>2. /\ host.name # AttachName /\ Stands(host.at, host.name, host.op)
        /\ intake[host.at][host.name] \in {None, host.op}
    BY <1>0, <1>5 DEF Names
  <2>3. Stands(host.at, host.name, host.op)'
    BY <1>2, <1>3, <2>1, <2>2 DEF Stands
  <2>4. CASE intake'[host.at][host.name] \in {intake[host.at][host.name], None}
    BY <2>2, <2>3, <2>4
  <2>5. CASE NewRequest(host.at, host.name)
    <3>1. host.name \notin CallName
      BY <1>2, <1>3, <2>1, <2>2, <2>5 DEF NewRequest, Stands
    <3>2. host.name = DetachName
      BY <2>1, <2>2, <3>1, NameKinds
    <3>3. intake'[host.at][host.name] = Detach /\ host.op = Detach
      BY <2>2, <2>5, <3>2 DEF NewRequest, Stands
    <3> QED
      BY <2>2, <2>3, <3>3
  <2> QED
    BY <2>1, <2>4, <2>5
<1>6. Names'
  BY <1>0, <1>4, <1>5 DEF Names
<1>7. Truths'
  <2>1. host.pc = "answer" => Truth(host.at, host.name, host.op, host.answer)'
    BY <1>0 DEF Truths, Truth
  <2>2. \A t \in Session : \A i \in DOMAIN log'[t] :
            Truth(t, log[t][i].name, log[t][i].op, log[t][i].answer)'
    BY DEF Truth
  <2> QED
    BY <1>0, <1>4, <2>1, <2>2 DEF Truths
<1> QED
  BY <1>1, <1>6, <1>7 DEF IInv

(* A call that returns is logged with a true answer.                       *)
LogTrue == \A t \in Session : \A i \in DOMAIN log'[t] :
    Truth(t, log'[t][i].name, log'[t][i].op, log'[t][i].answer)

LEMMA LogKept ==
  ASSUME IInv, UNCHANGED log
  PROVE  LogTrue
BY DEF IInv, Truths, LogTrue

LEMMA LogExtended ==
  ASSUME IInv, NEW s \in Session, NEW answer \in Answer \cup {None},
         client[s].phase = "calling", Returns(s, answer),
         Truth(s, client[s].name, intake[s][client[s].name], answer)
  PROVE  log' \in [Session -> Seq(Call)] /\ LogTrue
<1> DEFINE r == [name |-> client[s].name, op |-> intake[s][client[s].name],
                 answer |-> answer]
<1>1. log \in [Session -> Seq(Call)] /\ Truths /\ Names
  BY DEF IInv, TypeOK
<1>2. client[s].name \in Name
  BY <1>1, NameKinds DEF Names
<1>3. intake[s][client[s].name] \in Operation
  BY <1>1, <1>2 DEF Names, IInv, TypeOK
<1>4. r \in Call /\ Truth(s, r.name, r.op, r.answer)
  BY <1>2, <1>3 DEF Call
<1>5. log' = [log EXCEPT ![s] = Append(log[s], r)]
  BY DEF Returns
<1> HIDE DEF r
<1>6. Append(log[s], r) \in Seq(Call)
  BY <1>1, <1>4
<1>7. log' \in [Session -> Seq(Call)]
  BY <1>1, <1>5, <1>6
<1>8. ASSUME NEW t \in Session, NEW i \in DOMAIN log'[t]
      PROVE  Truth(t, log'[t][i].name, log'[t][i].op, log'[t][i].answer)
  <2>1. CASE t # s
    <3>1. log'[t] = log[t]
      BY <1>1, <1>5, <2>1
    <3> QED
      BY <1>1, <1>8, <3>1 DEF Truths
  <2>2. CASE t = s
    <3>1. log'[t] = Append(log[s], r)
      BY <1>1, <1>5, <2>2
    <3>2. log[s] \in Seq(Call)
      BY <1>1
    <3>3. (i \in DOMAIN log[s] /\ log'[t][i] = log[s][i]) \/ log'[t][i] = r
      BY <1>4, <1>8, <3>1, <3>2
    <3>4. CASE log'[t][i] = r
      BY <1>4, <2>2, <3>4
    <3>5. CASE i \in DOMAIN log[s] /\ log'[t][i] = log[s][i]
      <4>1. Truth(s, log[s][i].name, log[s][i].op, log[s][i].answer)
        BY <1>1, <3>5 DEF Truths
      <4> QED
        BY <2>2, <3>5, <4>1
    <3> QED
      BY <3>3, <3>4, <3>5
  <2> QED
    BY <2>1, <2>2
<1> QED
  BY <1>7, <1>8 DEF LogTrue

(* Steps that leave the files alone.                                       *)
LEMMA FilesKept ==
  ASSUME IInv, UNCHANGED files
  PROVE  /\ FileType' /\ UNCHANGED <<intake, responses>>
         /\ \A t \in Session : \A m \in Name :
            /\ responses'[t][m] \in {responses[t][m], None}
            /\ intake'[t][m] \in {intake[t][m], None} \/ NewRequest(t, m)
BY TypeParts DEF IInv, files, FileType

LEMMA Parts ==
  ASSUME IInv
  PROVE  /\ FileType /\ ClientType /\ HostType /\ Names /\ Truths
         /\ faults \in 0..MaxFaults /\ EngineType
         /\ \A t \in Session : client[t] \in Client /\ client[t].calls \in Nat
BY TypeParts, BoundsAssumption DEF IInv, ClientType, Client

(* A client that writes a request does so under a name of its own.         *)
Asks(s, n, op, phase, k) ==
    /\ WriteRequest(s, n, op)
    /\ \/ /\ client' = [client EXCEPT ![s].phase = phase, ![s].name = n]
          /\ k = client[s].calls
       \/ client' = [client EXCEPT ![s].phase = phase, ![s].name = n, ![s].calls = k]
    /\ n = AttachName => op = Attach
    /\ n = DetachName => op = Detach
    /\ n \in CallName => op \in Op /\ n = k /\ k = client[s].calls + 1
    /\ client[s].calls <= k
    /\ phase = "calling" => n \in CallName
    /\ client[s].phase \in {"new", "attached"}
    /\ client[s].phase = "new" => phase = "attaching"

AsksSomething(s) ==
    \/ ClientAttaches(s) \/ ClientDetaches(s)
    \/ \E op \in Op : ClientCalls(s, op)

LEMMA AskShape ==
  ASSUME IInv, NEW s \in Session, AsksSomething(s)
  PROVE  \E n \in Name, op \in Operation, phase \in Phases, k \in 0..MaxCalls :
            Asks(s, n, op, phase, k)
<1>0. \A t \in Session : client[t] \in Client /\ client[t].calls \in Nat
  BY Parts
<1>1. CASE ClientAttaches(s)
  <2>1. Attach \in Operation /\ "attaching" \in Phases /\ AttachName \in Name
    BY NameKinds DEF Operation, Phases
  <2>2. client[s].calls \in 0..MaxCalls
    BY <1>0 DEF Client
  <2>3. Asks(s, AttachName, Attach, "attaching", client[s].calls)
    BY <1>0, <1>1, NameKinds DEF ClientAttaches, Asks
  <2> QED
    BY <2>1, <2>2, <2>3
<1>2. CASE ClientDetaches(s)
  <2>1. Detach \in Operation /\ "detaching" \in Phases /\ DetachName \in Name
    BY NameKinds DEF Operation, Phases
  <2>2. client[s].calls \in 0..MaxCalls
    BY <1>0 DEF Client
  <2>3. Asks(s, DetachName, Detach, "detaching", client[s].calls)
    BY <1>0, <1>2, NameKinds DEF ClientDetaches, Asks
  <2> QED
    BY <2>1, <2>2, <2>3
<1>3. ASSUME NEW op \in Op, ClientCalls(s, op)
      PROVE  \E n \in Name, o \in Operation, phase \in Phases, k \in 0..MaxCalls :
                Asks(s, n, o, phase, k)
  <2> DEFINE k == client[s].calls + 1
  <2>1. k \in CallName /\ k \in 0..MaxCalls /\ client[s].calls <= k
    BY <1>0, <1>3, BoundsAssumption DEF ClientCalls, CallName
  <2>2. op \in Operation /\ "calling" \in Phases /\ k \in Name
    BY <2>1, NameKinds DEF Operation, Phases
  <2>3. /\ WriteRequest(s, k, op) /\ client[s].phase = "attached"
        /\ client' = [client EXCEPT ![s].phase = "calling", ![s].name = k,
                                    ![s].calls = k]
    BY <1>3 DEF ClientCalls, NewName
  <2> HIDE DEF k
  <2>4. k # AttachName /\ k # DetachName /\ k = client[s].calls + 1
    BY <2>1, NameKinds DEF k
  <2>5. Asks(s, k, op, "calling", k)
    BY <2>1, <2>3, <2>4 DEF Asks
  <2> QED
    BY <2>1, <2>2, <2>5
<1> QED
  BY <1>1, <1>2, <1>3 DEF AsksSomething

LEMMA AskEffect ==
  ASSUME IInv, NEW s \in Session, NEW n \in Name, NEW op \in Operation,
         NEW phase \in Phases, NEW k \in 0..MaxCalls, Asks(s, n, op, phase, k)
  PROVE  /\ FileType'
         /\ intake'[s][n] = op /\ responses' = responses
         /\ \A t \in Session : \A m \in Name :
               t # s \/ m # n => intake'[t][m] = intake[t][m]
         /\ client' \in [Session -> Client]
         /\ client'[s].phase = phase /\ client'[s].name = n /\ client'[s].calls = k
         /\ \A t \in Session : t # s => client'[t] = client[t]
         /\ NewRequest(s, n)
<1>0. /\ FileType /\ client \in [Session -> Client]
      /\ \A t \in Session : client[t] \in Client /\ client[t].calls \in Nat
  BY Parts DEF ClientType
<1>1. /\ FileType'
      /\ intake'[s][n] = op /\ responses' = responses
      /\ \A t \in Session : \A m \in Name :
            t # s \/ m # n => intake'[t][m] = intake[t][m]
  BY <1>0, RequestWritten DEF Asks
<1>2. /\ client' \in [Session -> Client]
      /\ client'[s].phase = phase /\ client'[s].name = n /\ client'[s].calls = k
      /\ \A t \in Session : t # s => client'[t] = client[t]
  BY <1>0, CallBegun DEF Asks
<1>3. n \in CallName => n <= client'[s].calls /\ n > client[s].calls
  BY <1>0, <1>2 DEF Asks
<1>4. Stands(s, n, intake[s][n])'
  BY <1>1, <1>3 DEF Asks, Stands
<1> QED
  BY <1>1, <1>2, <1>3, <1>4 DEF NewRequest

LEMMA AskStep ==
  ASSUME IInv, NEW s \in Session, AsksSomething(s)
  PROVE  IInv'
<1>0. /\ ClientType /\ Names
      /\ faults \in 0..MaxFaults
      /\ \A t \in Session : client[t] \in Client /\ client[t].calls \in Nat
  BY Parts
<1>1. PICK n \in Name, op \in Operation, phase \in Phases, k \in 0..MaxCalls :
        Asks(s, n, op, phase, k)
  BY AskShape
<1>2. /\ FileType'
      /\ intake'[s][n] = op /\ responses' = responses
      /\ \A t \in Session : \A m \in Name :
            t # s \/ m # n => intake'[t][m] = intake[t][m]
      /\ NewRequest(s, n)
  BY <1>1, AskEffect
<1>3. /\ client' \in [Session -> Client]
      /\ client'[s].phase = phase /\ client'[s].name = n /\ client'[s].calls = k
      /\ \A t \in Session : t # s => client'[t] = client[t]
  BY <1>1, AskEffect
<1>4. UNCHANGED <<up, faults, bound, host, log, ledger, signals>>
  BY DEF engine, AsksSomething, ClientAttaches, ClientDetaches, ClientCalls
<1>6. \A t \in Session : client[t].calls <= client'[t].calls
  BY <1>0, <1>1, <1>3 DEF Asks
<1>7. \A t \in Session : \A m \in Name :
        /\ responses'[t][m] \in {responses[t][m], None}
        /\ intake'[t][m] \in {intake[t][m], None} \/ NewRequest(t, m)
  BY <1>2
<1>8. ASSUME NEW t \in Session, client'[t].phase = "calling"
      PROVE  client'[t].name \in CallName /\ intake'[t][client'[t].name] # None
  <2>1. CASE t = s
    BY <1>1, <1>2, <1>3, <1>8, <2>1, NoneAssumption DEF Asks
  <2>2. CASE t # s
    <3>1. client[t].name \in CallName /\ intake[t][client[t].name] # None
      BY <1>0, <1>3, <1>8, <2>2 DEF Names
    <3> QED
      BY <1>2, <1>3, <2>2, <3>1, NameKinds
  <2> QED
    BY <2>1, <2>2
<1>9. ClientType' /\ faults' \in 0..MaxFaults
  BY <1>0, <1>3, <1>4 DEF ClientType
<1> QED
  BY <1>2, <1>4, <1>6, <1>7, <1>8, <1>9, LogKept, ClientKeeps DEF LogTrue

(* A client in a call waits for the answer to what stands under its name.  *)
LEMMA InCallFacts ==
  ASSUME IInv, NEW s \in Session, InCall(s)
  PROVE  /\ client[s].name \in CallName /\ client[s].name \in Name
         /\ intake[s][client[s].name] \in Op
         /\ intake[s][client[s].name] # None
         /\ AskedOf(s) = intake[s][client[s].name]
<1>1. Names /\ FileType
  BY Parts
<1>2. client[s].name \in CallName /\ intake[s][client[s].name] # None
  BY <1>1 DEF InCall, Names
<1>3. client[s].name \in Name
  BY <1>2, NameKinds
<1>4. Stands(s, client[s].name, intake[s][client[s].name])
  BY <1>1, <1>2, <1>3 DEF Names
<1> QED
  BY <1>2, <1>3, <1>4 DEF Stands, AskedOf

(* A client whose call returns, or that stops waiting for good.            *)
StopsWaiting(s) ==
    \/ ClientIsAnswered(s) \/ ClientGivesUp(s)
    \/ ClientEnds(s) \/ ClientIsKilled(s)

LEMMA ReturnEffect ==
  ASSUME IInv, NEW s \in Session, StopsWaiting(s)
  PROVE  /\ client' \in [Session -> Client]
         /\ client'[s].phase # "calling" /\ client'[s].calls = client[s].calls
         /\ \A t \in Session : t # s => client'[t] = client[t]
         /\ UNCHANGED <<up, bound, host, intake, responses, tree, ledger, signals>>
         /\ client'[s].phase \in Phases
         /\ \/ UNCHANGED log
            \/ /\ InCall(s) /\ Readable(s, client[s].name)
               /\ Returns(s, responses[s][client[s].name])
            \/ InCall(s) /\ Returns(s, None)
<1>0. client \in [Session -> Client]
  BY Parts DEF ClientType
<1>1. PICK phase \in Phases \ {"calling"} :
        \/ client' = [client EXCEPT ![s].phase = phase]
        \/ \E todo \in SUBSET {"intake", "responses"} :
             client' = [client EXCEPT ![s].phase = phase, ![s].todo = todo]
  <2>1. {"attached", "removing", "gone", "failed", "killed"}
            \subseteq Phases \ {"calling"}
    BY DEF Phases
  <2>2. CASE ClientIsAnswered(s)
    BY <2>1, <2>2 DEF ClientIsAnswered, Moves
  <2>3. CASE ClientGivesUp(s)
    BY <2>1, <2>3 DEF ClientGivesUp, Moves
  <2>4. CASE ClientEnds(s)
    BY <2>1, <2>4 DEF ClientEnds, Moves
  <2>5. CASE ClientIsKilled(s)
    BY <2>1, <2>5 DEF ClientIsKilled
  <2> QED
    BY <2>2, <2>3, <2>4, <2>5 DEF StopsWaiting
<1>2. /\ client' \in [Session -> Client] /\ client'[s].phase = phase
      /\ client'[s].calls = client[s].calls
      /\ \A t \in Session : t # s => client'[t] = client[t]
  BY <1>0, <1>1, PhaseChanged
<1>3. UNCHANGED <<up, bound, host, intake, responses, tree, ledger, signals>>
  BY DEF engine, StopsWaiting, ClientIsAnswered, ClientGivesUp, ClientEnds, ClientIsKilled, files
<1>4. \/ UNCHANGED log
      \/ /\ InCall(s) /\ Readable(s, client[s].name)
         /\ Returns(s, responses[s][client[s].name])
      \/ InCall(s) /\ Returns(s, None)
  BY DEF StopsWaiting, ClientIsAnswered, ClientGivesUp, ClientEnds, ClientIsKilled, InCall
<1> QED
  BY <1>2, <1>3, <1>4

LEMMA ReturnStep ==
  ASSUME IInv, NEW s \in Session, StopsWaiting(s)
  PROVE  IInv'
<1>0. /\ ClientType /\ Names /\ Truths /\ FileType
      /\ faults \in 0..MaxFaults
      /\ \A t \in Session : client[t] \in Client /\ client[t].calls \in Nat
  BY Parts
<1>2. /\ client' \in [Session -> Client]
      /\ client'[s].phase # "calling" /\ client'[s].calls = client[s].calls
      /\ \A t \in Session : t # s => client'[t] = client[t]
  BY ReturnEffect
<1>3. UNCHANGED <<up, bound, host, files, ledger, signals>>
  BY ReturnEffect DEF files
<1>4. faults' \in 0..MaxFaults
  <2>1. faults' = faults \/ (faults < MaxFaults /\ faults' = faults + 1)
    BY DEF StopsWaiting, ClientIsAnswered, ClientGivesUp, ClientEnds, ClientIsKilled
  <2> QED
    BY <1>0, <2>1, BoundsAssumption
<1>5. log' \in [Session -> Seq(Call)] /\ LogTrue
  <2>1. CASE UNCHANGED log
    BY <1>0, <2>1, LogKept DEF ClientType
  <2>2. CASE /\ InCall(s) /\ Readable(s, client[s].name)
             /\ Returns(s, responses[s][client[s].name])
    <3>1. /\ client[s].name \in Name
          /\ intake[s][client[s].name] # None
      BY <2>2, InCallFacts
    <3>2. Truth(s, client[s].name, intake[s][client[s].name], responses[s][client[s].name])
      BY <1>0, <3>1 DEF Truths
    <3>3. responses[s][client[s].name] \in Answer \cup {None}
      BY <1>0, <3>1 DEF FileType
    <3> QED
      BY <2>2, <3>2, <3>3, LogExtended DEF InCall
  <2>3. CASE InCall(s) /\ Returns(s, None)
    <3>1. Truth(s, client[s].name, intake[s][client[s].name], None)
      BY AnswerAssumption, NoneAssumption DEF Truth
    <3> QED
      BY <2>3, <3>1, LogExtended DEF InCall
  <2> QED
    BY <2>1, <2>2, <2>3, ReturnEffect
<1>6. \A t \in Session : client'[t].phase = "calling" =>
        client'[t].name \in CallName /\ intake'[t][client'[t].name] # None
  BY <1>0, <1>2, <1>3 DEF Names, files
<1>7. \A t \in Session : client[t].calls <= client'[t].calls
  BY <1>0, <1>2
<1>8. ClientType'
  BY <1>2, <1>5 DEF ClientType
<1> QED
  BY <1>3, <1>4, <1>5, <1>6, <1>7, <1>8, FilesKept, ClientKeeps DEF LogTrue

(* A client that removes its directories waits for nothing any more.       *)
LEMMA RemoveEffect ==
  ASSUME IInv, NEW s \in Session, ClientRemoves(s)
  PROVE  /\ client' \in [Session -> Client] /\ FileType'
         /\ client[s].phase = "removing" /\ client'[s].phase = "removing"
         /\ client'[s].calls = client[s].calls
         /\ client'[s].todo \subseteq client[s].todo
         /\ \/ responses' = responses
            \/ "responses" \in client[s].todo /\ "responses" \notin client'[s].todo
         /\ \A t \in Session : t # s => /\ client'[t] = client[t]
                                       /\ intake'[t] = intake[t]
                                       /\ responses'[t] = responses[t]
         /\ \A m \in Name : /\ responses'[s][m] \in {responses[s][m], None}
                            /\ intake'[s][m] \in {intake[s][m], None}
         /\ UNCHANGED <<up, faults, bound, host, log, ledger, signals>>
<1>0. client \in [Session -> Client] /\ FileType
  BY Parts DEF ClientType
<1>1. PICK d \in client[s].todo :
        /\ client' = [client EXCEPT ![s].todo = @ \ {d}]
        /\ tree' = [tree EXCEPT ![s] = @ \ {d}]
        /\ intake' = IF d = "intake"
                     THEN [intake EXCEPT ![s] = [n \in Name |-> None]] ELSE intake
        /\ responses' = IF d = "responses"
                        THEN [responses EXCEPT ![s] = [n \in Name |-> None]]
                        ELSE responses
  BY DEF ClientRemoves
<1>2. /\ client' \in [Session -> Client] /\ client'[s].phase = client[s].phase
      /\ client'[s].calls = client[s].calls
      /\ client'[s].todo = client[s].todo \ {d}
      /\ \A t \in Session : t # s => client'[t] = client[t]
  BY <1>0, <1>1, TodoChanged
<1>3. UNCHANGED <<up, faults, bound, host, log, ledger, signals>> /\ client[s].phase = "removing"
  BY DEF engine, ClientRemoves
<1>4. /\ \A t \in Session : t # s =>
            intake'[t] = intake[t] /\ responses'[t] = responses[t] /\ tree'[t] = tree[t]
      /\ tree'[s] = tree[s] \ {d}
      /\ intake'[s] = IF d = "intake" THEN [n \in Name |-> None] ELSE intake[s]
      /\ responses'[s] = IF d = "responses" THEN [n \in Name |-> None] ELSE responses[s]
      /\ intake' \in [Session -> [Name -> Operation \cup {None}]]
      /\ responses' \in [Session -> [Name -> Answer \cup {None}]]
      /\ tree' \in [Session -> SUBSET {"intake", "responses"}]
  BY <1>0, <1>1 DEF FileType
<1>5. ASSUME NEW t \in Session, NEW m \in Name
      PROVE  /\ intake'[t][m] # None => "intake" \in tree'[t]
             /\ responses'[t][m] # None => "responses" \in tree'[t]
  <2>1. /\ intake[t][m] # None => "intake" \in tree[t]
        /\ responses[t][m] # None => "responses" \in tree[t]
    BY <1>0 DEF FileType
  <2> QED
    BY <1>4, <2>1
<1>6. FileType'
  BY <1>4, <1>5 DEF FileType
<1>7. \A m \in Name : /\ responses'[s][m] \in {responses[s][m], None}
                      /\ intake'[s][m] \in {intake[s][m], None}
  BY <1>4
<1>8. /\ client'[s].todo \subseteq client[s].todo
      /\ \/ responses' = responses
         \/ "responses" \in client[s].todo /\ "responses" \notin client'[s].todo
  BY <1>1, <1>2
<1> QED
  BY <1>2, <1>3, <1>4, <1>6, <1>7, <1>8

LEMMA RemoveStep ==
  ASSUME IInv, NEW s \in Session, ClientRemoves(s)
  PROVE  IInv'
<1>0. /\ ClientType /\ Names /\ faults \in 0..MaxFaults
      /\ \A t \in Session : client[t] \in Client /\ client[t].calls \in Nat
  BY Parts
<1>1. \A t \in Session : \A m \in Name :
        /\ responses'[t][m] \in {responses[t][m], None}
        /\ intake'[t][m] \in {intake[t][m], None} \/ NewRequest(t, m)
  BY RemoveEffect
<1>2. \A t \in Session : client'[t].phase = "calling" =>
        client'[t].name \in CallName /\ intake'[t][client'[t].name] # None
  BY <1>0, RemoveEffect DEF Names
<1>3. \A t \in Session : client[t].calls <= client'[t].calls
  BY <1>0, RemoveEffect
<1>4. ClientType' /\ faults' \in 0..MaxFaults
  BY <1>0, RemoveEffect DEF ClientType
<1> QED
  BY <1>1, <1>2, <1>3, <1>4, RemoveEffect, LogKept, ClientKeeps DEF LogTrue

LEMMA ClientStepKeeps ==
  ASSUME IInv, NEW s \in Session, ClientStep(s)
  PROVE  IInv'
BY AskStep, ReturnStep, RemoveStep DEF ClientStep, AsksSomething, StopsWaiting

-----------------------------------------------------------------------------
(* The steps of the host.                                                  *)

(* What the host has in hand stands for a request, and is true.            *)
HandStands ==
    /\ AttachName \notin host.queue
    /\ host.pc \in {"dispatch", "answer"} =>
          /\ host.name # AttachName
          /\ Stands(host.at, host.name, host.op)
          /\ intake[host.at][host.name] \in {None, host.op}

HandTrue == host.pc = "answer" => Truth(host.at, host.name, host.op, host.answer)

(* An answer it writes is true of the request with its name.               *)
NewAnswer(t, m) ==
    /\ intake[t][m] # None => Truth(t, m, intake[t][m], responses[t][m])'
    /\ m \in CallName => m <= client[t].calls

LEMMA EngineKept ==
  ASSUME EngineType, UNCHANGED <<ledger, signals>>
  PROVE  EngineType' /\ Onward
BY DEF EngineType, Onward

LEMMA HostKeeps ==
  ASSUME IInv, UNCHANGED <<intake, client, log>>,
         FileType', HostType', faults' \in 0..MaxFaults,
         EngineType', Onward,
         \A t \in Session : \A m \in Name :
            responses'[t][m] = responses[t][m] \/ NewAnswer(t, m),
         HandStands', HandTrue'
  PROVE  IInv'
<1>0. FileType /\ ClientType /\ Names /\ Truths /\ EngineType
  BY Parts
<1>1. TypeOK'
  <2>1. ClientType'
    BY <1>0 DEF ClientType
  <2> QED
    BY <2>1, TypePartsNext
<1>2. ASSUME NEW t \in Session, NEW m \in Name, NEW op, NEW a, Truth(t, m, op, a)
      PROVE  Truth(t, m, op, a)'
  <2>1. /\ signals[t][m] \in Nat /\ signals'[t][m] \in Nat
        /\ signals[t][m] <= signals'[t][m] /\ ledger \subseteq ledger'
    BY <1>0 DEF EngineType, Onward
  <2> QED
    BY <1>2, <2>1 DEF Truth
<1>3. Names'
  <2>1. ASSUME NEW t \in Session, NEW m \in Name
        PROVE  /\ intake[t][m] # None => Stands(t, m, intake[t][m])'
               /\ m \in CallName /\ responses'[t][m] # None => m <= client[t].calls
    BY <1>0 DEF Names, Stands, NewAnswer
  <2>2. \A t \in Session : client[t].phase = "calling" =>
          client[t].name \in CallName /\ intake[t][client[t].name] # None
    BY <1>0 DEF Names
  <2> QED
    BY <2>1, <2>2 DEF Names, HandStands
<1>4. Truths'
  <2>1. ASSUME NEW t \in Session, NEW m \in Name, intake[t][m] # None
        PROVE  Truth(t, m, intake[t][m], responses[t][m])'
    <3>2. Truth(t, m, intake[t][m], responses[t][m])
      BY <1>0, <2>1 DEF Truths
    <3>3. CASE responses'[t][m] = responses[t][m]
      BY <1>2, <3>2, <3>3 DEF Truth
    <3>4. CASE NewAnswer(t, m)
      BY <2>1, <3>4 DEF NewAnswer
    <3> QED
      BY <3>3, <3>4
  <2>2. ASSUME NEW t \in Session, NEW i \in DOMAIN log[t]
        PROVE  Truth(t, log[t][i].name, log[t][i].op, log[t][i].answer)'
    <3>1. log[t] \in Seq(Call)
      BY <1>0 DEF ClientType
    <3>2. log[t][i] \in Call
      BY <2>2, <3>1
    <3>3. log[t][i].name \in Name
      BY <3>2 DEF Call
    <3>4. Truth(t, log[t][i].name, log[t][i].op, log[t][i].answer)
      BY <1>0, <2>2 DEF Truths
    <3> QED
      BY <1>2, <3>3, <3>4 DEF Truth
  <2> QED
    BY <2>1, <2>2 DEF Truths, HandTrue
<1> QED
  BY <1>1, <1>3, <1>4 DEF IInv

(* The loop between two sessions has nothing in hand.                      *)
LEMMA NextSessionType ==
  ASSUME NEW scan \in SUBSET Session
  PROVE  /\ NextSession(scan) \in Host
         /\ NextSession(scan).pc \in {"idle", "visit"}
         /\ NextSession(scan).queue = {}
<1>1. Idle \in Host /\ Idle.pc = "idle" /\ Idle.queue = {}
  BY DEF Idle, Host
<1> QED
  BY <1>1 DEF NextSession, Host

(* A session is served with the names listed, the attach request not among *)
(* them.                                                                   *)
LEMMA ListedType ==
  ASSUME HostType, NEW s \in host.scan
  PROVE  /\ Listed(s) \in Host
         /\ Listed(s).pc \in {"idle", "visit", "serve"}
         /\ Listed(s).pc = "serve" => Listed(s).at \in Listed(s).scan
         /\ AttachName \notin Listed(s).queue
<1> DEFINE names == {n \in Name \ {AttachName} : intake[s][n] # None}
<1>1. host \in Host /\ host.scan \subseteq Session
  BY DEF HostType, Host
<1>2. CASE names = {}
  <2>1. Listed(s) = NextSession(host.scan \ {s})
    BY <1>2 DEF Listed
  <2>2. host.scan \ {s} \in SUBSET Session
    BY <1>1
  <2>3. /\ NextSession(host.scan \ {s}) \in Host
        /\ NextSession(host.scan \ {s}).pc \in {"idle", "visit"}
        /\ NextSession(host.scan \ {s}).queue = {}
    BY <2>2, NextSessionType
  <2> QED
    BY <2>1, <2>3
<1>3. CASE names # {}
  <2>1. Listed(s) = [host EXCEPT !.pc = "serve", !.at = s, !.queue = names]
    BY <1>3 DEF Listed
  <2>2. names \in SUBSET Name /\ AttachName \notin names /\ s \in Session
    BY <1>1
  <2> HIDE DEF names
  <2> QED
    BY <1>1, <2>1, <2>2 DEF Host
<1> QED
  BY <1>2, <1>3

(* Steps that look around and take nothing in hand.                        *)
LEMMA LookKeeps ==
  ASSUME IInv, up, up' = up, UNCHANGED <<intake, client, log, ledger, signals>>,
         FileType', faults' \in 0..MaxFaults, bound' \subseteq Session,
         \A t \in Session : \A m \in Name :
            responses'[t][m] = responses[t][m] \/ NewAnswer(t, m),
         host' \in Host, host'.pc \notin {"dispatch", "answer"},
         host'.pc \notin {"idle", "visit"} => host'.at \in host'.scan,
         AttachName \notin host'.queue
  PROVE  IInv'
<1>1. HostType'
  BY DEF HostType
<1>2. HandStands' /\ HandTrue'
  BY DEF HandStands, HandTrue
<1>3. EngineType
  BY Parts
<1>4. EngineType' /\ Onward
  BY <1>3, EngineKept
<1> QED
  BY <1>1, <1>2, <1>3, <1>4, HostKeeps

LEMMA ScanStep ==
  ASSUME IInv, HostTick \/ (\E s \in Session : HostVisit(s)) \/ HostLists
  PROVE  IInv'
<1>0. /\ FileType /\ HostType /\ Names /\ host \in Host
      /\ host.scan \subseteq Session
      /\ faults \in 0..MaxFaults /\ bound \subseteq Session
  BY Parts DEF HostType, Host
<1>1. /\ host' \in Host /\ host'.pc \notin {"dispatch", "answer"}
      /\ host'.pc \notin {"idle", "visit"} => host'.at \in host'.scan
      /\ AttachName \notin host'.queue
  <2>1. CASE HostTick
    <3>1. PICK seen \in SUBSET Session : host' = NextSession(seen)
      BY <2>1 DEF HostTick
    <3> QED
      BY <3>1, NextSessionType
  <2>2. ASSUME NEW s \in Session, HostVisit(s)
        PROVE  /\ host' \in Host /\ host'.pc \notin {"dispatch", "answer"}
               /\ host'.pc \notin {"idle", "visit"} => host'.at \in host'.scan
               /\ AttachName \notin host'.queue
    <3>1. s \in host.scan
      BY <2>2 DEF HostVisit
    <3>2. CASE host' = Listed(s)
      BY <1>0, <3>1, <3>2, ListedType
    <3>3. CASE host' = [host EXCEPT !.pc = "bind", !.at = s]
      <4>1. AttachName \notin host.queue
        BY <1>0 DEF Names
      <4> QED
        BY <1>0, <3>1, <3>3, <4>1 DEF Host
    <3>4. CASE host' = NextSession(host.scan \ {s})
      <4>1. host.scan \ {s} \in SUBSET Session
        BY <1>0
      <4> QED
        BY <3>4, <4>1, NextSessionType
    <3> QED
      BY <2>2, <3>2, <3>3, <3>4 DEF HostVisit
  <2>3. CASE HostLists
    <3>1. host.at \in host.scan /\ host' = Listed(host.at)
      BY <1>0, <2>3 DEF HostLists, HostType
    <3> QED
      BY <1>0, <3>1, ListedType
  <2> QED
    BY <2>1, <2>2, <2>3
<1>2. up /\ up' = up /\ UNCHANGED <<faults, bound, files, clients, ledger, signals>>
  BY DEF engine, HostTick, HostVisit, HostLists
<1>3. FileType' /\ UNCHANGED <<intake, responses, client, log>>
  BY <1>2, FilesKept DEF files, clients
<1> QED
  BY <1>0, <1>1, <1>2, <1>3, LookKeeps

(* tryBind answers the attach request, which is no command.                *)
LEMMA BindStep ==
  ASSUME IInv, HostBinds
  PROVE  IInv'
<1>0. /\ FileType /\ HostType /\ Names /\ host \in Host
      /\ host.scan \subseteq Session /\ AttachName \notin host.queue
      /\ faults \in 0..MaxFaults /\ bound \subseteq Session
  BY Parts DEF HostType, Host, Names
<1>1. /\ host.at \in host.scan /\ host.at \in Session
      /\ WriteResponse(host.at, AttachName, OK)
      /\ up /\ up' = up /\ UNCHANGED <<client, log, ledger, signals>>
  BY <1>0 DEF engine, HostBinds, HostType, clients
<1>2. /\ FileType' /\ faults' \in 0..MaxFaults
      /\ intake' = intake
      /\ \A t \in Session : \A m \in Name :
            \/ responses'[t][m] = responses[t][m]
            \/ t = host.at /\ m = AttachName /\ responses'[t][m] = OK
  BY <1>0, <1>1, ResponseWritten, NameKinds, AnswerAssumption
<1>3. \A t \in Session : \A m \in Name :
        responses'[t][m] = responses[t][m] \/ NewAnswer(t, m)
  <2>1. ASSUME NEW t \in Session, intake[t][AttachName] # None
        PROVE  intake[t][AttachName] = Attach
    BY <1>0, <2>1, NameKinds DEF Names, Stands
  <2> QED
    BY <1>2, <2>1, NameKinds, Reserved DEF NewAnswer, Truth
<1>4. /\ host' \in Host /\ host'.pc \in {"idle", "visit", "list"}
      /\ host'.pc \notin {"idle", "visit"} => host'.at \in host'.scan
      /\ AttachName \notin host'.queue
      /\ bound' \subseteq Session
  <2>1. CASE bound' = bound \cup {host.at} /\ host' = [host EXCEPT !.pc = "list"]
    BY <1>0, <1>1, <2>1 DEF Host
  <2>2. CASE bound' = bound /\ host' = NextSession(host.scan \ {host.at})
    <3>1. host.scan \ {host.at} \in SUBSET Session
      BY <1>0
    <3> QED
      BY <1>0, <2>2, <3>1, NextSessionType
  <2> QED
    BY <2>1, <2>2 DEF HostBinds
<1> QED
  BY <1>1, <1>2, <1>3, <1>4, LookKeeps

(* The loop goes on to another request of the session, or to another       *)
(* session.                                                                *)
LEMMA NextRequestType ==
  ASSUME HostType, host.at \in host.scan, AttachName \notin host.queue, NEW n
  PROVE  /\ NextRequest(n) \in Host
         /\ NextRequest(n).pc \in {"idle", "visit", "serve"}
         /\ NextRequest(n).pc = "serve" => NextRequest(n).at \in NextRequest(n).scan
         /\ AttachName \notin NextRequest(n).queue
<1>1. host \in Host /\ host.scan \ {host.at} \in SUBSET Session
  BY DEF HostType, Host
<1>2. CASE NextRequest(n) = NextSession(host.scan \ {host.at})
  BY <1>1, <1>2, NextSessionType
<1>3. CASE NextRequest(n) = [host EXCEPT !.pc = "serve", !.queue = @ \ {n},
                               !.name = None, !.op = None, !.answer = None]
  BY <1>1, <1>3 DEF Host
<1> QED
  BY <1>2, <1>3 DEF NextRequest

(* A request is taken in hand as it stands on file.                        *)
LEMMA ReadStep ==
  ASSUME IInv, NEW n \in Name, HostReads(n)
  PROVE  IInv'
<1>0. /\ FileType /\ HostType /\ Names /\ Truths /\ host \in Host
      /\ host.scan \subseteq Session /\ AttachName \notin host.queue
      /\ faults \in 0..MaxFaults /\ bound \subseteq Session
      /\ EngineType
  BY Parts DEF HostType, Host, Names
<1>1. /\ host.pc = "serve" /\ n \in host.queue /\ host.at \in host.scan
      /\ host.at \in Session /\ up /\ up' = up
      /\ UNCHANGED <<faults, bound, files, clients, ledger, signals>>
  BY <1>0 DEF engine, HostReads, HostType
<1>2. FileType' /\ UNCHANGED <<intake, responses, client, log>>
  BY <1>1, FilesKept DEF files, clients
<1>3. CASE host' = NextRequest(n)
  <2>1. /\ host' \in Host /\ host'.pc \in {"idle", "visit", "serve"}
        /\ host'.pc = "serve" => host'.at \in host'.scan
        /\ AttachName \notin host'.queue
    BY <1>0, <1>1, <1>3, NextRequestType
  <2> QED
    BY <1>0, <1>1, <1>2, <2>1, LookKeeps
<1>4. CASE /\ Unanswered(host.at, n)
           /\ host' = [host EXCEPT !.name = n, !.op = intake[host.at][n],
                         !.pc = IF n = DetachName THEN "answer" ELSE "dispatch",
                         !.answer = IF n = DetachName THEN OK ELSE None]
  <2>1. intake[host.at][n] \in Operation /\ n # None
    BY <1>0, <1>1, <1>4, NoneAssumption DEF Unanswered, FileType
  <2>2. /\ host' \in Host /\ host'.scan = host.scan /\ host'.at = host.at
        /\ host'.queue = host.queue /\ host'.name = n
        /\ host'.op = intake[host.at][n]
        /\ host'.pc = IF n = DetachName THEN "answer" ELSE "dispatch"
        /\ host'.answer = IF n = DetachName THEN OK ELSE None
    BY <1>0, <1>4, <2>1, AnswerAssumption DEF Host
  <2>3. Stands(host.at, n, intake[host.at][n])
    BY <1>0, <1>1, <2>1, NoneAssumption DEF Names
  <2>4. HostType'
    BY <1>0, <1>1, <2>1, <2>2, NoneAssumption, AnswerAssumption DEF HostType
  <2>5. HandStands'
    <3>1. n # AttachName
      BY <1>0, <1>1
    <3>2. Stands(host.at, n, intake[host.at][n])'
      BY <1>2, <2>2, <2>3 DEF Stands
    <3> QED
      BY <1>0, <1>2, <2>2, <2>3, <3>1 DEF HandStands, Stands
  <2>6. HandTrue'
    <3>1. n = DetachName => intake[host.at][n] = Detach
      BY <2>3 DEF Stands
    <3> QED
      BY <2>2, <3>1, Reserved DEF HandTrue, Truth
  <2>7. EngineType' /\ Onward
    BY <1>0, <1>1, EngineKept
  <2> QED
    BY <1>0, <1>1, <1>2, <2>4, <2>5, <2>6, <2>7, HostKeeps
<1> QED
  BY <1>3, <1>4 DEF HostReads

(* What the engine answers OK it has committed, and it forgets nothing.    *)
LEMMA SubmitEffect ==
  ASSUME EngineType, NEW q \in RequestID, NEW answer, Submit(q, answer)
  PROVE  /\ EngineType' /\ Onward
         /\ answer = OK => q \in ledger'
         /\ UNCHANGED signals
<1>1. /\ UNCHANGED signals /\ ledger' \in {ledger, ledger \cup {q}}
      /\ answer = OK => q \in ledger'
  BY DEF Submit
<1>2. ledger \subseteq ledger' /\ ledger' \subseteq RequestID
  BY <1>1 DEF EngineType
<1>3. \A s \in Session : \A n \in Name : signals[s][n] <= signals'[s][n]
  BY <1>1 DEF EngineType
<1>4. EngineType'
  BY <1>1, <1>2 DEF EngineType
<1> QED
  BY <1>1, <1>2, <1>3, <1>4 DEF Onward

(* A stop is answered OK after the supervisor was called for the request   *)
(* in hand, and for no other.                                              *)
LEMMA StopRunEffect ==
  ASSUME EngineType, host.at \in Session, host.name \in Name,
         NEW q \in RequestID, NEW answer, StopRun(q, answer)
  PROVE  /\ EngineType' /\ Onward
         /\ answer = OK => q \in ledger' /\ signals'[host.at][host.name] > 0
         /\ \A s \in Session : \A n \in Name :
               \/ signals'[s][n] = signals[s][n]
               \/ s = host.at /\ n = host.name /\ signals'[s][n] = signals[s][n] + 1
<1>1. CASE answer = Failed /\ Submit(q, answer)
  BY <1>1, SubmitEffect, AnswerAssumption
<1>2. CASE /\ ledger' = ledger \cup {q}
           /\ signals' = [signals EXCEPT ![host.at][host.name] = @ + 1]
  <2>1. PICK s \in Session, n \in Name : s = host.at /\ n = host.name
    OBVIOUS
  <2> DEFINE row == [signals[s] EXCEPT ![n] = @ + 1]
  <2>2. /\ row \in [Name -> Nat] /\ row[n] = signals[s][n] + 1
        /\ \A m \in Name : m # n => row[m] = signals[s][m]
    BY DEF EngineType
  <2>3. signals' = [signals EXCEPT ![s] = row]
    BY <1>2, <2>1
  <2> HIDE DEF row
  <2>4. /\ signals' \in [Session -> [Name -> Nat]] /\ signals'[s] = row
        /\ \A t \in Session : t # s => signals'[t] = signals[t]
    BY <2>2, <2>3 DEF EngineType
  <2>5. ASSUME NEW t \in Session, NEW m \in Name
        PROVE  \/ signals'[t][m] = signals[t][m]
               \/ t = s /\ m = n /\ signals'[t][m] = signals[t][m] + 1
    BY <2>2, <2>4
  <2>6. \A t \in Session : \A m \in Name : signals[t][m] \in Nat
    BY DEF EngineType
  <2>7. Onward
    BY <1>2, <2>5, <2>6 DEF Onward
  <2>8. signals'[s][n] > 0
    BY <2>2, <2>4, <2>6
  <2>9. EngineType'
    BY <1>2, <2>4 DEF EngineType
  <2> QED
    BY <1>2, <2>1, <2>5, <2>7, <2>8, <2>9
<1> QED
  BY <1>1, <1>2 DEF StopRun

LEMMA DispatchStep ==
  ASSUME IInv, NEW answer \in Answer, HostDispatches(answer)
  PROVE  IInv'
<1>0. /\ FileType /\ HostType /\ Names /\ Truths /\ host \in Host
      /\ faults \in 0..MaxFaults
      /\ EngineType
  BY Parts DEF HostType
<1>1. /\ host.pc = "dispatch" /\ up
      /\ UNCHANGED <<up, faults, bound, files, clients>>
      /\ host' = [host EXCEPT !.pc = "answer", !.answer = answer]
  BY DEF HostDispatches
<1>2. FileType' /\ UNCHANGED <<intake, responses, client, log>>
  BY <1>1, FilesKept DEF files, clients
<1>3. /\ host' \in Host /\ host'.scan = host.scan /\ host'.at = host.at
      /\ host'.queue = host.queue /\ host'.name = host.name /\ host'.op = host.op
      /\ host'.pc = "answer" /\ host'.answer = answer
  BY <1>0, <1>1 DEF Host
<1>4. host.op \in Operation
  BY <1>0, <1>1 DEF HostType, Host
<1>5. /\ EngineType' /\ Onward
      /\ Truth(host.at, host.name, host.op, answer)'
  <2>0. host.at \in Session /\ host.name \in Name
    BY <1>0, <1>1 DEF HostType, Host
  <2>1. CASE host.op.kind = "command"
    <3>1. host.op.arg \in RequestID
      BY <1>4, <2>1, OpAssumption, Reserved DEF Operation
    <3>2. Submit(host.op.arg, answer)
      BY <2>1 DEF HostDispatches
    <3>3. EngineType' /\ Onward /\ (answer = OK => host.op.arg \in ledger')
      BY <1>0, <3>1, <3>2, SubmitEffect
    <3> QED
      BY <1>3, <2>1, <3>3 DEF Truth
  <2>2. CASE host.op.kind = "stop"
    <3>1. host.op.arg \in RequestID
      BY <1>4, <2>2, OpAssumption, Reserved DEF Operation
    <3>2. StopRun(host.op.arg, answer)
      BY <2>2 DEF HostDispatches
    <3>3. /\ EngineType' /\ Onward
          /\ answer = OK => /\ host.op.arg \in ledger'
                            /\ signals'[host.at][host.name] > 0
      BY <1>0, <2>0, <3>1, <3>2, StopRunEffect
    <3> QED
      BY <1>3, <2>2, <3>3 DEF Truth
  <2>3. CASE host.op.kind \notin {"command", "stop"}
    <3>1. UNCHANGED <<ledger, signals>>
      BY <2>3 DEF HostDispatches, engine
    <3>2. EngineType' /\ Onward
      BY <1>0, <3>1, EngineKept
    <3> QED
      BY <1>3, <2>3, <3>2 DEF Truth
  <2> QED
    BY <2>1, <2>2, <2>3
<1>6. HostType'
  BY <1>0, <1>1, <1>3, NoneAssumption DEF HostType
<1>7. HandStands'
  BY <1>0, <1>1, <1>2, <1>3 DEF HandStands, Names, Stands
<1>8. HandTrue'
  BY <1>3, <1>5 DEF HandTrue, Truth
<1> QED
  BY <1>0, <1>1, <1>2, <1>5, <1>6, <1>7, <1>8, HostKeeps

LEMMA AnswerStep ==
  ASSUME IInv, HostAnswers
  PROVE  IInv'
<1>0. /\ FileType /\ HostType /\ Names /\ Truths /\ host \in Host
      /\ host.scan \subseteq Session /\ AttachName \notin host.queue
      /\ faults \in 0..MaxFaults /\ bound \subseteq Session
  BY Parts DEF HostType, Host, Names
<1>1. /\ host.pc = "answer" /\ host.at \in host.scan /\ host.at \in Session
      /\ up /\ up' = up /\ UNCHANGED <<client, log, ledger, signals>>
      /\ WriteResponse(host.at, host.name, host.answer)
      /\ host.name \in Name /\ host.answer \in Answer
  BY <1>0 DEF engine, HostAnswers, HostType, Host, clients
<1>2. /\ FileType' /\ faults' \in 0..MaxFaults
      /\ intake' = intake
      /\ \A t \in Session : \A m \in Name :
            \/ responses'[t][m] = responses[t][m]
            \/ t = host.at /\ m = host.name /\ responses'[t][m] = host.answer
  BY <1>0, <1>1, ResponseWritten
<1>3. \A t \in Session : \A m \in Name :
        responses'[t][m] = responses[t][m] \/ NewAnswer(t, m)
  <2>1. /\ Stands(host.at, host.name, host.op)
        /\ intake[host.at][host.name] \in {None, host.op}
        /\ Truth(host.at, host.name, host.op, host.answer)
    BY <1>0, <1>1 DEF Names, Truths
  <2>2. host.name \in CallName => host.name <= client[host.at].calls
    BY <2>1 DEF Stands
  <2> QED
    BY <1>1, <1>2, <2>1, <2>2 DEF NewAnswer, Truth
<1>4. /\ host' \in Host /\ host'.pc \in {"idle", "visit", "serve"}
      /\ host'.pc \notin {"idle", "visit"} => host'.at \in host'.scan
      /\ AttachName \notin host'.queue
      /\ bound' \subseteq Session
  <2>1. CASE bound' = bound \ {host.at} /\ host' = NextSession(host.scan \ {host.at})
    <3>1. host.scan \ {host.at} \in SUBSET Session
      BY <1>0
    <3> QED
      BY <1>0, <2>1, <3>1, NextSessionType
  <2>2. CASE bound' = bound /\ host' = NextRequest(host.name)
    BY <1>0, <1>1, <2>2, NextRequestType
  <2> QED
    BY <2>1, <2>2 DEF HostAnswers
<1> QED
  BY <1>1, <1>2, <1>3, <1>4, LookKeeps

(* A process that ends forgets what it had in hand.                        *)
LEMMA ProcessStep ==
  ASSUME IInv, HostDies \/ HostStarts
  PROVE  IInv'
<1>0. /\ HostType /\ Truths /\ faults \in 0..MaxFaults /\ Names
      /\ EngineType
  BY Parts
<1>1. UNCHANGED <<files, clients, ledger, signals>> /\ up' \in BOOLEAN
  BY DEF engine, HostDies, HostStarts
<1>2. FileType' /\ UNCHANGED <<intake, responses, client, log>>
  BY <1>1, FilesKept DEF files, clients
<1>3. faults' \in 0..MaxFaults
  <2>1. faults' = faults \/ (faults < MaxFaults /\ faults' = faults + 1)
    BY DEF HostDies, HostStarts
  <2> QED
    BY <1>0, <2>1, BoundsAssumption
<1>4. HostType' /\ HandStands' /\ HandTrue'
  <2>1. CASE HostDies
    <3>1. Idle \in Host /\ Idle.pc = "idle" /\ Idle.queue = {}
      BY DEF Idle, Host
    <3>2. host' = Idle /\ bound' = {} /\ up' = FALSE
      BY <2>1 DEF HostDies
    <3> QED
      BY <3>1, <3>2 DEF HostType, HandStands, HandTrue
  <2>2. CASE HostStarts
    <3>1. host.pc = "idle" /\ host' = host /\ bound' = bound /\ up' = TRUE
      BY <1>0, <2>2 DEF HostStarts, HostType
    <3>2. AttachName \notin host.queue
      BY <1>0 DEF Names
    <3> QED
      BY <1>0, <3>1, <3>2 DEF HostType, HandStands, HandTrue
  <2> QED
    BY <2>1, <2>2
<1>5. EngineType' /\ Onward
  BY <1>0, <1>1, EngineKept
<1> QED
  BY <1>0, <1>1, <1>2, <1>3, <1>4, <1>5, HostKeeps

-----------------------------------------------------------------------------
(* Names stand for what was asked under them and answers are true, in the  *)
(* files, in the host's hand and in the clients' logs (roundTrip, tick,    *)
(* serviceSession).                                                        *)
THEOREM Invariance == Spec => []IInv
<1>1. Init => IInv
  <2> SUFFICES ASSUME Init PROVE IInv
    OBVIOUS
  <2>1. FileType
    BY DEF Init, FileType
  <2>2. ClientType
    <3>1. [phase |-> "new", calls |-> 0, name |-> None, todo |-> {}] \in Client
      BY BoundsAssumption DEF Client, Phases
    <3> QED
      BY <3>1 DEF Init, ClientType
  <2>3. host = Idle /\ Idle \in Host /\ Idle.pc = "idle" /\ Idle.queue = {}
    BY DEF Init, Idle, Host
  <2>4. HostType
    BY <2>3 DEF Init, HostType
  <2>5. faults \in 0..MaxFaults /\ EngineType
    BY BoundsAssumption DEF Init, EngineType
  <2>6. Names
    BY <2>3 DEF Init, Names
  <2>7. Truths
    BY <2>3 DEF Init, Truths
  <2> QED
    BY <2>1, <2>2, <2>4, <2>5, <2>6, <2>7, TypeParts DEF IInv
<1>2. IInv /\ [Next]_vars => IInv'
  <2> SUFFICES ASSUME IInv, [Next]_vars PROVE IInv'
    OBVIOUS
  <2>1. CASE UNCHANGED vars
    <3>1. /\ FileType /\ HostType /\ Names /\ Truths /\ faults \in 0..MaxFaults
          /\ EngineType
      BY Parts
    <3>2. UNCHANGED <<up, faults, bound, host, files, client, log, ledger, signals>>
      BY <2>1 DEF vars, clients, engine
    <3>3. EngineType' /\ Onward
      BY <3>1, <3>2, EngineKept
    <3>4. FileType' /\ UNCHANGED <<intake, responses>>
      BY <3>2, FilesKept
    <3>5. HostType' /\ HandStands'
      BY <3>1, <3>2, <3>4 DEF HostType, HandStands, Names, Stands
    <3>6. HandTrue'
      BY <3>1, <3>2 DEF HandTrue, Truths, Truth
    <3> QED
      BY <3>1, <3>2, <3>3, <3>4, <3>5, <3>6, HostKeeps
  <2> QED
    BY <2>1, ClientStepKeeps, ScanStep, BindStep, ReadStep, DispatchStep,
       AnswerStep, ProcessStep DEF Next, HostLoop
<1> QED
  BY <1>1, <1>2, PTL DEF Spec

(* The files, the host's loop and the clients keep the types of what they  *)
(* hold.                                                                   *)
THEOREM TypeCorrect == Spec => []TypeOK
BY Invariance, PTL DEF IInv

-----------------------------------------------------------------------------
(***************************************************************************)
(* Transport implements RemoteCall.                                        *)
(***************************************************************************)

SameCall(s) == UNCHANGED <<AskedOf(s), ComputedFor(s), AnswerOf(s), ReturnedOf(s)>>

(* The steps of RemoteCall, for the caller s.                              *)
CallStep(s) ==
    \/ /\ AskedOf(s) = None /\ AskedOf(s)' \in Op
       /\ UNCHANGED <<ComputedFor(s), AnswerOf(s), ReturnedOf(s)>>
    \/ /\ AskedOf(s) # None /\ AnswerOf(s) = None /\ ComputedFor(s)' \in Answer
       /\ UNCHANGED <<AskedOf(s), AnswerOf(s), ReturnedOf(s)>>
    \/ /\ ComputedFor(s)' = None
       /\ UNCHANGED <<AskedOf(s), AnswerOf(s), ReturnedOf(s)>>
    \/ /\ ComputedFor(s) # None /\ AnswerOf(s) = None
       /\ AnswerOf(s)' = ComputedFor(s) /\ ComputedFor(s)' = None
       /\ UNCHANGED <<AskedOf(s), ReturnedOf(s)>>
    \/ /\ AskedOf(s) # None
       /\ AskedOf(s)' = None /\ ComputedFor(s)' = None /\ AnswerOf(s)' = None
       /\ \/ /\ AnswerOf(s) # None
             /\ ReturnedOf(s)' = Append(ReturnedOf(s),
                                    [op |-> AskedOf(s), answer |-> AnswerOf(s)])
          \/ ReturnedOf(s)' = Append(ReturnedOf(s), [op |-> AskedOf(s), answer |-> None])
          \/ ReturnedOf(s)' = ReturnedOf(s)

LEMMA Updated ==
  ASSUME NEW S, NEW f, f = [x \in S |-> f[x]], NEW g, g = [x \in S |-> g[x]],
         NEW s \in S, \A t \in S : t # s => g[t] = f[t]
  PROVE  g = [f EXCEPT ![s] = g[s]]
OBVIOUS

LEMMA CallsStutter ==
  ASSUME \A s \in Session : SameCall(s)
  PROVE  UNCHANGED Calls!vars
BY DEF SameCall, Calls!vars, asked, computed, published, returned

(* A step of one session's call, the others' standing still, is a step of  *)
(* RemoteCall.                                                             *)
LEMMA CallsStep ==
  ASSUME NEW s \in Session, CallStep(s), \A t \in Session : t # s => SameCall(t)
  PROVE  Calls!Next
<1>1. /\ asked[s] = AskedOf(s) /\ asked'[s] = AskedOf(s)'
      /\ computed[s] = ComputedFor(s) /\ computed'[s] = ComputedFor(s)'
      /\ published[s] = AnswerOf(s) /\ published'[s] = AnswerOf(s)'
      /\ returned[s] = ReturnedOf(s) /\ returned'[s] = ReturnedOf(s)'
  BY DEF asked, computed, published, returned
<1>2. /\ asked' = [asked EXCEPT ![s] = asked'[s]]
      /\ computed' = [computed EXCEPT ![s] = computed'[s]]
      /\ published' = [published EXCEPT ![s] = published'[s]]
      /\ returned' = [returned EXCEPT ![s] = returned'[s]]
  BY Updated DEF SameCall, asked, computed, published, returned
<1>3. /\ AskedOf(s)' = AskedOf(s) => asked' = asked
      /\ ComputedFor(s)' = ComputedFor(s) => computed' = computed
      /\ AnswerOf(s)' = AnswerOf(s) => published' = published
      /\ ReturnedOf(s)' = ReturnedOf(s) => returned' = returned
  BY DEF SameCall, asked, computed, published, returned
<1>4. CASE /\ AskedOf(s) = None /\ AskedOf(s)' \in Op
           /\ UNCHANGED <<ComputedFor(s), AnswerOf(s), ReturnedOf(s)>>
  <2>1. Calls!Ask(s, AskedOf(s)')
    BY <1>1, <1>2, <1>3, <1>4 DEF Calls!Ask
  <2> QED
    BY <1>4, <2>1 DEF Calls!Next
<1>5. CASE /\ AskedOf(s) # None /\ AnswerOf(s) = None /\ ComputedFor(s)' \in Answer
           /\ UNCHANGED <<AskedOf(s), AnswerOf(s), ReturnedOf(s)>>
  <2>1. Calls!Compute(s, ComputedFor(s)')
    BY <1>1, <1>2, <1>3, <1>5 DEF Calls!Compute
  <2> QED
    BY <1>5, <2>1 DEF Calls!Next
<1>6. CASE /\ ComputedFor(s)' = None
           /\ UNCHANGED <<AskedOf(s), AnswerOf(s), ReturnedOf(s)>>
  <2>1. Calls!Lose(s)
    BY <1>1, <1>2, <1>3, <1>6 DEF Calls!Lose
  <2> QED
    BY <2>1 DEF Calls!Next
<1>7. CASE /\ ComputedFor(s) # None /\ AnswerOf(s) = None
           /\ AnswerOf(s)' = ComputedFor(s) /\ ComputedFor(s)' = None
           /\ UNCHANGED <<AskedOf(s), ReturnedOf(s)>>
  <2>1. Calls!Publish(s)
    BY <1>1, <1>2, <1>3, <1>7 DEF Calls!Publish
  <2> QED
    BY <2>1 DEF Calls!Next
<1>8. CASE /\ AskedOf(s) # None
           /\ AskedOf(s)' = None /\ ComputedFor(s)' = None /\ AnswerOf(s)' = None
           /\ \/ /\ AnswerOf(s) # None
                 /\ ReturnedOf(s)' = Append(ReturnedOf(s),
                                        [op |-> AskedOf(s), answer |-> AnswerOf(s)])
              \/ ReturnedOf(s)' = Append(ReturnedOf(s),
                                     [op |-> AskedOf(s), answer |-> None])
              \/ ReturnedOf(s)' = ReturnedOf(s)
  <2>1. Calls!Ends(s)
    BY <1>1, <1>2, <1>8 DEF Calls!Ends
  <2>2. \A x : ReturnedOf(s)' = Append(ReturnedOf(s), [op |-> AskedOf(s), answer |-> x])
                  => Calls!Returns(s, x)
    BY <1>1, <1>2 DEF Calls!Returns
  <2>3. Calls!Take(s) \/ Calls!GiveUp(s) \/ Calls!Abandon(s)
    BY <1>1, <1>3, <1>8, <2>1, <2>2 DEF Calls!Take, Calls!GiveUp, Calls!Abandon
  <2> QED
    BY <2>3 DEF Calls!Next
<1> QED
  BY <1>4, <1>5, <1>6, <1>7, <1>8 DEF CallStep

LEMMA IdleCall ==
  ASSUME NEW s \in Session, ~InCall(s)
  PROVE  AskedOf(s) = None /\ ComputedFor(s) = None /\ AnswerOf(s) = None
BY DEF AskedOf, ComputedFor, AnswerOf

LEMMA IdleCallNext ==
  ASSUME NEW s \in Session, ~InCall(s)'
  PROVE  AskedOf(s)' = None /\ ComputedFor(s)' = None /\ AnswerOf(s)' = None
BY DEF AskedOf, ComputedFor, AnswerOf

(* What another session does, and what the host does for it, is not seen.  *)
LEMMA Undisturbed ==
  ASSUME IInv, NEW t \in Session, client'[t] = client[t], log'[t] = log[t],
         \A m \in CallName : m = client[t].name =>
            intake'[t][m] = intake[t][m] /\ responses'[t][m] = responses[t][m],
         ComputedFor(t)' = ComputedFor(t)
  PROVE  SameCall(t)
<1>1. ReturnedOf(t)' = ReturnedOf(t)
  BY DEF ReturnedOf
<1>2. InCall(t)' = InCall(t)
  BY DEF InCall
<1>3. CASE InCall(t)
  <2>1. client[t].name \in CallName
    BY <1>3, InCallFacts
  <2>2. AskedOf(t)' = AskedOf(t) /\ AnswerOf(t)' = AnswerOf(t)
    BY <1>2, <2>1 DEF AskedOf, AnswerOf, Readable
  <2> QED
    BY <1>1, <2>2 DEF SameCall
<1>4. CASE ~InCall(t)
  BY <1>1, <1>2, <1>4, IdleCall, IdleCallNext DEF SameCall
<1> QED
  BY <1>3, <1>4

LEMMA ComputedKept ==
  ASSUME NEW t \in Session, client'[t] = client[t], host' = host
  PROVE  ComputedFor(t)' = ComputedFor(t)
BY DEF ComputedFor, InCall

(* A call that is asked is new: no answer to it is on file or in hand.     *)
LEMMA AskImplements ==
  ASSUME IInv, NEW s \in Session, AsksSomething(s)
  PROVE  [Calls!Next]_Calls!vars
<1>0. Names /\ FileType /\ HostType
  BY Parts
<1>1. PICK n \in Name, op \in Operation, phase \in Phases, k \in 0..MaxCalls :
        Asks(s, n, op, phase, k)
  BY AskShape
<1>2. /\ intake'[s][n] = op /\ responses' = responses
      /\ \A t \in Session : \A m \in Name :
            t # s \/ m # n => intake'[t][m] = intake[t][m]
      /\ client'[s].phase = phase /\ client'[s].name = n
      /\ \A t \in Session : t # s => client'[t] = client[t]
      /\ NewRequest(s, n)
  BY <1>1, AskEffect
<1>3. host' = host /\ log' = log
  BY DEF AsksSomething, ClientAttaches, ClientDetaches, ClientCalls
<1>4. \A t \in Session : t # s => SameCall(t)
  BY <1>2, <1>3, Undisturbed, ComputedKept, NameKinds
<1>5. ~InCall(s) /\ ReturnedOf(s)' = ReturnedOf(s)
  BY <1>1, <1>3 DEF Asks, InCall, ReturnedOf
<1>6. CASE phase = "calling"
  <2>1. n \in CallName /\ op \in Op /\ ~(n <= client[s].calls)
    <3>1. n \in CallName /\ op \in Op /\ n > client[s].calls
      BY <1>1, <1>2, <1>6 DEF Asks, NewRequest
    <3>2. n \in Nat /\ client[s].calls \in Nat
      BY <3>1, Parts, BoundsAssumption DEF CallName
    <3> QED
      BY <3>1, <3>2
  <2>2. AskedOf(s)' = op
    BY <1>2, <1>6 DEF AskedOf, InCall
  <2>3. ComputedFor(s)' = None
    <3>1. ~(host.pc = "answer" /\ host.at = s /\ host.name = n)
      BY <1>0, <2>1 DEF Names, Stands
    <3> QED
      BY <1>2, <1>3, <3>1 DEF ComputedFor
  <2>4. AnswerOf(s)' = None
    <3>1. responses[s][n] = None
      BY <1>0, <2>1 DEF Names
    <3> QED
      BY <1>2, <3>1 DEF AnswerOf, Readable
  <2>5. CallStep(s)
    BY <1>5, <2>1, <2>2, <2>3, <2>4, IdleCall DEF CallStep
  <2> QED
    BY <1>4, <2>5, CallsStep
<1>7. CASE phase # "calling"
  <2>1. ~InCall(s)'
    BY <1>2, <1>7 DEF InCall
  <2>2. SameCall(s)
    BY <1>5, <2>1, IdleCall, IdleCallNext DEF SameCall
  <2> QED
    BY <1>4, <2>2, CallsStutter
<1> QED
  BY <1>6, <1>7

(* The log of a call that returns.                                         *)
LEMMA ReturnLogged ==
  ASSUME IInv, NEW s \in Session, NEW answer \in Answer \cup {None},
         InCall(s), Returns(s, answer)
  PROVE  /\ ReturnedOf(s)' = Append(ReturnedOf(s), [op |-> AskedOf(s), answer |-> answer])
         /\ \A t \in Session : t # s => log'[t] = log[t]
         /\ \A i \in DOMAIN log'[s] :
               \/ i \in DOMAIN log[s] /\ log'[s][i] = log[s][i]
               \/ log'[s][i].name = client[s].name /\ log'[s][i].answer = answer
<1> DEFINE r == [name |-> client[s].name, op |-> intake[s][client[s].name],
                 answer |-> answer]
           l == log[s]
           m == log'[s]
           T == [op : Operation, answer : Answer \cup {None}]
<1>1. log \in [Session -> Seq(Call)] /\ AskedOf(s) = intake[s][client[s].name]
      /\ intake[s][client[s].name] \in Operation /\ client[s].name \in Name
  BY Parts, InCallFacts DEF ClientType, Operation
<1>2. /\ r \in Call /\ Return(r) = [op |-> AskedOf(s), answer |-> answer]
      /\ r.name = client[s].name /\ r.answer = answer
  BY <1>1 DEF Call, Return
<1>3. log' = [log EXCEPT ![s] = Append(l, r)]
  BY DEF Returns
<1> HIDE DEF r
<1>4. /\ l \in Seq(Call) /\ m = Append(l, r)
      /\ \A t \in Session : t # s => log'[t] = log[t]
  BY <1>1, <1>3
<1>5. /\ ReturnedOf(s) = [i \in DOMAIN l |-> Return(l[i])]
      /\ ReturnedOf(s)' = [i \in DOMAIN m |-> Return(m[i])]
  BY DEF ReturnedOf
<1> HIDE DEF l, m
<1>6. /\ Len(l) \in Nat /\ DOMAIN l = 1..Len(l) /\ DOMAIN m = 1..(Len(l) + 1)
      /\ \A i \in 1..Len(l) : m[i] = l[i]
      /\ m[Len(l) + 1] = r
  BY <1>2, <1>4
<1>7. /\ ReturnedOf(s) \in Seq(T) /\ Len(ReturnedOf(s)) = Len(l)
      /\ Return(r) \in T
  <2>1. \A c \in Call : Return(c) \in T
    BY DEF Call, Return
  <2>2. \A i \in DOMAIN l : Return(l[i]) \in T
    BY <1>4, <2>1
  <2> HIDE DEF T
  <2> QED
    BY <1>2, <1>5, <1>6, <2>1, <2>2
<1>8. ReturnedOf(s)' = Append(ReturnedOf(s), Return(r))
  <2> DEFINE q == ReturnedOf(s)
  <2>1. /\ Append(q, Return(r)) \in Seq(T) /\ DOMAIN Append(q, Return(r)) = 1..(Len(l) + 1)
        /\ \A i \in 1..Len(l) : Append(q, Return(r))[i] = q[i]
        /\ Append(q, Return(r))[Len(l) + 1] = Return(r)
    <3> HIDE DEF q, T
    <3> QED
      BY <1>6, <1>7 DEF q
  <2>2. \A i \in 1..(Len(l) + 1) : Return(m[i]) = Append(q, Return(r))[i]
    <3>1. \A i \in 1..Len(l) : q[i] = Return(l[i])
      BY <1>5, <1>6
    <3> HIDE DEF q
    <3> QED
      BY <1>6, <2>1, <3>1
  <2>3. Append(q, Return(r)) = [i \in 1..(Len(l) + 1) |-> Append(q, Return(r))[i]]
    <3> HIDE DEF q, T
    <3>1. Append(q, Return(r)) \in [1..Len(Append(q, Return(r))) -> T]
      BY <2>1, LenProperties
    <3> QED
      BY <2>1, <3>1
  <2> HIDE DEF q
  <2>4. ReturnedOf(s)' = Append(q, Return(r))
    BY <1>5, <1>6, <2>2, <2>3
  <2> QED
    BY <2>4 DEF q
<1>9. \A i \in DOMAIN m : (i \in DOMAIN l /\ m[i] = l[i]) \/ m[i] = r
  BY <1>6
<1> QED
  BY <1>2, <1>4, <1>8, <1>9 DEF l, m

(* A call that returns takes its answer, or nothing, out of the session's  *)
(* files.                                                                  *)
LEMMA ReturnImplements ==
  ASSUME IInv, NEW s \in Session, StopsWaiting(s)
  PROVE  [Calls!Next]_Calls!vars
<1>1. /\ client'[s].phase # "calling" /\ host' = host
      /\ intake' = intake /\ responses' = responses
      /\ \A t \in Session : t # s => client'[t] = client[t]
  BY ReturnEffect
<1>2. \A t \in Session : t # s => log'[t] = log[t]
  <2>1. log \in [Session -> Seq(Call)]
    BY Parts DEF ClientType
  <2>2. UNCHANGED log \/ \E x : log' = [log EXCEPT ![s] = x]
    BY ReturnEffect DEF Returns
  <2> QED
    BY <2>1, <2>2
<1>3. \A t \in Session : t # s => SameCall(t)
  BY <1>1, <1>2, Undisturbed, ComputedKept
<1>4. AskedOf(s)' = None /\ ComputedFor(s)' = None /\ AnswerOf(s)' = None
  BY <1>1, IdleCallNext DEF InCall
<1>5. CASE ~InCall(s)
  <2>1. SameCall(s)
    BY <1>4, <1>5, IdleCall, ReturnEffect DEF SameCall, ReturnedOf
  <2> QED
    BY <1>3, <2>1, CallsStutter
<1>6. CASE InCall(s)
  <2>1. AskedOf(s) # None
    BY <1>6, InCallFacts
  <2>2. CASE UNCHANGED log
    <3>1. ReturnedOf(s)' = ReturnedOf(s)
      BY <2>2 DEF ReturnedOf
    <3> QED
      BY <1>3, <1>4, <2>1, <3>1, CallsStep DEF CallStep
  <2>3. CASE Readable(s, client[s].name) /\ Returns(s, responses[s][client[s].name])
    <3>1. AnswerOf(s) = responses[s][client[s].name] /\ AnswerOf(s) # None
      BY <1>6, <2>3 DEF AnswerOf, Readable
    <3>2. AnswerOf(s) \in Answer \cup {None}
      BY <1>6, <3>1, InCallFacts, Parts DEF FileType
    <3>3. ReturnedOf(s)' = Append(ReturnedOf(s),
                              [op |-> AskedOf(s), answer |-> AnswerOf(s)])
      BY <1>6, <2>3, <3>1, <3>2, ReturnLogged
    <3> QED
      BY <1>3, <1>4, <2>1, <3>1, <3>3, CallsStep DEF CallStep
  <2>4. CASE Returns(s, None)
    <3>1. ReturnedOf(s)' = Append(ReturnedOf(s), [op |-> AskedOf(s), answer |-> None])
      BY <1>6, <2>4, ReturnLogged
    <3> QED
      BY <1>3, <1>4, <2>1, <3>1, CallsStep DEF CallStep
  <2> QED
    BY <2>2, <2>3, <2>4, ReturnEffect
<1> QED
  BY <1>5, <1>6

LEMMA RemoveImplements ==
  ASSUME IInv, NEW s \in Session, ClientRemoves(s)
  PROVE  UNCHANGED Calls!vars
<1>1. ~InCall(s) /\ ~InCall(s)' /\ log' = log /\ host' = host
  BY RemoveEffect DEF InCall
<1>2. SameCall(s)
  BY <1>1, IdleCall, IdleCallNext DEF SameCall, ReturnedOf
<1>3. \A t \in Session : t # s => SameCall(t)
  BY <1>1, RemoveEffect, Undisturbed, ComputedKept
<1> QED
  BY <1>2, <1>3, CallsStutter

-----------------------------------------------------------------------------
(* What the host has in hand has no answer that its client could take.     *)
Fresh ==
    host.pc \in {"dispatch", "answer"} =>
        responses[host.at][host.name] = None \/ host.op \in Large

(* Steps of the host that write no answer to a call and compute none.      *)
LEMMA HostUnseen ==
  ASSUME IInv, UNCHANGED <<intake, client, log>>,
         \A t \in Session : \A m \in CallName : responses'[t][m] = responses[t][m],
         host.pc = "answer" => host.name \notin CallName,
         host'.pc = "answer" => host'.name \notin CallName
  PROVE  UNCHANGED Calls!vars
<1>1. ASSUME NEW t \in Session
      PROVE  ComputedFor(t) = None /\ ComputedFor(t)' = None
  <2>1. InCall(t)' = InCall(t) /\ client' = client
    BY DEF InCall
  <2>2. InCall(t) => client[t].name \in CallName
    BY InCallFacts
  <2> QED
    BY <2>1, <2>2 DEF ComputedFor
<1>2. \A t \in Session : SameCall(t)
  BY <1>1, Undisturbed
<1> QED
  BY <1>2, CallsStutter

(* The loop looks around.                                                  *)
LEMMA ScanEmptyHanded ==
  ASSUME IInv, HostTick \/ (\E s \in Session : HostVisit(s)) \/ HostLists
  PROVE  host.pc \notin {"dispatch", "answer"} /\ host'.pc \notin {"dispatch", "answer"}
<1>0. HostType /\ host \in Host /\ host.scan \subseteq Session
  BY Parts DEF HostType, Host
<1>1. \A seen \in SUBSET Session : NextSession(seen).pc \notin {"dispatch", "answer"}
  BY NextSessionType
<1>2. \A s \in host.scan : Listed(s).pc \notin {"dispatch", "answer"}
  BY <1>0, ListedType
<1>3. CASE HostTick
  BY <1>1, <1>3 DEF HostTick
<1>4. ASSUME NEW s \in Session, HostVisit(s)
      PROVE  /\ host.pc \notin {"dispatch", "answer"}
             /\ host'.pc \notin {"dispatch", "answer"}
  <2>1. host.scan \ {s} \in SUBSET Session /\ s \in host.scan /\ host.pc = "visit"
    BY <1>0, <1>4 DEF HostVisit
  <2>2. host' = [host EXCEPT !.pc = "bind", !.at = s] => host'.pc = "bind"
    BY <1>0 DEF Host
  <2> QED
    BY <1>1, <1>2, <1>4, <2>1, <2>2 DEF HostVisit
<1>5. CASE HostLists
  <2>1. host.at \in host.scan /\ host' = Listed(host.at) /\ host.pc = "list"
    BY <1>0, <1>5 DEF HostLists, HostType
  <2> QED
    BY <1>2, <2>1
<1> QED
  BY <1>3, <1>4, <1>5

LEMMA ScanImplements ==
  ASSUME IInv, HostTick \/ (\E s \in Session : HostVisit(s)) \/ HostLists
  PROVE  UNCHANGED Calls!vars
<1>1. UNCHANGED <<intake, responses, client, log>>
  BY DEF HostTick, HostVisit, HostLists, files, clients
<1> QED
  BY <1>1, ScanEmptyHanded, HostUnseen

(* Binding a session answers its attach request and no call.               *)
LEMMA BindEffect ==
  ASSUME IInv, HostBinds
  PROVE  /\ host.pc = "bind" /\ host'.pc \notin {"dispatch", "answer"}
         /\ UNCHANGED <<intake, client, log>>
         /\ \A t \in Session : \A m \in Name :
               \/ responses'[t][m] = responses[t][m]
               \/ m = AttachName /\ responses'[t][m] = OK
<1>0. /\ FileType /\ host \in Host /\ host.scan \subseteq Session
      /\ faults \in 0..MaxFaults
  BY Parts DEF HostType, Host
<1>1. /\ host.at \in Session /\ host.pc = "bind"
      /\ WriteResponse(host.at, AttachName, OK) /\ UNCHANGED <<client, log>>
  BY Parts DEF HostBinds, HostType, Host, clients
<1>2. /\ intake' = intake
      /\ \A t \in Session : \A m \in Name :
            \/ responses'[t][m] = responses[t][m]
            \/ m = AttachName /\ responses'[t][m] = OK
  BY <1>0, <1>1, ResponseWritten, NameKinds, AnswerAssumption
<1>3. host'.pc \notin {"dispatch", "answer"}
  <2>1. CASE host' = [host EXCEPT !.pc = "list"]
    BY <1>0, <2>1 DEF Host
  <2>2. CASE host' = NextSession(host.scan \ {host.at})
    <3>1. host.scan \ {host.at} \in SUBSET Session
      BY <1>0
    <3> QED
      BY <2>2, <3>1, NextSessionType
  <2> QED
    BY <2>1, <2>2 DEF HostBinds
<1> QED
  BY <1>1, <1>2, <1>3

LEMMA BindImplements ==
  ASSUME IInv, HostBinds
  PROVE  UNCHANGED Calls!vars
<1>1. \A t \in Session : \A m \in CallName : responses'[t][m] = responses[t][m]
  BY BindEffect, NameKinds
<1> QED
  BY <1>1, BindEffect, HostUnseen

(* A request is taken in hand when it has no answer that could be taken.   *)
LEMMA ReadEffect ==
  ASSUME IInv, NEW n \in Name, HostReads(n)
  PROVE  /\ host.pc = "serve"
         /\ UNCHANGED <<intake, responses, client, log>>
         /\ \/ host'.pc \notin {"dispatch", "answer"}
            \/ /\ ~Readable(host.at, n)
               /\ host'.at = host.at /\ host'.name = n /\ host'.op = intake[host.at][n]
               /\ host'.pc = "answer" => n = DetachName
<1>0. HostType /\ host \in Host /\ host.at \in host.scan /\ host.pc = "serve"
  BY Parts DEF HostReads, HostType
<1>1. UNCHANGED <<intake, responses, client, log>>
  BY DEF HostReads, files, clients
<1>2. CASE host' = NextRequest(n)
  <2>1. host'.pc \in {"idle", "visit", "serve"}
    BY <1>0, <1>2, Parts, NextRequestType DEF Names
  <2> QED
    BY <1>0, <1>1, <2>1
<1>3. CASE /\ Unanswered(host.at, n)
           /\ host' = [host EXCEPT !.name = n, !.op = intake[host.at][n],
                         !.pc = IF n = DetachName THEN "answer" ELSE "dispatch",
                         !.answer = IF n = DetachName THEN OK ELSE None]
  <2>1. /\ host'.at = host.at /\ host'.name = n /\ host'.op = intake[host.at][n]
        /\ host'.pc = IF n = DetachName THEN "answer" ELSE "dispatch"
    BY <1>0, <1>3 DEF Host
  <2> QED
    BY <1>0, <1>1, <1>3, <2>1 DEF Unanswered
<1> QED
  BY <1>2, <1>3 DEF HostReads

LEMMA ReadImplements ==
  ASSUME IInv, NEW n \in Name, HostReads(n)
  PROVE  UNCHANGED Calls!vars
BY ReadEffect, HostUnseen, NameKinds

(* A call in the host's hand has no published answer.                      *)
LEMMA FreshCall ==
  ASSUME IInv, Fresh, NEW s \in Session, InCall(s),
         host.pc \in {"dispatch", "answer"}, host.at = s, host.name = client[s].name
  PROVE  /\ AnswerOf(s) = None
         /\ intake[s][client[s].name] = host.op
<1>1. intake[s][client[s].name] = host.op
  BY InCallFacts, Parts DEF Names
<1> QED
  BY <1>1 DEF Fresh, AnswerOf, Readable

(* Dispatch computes an answer.                                            *)
LEMMA DispatchEffect ==
  ASSUME IInv, NEW answer \in Answer, HostDispatches(answer)
  PROVE  /\ UNCHANGED <<intake, responses, client, log>> /\ host.pc = "dispatch"
         /\ host'.pc = "answer" /\ host'.at = host.at /\ host'.name = host.name
         /\ host'.op = host.op /\ host'.answer = answer
         /\ host.at \in Session /\ host.name \in Name
<1>1. host \in Host /\ host.pc = "dispatch"
  BY Parts DEF HostDispatches, HostType
<1>2. host.at \in Session /\ host.name \in Name
  BY <1>1, Parts DEF HostType, Host
<1> QED
  BY <1>1, <1>2 DEF HostDispatches, Host, files, clients

LEMMA DispatchImplements ==
  ASSUME IInv, Fresh, NEW answer \in Answer, HostDispatches(answer)
  PROVE  [Calls!Next]_Calls!vars
<1> DEFINE s == host.at
<1>1. /\ UNCHANGED <<intake, responses, client, log>> /\ host.pc = "dispatch"
      /\ host'.pc = "answer" /\ host'.at = s /\ host'.name = host.name
      /\ host'.answer = answer /\ s \in Session
  BY DispatchEffect
<1>2. \A t \in Session : t # s => SameCall(t)
  BY <1>1, Undisturbed DEF ComputedFor
<1>3. CASE InCall(s) /\ host.name = client[s].name
  <2>1. AskedOf(s) # None /\ AnswerOf(s) = None
    BY <1>1, <1>3, InCallFacts, FreshCall
  <2>2. ComputedFor(s)' = answer
    BY <1>1, <1>3 DEF ComputedFor, InCall
  <2>3. AskedOf(s)' = AskedOf(s) /\ AnswerOf(s)' = AnswerOf(s) /\ ReturnedOf(s)' = ReturnedOf(s)
    BY <1>1 DEF AskedOf, AnswerOf, ReturnedOf, InCall, Readable
  <2> QED
    BY <1>1, <1>2, <2>1, <2>2, <2>3, CallsStep DEF CallStep
<1>4. CASE ~(InCall(s) /\ host.name = client[s].name)
  <2>1. ComputedFor(s) = None /\ ComputedFor(s)' = None
    BY <1>1, <1>4 DEF ComputedFor, InCall
  <2>2. SameCall(s)
    BY <1>1, <2>1, Undisturbed
  <2> QED
    BY <1>2, <2>2, CallsStutter
<1> QED
  BY <1>3, <1>4

(* Writing the answer publishes it, unless the write fails or the answer   *)
(* exceeds what a client reads.                                            *)
LEMMA AnswerEffect ==
  ASSUME IInv, HostAnswers
  PROVE  /\ host.pc = "answer" /\ host'.pc \notin {"dispatch", "answer"}
         /\ host.at \in Session /\ host.name \in Name /\ host.answer \in Answer
         /\ UNCHANGED <<intake, client, log>>
         /\ \A t \in Session : \A m \in Name :
               \/ responses'[t][m] = responses[t][m]
               \/ t = host.at /\ m = host.name /\ responses'[t][m] = host.answer
<1>0. /\ FileType /\ HostType /\ host \in Host /\ host.scan \subseteq Session
      /\ faults \in 0..MaxFaults /\ AttachName \notin host.queue
  BY Parts DEF HostType, Host, Names
<1>1. /\ host.pc = "answer" /\ host.at \in host.scan /\ host.at \in Session
      /\ host.name \in Name /\ host.answer \in Answer
      /\ WriteResponse(host.at, host.name, host.answer) /\ UNCHANGED <<client, log>>
  BY <1>0 DEF HostAnswers, HostType, Host, clients
<1>2. /\ intake' = intake
      /\ \A t \in Session : \A m \in Name :
            \/ responses'[t][m] = responses[t][m]
            \/ t = host.at /\ m = host.name /\ responses'[t][m] = host.answer
  BY <1>0, <1>1, ResponseWritten
<1>3. host'.pc \notin {"dispatch", "answer"}
  <2>1. CASE host' = NextSession(host.scan \ {host.at})
    <3>1. host.scan \ {host.at} \in SUBSET Session
      BY <1>0
    <3> QED
      BY <2>1, <3>1, NextSessionType
  <2>2. CASE host' = NextRequest(host.name)
    <3>1. host'.pc \in {"idle", "visit", "serve"}
      BY <1>0, <1>1, <2>2, NextRequestType
    <3> QED
      BY <3>1
  <2> QED
    BY <2>1, <2>2 DEF HostAnswers
<1> QED
  BY <1>1, <1>2, <1>3

LEMMA AnswerImplements ==
  ASSUME IInv, Fresh, HostAnswers
  PROVE  [Calls!Next]_Calls!vars
<1>0. PICK s \in Session : s = host.at
  BY AnswerEffect
<1> DEFINE n == client[s].name
<1>1. /\ UNCHANGED <<intake, client, log>>
      /\ host.pc = "answer" /\ host'.pc # "answer"
      /\ host.answer # None
      /\ \A t \in Session : \A m \in Name :
            \/ responses'[t][m] = responses[t][m]
            \/ t = s /\ m = host.name /\ responses'[t][m] = host.answer
  BY <1>0, AnswerEffect, NoneAssumption
<1>2. \A t \in Session : ComputedFor(t)' = None
  BY <1>1 DEF ComputedFor
<1>3. \A t \in Session : t # s => SameCall(t)
  <2>1. \A t \in Session : t # s => ComputedFor(t) = None
    BY <1>0 DEF ComputedFor
  <2> QED
    BY <1>1, <1>2, <2>1, Undisturbed, NameKinds
<1>4. ReturnedOf(s)' = ReturnedOf(s) /\ AskedOf(s)' = AskedOf(s)
  BY <1>1 DEF ReturnedOf, AskedOf, InCall
<1>5. CASE InCall(s) /\ host.name = n
  <2>1. /\ AnswerOf(s) = None /\ ComputedFor(s) = host.answer
        /\ intake[s][n] = host.op /\ n \in Name
    BY <1>0, <1>1, <1>5, FreshCall, InCallFacts DEF ComputedFor
  <2>2. AnswerOf(s)' \in {None, host.answer}
    <3>1. AnswerOf(s)' = IF responses'[s][n] # None /\ intake[s][n] \notin Large
                         THEN responses'[s][n] ELSE None
      BY <1>1, <1>5 DEF AnswerOf, InCall, Readable
    <3>2. AnswerOf(s) = IF responses[s][n] # None /\ intake[s][n] \notin Large
                        THEN responses[s][n] ELSE None
      BY <1>5 DEF AnswerOf, Readable
    <3> QED
      BY <1>1, <2>1, <3>1, <3>2
  <2>3. CallStep(s)
    BY <1>1, <1>2, <1>4, <2>1, <2>2 DEF CallStep
  <2> QED
    BY <1>1, <1>3, <2>3, CallsStep
<1>6. CASE ~(InCall(s) /\ host.name = n)
  <2>1. ComputedFor(s) = None
    BY <1>0, <1>6 DEF ComputedFor
  <2>2. CASE InCall(s)
    <3>1. responses'[s][n] = responses[s][n]
      BY <1>1, <1>6, <2>2, InCallFacts
    <3>2. SameCall(s)
      BY <1>1, <1>2, <2>1, <3>1, Undisturbed
    <3> QED
      BY <1>3, <3>2, CallsStutter
  <2>3. CASE ~InCall(s)
    <3>1. ~InCall(s)'
      BY <1>1, <2>3 DEF InCall
    <3>2. SameCall(s)
      BY <1>4, <2>3, <3>1, IdleCall, IdleCallNext DEF SameCall
    <3> QED
      BY <1>3, <3>2, CallsStutter
  <2> QED
    BY <2>2, <2>3
<1> QED
  BY <1>5, <1>6

(* A process that ends loses what it had in hand.                          *)
LEMMA ProcessEffect ==
  ASSUME IInv, HostDies \/ HostStarts
  PROVE  /\ host'.pc \notin {"dispatch", "answer"}
         /\ UNCHANGED <<intake, responses, client, log>>
         /\ host.pc = "answer" => host.at \in Session
<1>1. Idle.pc = "idle"
  BY DEF Idle
<1>2. host.pc = "answer" => host.at \in Session
  BY Parts DEF HostType, Host
<1>3. UNCHANGED <<intake, responses, client, log>>
  BY DEF HostDies, HostStarts, files, clients
<1>4. CASE HostDies
  BY <1>1, <1>2, <1>3, <1>4 DEF HostDies
<1>5. CASE HostStarts
  BY <1>2, <1>3, <1>5, Parts DEF HostStarts, HostType
<1> QED
  BY <1>4, <1>5

LEMMA ProcessImplements ==
  ASSUME IInv, HostDies \/ HostStarts
  PROVE  [Calls!Next]_Calls!vars
<1>1. /\ UNCHANGED <<intake, responses, client, log>> /\ host'.pc # "answer"
      /\ host.pc = "answer" => host.at \in Session
  BY ProcessEffect
<1>2. \A t \in Session : ComputedFor(t)' = None
  BY <1>1 DEF ComputedFor
<1>3. \A t \in Session : (host.pc = "answer" => t # host.at) => SameCall(t)
  <2>1. \A t \in Session : (host.pc = "answer" => t # host.at) => ComputedFor(t) = None
    BY DEF ComputedFor
  <2> QED
    BY <1>1, <1>2, <2>1, Undisturbed
<1>4. CASE host.pc = "answer"
  <2>1. PICK s \in Session : s = host.at
    BY <1>1, <1>4
  <2>2. UNCHANGED <<AskedOf(s), AnswerOf(s), ReturnedOf(s)>>
    BY <1>1 DEF AskedOf, AnswerOf, ReturnedOf, InCall, Readable
  <2>3. CallStep(s)
    BY <1>2, <2>2 DEF CallStep
  <2> QED
    BY <1>3, <2>1, <2>3, CallsStep
<1>5. CASE host.pc # "answer"
  BY <1>3, <1>5, CallsStutter
<1> QED
  BY <1>4, <1>5

-----------------------------------------------------------------------------
(* A call that returned with an answer keeps it on file, as long as the    *)
(* session lives: it is never taken in hand again.                         *)
Taken(s, n) == n \in CallName /\ intake[s][n] # None /\ Readable(s, n)

Answered ==
    \A s \in Session : InSession(s) =>
        \A i \in DOMAIN log[s] : log[s][i].answer # None => Taken(s, log[s][i].name)

CInv == IInv /\ Fresh /\ Answered

(* Clients put no answers on file.                                         *)
LEMMA ClientsFresh ==
  ASSUME IInv, Fresh, NEW s \in Session, ClientStep(s)
  PROVE  Fresh'
<1>1. host' = host /\ \A t \in Session : \A m \in Name :
                        responses[t][m] = None => responses'[t][m] = None
  <2>1. CASE AsksSomething(s)
    <3>1. PICK n \in Name, op \in Operation, phase \in Phases, k \in 0..MaxCalls :
            Asks(s, n, op, phase, k)
      BY <2>1, AskShape
    <3> QED
      BY <2>1, <3>1, AskEffect
         DEF AsksSomething, ClientAttaches, ClientDetaches, ClientCalls
  <2>2. CASE StopsWaiting(s)
    BY <2>2, ReturnEffect
  <2>3. CASE ClientRemoves(s)
    BY <2>3, RemoveEffect
  <2> QED
    BY <2>1, <2>2, <2>3 DEF ClientStep, AsksSomething, StopsWaiting
<1>2. host.pc \in {"dispatch", "answer"} => host.at \in Session /\ host.name \in Name
  BY Parts DEF HostType, Host
<1> QED
  BY <1>1, <1>2 DEF Fresh

(* The host takes in hand what has no answer.                              *)
LEMMA HostFresh ==
  ASSUME IInv, Fresh,
         HostLoop \/ HostDies \/ HostStarts \/ (\E a \in Answer : HostDispatches(a))
  PROVE  Fresh'
<1>1. ASSUME NEW n \in Name, HostReads(n)
      PROVE  Fresh'
  <2>1. CASE host'.pc \notin {"dispatch", "answer"}
    BY <2>1 DEF Fresh
  <2>2. CASE host'.pc \in {"dispatch", "answer"}
    BY <1>1, <2>2, ReadEffect DEF Fresh, Readable
  <2> QED
    BY <2>1, <2>2
<1>2. ASSUME NEW a \in Answer, HostDispatches(a)
      PROVE  Fresh'
  BY <1>2, DispatchEffect DEF Fresh
<1>3. CASE host'.pc \notin {"dispatch", "answer"}
  BY <1>3 DEF Fresh
<1> QED
  BY <1>1, <1>2, <1>3, ScanEmptyHanded, BindEffect, AnswerEffect, ProcessEffect
     DEF HostLoop

(* The host writes answers and removes none.                               *)
LEMMA HostLeaves ==
  ASSUME IInv,
         HostLoop \/ HostDies \/ HostStarts \/ (\E a \in Answer : HostDispatches(a))
  PROVE  /\ UNCHANGED <<intake, client, log>>
         /\ \A t \in Session : \A m \in Name :
               responses[t][m] # None => responses'[t][m] # None
<1>1. CASE HostTick \/ (\E s \in Session : HostVisit(s)) \/ HostLists
  BY <1>1 DEF HostTick, HostVisit, HostLists, files, clients
<1>2. CASE HostBinds
  BY <1>2, BindEffect, AnswerAssumption, NoneAssumption
<1>3. CASE HostAnswers
  BY <1>3, AnswerEffect, NoneAssumption
<1>4. ASSUME NEW n \in Name, HostReads(n)
      PROVE  UNCHANGED <<intake, responses, client, log>>
  BY <1>4, ReadEffect
<1>5. ASSUME NEW a \in Answer, HostDispatches(a)
      PROVE  UNCHANGED <<intake, responses, client, log>>
  BY <1>5, DispatchEffect
<1>6. CASE HostDies \/ HostStarts
  BY <1>6, ProcessEffect
<1> QED
  BY <1>1, <1>2, <1>3, <1>4, <1>5, <1>6 DEF HostLoop

LEMMA HostAnswered ==
  ASSUME IInv, Answered,
         HostLoop \/ HostDies \/ HostStarts \/ (\E a \in Answer : HostDispatches(a))
  PROVE  Answered'
<1>1. /\ UNCHANGED <<intake, client, log>>
      /\ \A t \in Session : \A m \in Name :
            responses[t][m] # None => responses'[t][m] # None
  BY HostLeaves
<1>2. \A t \in Session : \A m : Taken(t, m) => Taken(t, m)'
  BY <1>1, NameKinds DEF Taken, Readable
<1>3. \A t \in Session : InSession(t)' = InSession(t)
  BY <1>1 DEF InSession
<1> QED
  BY <1>1, <1>2, <1>3 DEF Answered

(* A request that has been answered is not written over, and a call that   *)
(* returns with an answer has it from its file.                            *)
LEMMA AsksAnswered ==
  ASSUME IInv, Answered, NEW s \in Session, AsksSomething(s)
  PROVE  Answered'
<1>1. PICK n \in Name, op \in Operation, phase \in Phases, k \in 0..MaxCalls :
        Asks(s, n, op, phase, k)
  BY AskShape
<1>2. /\ responses' = responses
      /\ \A t \in Session : \A m \in Name :
            t # s \/ m # n => intake'[t][m] = intake[t][m]
      /\ \A t \in Session : t # s => client'[t] = client[t]
      /\ NewRequest(s, n)
  BY <1>1, AskEffect
<1>3. log' = log
  BY DEF AsksSomething, ClientAttaches, ClientDetaches, ClientCalls
<1>4. ~Taken(s, n)
  <2>1. SUFFICES ASSUME n \in CallName, intake[s][n] # None PROVE FALSE
    BY DEF Taken
  <2>2. n <= client[s].calls /\ n > client[s].calls
    BY <1>2, <2>1, Parts DEF Names, Stands, NewRequest
  <2>3. n \in Nat /\ client[s].calls \in Nat
    BY <2>1, Parts, BoundsAssumption DEF CallName
  <2> QED
    BY <2>2, <2>3
<1>5. \A t \in Session : \A m : Taken(t, m) => Taken(t, m)'
  <2>1. ASSUME NEW t \in Session, NEW m, Taken(t, m)
        PROVE  Taken(t, m)'
    <3>1. m \in Name /\ (t # s \/ m # n)
      BY <1>4, <2>1, NameKinds DEF Taken
    <3>2. intake'[t][m] = intake[t][m]
      BY <1>2, <3>1
    <3> QED
      BY <1>2, <2>1, <3>2 DEF Taken, Readable
  <2> QED
    BY <2>1
<1>6. \A t \in Session : InSession(t)' => InSession(t)
  BY <1>1, <1>2 DEF Asks, InSession
<1> QED
  BY <1>3, <1>5, <1>6 DEF Answered

(* A client that stops waiting is in its session or out of it for good.    *)
LEMMA StaysOut ==
  ASSUME IInv, NEW s \in Session, StopsWaiting(s)
  PROVE  InSession(s) \/ client'[s].phase \in {"gone", "failed", "killed"}
<1>1. client \in [Session -> Client]
  BY Parts DEF ClientType
<1>2. CASE ClientIsAnswered(s) \/ ClientGivesUp(s)
  BY <1>2 DEF ClientIsAnswered, ClientGivesUp, Waiting, InSession
<1>3. CASE ClientEnds(s)
  BY <1>1, <1>3, PhaseChanged DEF ClientEnds, Moves, Phases
<1>4. CASE ClientIsKilled(s)
  <2>1. {} \in SUBSET {"intake", "responses"} /\ "killed" \in Phases
    BY DEF Phases
  <2> QED
    BY <1>1, <1>4, <2>1, PhaseChanged DEF ClientIsKilled
<1> QED
  BY <1>2, <1>3, <1>4 DEF StopsWaiting

LEMMA ReturnsAnswered ==
  ASSUME IInv, Answered, NEW s \in Session, StopsWaiting(s)
  PROVE  Answered'
<1>1. /\ UNCHANGED <<intake, responses>>
      /\ \A t \in Session : t # s => client'[t] = client[t]
  BY ReturnEffect
<1>2. \A t \in Session : \A m : Taken(t, m) => Taken(t, m)'
  BY <1>1 DEF Taken, Readable
<1>3. \A t \in Session : InSession(t)' => InSession(t)
  BY <1>1, StaysOut DEF InSession
<1>4. CASE UNCHANGED log
  BY <1>2, <1>3, <1>4 DEF Answered
<1>5. ASSUME NEW a \in Answer \cup {None}, InCall(s), Returns(s, a),
             a # None => Readable(s, client[s].name)
      PROVE  Answered'
  <2>1. /\ \A t \in Session : t # s => log'[t] = log[t]
        /\ \A i \in DOMAIN log'[s] :
              \/ i \in DOMAIN log[s] /\ log'[s][i] = log[s][i]
              \/ log'[s][i].name = client[s].name /\ log'[s][i].answer = a
    BY <1>5, ReturnLogged
  <2>2. a # None => Taken(s, client[s].name)
    BY <1>5, InCallFacts DEF Taken
  <2>3. ASSUME NEW t \in Session, InSession(t)', NEW i \in DOMAIN log'[t],
               log'[t][i].answer # None
        PROVE  Taken(t, log[t][i].name)'
    <3>1. CASE i \in DOMAIN log[t] /\ log'[t][i] = log[t][i]
      <4>1. Taken(t, log[t][i].name)
        BY <1>3, <2>3, <3>1 DEF Answered
      <4>2. Taken(t, log'[t][i].name)
        BY <3>1, <4>1
      <4> QED
        BY <1>1, <4>2 DEF Taken, Readable
    <3>2. CASE t = s /\ log'[t][i].name = client[s].name /\ log'[t][i].answer = a
      <4>1. Taken(t, log'[t][i].name)
        BY <2>2, <2>3, <3>2
      <4> QED
        BY <1>1, <4>1 DEF Taken, Readable
    <3> QED
      BY <2>1, <2>3, <3>1, <3>2
  <2> QED
    BY <2>3 DEF Answered
<1>6. CASE InCall(s) /\ Readable(s, client[s].name) /\ Returns(s, responses[s][client[s].name])
  <2>1. responses[s][client[s].name] \in Answer \cup {None}
    BY <1>6, InCallFacts, Parts DEF FileType
  <2> QED
    BY <1>5, <1>6, <2>1
<1> QED
  BY <1>4, <1>5, <1>6, ReturnEffect

LEMMA RemovesAnswered ==
  ASSUME IInv, Answered, NEW s \in Session, ClientRemoves(s)
  PROVE  Answered'
<1>1. /\ ~InSession(s)' /\ log' = log
      /\ \A t \in Session : t # s => /\ client'[t] = client[t]
                                    /\ intake'[t] = intake[t]
                                    /\ responses'[t] = responses[t]
  BY RemoveEffect DEF InSession
<1>2. \A t \in Session : t # s =>
        InSession(t)' = InSession(t) /\ \A m : Taken(t, m) => Taken(t, m)'
  BY <1>1 DEF InSession, Taken, Readable
<1> QED
  BY <1>1, <1>2 DEF Answered

-----------------------------------------------------------------------------
THEOREM CallInvariance == Spec => []CInv
<1>1. Init => Fresh /\ Answered
  <2>1. Idle.pc = "idle"
    BY DEF Idle
  <2> QED
    BY <2>1 DEF Init, Fresh, Answered
<1>2. CInv /\ [Next]_vars /\ IInv' => CInv'
  <2> SUFFICES ASSUME CInv, [Next]_vars PROVE Fresh' /\ Answered'
    BY DEF CInv
  <2>0. IInv /\ Fresh /\ Answered
    BY DEF CInv
  <2>1. CASE UNCHANGED vars
    BY <2>0, <2>1 DEF vars, files, clients, Fresh, Answered, InSession, Taken, Readable
  <2>2. CASE HostLoop \/ HostDies \/ HostStarts \/ (\E a \in Answer : HostDispatches(a))
    BY <2>0, <2>2, HostFresh, HostAnswered
  <2>3. ASSUME NEW s \in Session, ClientStep(s)
        PROVE  Fresh' /\ Answered'
    BY <2>0, <2>3, ClientsFresh, AsksAnswered, ReturnsAnswered, RemovesAnswered
       DEF ClientStep, AsksSomething, StopsWaiting
  <2> QED
    BY <2>1, <2>2, <2>3 DEF Next
<1>3. CInv => IInv
  BY DEF CInv
<1> QED
  BY <1>1, <1>2, <1>3, Invariance, PTL DEF Spec, CInv

(* No call is dispatched once its client has the answer, through restarts  *)
(* and rebindings: what the host has in hand has no answer that could have *)
(* been taken, and what was taken stays on file (serviceSession).          *)
THEOREM AnsweredOnce == Spec => AnsweredIsNotRepeated
<1>1. CInv => [\A s \in Session : client[s].phase \in {"attached", "calling", "detaching"} =>
                \A i \in DOMAIN log[s] :
                    log[s][i].answer # None => ~Dispatched(s, log[s][i].name)]_vars
  <2> SUFFICES ASSUME CInv, NEW s \in Session,
                      client[s].phase \in {"attached", "calling", "detaching"},
                      NEW i \in DOMAIN log[s], log[s][i].answer # None,
                      Dispatched(s, log[s][i].name)
               PROVE  FALSE
    OBVIOUS
  <2> DEFINE n == log[s][i].name
  <2>1. Taken(s, n) /\ Fresh /\ IInv
    BY DEF CInv, Answered, InSession
  <2>2. host.pc = "dispatch" /\ host.at = s /\ host.name = n
    BY DEF Dispatched
  <2>3. responses[s][n] # None /\ intake[s][n] \notin Large /\ intake[s][n] # None
    BY <2>1 DEF Taken, Readable
  <2>4. intake[s][n] = host.op
    BY <2>1, <2>2, <2>3, Parts DEF Names
  <2> QED
    BY <2>1, <2>2, <2>3, <2>4 DEF Fresh
<1> QED
  BY <1>1, CallInvariance, PTL DEF AnsweredIsNotRepeated

-----------------------------------------------------------------------------
(* How often the supervisor is called for one call: once, and once more for*)
(* each death or failed write, which may lose an answer it had, and once   *)
(* for the answers that a client removes with its session.                 *)
Forgets(s) ==
    ~InSession(s) /\ ~(client[s].phase = "removing" /\ "responses" \in client[s].todo)

Spent(s, n) ==
    responses[s][n] # None \/ (host.pc = "answer" /\ host.at = s /\ host.name = n)

Room(s, n) ==
    faults + (IF Forgets(s) THEN 1 ELSE 0) + (IF Spent(s, n) THEN 1 ELSE 0)

Bounded == \A s \in Session : \A n \in Name : signals[s][n] <= Room(s, n)

(* A step that takes no room away, or as much as it makes.                 *)
Roomy ==
    /\ faults' \in {faults, faults + 1}
    /\ \A s \in Session : Forgets(s) => Forgets(s)'
    /\ \A s \in Session : \A n \in Name :
          \/ Spent(s, n) => Spent(s, n)'
          \/ faults' = faults + 1
          \/ ~Forgets(s) /\ Forgets(s)'

LEMMA Traded ==
  ASSUME NEW k \in Nat, NEW l \in {k, k + 1},
         NEW f1 \in {0, 1}, NEW f2 \in {0, 1}, NEW g1 \in {0, 1}, NEW g2 \in {0, 1},
         f1 = 1 => f2 = 1,
         (g1 = 1 => g2 = 1) \/ l = k + 1 \/ (f1 = 0 /\ f2 = 1)
  PROVE  /\ k + f1 + g1 \in Nat /\ l + f2 + g2 \in Nat
         /\ k + f1 + g1 <= l + f2 + g2
<1>1. l \in Nat /\ k <= l /\ l <= k + 1
  OBVIOUS
<1>2. CASE g1 = 1 => g2 = 1
  BY <1>1, <1>2
<1>3. CASE l = k + 1
  BY <1>1, <1>3
<1>4. CASE f1 = 0 /\ f2 = 1
  BY <1>1, <1>4
<1> QED
  BY <1>2, <1>3, <1>4

LEMMA RoomKept ==
  ASSUME faults \in Nat, Roomy, NEW s \in Session, NEW n \in Name
  PROVE  /\ Room(s, n) \in Nat /\ Room(s, n)' \in Nat
         /\ Room(s, n) <= Room(s, n)'
<1>1. /\ faults \in Nat /\ faults' \in {faults, faults + 1}
      /\ Forgets(s) => Forgets(s)'
      /\ \/ Spent(s, n) => Spent(s, n)'
         \/ faults' = faults + 1
         \/ ~Forgets(s) /\ Forgets(s)'
  BY DEF Roomy
<1> DEFINE f == IF Forgets(s) THEN 1 ELSE 0
           g == IF Spent(s, n) THEN 1 ELSE 0
<1>2. /\ f \in {0, 1} /\ f' \in {0, 1} /\ g \in {0, 1} /\ g' \in {0, 1}
      /\ f = 1 => f' = 1
      /\ \/ g = 1 => g' = 1
         \/ faults' = faults + 1
         \/ f = 0 /\ f' = 1
  <2>1. CASE Forgets(s)
    BY <1>1, <2>1
  <2>2. CASE ~Forgets(s)
    BY <1>1, <2>2
  <2> QED
    BY <2>1, <2>2
<1>3. Room(s, n) = faults + f + g /\ Room(s, n)' = faults' + f' + g'
  BY DEF Room
<1>4. faults \in Nat /\ faults' \in {faults, faults + 1}
  BY DEF Roomy
<1> HIDE DEF f, g
<1>5. /\ faults + f + g \in Nat /\ faults' + f' + g' \in Nat
      /\ faults + f + g <= faults' + f' + g'
  BY <1>2, <1>4, Traded
<1> QED
  BY <1>3, <1>5

LEMMA RoomyBounded ==
  ASSUME IInv, Bounded, Roomy, UNCHANGED signals
  PROVE  Bounded'
<1>1. faults \in Nat /\ EngineType
  BY Parts, BoundsAssumption
<1>2. ASSUME NEW s \in Session, NEW n \in Name
      PROVE  signals'[s][n] <= Room(s, n)'
  <2>1. signals[s][n] \in Nat /\ signals[s][n] <= Room(s, n)
    BY <1>1 DEF EngineType, Bounded
  <2>2. /\ Room(s, n) \in Nat /\ Room(s, n)' \in Nat
        /\ Room(s, n) <= Room(s, n)'
    BY <1>1, RoomKept
  <2>3. signals[s][n] <= Room(s, n)'
    BY <2>1, <2>2
  <2> QED
    BY <2>3
<1> QED
  BY <1>2 DEF Bounded

(* The host loses an answer it has in hand by its death or a failed write. *)
LEMMA HostRoomy ==
  ASSUME IInv, HostLoop \/ HostDies \/ HostStarts
  PROVE  Roomy /\ UNCHANGED signals
<1>1. /\ UNCHANGED client
      /\ \A t \in Session : \A m \in Name :
            responses[t][m] # None => responses'[t][m] # None
  BY HostLeaves
<1>2. UNCHANGED signals /\ faults' \in {faults, faults + 1}
  BY DEF HostLoop, HostDies, HostStarts, HostTick, HostBinds, HostLists, HostAnswers,
         HostVisit, HostReads, WriteResponse, engine
<1>3. \A s \in Session : Forgets(s)' = Forgets(s)
  BY <1>1 DEF Forgets, InSession
<1>4. CASE host.pc # "answer"
  <2>1. \A s \in Session : \A n \in Name : Spent(s, n) => Spent(s, n)'
    BY <1>1, <1>4 DEF Spent
  <2> QED
    BY <1>2, <1>3, <2>1 DEF Roomy
<1>5. CASE faults' = faults + 1
  BY <1>2, <1>3, <1>5 DEF Roomy
<1>6. CASE host.pc = "answer" /\ faults' # faults + 1
  <2>1. HostAnswers
    BY <1>6, Parts DEF HostLoop, HostDies, HostStarts, HostTick, HostBinds, HostLists,
                       HostVisit, HostReads, HostType
  <2>2. /\ host.at \in Session /\ host.name \in Name /\ host.answer # None
    BY <1>6, Parts, NoneAssumption DEF HostType, Host
  <2>3. PICK s \in Session, n \in Name : s = host.at /\ n = host.name
    BY <2>2
  <2>4. responses' = [responses EXCEPT ![s][n] = host.answer]
    BY <1>6, <2>1, <2>3 DEF HostAnswers, WriteResponse
  <2>5. responses'[s][n] = host.answer
    BY <2>4, Parts DEF FileType
  <2>6. \A t \in Session : \A m \in Name : Spent(t, m) => Spent(t, m)'
    BY <1>1, <2>2, <2>3, <2>5 DEF Spent
  <2> QED
    BY <1>2, <1>3, <2>6 DEF Roomy
<1> QED
  BY <1>4, <1>5, <1>6

(* A client loses answers only with the directory it removes them in.      *)
LEMMA ClientRoomy ==
  ASSUME IInv, NEW s \in Session, ClientStep(s)
  PROVE  Roomy /\ UNCHANGED signals
<1>1. CASE AsksSomething(s)
  <2>1. PICK n \in Name, op \in Operation, phase \in Phases, k \in 0..MaxCalls :
          Asks(s, n, op, phase, k)
    BY <1>1, AskShape
  <2>2. responses' = responses /\ \A t \in Session : t # s => client'[t] = client[t]
    BY <2>1, AskEffect
  <2>3. UNCHANGED <<faults, host, signals>>
    BY <1>1 DEF engine, AsksSomething, ClientAttaches, ClientDetaches, ClientCalls
  <2>4. ~Forgets(s)
    BY <2>1 DEF Asks, Forgets, InSession
  <2>5. \A t \in Session : Forgets(t) => Forgets(t)'
    BY <2>2, <2>4 DEF Forgets, InSession
  <2>6. \A t \in Session : \A m \in Name : Spent(t, m)' = Spent(t, m)
    BY <2>2, <2>3 DEF Spent
  <2> QED
    BY <2>3, <2>5, <2>6 DEF Roomy
<1>2. CASE StopsWaiting(s)
  <2>1. /\ UNCHANGED <<host, responses, signals>>
        /\ \A t \in Session : t # s => client'[t] = client[t]
    BY <1>2, ReturnEffect
  <2>2. faults' \in {faults, faults + 1}
    BY <1>2 DEF StopsWaiting, ClientIsAnswered, ClientGivesUp, ClientEnds, ClientIsKilled
  <2>3. Forgets(s) => Forgets(s)'
    BY <1>2, StaysOut DEF Forgets, InSession
  <2>4. \A t \in Session : Forgets(t) => Forgets(t)'
    BY <2>1, <2>3 DEF Forgets, InSession
  <2>5. \A t \in Session : \A m \in Name : Spent(t, m)' = Spent(t, m)
    BY <2>1 DEF Spent
  <2> QED
    BY <2>1, <2>2, <2>4, <2>5 DEF Roomy
<1>3. CASE ClientRemoves(s)
  <2>1. /\ client[s].phase = "removing" /\ client'[s].phase = "removing"
        /\ client'[s].todo \subseteq client[s].todo
        /\ \/ responses' = responses
           \/ "responses" \in client[s].todo /\ "responses" \notin client'[s].todo
        /\ \A t \in Session : t # s => /\ client'[t] = client[t]
                                      /\ responses'[t] = responses[t]
        /\ UNCHANGED <<faults, host, signals>>
    BY <1>3, RemoveEffect
  <2>2. Forgets(s) => Forgets(s)'
    BY <2>1 DEF Forgets, InSession
  <2>3. \A t \in Session : Forgets(t) => Forgets(t)'
    BY <2>1, <2>2 DEF Forgets, InSession
  <2>4. responses' = responses \/ (~Forgets(s) /\ Forgets(s)')
    BY <2>1 DEF Forgets, InSession
  <2>5. \A t \in Session : \A m \in Name :
          (Spent(t, m) => Spent(t, m)') \/ (~Forgets(t) /\ Forgets(t)')
    BY <2>1, <2>4 DEF Spent
  <2> QED
    BY <2>1, <2>3, <2>5 DEF Roomy
<1> QED
  BY <1>1, <1>2, <1>3 DEF ClientStep, AsksSomething, StopsWaiting

(* What is dispatched has no answer yet, and is answered next.             *)
LEMMA DispatchBounded ==
  ASSUME IInv, Fresh, Bounded, NEW answer \in Answer, HostDispatches(answer)
  PROVE  Bounded'
<1>0. /\ HostType /\ EngineType /\ faults \in Nat
      /\ host.at \in Session /\ host.name \in Name /\ host.pc = "dispatch"
      /\ host.op \in Operation
  BY Parts, BoundsAssumption DEF HostDispatches, HostType, Host
<1>1. PICK s \in Session, n \in Name : s = host.at /\ n = host.name
  BY <1>0
<1>2. /\ host'.pc = "answer" /\ host'.at = s /\ host'.name = n
      /\ UNCHANGED <<faults, responses, client>>
  BY <1>0, <1>1 DEF HostDispatches, HostType, Host, files, clients
<1>3. \A t \in Session : Forgets(t)' = Forgets(t)
  BY <1>2 DEF Forgets, InSession
<1>4. \A t \in Session : \A m \in Name : Spent(t, m) => Spent(t, m)'
  BY <1>0, <1>2 DEF Spent
<1>5. Roomy
  BY <1>2, <1>3, <1>4 DEF Roomy
<1>6. CASE UNCHANGED signals
  BY <1>5, <1>6, RoomyBounded
<1>7. CASE host.op.kind = "stop"
  <2>1. host.op.arg \in RequestID /\ host.op \notin Large
    BY <1>0, <1>7, OpAssumption, Reserved DEF Operation
  <2>2. StopRun(host.op.arg, answer)
    BY <1>7 DEF HostDispatches
  <2>3. \A t \in Session : \A m \in Name :
          \/ signals'[t][m] = signals[t][m]
          \/ t = s /\ m = n /\ signals'[t][m] = signals[t][m] + 1
    BY <1>0, <1>1, <2>1, <2>2, StopRunEffect
  <2>4. ~Spent(s, n)
    BY <1>0, <1>1, <2>1 DEF Fresh, Spent
  <2>5. Spent(s, n)'
    BY <1>2 DEF Spent
  <2>6. ASSUME NEW t \in Session, NEW m \in Name
        PROVE  signals'[t][m] <= Room(t, m)'
    <3>1. signals[t][m] \in Nat /\ signals[t][m] <= Room(t, m)
      BY <1>0 DEF EngineType, Bounded
    <3>2. /\ Room(t, m) \in Nat /\ Room(t, m)' \in Nat
          /\ Room(t, m) <= Room(t, m)'
      BY <1>0, <1>5, RoomKept
    <3>3. CASE signals'[t][m] = signals[t][m]
      BY <3>1, <3>2, <3>3
    <3>4. CASE t = s /\ m = n /\ signals'[t][m] = signals[t][m] + 1
      <4>1. Room(s, n)' = Room(s, n) + 1
        BY <1>0, <1>2, <1>3, <2>4, <2>5 DEF Room
      <4> QED
        BY <3>1, <3>2, <3>4, <4>1
    <3> QED
      BY <2>3, <3>3, <3>4
  <2> QED
    BY <2>6 DEF Bounded
<1>8. host.op.kind = "stop" \/ UNCHANGED signals
  BY DEF HostDispatches, Submit, engine
<1> QED
  BY <1>6, <1>7, <1>8

(* What a client is told of its commands is true, through restarts,        *)
(* repeats and cancelled calls: an OK stands for a change the engine has   *)
(* committed, one to a stop for a call of the supervisor under the same    *)
(* name.  The supervisor is called once for a stop, and once more only for *)
(* a death, a failed write or a session that is being removed (roundTrip,  *)
(* Dispatch, StopRun and serviceSession).                                  *)
THEOREM TrueAnswers == Spec => []AnswersAreTrue
<1>1. Init => Bounded
  <2> SUFFICES ASSUME Init PROVE Bounded
    OBVIOUS
  <2>1. \A s \in Session : \A n \in Name : signals[s][n] = 0
    BY DEF Init
  <2>2. \A s \in Session : \A n \in Name : Room(s, n) >= 0
    BY DEF Init, Room
  <2> QED
    BY <2>1, <2>2 DEF Bounded
<1>2. CInv /\ Bounded /\ [Next]_vars => Bounded'
  <2> SUFFICES ASSUME IInv, Fresh, Bounded, [Next]_vars PROVE Bounded'
    BY DEF CInv
  <2>1. CASE UNCHANGED vars
    BY <2>1 DEF vars, files, clients, engine, Bounded, Room, Forgets, InSession, Spent
  <2>2. CASE HostLoop \/ HostDies \/ HostStarts
    BY <2>2, HostRoomy, RoomyBounded
  <2>3. ASSUME NEW a \in Answer, HostDispatches(a)
        PROVE  Bounded'
    BY <2>3, DispatchBounded
  <2>4. ASSUME NEW s \in Session, ClientStep(s)
        PROVE  Bounded'
    BY <2>4, ClientRoomy, RoomyBounded
  <2> QED
    BY <2>1, <2>2, <2>3, <2>4 DEF Next
<1>3. CInv /\ Bounded => AnswersAreTrue
  <2> SUFFICES ASSUME IInv, Bounded, NEW s \in Session
               PROVE  /\ \A i \in DOMAIN log[s] : Truthful(s, log[s][i])
                      /\ \A n \in Name :
                            signals[s][n] <= faults + (IF InSession(s) THEN 1 ELSE 2)
    BY DEF CInv, AnswersAreTrue
  <2>1. \A i \in DOMAIN log[s] : Truthful(s, log[s][i])
    BY Parts DEF Truths, Truth, Truthful
  <2>2. ASSUME NEW n \in Name
        PROVE  signals[s][n] <= faults + (IF InSession(s) THEN 1 ELSE 2)
    <3>1. /\ signals[s][n] \in Nat /\ faults \in Nat
          /\ signals[s][n] <= Room(s, n)
      BY Parts, BoundsAssumption DEF EngineType, Bounded
    <3>2. Forgets(s) => ~InSession(s)
      BY DEF Forgets
    <3> QED
      BY <3>1, <3>2 DEF Room
  <2> QED
    BY <2>1, <2>2
<1> QED
  BY <1>1, <1>2, <1>3, CallInvariance, PTL DEF Spec

(* What clients see of their calls is RemoteCall: an answer is computed    *)
(* for a call that waits, published once, and taken, given up or abandoned *)
(* by the caller it was computed for (Client.roundTrip, Host.tick).        *)
THEOREM Implementation == Spec => ImplementsCalls
<1>1. Init => Calls!Init
  <2> SUFFICES ASSUME Init PROVE Calls!Init
    OBVIOUS
  <2>1. ASSUME NEW s \in Session
        PROVE  /\ AskedOf(s) = None /\ ComputedFor(s) = None /\ AnswerOf(s) = None
               /\ ReturnedOf(s) = <<>>
    <3>1. ~InCall(s) /\ log[s] = <<>>
      BY DEF Init, InCall
    <3>2. DOMAIN log[s] = {}
      BY <3>1
    <3>3. ReturnedOf(s) = <<>>
      BY <3>2 DEF ReturnedOf
    <3> QED
      BY <3>1, <3>3, IdleCall
  <2> QED
    BY <2>1 DEF Calls!Init, asked, computed, published, returned
<1>2. CInv /\ [Next]_vars => [Calls!Next]_Calls!vars
  <2> SUFFICES ASSUME CInv, [Next]_vars PROVE [Calls!Next]_Calls!vars
    OBVIOUS
  <2>0. IInv /\ Fresh
    BY DEF CInv
  <2>1. CASE UNCHANGED vars
    <3>1. UNCHANGED <<intake, responses, client, log, host>>
      BY <2>1 DEF vars, files, clients
    <3>2. \A s \in Session : SameCall(s)
      BY <2>0, <3>1, Undisturbed, ComputedKept
    <3> QED
      BY <3>2, CallsStutter
  <2>2. CASE HostLoop
    BY <2>0, <2>2, ScanImplements, BindImplements, ReadImplements, AnswerImplements
       DEF HostLoop
  <2>3. CASE HostDies \/ HostStarts \/ (\E a \in Answer : HostDispatches(a))
    BY <2>0, <2>3, ProcessImplements, DispatchImplements
  <2>4. ASSUME NEW s \in Session, ClientStep(s)
        PROVE  [Calls!Next]_Calls!vars
    BY <2>0, <2>4, AskImplements, ReturnImplements, RemoveImplements
       DEF ClientStep, AsksSomething, StopsWaiting
  <2> QED
    BY <2>1, <2>2, <2>3, <2>4 DEF Next
<1> QED
  BY <1>1, <1>2, CallInvariance, PTL DEF Spec, ImplementsCalls, Calls!Spec

=============================================================================
