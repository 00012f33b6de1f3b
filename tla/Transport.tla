----------------------------- MODULE Transport -----------------------------
(***************************************************************************)
(* The file transport of `harnessing serve`: Host.Run, its tick and        *)
(* Dispatch on one side, Client.Attach, roundTrip and Detach on the other  *)
(* (src/internal/adapters/transport).                                      *)
(*                                                                         *)
(* A session is a directory that its client creates and removes.  Every    *)
(* call is one file in intake/, renamed into place, and its answer a file  *)
(* of the same name in responses/.  The host is one loop: it lists the     *)
(* session directories, binds those it does not know, and handles the      *)
(* requests of one session after the other, each in three steps that the   *)
(* clients' steps and the end of the process may separate: it reads the    *)
(* request, dispatches it to the engine and writes the answer.  Which      *)
(* sessions are bound is known to the process alone.                       *)
(*                                                                         *)
(* A call dispatched again reaches the engine with the same request ID.  A *)
(* command ends in its ledger, CommandLedger; StopRun goes on from there   *)
(* to the supervisor, each time it is dispatched (RunLifecycle has what    *)
(* becomes of the run).                                                    *)
(***************************************************************************)
EXTENDS Naturals, Sequences

CONSTANTS Session,
          RequestID,  \* of commands, chosen by the callers
          Op,         \* what a client may call
          Answer,     \* what Dispatch may return
          None,
          OK, Failed, \* the answers to a command
          Timed,      \* operations called with a deadline
          Large,      \* operations whose answer exceeds maxEnvelopeBytes
          Long,       \* operations whose request exceeds it
          MaxCalls,   \* bound of the model: calls of one session
          MaxFaults   \* bound of the model: deaths of processes, failed writes

(* The reserved names attach and detach, and one random name per call.     *)
AttachName == 0
DetachName == MaxCalls + 1
Name == AttachName..DetachName
Attach == [kind |-> "attach", arg |-> None]
Detach == [kind |-> "detach", arg |-> None]
Command(q) == [kind |-> "command", arg |-> q]
Stop(q) == [kind |-> "stop", arg |-> q]
Operation == Op \cup {Attach, Detach}

ASSUME BoundsAssumption == MaxCalls \in Nat /\ MaxFaults \in Nat
ASSUME OpAssumption ==
    /\ Timed \cup Large \cup Long \subseteq Op
    /\ \A op \in Op : op.kind \in {"command", "stop"} =>
                        op.arg \in RequestID /\ op \notin Large
ASSUME AnswerAssumption == {OK, Failed} \subseteq Answer /\ OK # Failed
ASSUME NoneAssumption == /\ None \notin Operation /\ None \notin Answer
                         /\ None \notin Session /\ None \notin Name

VARIABLES
    up,         \* a host process runs and holds the workspace
    faults,     \* deaths of processes and failed writes so far
    bound,      \* Run's map of bound sessions
    host,       \* where its loop is
    intake, responses, \* the files of each session
    tree,       \* the directories of each session that exist
    client, log, \* each client, and the calls that returned to it
    ledger,     \* the request IDs of the changes the engine has committed
    signals     \* history: how often the supervisor was called for a call

files == <<intake, responses, tree>>
clients == <<client, log>>
engine == <<ledger, signals>>
vars == <<up, faults, bound, host, files, clients, engine>>

Phases == {"new", "attaching", "attached", "calling", "detaching",
           "removing", "gone", "failed", "killed"}

Host == [pc : {"idle", "visit", "bind", "list", "serve", "dispatch", "answer"},
         scan : SUBSET Session, at : Session \cup {None}, queue : SUBSET Name,
         name : Name \cup {None}, op : Operation \cup {None},
         answer : Answer \cup {None}]
Client == [phase : Phases, calls : 0..MaxCalls, name : Name \cup {None},
           todo : SUBSET {"intake", "responses"}]
Call == [name : Name, op : Operation, answer : Answer \cup {None}]

TypeOK ==
    /\ up \in BOOLEAN /\ faults \in 0..MaxFaults
    /\ bound \subseteq Session
    /\ host \in Host
    /\ host.pc \notin {"idle", "visit"} => host.at \in host.scan
    /\ host.pc \in {"dispatch", "answer"} => host.name # None /\ host.op # None
    /\ host.pc = "answer" => host.answer # None
    /\ ~up => host.pc = "idle" /\ bound = {}
    /\ intake \in [Session -> [Name -> Operation \cup {None}]]
    /\ responses \in [Session -> [Name -> Answer \cup {None}]]
    /\ tree \in [Session -> SUBSET {"intake", "responses"}]
    /\ client \in [Session -> Client]
    /\ log \in [Session -> Seq(Call)]
    /\ ledger \subseteq RequestID /\ signals \in [Session -> [Name -> Nat]]
    /\ \A s \in Session, n \in Name :
        /\ intake[s][n] # None => "intake" \in tree[s]
        /\ responses[s][n] # None => "responses" \in tree[s]

Idle == [pc |-> "idle", scan |-> {}, at |-> None, queue |-> {},
         name |-> None, op |-> None, answer |-> None]

Init ==
    /\ up = TRUE /\ faults = 0 /\ bound = {} /\ host = Idle
    /\ intake = [s \in Session |-> [n \in Name |-> None]]
    /\ responses = [s \in Session |-> [n \in Name |-> None]]
    /\ tree = [s \in Session |-> {}]
    /\ client = [s \in Session |-> [phase |-> "new", calls |-> 0, name |-> None,
                                    todo |-> {}]]
    /\ log = [s \in Session |-> <<>>]
    /\ ledger = {} /\ signals = [s \in Session |-> [n \in Name |-> 0]]

-----------------------------------------------------------------------------
(* writeAtomic makes the directory and renames the file into it.           *)

WriteRequest(s, n, op) ==
    /\ intake' = [intake EXCEPT ![s][n] = op]
    /\ tree' = [tree EXCEPT ![s] = @ \cup {"intake"}]
    /\ UNCHANGED responses

(* Mutant: the directory is not made before the file.                      *)
WriteResponseMutant(s, n, answer) ==
    /\ responses' = [responses EXCEPT ![s][n] = answer]
    /\ UNCHANGED <<intake, tree, faults>>

(* The write may fail after MkdirAll.                                      *)
WriteResponse(s, n, answer) ==
    /\ tree' = [tree EXCEPT ![s] = @ \cup {"responses"}]
    /\ \/ /\ responses' = [responses EXCEPT ![s][n] = answer]
          /\ UNCHANGED faults
       \/ /\ faults < MaxFaults /\ faults' = faults + 1
          /\ UNCHANGED responses
    /\ UNCHANGED intake

(* readBounded takes a file over maxEnvelopeBytes for absent.              *)
Readable(s, n) ==
    responses[s][n] # None /\ intake[s][n] \notin Large

-----------------------------------------------------------------------------
(* The client.                                                             *)

Moves(s, phase) == client' = [client EXCEPT ![s].phase = phase]

ClientAttaches(s) ==
    /\ client[s].phase = "new"
    /\ WriteRequest(s, AttachName, Attach)
    /\ client' = [client EXCEPT ![s].phase = "attaching", ![s].name = AttachName]
    /\ UNCHANGED <<up, faults, bound, host, log, engine>>

(* Mutant: the names of calls start over.                                  *)
NewNameMutant(s) == 1

(* IDs.NewID: no two calls of a session share a name.                      *)
NewName(s) == client[s].calls + 1

ClientCalls(s, op) ==
    /\ client[s].phase = "attached" /\ client[s].calls < MaxCalls
    /\ WriteRequest(s, NewName(s), op)
    /\ client' = [client EXCEPT ![s].phase = "calling", ![s].name = NewName(s),
                                ![s].calls = @ + 1]
    /\ UNCHANGED <<up, faults, bound, host, log, engine>>

ClientDetaches(s) ==
    /\ client[s].phase = "attached"
    /\ WriteRequest(s, DetachName, Detach)
    /\ client' = [client EXCEPT ![s].phase = "detaching", ![s].name = DetachName]
    /\ UNCHANGED <<up, faults, bound, host, log, engine>>

Waiting(s) == client[s].phase \in {"attaching", "calling", "detaching"}

(* The call returns with what the client was told.                         *)
Returns(s, answer) ==
    log' = [log EXCEPT ![s] =
        Append(@, [name |-> client[s].name,
                   op |-> intake[s][client[s].name], answer |-> answer])]

ClientIsAnswered(s) ==
    /\ Waiting(s) /\ Readable(s, client[s].name)
    /\ \/ client[s].phase = "attaching" /\ Moves(s, "attached") /\ UNCHANGED log
       \/ /\ client[s].phase = "calling" /\ Moves(s, "attached")
          /\ Returns(s, responses[s][client[s].name])
       \/ /\ client[s].phase = "detaching"
          /\ client' = [client EXCEPT ![s].phase = "removing",
                                      ![s].todo = {"intake", "responses"}]
          /\ UNCHANGED log
    /\ UNCHANGED <<up, faults, bound, host, files, engine>>

(* The deadline of a call ends the wait; its request stays in intake.      *)
ClientGivesUp(s) ==
    /\ client[s].phase = "calling" /\ intake[s][client[s].name] \in Timed
    /\ Moves(s, "attached") /\ Returns(s, None)
    /\ UNCHANGED <<up, faults, bound, host, files, engine>>

(* os.RemoveAll empties the directories it has listed, in any order, and   *)
(* removes the session directory, which fails when another file appeared.  *)
ClientRemoves(s) ==
    /\ client[s].phase = "removing"
    /\ \E d \in client[s].todo :
        /\ client' = [client EXCEPT ![s].todo = @ \ {d}]
        /\ tree' = [tree EXCEPT ![s] = @ \ {d}]
        /\ intake' = IF d = "intake"
                     THEN [intake EXCEPT ![s] = [n \in Name |-> None]] ELSE intake
        /\ responses' = IF d = "responses"
                        THEN [responses EXCEPT ![s] = [n \in Name |-> None]]
                        ELSE responses
    /\ UNCHANGED <<up, faults, bound, host, log, engine>>

ClientEnds(s) ==
    /\ client[s].phase = "removing" /\ client[s].todo = {}
    /\ Moves(s, IF tree[s] = {} THEN "gone" ELSE "failed")
    /\ UNCHANGED <<up, faults, bound, host, files, log, engine>>

(* A client process that is killed leaves its files.                       *)
ClientIsKilled(s) ==
    /\ client[s].phase \notin {"new", "gone", "failed", "killed"}
    /\ faults < MaxFaults /\ faults' = faults + 1
    /\ client' = [client EXCEPT ![s].phase = "killed", ![s].todo = {}]
    /\ UNCHANGED <<up, bound, host, files, log, engine>>

ClientStep(s) ==
    \/ ClientAttaches(s) \/ ClientDetaches(s)
    \/ \E op \in Op : ClientCalls(s, op)
    \/ ClientIsAnswered(s) \/ ClientGivesUp(s)
    \/ ClientRemoves(s) \/ ClientEnds(s) \/ ClientIsKilled(s)

-----------------------------------------------------------------------------
(* The host: one turn of tick at a time.                                   *)

NextSession(scan) ==
    IF scan = {} THEN Idle ELSE [Idle EXCEPT !.pc = "visit", !.scan = scan]

(* tick lists the session directories.                                     *)
HostTick ==
    /\ up /\ host.pc = "idle"
    /\ LET seen == {s \in Session : tree[s] # {}}
       IN  seen # {} /\ host' = NextSession(seen)
    /\ UNCHANGED <<up, faults, bound, files, clients, engine>>

(* Mutant: an attach that has its answer is taken for done.                *)
HasAttachMutant(s) ==
    intake[s][AttachName] # None /\ responses[s][AttachName] = None

(* tryBind needs the attach request.                                       *)
HasAttach(s) == intake[s][AttachName] # None

(* serviceSession lists the intake directory once.                         *)
Listed(s) ==
    LET names == {n \in Name \ {AttachName} : intake[s][n] # None}
    IN  IF names = {} THEN NextSession(host.scan \ {s})
        ELSE [host EXCEPT !.pc = "serve", !.at = s, !.queue = names]

(* A bound session is served, one with an attach request is bound first,   *)
(* any other is passed over until the next tick.                           *)
HostVisit(s) ==
    /\ up /\ host.pc = "visit" /\ s \in host.scan
    /\ host' = IF s \in bound THEN Listed(s)
               ELSE IF HasAttach(s) THEN [host EXCEPT !.pc = "bind", !.at = s]
               ELSE NextSession(host.scan \ {s})
    /\ UNCHANGED <<up, faults, bound, files, clients, engine>>

(* Bind always succeeds; when the answer cannot be written the session is  *)
(* not bound.                                                              *)
HostBinds ==
    /\ up /\ host.pc = "bind"
    /\ WriteResponse(host.at, AttachName, OK)
    /\ IF faults' = faults
       THEN bound' = bound \cup {host.at} /\ host' = [host EXCEPT !.pc = "list"]
       ELSE UNCHANGED bound /\ host' = NextSession(host.scan \ {host.at})
    /\ UNCHANGED <<up, clients, engine>>

HostLists ==
    /\ up /\ host.pc = "list" /\ host' = Listed(host.at)
    /\ UNCHANGED <<up, faults, bound, files, clients, engine>>

(* The loop after the request named n.                                     *)
NextRequest(n) ==
    IF host.queue \ {n} = {} THEN NextSession(host.scan \ {host.at})
    ELSE [host EXCEPT !.pc = "serve", !.queue = @ \ {n},
                      !.name = None, !.op = None, !.answer = None]

(* Mutant: responses/ is not looked at.                                    *)
UnansweredMutant(s, n) == intake[s][n] \notin Long \cup {None}

(* A request with a readable answer is skipped, and one that is gone or    *)
(* too long to be read itself, in every tick.                              *)
(* The names are random, so the sorted order is any order.                 *)
Unanswered(s, n) == ~Readable(s, n) /\ intake[s][n] \notin Long \cup {None}

HostReads(n) ==
    /\ up /\ host.pc = "serve" /\ n \in host.queue
    /\ host' = IF ~Unanswered(host.at, n) THEN NextRequest(n)
               ELSE [host EXCEPT !.name = n, !.op = intake[host.at][n],
                       !.pc = IF n = DetachName THEN "answer" ELSE "dispatch",
                       !.answer = IF n = DetachName THEN OK ELSE None]
    /\ UNCHANGED <<up, faults, bound, files, clients, engine>>

(* A command is answered from the ledger, or committed and answered; one   *)
(* that fails has changed nothing, or its outcome is uncertain.            *)
Submit(q, answer) ==
    /\ ledger' \in IF answer = OK THEN {ledger \cup {q}} ELSE {ledger, ledger \cup {q}}
    /\ answer \in {OK, Failed} /\ UNCHANGED signals

(* Mutant: a stop that the ledger knows is answered from it.               *)
StopRunMutant(q, answer) ==
    \/ Submit(q, answer)
    \/ /\ answer \in {OK, Failed} /\ ledger' = ledger \cup {q}
       /\ signals' = [signals EXCEPT ![host.at][host.name] = @ + 1]

(* StopRun ends where its intent fails; once it is committed or found in   *)
(* the ledger, the supervisor is called and what came of it committed      *)
(* under a fresh ID.                                                       *)
StopRun(q, answer) ==
    \/ answer = Failed /\ Submit(q, answer)
    \/ /\ answer \in {OK, Failed} /\ ledger' = ledger \cup {q}
       /\ signals' = [signals EXCEPT ![host.at][host.name] = @ + 1]

HostDispatches(answer) ==
    /\ up /\ host.pc = "dispatch"
    /\ \/ host.op.kind = "command" /\ Submit(host.op.arg, answer)
       \/ host.op.kind = "stop" /\ StopRun(host.op.arg, answer)
       \/ host.op.kind \notin {"command", "stop"} /\ UNCHANGED engine
    /\ host' = [host EXCEPT !.pc = "answer", !.answer = answer]
    /\ UNCHANGED <<up, faults, bound, files, clients>>

(* The error of the write is ignored.  A detach drops the session and      *)
(* leaves the rest of its requests.                                        *)
HostAnswers ==
    /\ up /\ host.pc = "answer"
    /\ WriteResponse(host.at, host.name, host.answer)
    /\ IF host.op = Detach
       THEN bound' = bound \ {host.at} /\ host' = NextSession(host.scan \ {host.at})
       ELSE UNCHANGED bound /\ host' = NextRequest(host.name)
    /\ UNCHANGED <<up, clients, engine>>

(* The loop without Dispatch, whose answer is the engine's.                *)
HostLoop ==
    \/ HostTick \/ HostBinds \/ HostLists \/ HostAnswers
    \/ \E s \in Session : HostVisit(s)
    \/ \E n \in Name : HostReads(n)

(* The process ends at any point and takes its map of sessions along.      *)
HostDies ==
    /\ up /\ faults < MaxFaults
    /\ up' = FALSE /\ faults' = faults + 1 /\ bound' = {} /\ host' = Idle
    /\ UNCHANGED <<files, clients, engine>>

HostStarts ==
    /\ ~up /\ up' = TRUE
    /\ UNCHANGED <<faults, bound, host, files, clients, engine>>

Next ==
    \/ HostLoop \/ HostDies \/ HostStarts
    \/ \E answer \in Answer : HostDispatches(answer)
    \/ \E s \in Session : ClientStep(s)

(* The host is a loop that goes on while the process lives, and a client   *)
(* polls for its answer.                                                   *)
Fairness ==
    /\ WF_vars(HostLoop \/ \E answer \in Answer : HostDispatches(answer))
    /\ \A s \in Session : WF_vars(ClientIsAnswered(s))

Spec == Init /\ [][Next]_vars
FairSpec == Spec /\ Fairness

-----------------------------------------------------------------------------
(* Whatever crashes, repetitions and cancelled calls come between: a client*)
(* that was told OK was told so of the command it called, which the engine *)
(* had committed, and for a stop the supervisor was called for this very   *)
(* call (roundTrip, Dispatch and StopRun).  The supervisor is called again *)
(* for one only where a host died or a write failed, and once when a       *)
(* session that is being removed is bound anew.                            *)
Truthful(s, call) ==
    call.op.kind \in {"command", "stop"} /\ call.answer = OK =>
        /\ call.op.arg \in ledger
        /\ call.op.kind = "stop" => signals[s][call.name] > 0

InSession(s) == client[s].phase \in {"new", "attaching", "attached", "calling", "detaching"}

AnswersAreTrue ==
    \A s \in Session :
        /\ \A i \in DOMAIN log[s] : Truthful(s, log[s][i])
        /\ \A n \in Name : signals[s][n] <= faults + (IF InSession(s) THEN 1 ELSE 2)

(* A call whose answer its client has is not dispatched again while the    *)
(* session lives, although restarts and rebindings list its request anew   *)
(* (the check of responses/ in serviceSession).                            *)
Dispatched(s, n) ==
    host.pc = "dispatch" /\ host.at = s /\ host.name = n /\ host'.pc = "answer"

AnsweredIsNotRepeated ==
    [][\A s \in Session : client[s].phase \in {"attached", "calling", "detaching"} =>
        \A i \in DOMAIN log[s] :
            log[s][i].answer # None => ~Dispatched(s, log[s][i].name)]_vars

(* A client whose request and answer both fit a file gets its answer when  *)
(* a host stays up, also one that a host died on, that was attached to an  *)
(* earlier host, or whose session holds calls that do not fit (tick,       *)
(* tryBind and serviceSession).                                            *)
AwaitsFittingAnswer(s) ==
    Waiting(s) /\ intake[s][client[s].name] \notin Large \cup Long

CallsAreAnswered ==
    <>[]up => \A s \in Session : AwaitsFittingAnswer(s) ~> ~Waiting(s)

(* The calls of a session, forgetting names and files, are RemoteCall: an  *)
(* answer is published once and is the one of the call it is returned for. *)
InCall(s) == client[s].phase = "calling"
AskedOf(s) == IF InCall(s) THEN intake[s][client[s].name] ELSE None
AnswerOf(s) ==
    IF InCall(s) /\ Readable(s, client[s].name)
    THEN responses[s][client[s].name] ELSE None
ComputedFor(s) ==
    IF InCall(s) /\ host.pc = "answer" /\ host.at = s /\ host.name = client[s].name
    THEN host.answer ELSE None
Return(call) == [op |-> call.op, answer |-> call.answer]
ReturnedOf(s) == [i \in DOMAIN log[s] |-> Return(log[s][i])]

asked == [s \in Session |-> AskedOf(s)]
computed == [s \in Session |-> ComputedFor(s)]
published == [s \in Session |-> AnswerOf(s)]
returned == [s \in Session |-> ReturnedOf(s)]

Calls == INSTANCE RemoteCall WITH Caller <- Session, answer <- published

ImplementsCalls == Calls!Spec

(* "binds each one exactly once ... and drops the session once a detach    *)
(* request arrives" (src/internal/adapters/transport/host.go:18-22): a     *)
(* session is bound before it has an answer to its attach, and never       *)
(* after, as long as the same host lives and no write fails.               *)
BoundOnce ==
    [][\A s \in bound' \ bound :
        faults = 0 => responses[s][AttachName] = None]_vars

=============================================================================
