------------------------------ MODULE EventBus ------------------------------
(***************************************************************************)
(* Observation of committed events: Engine.commit and Engine.Subscribe of  *)
(* src/internal/core/task/engine.go and the eventBus of events.go.         *)
(*                                                                         *)
(* Commits are serialised by commitMu, from the store's Commit to the      *)
(* publication of its events.  The bus keeps the last Capacity events in   *)
(* memory and a queue of Capacity events per subscriber, and forgets       *)
(* everything when the process ends; the store does not.  A client keeps   *)
(* the cursor of the last event or snapshot it took, resumes from it after *)
(* a disconnection or a restart, and reloads a snapshot when its cursor    *)
(* has expired.                                                            *)
(*                                                                         *)
(* An event is named by the revision of its commit: a command commits at   *)
(* most one.                                                               *)
(***************************************************************************)
EXTENDS Naturals, Sequences

CONSTANTS Client,
          RequestID,
          Capacity,      \* eventBufferCapacity and subscriberQueueCapacity
          NotLoading,    \* a client that is not seeding the floor
          FloorReadMayFail, \* whether commit's own read for the floor may
                         \* fail although the store's Commit then succeeds
          MaxRevision    \* bound of the model: no commit goes beyond it

ASSUME CapacityAssumption == Capacity \in Nat \ {0}
ASSUME NotLoadingAssumption == NotLoading \notin Nat
ASSUME FloorReadMayFailAssumption == FloorReadMayFail \in BOOLEAN
ASSUME MaxRevisionAssumption == MaxRevision \in Nat

VARIABLES
    \* the store
    revision,       \* Snapshot.Revision
    eventful,       \* the revisions whose commit produced an event
    ledger,         \* the revision each request committed, 0 when none
    \* the process
    pending,        \* what the holder of commitMu will publish, 0 when none
    seeded,         \* eventBus.seeded
    trimmedUpTo,    \* eventBus.trimmedUpTo
    lastPublished,  \* eventBus.lastPublished
    buffer,         \* eventBus.buffer
    \* the clients and their subscriptions
    clients,
    \* history, read by properties only
    confirmed,      \* events some Commit has reported without error
    unconfirmed     \* events whose first Commit was OutcomeUncertain

store == <<revision, eventful, ledger>>
bus == <<seeded, trimmedUpTo, lastPublished, buffer>>
history == <<confirmed, unconfirmed>>
vars == <<store, pending, bus, clients, history>>

(* cursor is what the client resumes after; since its last snapshot, taken *)
(* at base, it has received the events seen.                               *)
Subscription == [status : {"out", "open", "closed"}, after : Nat,
                 queue : Seq(Nat), loaded : Nat \cup {NotLoading},
                 base : Nat, cursor : Nat, seen : SUBSET Nat]

TypeOK ==
    /\ revision \in Nat /\ eventful \subseteq 1..revision
    /\ ledger \in [RequestID -> Nat]
    /\ pending \in eventful \cup {0}
    /\ seeded \in BOOLEAN /\ trimmedUpTo \in Nat /\ lastPublished \in Nat
    /\ buffer \in Seq(Nat) /\ Len(buffer) <= Capacity
    /\ clients \in [Client -> Subscription]
    /\ \A c \in Client : Len(clients[c].queue) <= Capacity
    /\ confirmed \subseteq eventful /\ unconfirmed \subseteq eventful

NewClient == [status |-> "out", after |-> 0, queue |-> <<>>,
              loaded |-> NotLoading, base |-> 0, cursor |-> 0, seen |-> {}]

Init ==
    /\ revision = 0 /\ eventful = {} /\ ledger = [q \in RequestID |-> 0]
    /\ pending = 0
    /\ seeded = FALSE /\ trimmedUpTo = 0 /\ lastPublished = 0 /\ buffer = <<>>
    /\ clients = [c \in Client |-> NewClient]
    /\ confirmed = {} /\ unconfirmed = {}

-----------------------------------------------------------------------------
(***************************************************************************)
(* Engine.commit.                                                          *)
(***************************************************************************)

(* ensureFloor with a floor loaded earlier: the first one stands.          *)
SeedFloorMutant(floor) ==
    /\ seeded' = TRUE
    /\ UNCHANGED trimmedUpTo
SeedFloor(floor) ==
    /\ seeded' = TRUE
    /\ trimmedUpTo' = IF seeded THEN trimmedUpTo ELSE floor

(* commit seeds the floor before the store's Commit and ignores a failure. *)
EnsureFloor ==
    \/ SeedFloor(revision)
    \/ ~seeded /\ FloorReadMayFail /\ UNCHANGED <<seeded, trimmedUpTo>>

(* The store answers with a receipt, or with OutcomeUncertain: the change  *)
(* is applied, but nothing is published.                                   *)
Commit(q, hasEvent) ==
    /\ pending = 0
    /\ ledger[q] = 0
    /\ revision < MaxRevision
    /\ EnsureFloor
    /\ revision' = revision + 1
    /\ ledger' = [ledger EXCEPT ![q] = revision']
    /\ eventful' = IF hasEvent THEN eventful \cup {revision'} ELSE eventful
    /\ \/ /\ pending' = IF hasEvent THEN revision' ELSE 0
          /\ confirmed' = confirmed \cup ({revision'} \cap eventful')
          /\ UNCHANGED unconfirmed
       \/ /\ unconfirmed' = unconfirmed \cup ({revision'} \cap eventful')
          /\ UNCHANGED <<pending, confirmed>>
    /\ UNCHANGED <<lastPublished, buffer, clients>>

(* A replay hands the original events back once the store has confirmed    *)
(* them durable; a replay it cannot confirm changes only the floor.        *)
Replay(q) ==
    /\ pending = 0
    /\ ledger[q] # 0
    /\ EnsureFloor
    /\ \/ /\ pending' = IF ledger[q] \in eventful THEN ledger[q] ELSE 0
          /\ confirmed' = confirmed \cup ({ledger[q]} \cap eventful)
       \/ UNCHANGED <<pending, confirmed>>
    /\ UNCHANGED <<store, lastPublished, buffer, clients, unconfirmed>>

(* A live subscriber's share of a publication: it is closed, not waited    *)
(* for, when its queue is full.                                            *)
OfferedUnboundedMutant(s, r) ==
    IF s.status # "open" \/ r <= s.after THEN s
    ELSE [s EXCEPT !.queue = Append(@, r)]
OfferedMutant(s, r) ==
    IF s.status # "open" \/ r <= s.after \/ Len(s.queue) = Capacity THEN s
    ELSE [s EXCEPT !.queue = Append(@, r)]
Offered(s, r) ==
    IF s.status # "open" \/ r <= s.after THEN s
    ELSE IF Len(s.queue) < Capacity THEN [s EXCEPT !.queue = Append(@, r)]
    ELSE [s EXCEPT !.status = "closed"]

(* publish draws the line between a replay and a new publication by        *)
(* comparing revisions.                                                    *)
IsNewMutant(r) == TRUE
IsNew(r) == r > lastPublished

Publish ==
    /\ pending # 0
    /\ pending' = 0
    /\ IF IsNew(pending)
       THEN LET full == Len(buffer) = Capacity
            IN  /\ lastPublished' = pending
                /\ buffer' = Append(IF full THEN Tail(buffer) ELSE buffer,
                                    pending)
                /\ trimmedUpTo' = IF full /\ Head(buffer) > trimmedUpTo
                                  THEN Head(buffer) ELSE trimmedUpTo
                /\ clients' = [c \in Client |-> Offered(clients[c], pending)]
       ELSE UNCHANGED <<lastPublished, buffer, trimmedUpTo, clients>>
    /\ UNCHANGED <<store, seeded, history>>

-----------------------------------------------------------------------------
(***************************************************************************)
(* Engine.Subscribe and the clients.                                       *)
(***************************************************************************)

(* ensureFloor on the path of Subscribe: commits go on between its load    *)
(* and the critical section that sets the floor.                           *)
LoadFloor(c) ==
    /\ ~seeded
    /\ clients[c].status = "out" /\ clients[c].loaded = NotLoading
    /\ clients' = [clients EXCEPT ![c].loaded = revision]
    /\ UNCHANGED <<store, pending, bus, history>>

SetFloor(c) ==
    /\ clients[c].loaded # NotLoading
    /\ SeedFloor(clients[c].loaded)
    /\ clients' = [clients EXCEPT ![c].loaded = NotLoading]
    /\ UNCHANGED <<store, pending, lastPublished, buffer, history>>

Expired(cursor) == cursor < trimmedUpTo

(* The loop of subscribe over the retained events.                         *)
After(events, cursor) ==
    LET sent[n \in 0..Len(events)] ==
            IF n = 0 THEN <<>>
            ELSE IF events[n] > cursor THEN Append(sent[n - 1], events[n])
            ELSE sent[n - 1]
    IN  sent[Len(events)]

(* The critical section of subscribe: the backlog after the cursor, then   *)
(* live.                                                                   *)
Subscribe(c) ==
    LET cursor == clients[c].cursor
    IN  /\ seeded
        /\ clients[c].status = "out" /\ clients[c].loaded = NotLoading
        /\ ~Expired(cursor)
        /\ clients' = [clients EXCEPT
              ![c].status = "open",
              ![c].after = cursor,
              ![c].queue = After(buffer, cursor)]
        /\ UNCHANGED <<store, pending, bus, history>>

(* The client takes a snapshot, at first or because its cursor expired:    *)
(* the cursor is the revision of the store.                                *)
GetSnapshot(c) ==
    /\ clients[c].status = "out" /\ clients[c].loaded = NotLoading
    /\ clients' = [clients EXCEPT ![c].base = revision,
                                  ![c].cursor = revision,
                                  ![c].seen = {}]
    /\ UNCHANGED <<store, pending, bus, history>>

Receive(c) ==
    LET r == Head(clients[c].queue)
    IN  /\ clients[c].queue # <<>>
        /\ clients' = [clients EXCEPT ![c].queue = Tail(@),
                                      ![c].cursor = r,
                                      ![c].seen = @ \cup {r}]
        /\ UNCHANGED <<store, pending, bus, history>>

(* The client ends its subscription, or finds its channel closed, with or  *)
(* without having read all of it.                                          *)
Leave(c) ==
    /\ clients[c].status # "out"
    /\ clients' = [clients EXCEPT ![c].status = "out", ![c].queue = <<>>]
    /\ UNCHANGED <<store, pending, bus, history>>

(* The process ends and another opens the workspace: a new, empty bus.     *)
Restart ==
    /\ pending' = 0
    /\ seeded' = FALSE /\ trimmedUpTo' = 0 /\ lastPublished' = 0
    /\ buffer' = <<>>
    /\ clients' = [c \in Client |->
          [clients[c] EXCEPT !.status = "out", !.queue = <<>>,
                             !.loaded = NotLoading]]
    /\ UNCHANGED <<store, history>>

Next ==
    \/ \E q \in RequestID, hasEvent \in BOOLEAN : Commit(q, hasEvent)
    \/ \E q \in RequestID : Replay(q)
    \/ Publish
    \/ \E c \in Client : LoadFloor(c)
    \/ \E c \in Client : SetFloor(c)
    \/ \E c \in Client : Subscribe(c)
    \/ \E c \in Client : GetSnapshot(c)
    \/ \E c \in Client : Receive(c)
    \/ \E c \in Client : Leave(c)
    \/ Restart

Spec == Init /\ [][Next]_vars

-----------------------------------------------------------------------------
(***************************************************************************)
(* Properties.                                                             *)
(***************************************************************************)

(* What a client must have heard of, other than by a later snapshot.       *)
Due(c, r) == r \in eventful /\ r > clients[c].base /\ r # pending

(* The cursor of a client never jumps over an event of a commit that       *)
(* succeeded at once: not by an overflow, an eviction, a resumption, a     *)
(* snapshot taken between commit and publication, or a restart.            *)
NoSilentGap == \A c \in Client : \A r \in confirmed \ unconfirmed :
    Due(c, r) /\ r <= clients[c].cursor => r \in clients[c].seen

(* A subscriber that is still connected and has read its whole queue has   *)
(* seen every such event: falling behind is never silent.                  *)
ConnectedMeansComplete == \A c \in Client :
    clients[c].status = "open" /\ clients[c].queue = <<>> =>
        \A r \in confirmed \ unconfirmed : Due(c, r) => r \in clients[c].seen

(* What waits for a client is in commit order and new to it: a replay is   *)
(* never delivered as a new event.                                         *)
InOrderOnce == \A c \in Client :
    LET queue == clients[c].queue
    IN  \A i \in DOMAIN queue :
            /\ queue[i] > clients[c].cursor
            /\ \A j \in DOMAIN queue : i < j => queue[i] < queue[j]

(* The no-lost-commits argument of events.go: an event a caller was told   *)
(* is committed, even by a later retry, reaches whoever is connected.      *)
NoLostCommits == \A c \in Client :
    clients[c].status = "open" /\ clients[c].queue = <<>> =>
        \A r \in confirmed : Due(c, r) => r \in clients[c].seen

=============================================================================
