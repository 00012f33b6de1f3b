# A TLA+ development of harnessing

This directory holds TLA+ models of the harnessing host, the TLC configurations
that check them on small instances, and proofs that the TLA+ proof system checks
for all values of the constants. The repository is the reference: every
definition translates Go code under `src/`, and `PROJECT.json` names the lines.
Where a document or a comment says something else than the code, the model
follows the code and the difference is a finding (see below).

Contents: [inventory](#1-the-system) · [modules](#2-modules-and-the-code-they-model) ·
[runs](#3-what-the-runs-check) · [bounds and fairness](#4-bounds-and-fairness) ·
[proofs](#5-what-is-proved) · [findings](#6-findings) ·
[not modelled](#7-what-is-not-modelled) · [plan](#8-plan)

## 1. The system

One process at a time opens a *workspace* (a directory) and drives agents in it:
it keeps tasks and their results, carries messages between agents as files, and
starts and stops agents' worker processes. The process is either a one-shot
command or the long-lived `harnessing serve`, which other commands reach through
request and response files.

| Component | State it keeps | Operations | What is hard |
| --- | --- | --- | --- |
| State store `adapters/statestore/file.go` | `state.json`: the snapshot, its revision, the receipt ledger; in memory `durableRevision` | `Open`, `Close`, `Load`, `Commit`, `ResolveRequest` | a rename is visible before it is durable; crashes, power losses, failing fsyncs; retries with the same request ID |
| Workspace lock `file.go`, `lock_unix.go` | the file `.lock` and its flock | part of `Open` and `Close` | the lock is on the inode and not on the name; processes die |
| Task engine, tasks `core/task/engine.go` | agents, tasks, results in the snapshot | register, update, create, transition, report, accept, reject | callers act on views of any age; decisions are final |
| Task engine, runs | profiles, runs, operations | `ApproveProfile`, `StartRun`, `StopRun`, `ReconcileStuckRuns` | several commits around one external effect; crashes between them; races of starts, stops and replays |
| Task engine, messages | messages with four independent facts | `SendMessage`, `AcknowledgeMessage`, `RecordMessage…` | facts and files change separately |
| Event bus `core/task/events.go` | retained buffer, subscriber queues, floor | `publish`, `subscribe`, `ensureFloor` | overflow, eviction, replays, restarts; no event may be skipped silently |
| Mailbox `adapters/mailbox/file.go` and Deliverer `deliverer.go` | inbox, archive, acks and acks-archive directories of each agent | `DeliverPending`, `IngestPending`, `IngestAcks` | a pass may stop anywhere; external agents write files at any time; IDs and sizes that the engine takes and the mailbox does not |
| Process supervisor `adapters/process` | one `runRecord` per run; the process group | `Start`, `Stop`, the natural-exit observer | pid reuse; zombie leaders; members that outlive the leader; three activities on one record |
| Output journal `adapters/journal` and the drains of `adapters/process` | one `.jsonl` file per run and a status; two pipes | `Append`, `ReadAfter`, `Finish`, `drainAndCapture` | torn, joined and overlong lines; a status published too early or never; chunks above the limit |
| Session transport `adapters/transport` | intake and response files of each session; the map of bound sessions in memory | `Attach`, `roundTrip`, `Detach`; `Run`, `tick`, `tryBind`, `serviceSession`, `Dispatch` | a crash between dispatch and response; a stop that is carried out again when it is dispatched again; requests and answers that do not fit a file; sessions bound again after detach |
| Host, assembly, command line | none of their own | composition and rendering | order of opening, mailbox passes, closing |

How they interact. Every command of the engine is one `Commit` of the store,
given a `Mutate` function that checks and changes the snapshot; the engine
publishes the events of a successful commit on the bus while it holds
`commitMu`. `StartRun` and `StopRun` call the supervisor between their commits.
The host opens lock, store and journal, reconciles runs an earlier host left
behind, and only then admits commands. After each command, and on each tick of
`serve`, a Deliverer turns queued messages into envelope files, envelope files
into processing facts, and control records into acknowledgements, each by a
commit of the engine. Supervisor and engine share no state: the engine knows
only what `Start` and `Stop` return. A worker's two pipes are drained by two
goroutines of the host into the journal, whose entries a reader fetches by
offset. A command given `-attach` becomes a client of `serve` over the
transport: every call is a file in its session's `intake/`, its answer one
in `responses/`, and one loop of the host serves all sessions in turn.

What makes each component correct is stated as the properties of section 3. The
hazards the properties are for are listed in `PROJECT.json` with their lines.

## 2. Modules and the code they model

**CommandLedger** is the abstract promise of the `StateStore` port
(`core/ports/outbound.go`): requests take effect at most once, a receipt is
given only for an effect that is *firm*, and only effects that are not firm can
be lost. It has a ledger, a set of firm entries and the answers given.

**StateStore** is `FileStore`. `disk` is the content of `state.json` that
processes see; `survivors` is the set of contents a power loss may leave, of
which the last one written is always a member; `durableRevision` is the field
of the same name. `Commit` is split where a crash makes a difference: lookup and
decision (`BeginCommit`, `Replay`), the write and rename (`Rename`,
`WriteFails`), the directory fsync (`FsyncSucceeds`, `FsyncFails`).
`ResolveRequest` and replays share `ConfirmDurable`. `Crash` loses the process
and keeps `disk`; `PowerLoss` picks any survivor. The mapping
`ImplementsLedger` makes it an implementation of CommandLedger.

**WorkspaceLock** models `Open` and `Close` of the lock file as their system
calls over inodes: create or reopen the name, try the flock, and on closing
unlock, close, remove the name.

**TaskLifecycle** has one action per command on agents, tasks and results. A
command is atomic, because its checks and its change are one `Commit`; a caller
with a stale view is modelled by arbitrary arguments. Every status change goes
through the same helpers as in the code (`Moved`, `StatusChangeOf`,
`LoadPendingDecision`).

**RunLifecycle** models `StartRun` (intent, dispatch marker, `Supervisor.Start`,
observation), `StopRun` (intent, `Supervisor.Stop`, outcome), replays of both,
and the reconciliation of `Open`, with several calls in flight (`Handler`).
Each commit can succeed, fail, or be applied while its caller gets an error. The
supervisor appears as what its calls may report and leave behind (`owned`,
`group`).

**EventBus** models `Engine.commit`'s order of store commit and publication, the
bus, and a client that subscribes, falls behind, loses its process and resumes
from a cursor. An event is the revision of its commit.

**Delivery** models the message commands, the mailbox directories and the
Deliverer's pass. `pass` is the local state of a pass: the call that comes next,
the directories still to scan, what the last scan returned. Each file operation
and each commit is a step, and `BreakOff` ends the pass after any of them. An
inbox entry records whose envelope it is, because `Publish` compares contents; a
message's `form` says what that comparison and a scan tell apart: whether it
refers to a task or another message, and whether its envelope is too large to be
read again. The engine takes any non-empty ID: those that are no path segment
(`Unsafe`) are refused by `Publish` and `ScanAcks` in every pass. (Of the sender
`validEnvelope` asks only that it is not empty.)
Agents are numbers, in the order in which `Archive` meets their directories.

**Supervisor** models one run's record and group. A step is a system call or a
section under the record's mutex. The group has a leader (alive, zombie or
reaped), other members that fork and exit, and a number that the kernel may
give away once the leader is reaped and no member is left (`reused`). A scan of
`/proc` takes time: `missed` says that a member may have escaped it.

**RemoteCall** is the abstract promise of the transport to a caller: one call
after the other, each answered at most once by what was computed for it while it
waited; an answer may be computed several times before one is published, and
none replaces a published one.

**Transport** is the file transport. A session is two directories of files that
its client makes (`ClientAttaches`, `ClientCalls`, `ClientDetaches`), polls
(`ClientIsAnswered`) and removes (`ClientRemoves`, `ClientEnds`, the two parts of
`os.RemoveAll`). `host` is the program counter of the host's one goroutine:
`HostTick` lists the sessions, `HostVisit` decides what to do with one,
`HostBinds` is `tryBind`'s write, `HostLists` and `HostReads` are
`serviceSession`'s listing and its loop, `HostDispatches` the call of the engine,
`HostAnswers` the write of the answer. Between any two of them a client may act,
a process may die (`HostDies` forgets `bound`), or the write may fail. Behind
`Dispatch` stands the engine as far as a repetition meets it: `Submit` is a
command, which ends in the `ledger` of its request ID; `StopRun` goes on from
there to the supervisor each time, which `signals` counts. A file above the size
bound is taken for absent, an answer (`Large`) by the client and the host, a
request (`Long`) by the host. The mapping `ImplementsCalls` makes it an
implementation of RemoteCall.

**OutputJournal** follows the output of one run from the worker's pipes to the
file. Bytes are counted and not named: an entry says which bytes of its channel
it holds. `file` has the lines a scan can parse, `tail` says whether the file
ends in a newline, in a part of a line (`cut`) or in a whole line without its
newline (`open`), and `jammed` that two lines joined by a tear have outgrown the
scanner's buffer. `AppendLine` and `TearLine` give what a complete and an
incomplete write make of these. `drain` is the state of the two copying
goroutines, `CaptureFinishes` what follows their return. `run` is what the store
says of the run as far as `host.Open` tells it apart, `StopIsIntended` and
`StopIsRecorded` are StopRun's two commits. `HostStarts` is the part of
`host.Open` that reconciles a Starting or Running run and finishes the capture of
one that is RecoveryRequired, `StartGoesWrong` what is left of it when the store
cannot be read or written. `missed` remembers that the present host has passed
the capture by.

**OutputReading** composes OutputJournal with RemoteCall: a reader that asks for
what follows its last byte, answers computed from the journal as it is then and
taken later. Since Transport implements RemoteCall, what holds here holds for
`run-output -attach`.

The `MC_` modules declare the model values of their configurations. No module
has a recursive operator; what a loop of the code computes from a sequence
(`After`, `ReadLines`, `ChunksOf`) is a recursive function over its positions. RunLifecycle and Delivery are both clients of what
StateStore promises, and RunLifecycle of what Supervisor promises.

## 3. What the runs check

| Run | Distinct states | Question |
| --- | --- | --- |
| `store` | 123 thousand | Is a receipt ever given for a commit that a power loss can take back (`AckedSurvives`)? Does any retry repeat an effect (`OneEffectPerRequest`)? Is the cached `durableRevision` sound in every content that may survive (`DurableLineSound`)? Does what was reported uncertain but applied stay applied (`UncertainStands`)? Does the store implement the ledger (`ImplementsLedger`)? |
| `lock` | 25 thousand | Before any `Close` has removed the name, does at most one process hold the workspace (`OneHolderUntilRemove`)? Can a name left by a dead process wedge the workspace (`NeverWedged`, liveness)? |
| `tasks` | 378 thousand | Do status, current result and decision agree whatever is rejected, reopened and reported again (`ResultMatchesStatus`, `PendingIsReviewable`)? Is a decision final, across later attempts on the same task (`DecisionsAreFinal`)? |
| `runs` | 77 thousand | Is a run dispatched at most once across retries and restarts (`DispatchedOnce`)? Has an agent ever two worker groups (`OneWorkerPerAgent`)? Is the outcome of a start final (`StartOutcomeIsFinal`)? |
| `runs_exited` | violation | Is `Exited` terminal? |
| `events` | 831 thousand | Does the cursor of a client ever jump over an event (`NoSilentGap`)? Is a connected client that has read its queue up to date (`ConnectedMeansComplete`)? Are events in order and new (`InOrderOnce`)? |
| `events_lost` | violation | The same for events of commits whose first outcome was uncertain. |
| `delivery` | 861 thousand | Are the recorded facts true of the files, also with external files under the same ID, and is every archived envelope durably processed (`FactsAreTrue`)? Is an acknowledgement always the recipient's own and no control record lost (`AcksAreTrue`)? Is every message processed, except one too large to be scanned, unless the head of the queue is refused (`ProcessedUnlessBlocked`, liveness)? |
| `supervisor` | 81 thousand | Does exactly one activity decide the outcome (`OneOutcome`)? Is success reported only for a group that is gone (`SuccessMeansGone`)? Does a signal after the reap, to whatever group has the number by then, come only from the fast exit in `Start` (`SignalsAreBound`)? Does nobody wait in vain for the outcome (`TakenIsFinalized`, liveness)? |
| `transport` | 1002 thousand | Is what a client was told of its command true, also of a stop under this very call, and is the supervisor called again for a call only where a host died, a write failed or the session was being removed (`AnswersAreTrue`)? Is an answered call never dispatched again (`AnsweredIsNotRepeated`)? Is every call whose request and answer fit a file answered when a host stays up (`CallsAreAnswered`, liveness)? Does the transport implement RemoteCall (`ImplementsCalls`)? |
| `transport_bind_once` | violation | Is a session bound exactly once? |
| `output` | 1383 thousand | Does a capture reported complete hold every byte, in order (`CompleteIsComplete`)? Does an offset name one byte of the journal, whatever was torn (`OffsetsTile`)? Has a reader each chunk once and in order, and everything once it is told so (`ReaderHasPrefix`)? Is an outcome published, unless the host that stays up has passed the capture by (`CaptureEnds`, liveness)? |

Each passing run also checks its module's type invariant. For each property of a
passing run `PROJECT.json` names a mutant, a plausible bug of one mapped
definition (the `…Mutant` operators in the modules), that the run finds.

## 4. Bounds and fairness

Bounds are constants that only cut behaviours off; no property mentions one
except the type invariants. (`faults`, which `AnswersAreTrue` mentions, counts
what has gone wrong; its bound does not occur.)

- `store`: two callers, two request IDs they share, two payloads, `MaxRevision`
  3. A hazard needs an unsynced commit, one after it, and a retry of the first;
  that is two revisions, and the third lets a rolled-back number be used again.
  Crashes and power losses are not bounded.
- `lock`: three processes (one closes, one opened the old file, one creates the
  new), one more inode than processes, two crashes.
- `tasks`: two tasks, three results, `MaxTaskRevision` 7: report, reject, rework,
  report, accept, reopen needs six revisions.
- `runs`: two runs of one agent, four request IDs (two starts, a stop and one
  repeat), two calls at once, `MaxStopOps` 2. Host restarts are not bounded.
- `events`: `Capacity` 2 stands for the code's 256, the capacity of both buffers: a queue
  overflows and an event is evicted after three events, and `MaxRevision` 4
  gives one more. One client: subscribers do not see each other.
  `FloorReadMayFail` is FALSE: when commit's own read of the floor fails the
  store's `Commit`, which makes the same read, would normally fail as well.
- `delivery`: two agents and a third whose ID is no path segment, two messages
  (one is behind the other in the queue) of any form, one control record. One
  message ID is used by external agents too. `MaxFaults` 1: a pass breaks off
  once, at any step, with a message left half-way and another behind it; a second
  break meets the same steps again.
- `supervisor`: two callers of `Stop` (a winner and a waiter), who may call
  again any number of times; `MaxForks` 2: a worker outlives the leader and
  begets another.
- `transport`: one session of two calls, chosen from a command, a stop, a query
  with a deadline, one whose answer exceeds the 256 KiB a file may have, and a
  command whose request exceeds them. Two calls let one be retried under its
  request ID after the other was lost. `MaxFaults`
  2 is shared by host deaths, failed writes of answers and killed clients: a host
  may die on a call, and the write of the next host may fail. Sessions share
  only the host's loop and the ledger; one session interleaves with the loop,
  with removals and with two hosts already.
- `output`: two bytes on one channel and one on the other, chunks of one or two,
  two faults, so that a torn line can be followed by another one; the reader
  makes two calls, with no limit or with a limit of one byte, which a chunk of
  two exceeds.

`CHECK_DEADLOCK FALSE` stands where the system may stop: a session that has
ended, a worker that has ended and been captured and read.

Fairness is assumed in five modules only.

- WorkspaceLock: a process that has begun to open goes on, a process that has
  begun to close goes on, and somebody always tries to open. That a holder ever
  closes is not assumed: `serve` need not.
- Delivery: passes are run and go on (`WF_vars(Work)`): every command and every
  tick of `serve` runs one. Only finitely many of them break off (`MaxFaults`).
  Nothing is assumed of external agents.
- Supervisor: a goroutine that can take a step takes one. Processes need not
  exit, and a waiter is not assumed to run into its timeout, so
  `TakenIsFinalized` does not rest on it.
- Transport: the host's loop goes on while its process lives, and a client that
  can read its answer does (it polls). That a host is started again is not
  assumed: `CallsAreAnswered` has the premise `<>[]up`.
- OutputJournal: a drain that finds bytes or the end of its pipe goes on, and the
  goroutine that waits for both does. The worker need not close its pipes: that
  everyone has is a premise of `CaptureEnds`, and so is a host that stays up.

Assumptions of the environment. IDs from the ID source are unique, so an
internal commit never meets another request's ledger entry. Control records have
unique IDs, as `docs/architecture/boundaries.md` requires of their writers.
External agents write files and do not remove those of the mailbox. A successful
directory fsync makes every earlier rename in it durable, one whose own fsync
failed included. A command has a caller. RunLifecycle, EventBus and Delivery
take commits to stay once made; that a power loss may take an unsynced one back
is StateStore's subject and is not composed with them.

## 5. What is proved

Every safety property of the passing runs, and both refinements, are proved: for
every value of the constants that the named ASSUMEs of the modules admit. Bounds
are natural numbers, the agents of the mailbox are finitely many numbers
(`Archive` takes the first of them), and the values that stand for *nothing*
(`None`, `Idle`) are not also values of something. Two theorems about the event
bus have a hypothesis, named there.

There is one module of proofs per component; the lock's are with the store's.
Each defines an inductive invariant, `IInv` unless said otherwise, proves it (the
initial states satisfy it, and one lemma per action or group of actions shows
that the step keeps it), and takes the theorems from it. TLC checked the
strengthenings before they were proved.

Three definitions compute over a sequence of any length: `After` (subscribe's
replay of the buffer), `ReadLines` (ReadAfter's scan) and `ChunksOf` (what a
reader has gathered). They are recursive functions over positions, and what they
return is proved from the least position where it would be something else: the
well-foundedness of the natural numbers, a theorem of the library, gives `Least`
and `Steps`, an induction for sets of positions.

### The store

`StateStore_proofs` proves, for every set of callers, request IDs and payloads
and every bound on revisions, the invariants that the run `store` checks and the
refinement.

None of the invariants is inductive alone. That an acknowledged receipt survives
depends on what an fsync that never came could have lost, so the inductive
invariant `IInv` adds three facts:

- `Prefixes`: the current content is among the survivors, and every survivor is
  the current content cut at its own revision. It makes "the receipt's revision
  is at or below the line" mean "the receipt is in every survivor".
- `CallSound`: what a call between its steps may rely on. Before the rename its
  key has no receipt; after it the last revision is its own.
- `WithinBound`: the revision has not passed the bound.

`Prefixes` is disturbed by the rename (the new content is a survivor next to the
old ones), by a successful fsync (only the new one remains) and by a power loss
(one survivor becomes the content). The lemmas `…Step` treat each conjunct in
turn, with one step per action, and `Invariance` combines them. The theorems:

| Theorem | Says |
| --- | --- |
| `TypeCorrect` | `TypeOK` always holds |
| `ReceiptsSurvive` | no receipt is given out before an fsync covers it |
| `EffectsOnce` | a request has taken effect exactly once if it has a receipt and otherwise never |
| `LineSound` | `durableRevision` never exceeds what may survive |
| `UncertainIsApplied` | what was reported uncertain and applied stays until a power loss |
| `Implementation` | `Spec => ImplementsLedger`: initial states map to initial states, every step to a step of the ledger or a stutter |

### The supervisor

`Supervisor_proofs` proves the safety properties of the run `supervisor` for
every set of concurrent `Stop` calls and every number of forks.

`OneOutcome` is not inductive: a state in which two activities are both about to
finalize satisfies it. The inductive invariant `IInv` therefore adds

- `Ownership`: at most one `Stop` is past its claim and not yet returned; while
  it is, the outcome is open, and the record is closed exactly if that `Stop`
  closed it; an observer past its close excludes every such `Stop`; an outcome,
  once decided, belongs to a record that was claimed or closed.
- `Retained`: a closed record has a reaped leader, and a reaped leader has a
  closed record or was reaped by the fast exit in `Start`; the group's number is
  given away only after the reap; no `Stop` runs and no observer exists before
  `Start` has got that far.

`GoneIsStable` shows that a group with its leader reaped and no member left
stays so; a success is decided from a probe that found no group, or is learned
from such a decision. `SignalsAreBound` follows because the two actions that
signal find the record open, and an open record whose leader was reaped is one
the fast exit left so. The theorems:

| Theorem | Says |
| --- | --- |
| `Invariance` | `IInv`, with `TypeOK` and `Ownership` in it, always holds |
| `TypeCorrect` | `TypeOK` always holds |
| `OneDecider` | the outcome is decided at most once |
| `SuccessIsTrue` | a reported success means that the whole group is gone |
| `SignalsStayBound` | no signal follows a close, nor a reap but the fast exit's; a foreign group is signalled in that case only |

### The lock

`StateStore_proofs`, second part, about `LockSpec`: a flock belongs to an inode and not to a name, so that
two processes cannot hold the same file says nothing about two processes that
hold the workspace. `LockIInv` adds `Owns` (who holds the workspace owns the flock
of the file it has open) and `Named` (until the first removal every open file is
the one that `.lock` names). `Unlock` keeps both, `Remove` ends the premise of
`Named`, which is why the theorem stops there, as the code's guarantee does.

| Theorem | Says |
| --- | --- |
| `LockTypeCorrect` | `LockTypeOK` always holds |
| `Exclusion` | until a `Close` has removed the name, at most one process holds the workspace |

### Tasks

`TaskLifecycle_proofs`: `TypeOK`, `ResultMatchesStatus` and `PendingIsReviewable`
are inductive together and not alone. That a command on one task leaves the
result of another alone follows because a task's current result names that task;
that a transition strands no pending result follows because a task with one
awaits review, where the generic transitions do not lead away from.

| Theorem | Says |
| --- | --- |
| `TypeCorrect` | `TypeOK` always holds |
| `StatusAgrees` | a task's status, current result and decision agree |
| `NoPendingIsStranded` | every pending result is its task's current one, at the revision the reviewer saw |
| `DecisionsStay` | no step changes a decided result, nor what a result was reported for |

### Runs

`RunLifecycle_proofs`: everything rests on the dispatch marker. `IInv` adds

- `Served`: calls in flight, receipts and operations are about runs in the store.
- `Marked`: at most one call is past the marker of a run, and until that call
  reports, or if no call got there, the start operation has no outcome.
- `Started`: a group, its record and every later step of a call come after that
  call's spawn, and a call about to record Exited knows the group to be gone.
- `OneMayLive`: a run that has a live group *or may still get one* (it is Starting
  and unmarked, or its call stands between marker and spawn) is not Exited, and
  is the only such run of its agent. This is what `findActiveRunForAgent` really
  has to guarantee: two live groups come from a second intent admitted while the
  first group is not there yet.

| Theorem | Says |
| --- | --- |
| `Invariance`, `TypeCorrect` | `IInv`, and `TypeOK` in it, always hold |
| `DispatchIsOnce` | a run is spawned at most once |
| `OneGroupPerAgent` | no agent has two live groups |
| `OutcomeStays` | no step rewrites the outcome of a start operation |

### Messages

`Delivery_proofs`: a pass of the Deliverer acts on what it saw before, and
others act between. `IInv` restates `FactsAreTrue` and `AcksAreTrue` without the
index that `CHOOSE` picks, and adds what a pass relies on: the envelope it is
about to record is in the inbox (`Written`), what it collects from the inboxes
is published (`Collected`), and the control record it is about to move away has
been obeyed (`Requested`). The flags of a message only ever rise (`Grows`), which
keeps all three from being taken back.

| Theorem | Says |
| --- | --- |
| `TypeCorrect` | `TypeOK`, with the uniqueness of message IDs in it, always holds |
| `FactsHold` | recorded facts are true of the files |
| `AcksHold` | acknowledgements are the recipients' own, and no control record is moved away unobeyed |

### Events

`EventBus_proofs` has two invariants. `OrderInv` is about order and needs nothing
of the floor: the retained events ascend up to the last one published, a queue
ascends above its client's cursor, and the next event to be published is above
both (`Retained`, `Ordered`). `GapInv` is about gaps: every event whose commit
succeeded at once and that is above `trimmedUpTo` is in the buffer or about to be
published (`Floored`), so a subscription that is accepted starts with all its
client missed, and each publication adds to its queue or closes it (`Gapless`:
up to the end of a queue nothing is missing, and of an open one nothing at all
but what is to come).

`Floored` begins when the floor is seeded and is lost when a commit succeeds
without seeding it. The theorems about gaps therefore have the hypothesis
`~FloorReadMayFail`: without it TLC finds a gap, when commit's read fails, the
`Commit` after it does not, and `Subscribe` seeds the floor late.

| Theorem | Says |
| --- | --- |
| `TypeCorrect` | `TypeOK`, with the capacity of both buffers in it, always holds |
| `DeliveredInOrder` | events are delivered in commit order and once |
| `NothingSkipped` | `~FloorReadMayFail =>` no cursor jumps over an event |
| `ConnectedIsComplete` | `~FloorReadMayFail =>` a connected client that has read its queue is up to date |

### The transport

`Transport_proofs`: an answer passes from the engine through the host's hand and
a file to a client that attributes it to the request it wrote under that name.
`IInv` has two parts that every hand-over keeps: `Truths` (an answer is true of
the operation it is kept with: an OK of a change the ledger has, to a stop of a
supervisor called under this name) and `Names` (a name on file or in the host's
hand still stands for that operation, because no name is written twice, and a
waiting client's request is still on file). Neither the ledger nor the count of
calls ever goes back (`Onward`).

How often the supervisor is called for one stop is a matter of accounting, not of
a guard: `StopRun` has none. A dispatch finds no answer on file and leaves one in
the host's hand, and what it spends is kept there and then on file (`Spent`). An
answer is lost only to a fault or to the removal of its session (`Forgets`), each
of which makes `Room` for one call more. `Traded` is the arithmetic of such an
exchange, `RoomKept` says that a step which makes as much room as it takes keeps
`Bounded`, and `ClientRoomy`, `HostRoomy` and `DispatchBounded` go through the
steps. The proof rests on `Fresh`, below: the host dispatches nothing that has a
readable answer.

The refinement, `AnsweredIsNotRepeated` and `Bounded` need the invariant `CInv`, with two
more facts. `Fresh`: what the host has in hand has no answer that its client
could take, because the host looked for one when it took the request, and it
alone writes answers. `Answered`: what a client has taken stays on file while its
session lives. The refinement maps a session to a caller; its proof has one
lemma `…Implements` per action, each a step of RemoteCall by that one caller or
no step at all, since what the others see is not touched (`Undisturbed`). A host
that dies loses the answer it had computed, and one that dispatches again
replaces it, both of which RemoteCall allows.

| Theorem | Says |
| --- | --- |
| `TypeCorrect` | `TypeOK` always holds |
| `TrueAnswers` | a client told OK is told so of its own command, which is in the ledger, and of a stop for which the supervisor was called under this very name; it was called once, and once more at most for each fault and for the removal of the session |
| `AnsweredOnce` | no step dispatches a call whose client has the answer |
| `Implementation` | `Spec => ImplementsCalls`: initial states map to initial states, every step to a step of RemoteCall or a stutter |

### The journal

`OutputJournal_proofs` proves three things, each on top of the one before.

*Offsets.* However a line is written, torn, joined or lost, the entries that can
be read change in one of three ways (`Written`): one is added at the end of the
last, the last one is lost, or nothing changes. `TypeOK` and `OffsetsTile` are
then inductive together (`IInv`).

*Completeness.* `CompleteIsComplete` speaks about the moment of Finish and all
later ones. `JInv` says what holds before it: the entries of a channel follow
each other and hold bytes that were taken (`Ordered`, `Behind`); while no drain
has failed, the file ends cleanly and every byte taken is in an entry
(`Unharmed`); a drain that has ended has taken all that was written to a closed
pipe (`Drained`). When both have ended without a failure this makes the capture
`Whole`, and a whole capture does not change any more, through deaths and
restarts of the host (`Promise`).

*Readers.* An answer may have been computed long before it is taken, several
times, by a host that is dead by then. `RInv` says that it is still good: it is an
interval of the entries that follows what the reader has, and at the end of a
complete capture it says so truly (`Sound`). This rests on `ReadableBefore`: if
all bytes can be read after a step they could be read before it, and the step has
lost no entry, because a lost one would be a lost byte. `ReadFinds` gives what
one scan returns, `CallAddsChunks` what one more call adds.

| Theorem | Says |
| --- | --- |
| `TypeCorrect`, `ReadingTypeCorrect` | `TypeOK` and `ReadingTypeOK` always hold |
| `OffsetsNameBytes` | readable entries follow each other without gap or overlap |
| `CompletenessIsTrue` | a capture reported complete holds every byte written, in order, and can be read |
| `ReadersObserve` | `ReadingSpec => Spec /\ []OffsetsTile`: readers disturb nothing proved of the capture |
| `ReaderHasItAll` | a reader has the first chunks, each once, and all of them once it is told so |
| `ReaderIsACaller` | `ReadingSpec => C!Spec`: the reader's calls are calls of RemoteCall |

### Only model-checked

- All liveness (`NeverWedged`, `ProcessedUnlessBlocked`, `TakenIsFinalized`,
  `CallsAreAnswered`, `CaptureEnds`): the prover handles neither ENABLED nor
  fairness.
- The properties of the violation runs, which the code does not have.

## 6. Findings

Each is the counterexample of a violation run; `PROJECT.json` quotes the
documented claim.

1. *Exited is not terminal* (`runs_exited`, `engine.go:1035`). A replayed
   `StopRun` calls the supervisor again, gets NotFound and turns an Exited run
   into RecoveryRequired, which blocks its agent.
2. *A lost event* (`events_lost`, `events.go:129`). A commit that ended
   uncertain and is confirmed by a retry after a later commit was published is
   taken for a replay: its event reaches nobody.
3. *A session bound twice* (`transport_bind_once`, `transport/host.go:86`). A
   detached session keeps its attach request until its client has removed the
   directory; the next tick binds it again and may write into the directory that
   is being removed. The removal then fails with "directory not empty", or the
   host keeps an entry for a session that is gone. A bound session's requests are
   listed anew: a stop whose answer the client has already removed reaches the
   supervisor a second time, with no fault at all (the last term of
   `AnswersAreTrue`), and finding 1 says what that does to the run.

Divergences and limits that the models follow, each the exception or the premise
of a property:

- *Two holders of one workspace* (`statestore/file.go:147`). `Close` unlocks
  before it removes the name, so a process that opened the old `.lock` locks it
  while another creates and locks a new one. `OneHolderUntilRemove` therefore
  holds only until the first removal.
- *A blocked mailbox* (`Blocked`, the exception of `ProcessedUnlessBlocked`).
  `DeliverPending` stops at the first message that `Publish` refuses, in every
  pass, and nothing behind it is delivered. Three things make it refuse one: an
  external file under its ID; an ID of the message or its recipient that is no
  path segment (`mailbox/file.go:173`, `:186`), although `SendMessage` and
  `RegisterAgent` take it; and a pass that ended between writing an envelope with
  a task or reply ID and recording it, because the comparison with the file
  (`:201`) is between pointers and answers Conflict. The last contradicts
  `deliverer.go:50-54`, where "replaying either half of this pair is always
  safe"; it is safe for an envelope without pointers. An agent whose ID is no
  path segment also ends every acknowledgement pass of `serve` at its `ScanAcks`
  (`:309`).
- *An envelope above the size bound* is written and recorded as published, but
  every scan takes it for absent: the message is never processed (`TooLarge`),
  and until it is recorded, a later `Publish` of it overwrites the file.
- *A signal to a free group number* (`supervisor.go:251`). The fast exit in
  `Start` reaps without closing the record, while a concurrent `Stop` of the
  Starting run may still signal (the exception of `SignalsAreBound`).
- *Calls that are never answered* (`transport/protocol.go:237`,
  `maxEnvelopeBytes`). The reader of an answer above 256 KiB takes it for absent:
  the call waits for ever, or until its deadline, and the host dispatches it again
  at every tick. A request above it, whose size the client does not check, is
  passed over at every tick (`transport/host.go:160`), although its answer would
  fit. `CallsAreAnswered` is about calls whose request and answer fit, also in a
  session that holds others.
- *A stop dispatched again* (`engine.go:1019`). The ledger ends a repeated command
  but not a repeated `StopRun`, so a lost answer means another call of the
  supervisor. `AnswersAreTrue` bounds how often; RunLifecycle has what becomes of
  the run (finding 1).
- *A captured run that looks interrupted* (`host/host.go`, `open`). A run that
  ended by itself is still Running in the store, so the next host reconciles it
  to RecoveryRequired and replaces the status `complete` by `interrupted`.
- *A capture without an outcome* (`missed` in OutputJournal, the exception of
  `CaptureEnds`). `host.Open` finishes the captures of RecoveryRequired runs
  only. A run that a dying host left Stopping is not reconciled
  (`engine.go:1180`) and keeps no outcome for good; so does one that was Exited
  before its drains returned. A Finish that fails is not tried again by this
  host, and a store that cannot be read makes `open` skip the reconciliation
  (`engine.go:1177`) or the Finish (`host.go:168`) without an error.
- *Chunks that readers cannot get past* (`journal.go:110`): `Blocked` in
  OutputReading. *Appended bytes that cannot be read* after a torn line:
  `AllReadable`; a joined line above the scanner's 64 KiB makes every read that
  reaches it fail.
- `docs/architecture/boundaries.md:67` schedules the archiving of an envelope
  only after its acknowledgement and retries it; `deliverer.go:121-129` archives
  right after processing, and an envelope that was processed but not archived is
  never looked at again.
- `docs/architecture/boundaries.md:73` promises forced termination of the process
  tree; `supervisor.go:596` sends no SIGKILL when the leader has exited in time,
  so a worker that ignores SIGTERM stays, and `Stop` reports RecoveryRequired.

## 7. What is not modelled

- Command line and second adapter: parsing and rendering without state. Of the
  assembly, `serve`'s life and its mailbox passes are in Transport and Delivery;
  the session of a one-shot command and the mapping of errors to exit codes are
  not modelled.
- Of the transport: the marker `host.json`, which the host writes and removes
  and no client reads; event batches are queries
  with a deadline, their contents are EventBus's subject. A killed client's
  directory stays, as in the code; nothing sweeps it.
- Of the journal: `Follow`, which returns a closed channel, the wall-clock and
  run fields of an entry, and the size of a line other than its being too long.
- The setters and getters of the engine, its clones and lookups: they read or
  copy. `SetRunBudget` is refused by every session.
- Clock and ID source: no command compares times; IDs are taken to be unique.
- The lock on Windows, which always refuses.
- Content of envelopes and files of external agents: their sizes, malformed JSON
  and schema versions. A file that fails them is skipped and left in place.
- In the supervisor: signals that the kernel refuses for other reasons than a
  missing group, failing `waitid` other than ECHILD, and the reuse of a reaped
  pid by another child of the same host.

## 8. Plan

Done, in this order: CommandLedger and StateStore with their proofs,
WorkspaceLock, TaskLifecycle, RunLifecycle, EventBus, Delivery, Supervisor with
its proofs, RemoteCall and Transport, OutputJournal and OutputReading, and the
proofs of every safety property that a passing run checks.

Next:

1. **Proofs of compositions**: Supervisor under RunLifecycle, that is, the
   abstract supervisor there implemented by the detailed one.
2. **Compositions to model first**: StateStore under EventBus (a revision rolled
   back by a power loss and used again under an old cursor); Transport with two
   sessions whose callers share a request ID.
