---------------------------- MODULE RunLifecycle ----------------------------
(***************************************************************************)
(* Runs: the dispatch protocol of StartRun and StopRun and the startup     *)
(* reconciliation, src/internal/core/task/engine.go, over the supervisor   *)
(* of src/internal/adapters/process/supervisor.go.                         *)
(*                                                                         *)
(* StartRun is three commits around one Supervisor.Start: the intent, the  *)
(* dispatch marker, the observation.  StopRun is two commits around one    *)
(* Supervisor.Stop.  Each commit can succeed, be applied with an uncertain *)
(* outcome (the call ends there with an error), or fail (it ends there     *)
(* with nothing applied); between any two steps other calls run and the    *)
(* host can die.  A worker process group outlives its host; the record     *)
(* with which the host can signal it does not.                             *)
(*                                                                         *)
(* The supervisor is abstracted to what its calls may report and leave     *)
(* behind.  The state store keeps what it committed: power losses that     *)
(* roll it back belong to module StateStore.                               *)
(***************************************************************************)
EXTENDS Naturals, Sequences

CONSTANTS Agent,       \* registered agents; a caller acts for itself
          Profile,     \* execution profiles
          RunID,
          RequestID,
          Handler,     \* the calls the host may be serving at once
          None,        \* the absence of a record
          MaxStopOps   \* bound of the model: stop intents of one run

ASSUME MaxStopOpsAssumption == MaxStopOps \in Nat

VARIABLES
    \* the durable snapshot
    approved,   \* Snapshot.Profiles
    runs,       \* Snapshot.Runs
    startOp,    \* the state of operation <run>-start, or None
    stopOps,    \* the states of the operations <run>-stop, oldest first
    receipts,   \* the ledger: what each caller's request started
    \* the host process
    host,       \* "down", "reconciling" or "up"
    handlers,   \* where each call in flight stands
    owned,      \* Supervisor.processes: "no", "yes", or "claimed" by a Stop
    \* the operating system
    group,      \* each run's process group
    \* history, read by properties only
    starts      \* how many times Supervisor.Start was called for each run

durable == <<approved, runs, startOp, stopOps, receipts>>
vars == <<durable, host, handlers, owned, group, starts>>

RunState == {"Starting", "Running", "Stopping", "Exited", "RecoveryRequired"}
OpState == {"Pending", "Running", "Succeeded", "Failed", "RecoveryRequired"}

Run == [AgentID : Agent, ProfileID : Profile, State : RunState,
        DispatchAttempted : BOOLEAN,
        ExitReason : {None, "startFailed", "stopped"}]

Receipt == [command : {"StartRun", "StopRun"}, run : RunID]

ASSUME NoneAssumption ==
    None \notin RunID /\ None \notin Run /\ None \notin OpState /\ None \notin Receipt

Step == {"intended", "marked", "spawned", "startOk", "startErr",  \* StartRun
         "stopIntended", "stopping", "stopOk", "stopErr"}         \* StopRun

Idle == [step |-> "idle", run |-> None]

(* "live" is a group a Supervisor record speaks, or spoke, for; "stray" one*)
(* whose record a failed Start dropped.                                    *)
Group == {"none", "live", "stray", "gone"}

TypeOK ==
    /\ approved \subseteq Profile
    /\ runs \in [RunID -> Run \cup {None}]
    /\ startOp \in [RunID -> OpState \cup {None}]
    /\ stopOps \in [RunID -> Seq(OpState)]
    /\ receipts \in [Agent \X RequestID -> Receipt \cup {None}]
    /\ host \in {"down", "reconciling", "up"}
    /\ handlers \in [Handler -> [step : Step, run : RunID] \cup {Idle}]
    /\ owned \in [RunID -> {"no", "yes", "claimed"}]
    /\ group \in [RunID -> Group]
    /\ starts \in [RunID -> Nat]

NothingOwned == [r \in RunID |-> "no"]

Init ==
    /\ approved = {}
    /\ runs = [r \in RunID |-> None]
    /\ startOp = [r \in RunID |-> None]
    /\ stopOps = [r \in RunID |-> <<>>]
    /\ receipts = [k \in Agent \X RequestID |-> None]
    /\ host = "down"
    /\ handlers = [h \in Handler |-> Idle]
    /\ owned = NothingOwned
    /\ group = [r \in RunID |-> "none"]
    /\ starts = [r \in RunID |-> 0]

-----------------------------------------------------------------------------
(***************************************************************************)
(* A call in flight.                                                       *)
(***************************************************************************)

At(h, step) == handlers[h].step = step
RunOf(h) == handlers[h].run

(* A commit that applied its change: the call goes on only when the commit *)
(* was also confirmed durable.                                             *)
Applied(h, step, r) ==
    \E confirmed \in BOOLEAN :
        handlers' = [handlers EXCEPT ![h] =
                        IF confirmed THEN [step |-> step, run |-> r] ELSE Idle]

Reaches(h, step) ==
    handlers' = [handlers EXCEPT ![h] = [step |-> step, run |-> RunOf(h)]]

(* A commit, or the ID it needs, fails: the call returns its error and     *)
(* nothing was applied.                                                    *)
CommitFails(h) ==
    /\ handlers[h].step \in {"intended", "startOk", "startErr",
                             "stopOk", "stopErr"}
    /\ handlers' = [handlers EXCEPT ![h] = Idle]
    /\ UNCHANGED <<durable, host, owned, group, starts>>

(* A request that has its receipt runs no Mutate and goes on from there.   *)
Replays(a, q, command, r) ==
    receipts[<<a, q>>] = [command |-> command, run |-> r]

IsNew(a, q) == receipts[<<a, q>>] = None

Recorded(a, q, command, r) ==
    [receipts EXCEPT ![<<a, q>>] = [command |-> command, run |-> r]]

-----------------------------------------------------------------------------
(***************************************************************************)
(* Commands.                                                               *)
(***************************************************************************)

ApproveProfile(p) ==
    /\ host = "up"
    /\ p \notin approved
    /\ approved' = approved \cup {p}
    /\ UNCHANGED <<runs, startOp, stopOps, receipts, host, handlers, owned,
                   group, starts>>

Exists(r) == runs[r] # None

(* findActiveRunForAgent: only Exited releases the agent.                  *)
HasActiveRunMutant(a) == \E r \in RunID :
    /\ Exists(r) /\ runs[r].AgentID = a
    /\ runs[r].State \in {"Starting", "Running", "Stopping"}
HasActiveRun(a) == \E r \in RunID :
    /\ Exists(r) /\ runs[r].AgentID = a
    /\ runs[r].State \in {"Starting", "Running", "Stopping",
                          "RecoveryRequired"}

(* StartRun, step 1: persist the start intent.                             *)
StartIntent(h, a, q, r, p) ==
    /\ host = "up" /\ handlers[h] = Idle
    /\ IsNew(a, q)
    /\ ~Exists(r)
    /\ ~HasActiveRun(a)
    /\ p \in approved
    /\ runs' = [runs EXCEPT ![r] =
          [AgentID |-> a, ProfileID |-> p, State |-> "Starting",
           DispatchAttempted |-> FALSE, ExitReason |-> None]]
    /\ startOp' = [startOp EXCEPT ![r] = "Pending"]
    /\ receipts' = Recorded(a, q, "StartRun", r)
    /\ Applied(h, "intended", r)
    /\ UNCHANGED <<approved, stopOps, host, owned, group, starts>>

StartReplay(h, a, q, r) ==
    /\ host = "up" /\ handlers[h] = Idle
    /\ Replays(a, q, "StartRun", r)
    /\ handlers' = [handlers EXCEPT ![h] = [step |-> "intended", run |-> r]]
    /\ UNCHANGED <<durable, host, owned, group, starts>>

(* Step 2: the dispatch marker, which at most one call ever commits.       *)
CanDispatchMutant(r) == runs[r].State = "Starting"
CanDispatch(r) ==
    /\ ~runs[r].DispatchAttempted
    /\ runs[r].State = "Starting"
    /\ runs[r].ProfileID \in approved

MarkDispatch(h) ==
    LET r == RunOf(h)
    IN  /\ At(h, "intended")
        /\ CanDispatch(r)
        /\ runs' = [runs EXCEPT ![r].DispatchAttempted = TRUE]
        /\ startOp' = [startOp EXCEPT ![r] = "Running"]
        /\ Applied(h, "marked", r)
        /\ UNCHANGED <<approved, stopOps, receipts, host, owned, group, starts>>

(* Step 3: Supervisor.Start.  The record exists before the startup window  *)
(* is over.                                                                *)
Spawn(h) ==
    LET r == RunOf(h)
    IN  /\ At(h, "marked")
        /\ group' = [group EXCEPT ![r] = "live"]
        /\ owned' = [owned EXCEPT ![r] = "yes"]
        /\ starts' = [starts EXCEPT ![r] = @ + 1]
        /\ Reaches(h, "spawned")
        /\ UNCHANGED <<durable, host>>

SpawnFails(h) ==
    /\ At(h, "marked")
    /\ starts' = [starts EXCEPT ![RunOf(h)] = @ + 1]
    /\ Reaches(h, "startErr")
    /\ UNCHANGED <<durable, host, owned, group>>

StartReturns(h) ==
    /\ At(h, "spawned")
    /\ Reaches(h, "startOk")
    /\ UNCHANGED <<durable, host, owned, group, starts>>

(* The leader exited inside the startup window, or could not be observed:  *)
(* Start drops the record without looking at the rest of the group.        *)
StartGivesUp(h) ==
    LET r == RunOf(h)
    IN  /\ At(h, "spawned")
        /\ owned' = [owned EXCEPT ![r] = "no"]
        /\ group' = [group EXCEPT ![r] = IF @ = "live" THEN "stray" ELSE @]
        /\ Reaches(h, "startErr")
        /\ UNCHANGED <<durable, host, starts>>

(* Step 4: the observation, whatever the run's state has become.           *)
ObserveStarted(h) ==
    LET r == RunOf(h)
    IN  /\ At(h, "startOk")
        /\ runs' = [runs EXCEPT ![r].State = "Running"]
        /\ startOp' = [startOp EXCEPT ![r] = "Succeeded"]
        /\ handlers' = [handlers EXCEPT ![h] = Idle]
        /\ UNCHANGED <<approved, stopOps, receipts, host, owned, group, starts>>

ObserveStartFailed(h) ==
    LET r == RunOf(h)
    IN  /\ At(h, "startErr")
        /\ runs' = [runs EXCEPT ![r].State = "Exited",
                                ![r].ExitReason = "startFailed"]
        /\ startOp' = [startOp EXCEPT ![r] = "Failed"]
        /\ handlers' = [handlers EXCEPT ![h] = Idle]
        /\ UNCHANGED <<approved, stopOps, receipts, host, owned, group, starts>>

(* StopRun, the intent.  A repeat under a new request appends an operation *)
(* with the same ID.                                                       *)
StopIntent(h, q, r) ==
    /\ host = "up" /\ handlers[h] = Idle
    /\ Exists(r)
    /\ IsNew(runs[r].AgentID, q)
    /\ runs[r].State \notin {"Exited", "RecoveryRequired"}
    /\ Len(stopOps[r]) < MaxStopOps
    /\ runs' = [runs EXCEPT ![r].State = "Stopping"]
    /\ stopOps' = [stopOps EXCEPT ![r] = Append(@, "Running")]
    /\ receipts' = Recorded(runs[r].AgentID, q, "StopRun", r)
    /\ Applied(h, "stopIntended", r)
    /\ UNCHANGED <<approved, startOp, host, owned, group, starts>>

StopReplay(h, a, q, r) ==
    /\ host = "up" /\ handlers[h] = Idle
    /\ Replays(a, q, "StopRun", r)
    /\ handlers' = [handlers EXCEPT ![h] = [step |-> "stopIntended", run |-> r]]
    /\ UNCHANGED <<durable, host, owned, group, starts>>

(* Supervisor.Stop.                                                        *)
StopFindsNothing(h) ==
    /\ At(h, "stopIntended")
    /\ owned[RunOf(h)] = "no"
    /\ Reaches(h, "stopErr")
    /\ UNCHANGED <<durable, host, owned, group, starts>>

StopClaims(h) ==
    /\ At(h, "stopIntended")
    /\ owned[RunOf(h)] # "no"
    /\ owned' = [owned EXCEPT ![RunOf(h)] = "claimed"]
    /\ Reaches(h, "stopping")
    /\ UNCHANGED <<durable, host, group, starts>>

(* Success is reported only once the whole group is gone.                  *)
StopSucceeds(h) ==
    LET r == RunOf(h)
    IN  /\ At(h, "stopping")
        /\ group' = [group EXCEPT ![r] = "gone"]
        /\ owned' = [owned EXCEPT ![r] = "no"]
        /\ Reaches(h, "stopOk")
        /\ UNCHANGED <<durable, host, starts>>

(* A timeout or a failed signal; the record is dropped or kept.            *)
StopGivesUp(h) ==
    LET r == RunOf(h)
    IN  /\ At(h, "stopping")
        /\ owned' \in {owned, [owned EXCEPT ![r] = "no"]}
        /\ Reaches(h, "stopErr")
        /\ UNCHANGED <<durable, host, group, starts>>

(* findOperation finds the oldest operation with the ID.                   *)
StopOutcomeMutant(r, state) == [stopOps EXCEPT ![r][1] = "Stopped"]
StopOutcome(r, state) == [stopOps EXCEPT ![r][1] = state]

ObserveStopped(h) ==
    LET r == RunOf(h)
    IN  /\ At(h, "stopOk")
        /\ runs' = [runs EXCEPT ![r].State = "Exited",
                                ![r].ExitReason = "stopped"]
        /\ stopOps' = StopOutcome(r, "Succeeded")
        /\ handlers' = [handlers EXCEPT ![h] = Idle]
        /\ UNCHANGED <<approved, startOp, receipts, host, owned, group, starts>>

ObserveStopFailed(h) ==
    LET r == RunOf(h)
    IN  /\ At(h, "stopErr")
        /\ runs' = [runs EXCEPT ![r].State = "RecoveryRequired"]
        /\ stopOps' = StopOutcome(r, "RecoveryRequired")
        /\ handlers' = [handlers EXCEPT ![h] = Idle]
        /\ UNCHANGED <<approved, startOp, receipts, host, owned, group, starts>>

-----------------------------------------------------------------------------
(***************************************************************************)
(* The host and its environment.                                           *)
(***************************************************************************)

(* host.Open up to the reconciliation.  A store that cannot be read skips  *)
(* it and the host comes up all the same.                                  *)
OpenHost ==
    /\ host = "down"
    /\ host' \in {"reconciling", "up"}
    /\ UNCHANGED <<durable, handlers, owned, group, starts>>

(* ReconcileStuckRuns' filter.                                             *)
Stuck(r) == Exists(r) /\ runs[r].State \in {"Starting", "Running"}

(* Terminal operations keep their outcome.                                 *)
ReconciledOpMutant(op) == "RecoveryRequired"
ReconciledOp(op) ==
    IF op \in {"Pending", "Running"} THEN "RecoveryRequired" ELSE op

(* reconcileStuckRun; an unconfirmed commit makes Open fail.               *)
ReconcileStuckRun(r) ==
    /\ host = "reconciling"
    /\ Stuck(r)
    /\ runs' = [runs EXCEPT ![r].State = "RecoveryRequired"]
    /\ startOp' = [startOp EXCEPT ![r] = ReconciledOp(@)]
    /\ host' \in {"reconciling", "down"}
    /\ UNCHANGED <<approved, stopOps, receipts, handlers, owned, group, starts>>

OpenDone ==
    /\ host = "reconciling"
    /\ \A r \in RunID : ~Stuck(r)
    /\ host' = "up"
    /\ UNCHANGED <<durable, handlers, owned, group, starts>>

(* The host exits or dies; the worker processes live on, unowned.          *)
HostStops ==
    /\ host # "down"
    /\ host' = "down"
    /\ handlers' = [h \in Handler |-> Idle]
    /\ owned' = NothingOwned
    /\ UNCHANGED <<durable, group, starts>>

GroupExits(r) ==
    /\ group[r] \in {"live", "stray"}
    /\ group' = [group EXCEPT ![r] = "gone"]
    /\ UNCHANGED <<durable, host, handlers, owned, starts>>

(* observeNaturalExit, running once Start has returned, drops the record of*)
(* a group that is gone unless a Stop has claimed it.                      *)
ObserveNaturalExit(r) ==
    /\ owned[r] = "yes" /\ group[r] = "gone"
    /\ \A h \in Handler : ~(At(h, "spawned") /\ RunOf(h) = r)
    /\ owned' = [owned EXCEPT ![r] = "no"]
    /\ UNCHANGED <<durable, host, handlers, group, starts>>

HandlerStep(h) ==
    \/ \E a \in Agent, q \in RequestID, r \in RunID, p \in Profile :
          StartIntent(h, a, q, r, p)
    \/ \E a \in Agent, q \in RequestID, r \in RunID : StartReplay(h, a, q, r)
    \/ MarkDispatch(h)
    \/ Spawn(h)
    \/ SpawnFails(h)
    \/ StartReturns(h)
    \/ StartGivesUp(h)
    \/ ObserveStarted(h)
    \/ ObserveStartFailed(h)
    \/ \E q \in RequestID, r \in RunID : StopIntent(h, q, r)
    \/ \E a \in Agent, q \in RequestID, r \in RunID : StopReplay(h, a, q, r)
    \/ StopFindsNothing(h)
    \/ StopClaims(h)
    \/ StopSucceeds(h)
    \/ StopGivesUp(h)
    \/ ObserveStopped(h)
    \/ ObserveStopFailed(h)
    \/ CommitFails(h)

Next ==
    \/ \E p \in Profile : ApproveProfile(p)
    \/ \E h \in Handler : HandlerStep(h)
    \/ OpenHost
    \/ \E r \in RunID : ReconcileStuckRun(r)
    \/ OpenDone
    \/ HostStops
    \/ \E r \in RunID : GroupExits(r)
    \/ \E r \in RunID : ObserveNaturalExit(r)

Spec == Init /\ [][Next]_vars

-----------------------------------------------------------------------------
(***************************************************************************)
(* Properties.                                                             *)
(***************************************************************************)

(* Whatever is retried, raced or restarted, Supervisor.Start is called at  *)
(* most once for a run, and never before the marker is in the store.       *)
DispatchedOnce == \A r \in RunID :
    /\ starts[r] <= 1
    /\ starts[r] = 1 => Exists(r) /\ runs[r].DispatchAttempted

(* No agent ever has two worker groups at once, across failed stops, lost  *)
(* ownership, host restarts and skipped reconciliations.  (A group left    *)
(* behind by a Start that failed is not counted: its run is Exited.)       *)
OneWorkerPerAgent == \A r, q \in RunID :
    r # q /\ group[r] = "live" /\ group[q] = "live" =>
        runs[r].AgentID # runs[q].AgentID

(* What a start operation reported as its end is never rewritten.          *)
StartOutcomeIsFinal == [][\A r \in RunID :
    startOp[r] \in {"Succeeded", "Failed"} => startOp'[r] = startOp[r]]_vars

(* "Only Exited (a run's own terminal, resolved fact) releases the agent": *)
(* Exited is terminal.                                                     *)
ExitedIsTerminal == [][\A r \in RunID :
    Exists(r) /\ runs[r].State = "Exited" => runs'[r].State = "Exited"]_vars

=============================================================================
