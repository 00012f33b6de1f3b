----------------------------- MODULE Supervisor -----------------------------
(***************************************************************************)
(* One run's process group and the three activities that share its record: *)
(* Start, the observer goroutine that Start leaves behind, and concurrent  *)
(* calls of Stop (src/internal/adapters/process/supervisor.go).            *)
(*                                                                         *)
(* A signal is sent to a group number.  The number is the leader's pid and *)
(* names this group as long as the leader is not reaped or a member lives; *)
(* after that the kernel may give it to somebody else (reused).  A step is *)
(* a system call or a section under the record's mutex; a timeout is a     *)
(* choice that is open as long as the awaited thing has not happened.      *)
(***************************************************************************)
EXTENDS Naturals

CONSTANTS Stopper,    \* concurrent callers of Stop
          None,
          MaxForks    \* bound of the model on the processes the leader begets

ASSUME ForksAssumption == MaxForks \in Nat
ASSUME NoneAssumption == None \notin {"ok", "RecoveryRequired", "NotFound"}

VARIABLES leader,     \* the process cmd.Start spawned
          others,     \* live members of the group other than the leader
          forks,      \* processes forked into the group so far
          killed,     \* a SIGKILL is on its way to every member
          reused,     \* the group number names an unrelated group
          listed,     \* Supervisor.processes has the run's record
          rec,        \* the runRecord
          start,      \* where Start is
          observer,   \* where observeNaturalExit is
          missed,     \* a member may have escaped the scan under way
          stop,       \* the calls of Stop
          signals     \* history: what the signals sent so far met

vars == <<leader, others, forks, killed, reused, listed, rec, start,
          observer, missed, stop, signals>>
group == <<leader, others, forks, killed, reused>>

Outcome == {"ok", "RecoveryRequired"}
Record == [stopClaimed : BOOLEAN, closed : BOOLEAN, result : Outcome \cup {None},
           finalized : 0..2]
Call == [at : {"idle", "claim", "grace", "kill", "leader", "reap", "forget",
               "group", "await"},
         exited : BOOLEAN, reapErr : BOOLEAN,
         result : Outcome \cup {None, "NotFound"}]

TypeOK ==
    /\ leader \in {"none", "alive", "zombie", "reaped"}
    /\ forks \in 0..MaxForks /\ others \in 0..forks
    /\ killed \in BOOLEAN /\ reused \in BOOLEAN /\ listed \in BOOLEAN
    /\ rec \in Record
    /\ start \in {"no", "spawned", "window", "reap", "forget", "failed", "running"}
    /\ observer \in {"off", "peek", "check", "scan1", "rest", "scan2", "close",
                     "forget", "group"}
    /\ missed \in BOOLEAN
    /\ stop \in [Stopper -> Call]
    /\ signals \subseteq {"own", "closed", "reaped", "foreign"}
    /\ observer \notin {"off", "peek"} => leader \in {"zombie", "reaped"}

NoCall == [at |-> "idle", exited |-> FALSE, reapErr |-> FALSE, result |-> None]

Init ==
    /\ leader = "none" /\ others = 0 /\ forks = 0
    /\ killed = FALSE /\ reused = FALSE /\ listed = FALSE
    /\ rec = [stopClaimed |-> FALSE, closed |-> FALSE, result |-> None,
              finalized |-> 0]
    /\ start = "no" /\ observer = "off" /\ missed = FALSE
    /\ stop = [s \in Stopper |-> NoCall]
    /\ signals = {}

-----------------------------------------------------------------------------
(* The processes and the kernel.                                           *)

LeaderExits ==
    /\ leader = "alive"
    /\ leader' = "zombie"
    /\ UNCHANGED <<others, forks, killed, reused, listed, rec, start, observer,
                   missed, stop, signals>>

Fork ==
    /\ leader = "alive" \/ others > 0
    /\ ~killed /\ forks < MaxForks
    /\ forks' = forks + 1
    /\ others' = others + 1
    /\ UNCHANGED <<leader, killed, reused, listed, rec, start, observer,
                   missed, stop, signals>>

OtherExits ==
    /\ others > 0
    /\ others' = others - 1
    /\ UNCHANGED <<leader, forks, killed, reused, listed, rec, start, observer,
                   missed, stop, signals>>

(* A member forks and exits: a scan of /proc that passed the child's pid   *)
(* and has not reached the parent's sees neither.                          *)
HandOver ==
    /\ others > 0 /\ ~killed
    /\ observer \in {"scan1", "scan2"}
    /\ missed' = TRUE
    /\ UNCHANGED <<group, listed, rec, start, observer, stop, signals>>

Reuse ==
    /\ leader = "reaped" /\ others = 0 /\ ~reused
    /\ reused' = TRUE
    /\ UNCHANGED <<leader, others, forks, killed, listed, rec, start, observer,
                   missed, stop, signals>>

(* killpg(0): a zombie leader keeps the number as well.                   *)
GroupExists == others > 0 \/ leader \in {"alive", "zombie"} \/ reused

(* What a signal sent now meets.                                           *)
Met == (IF leader = "reaped" THEN {"reaped"} ELSE {"own"})
       \cup (IF reused THEN {"foreign"} ELSE {})
       \cup (IF rec.closed THEN {"closed"} ELSE {})

-----------------------------------------------------------------------------
(* Start, called at most once for a run.                                   *)

Spawn ==
    /\ start = "no"
    /\ leader' = "alive"
    /\ start' = "spawned"
    /\ UNCHANGED <<others, forks, killed, reused, listed, rec, observer,
                   missed, stop, signals>>

Register ==
    /\ start = "spawned"
    /\ listed' = TRUE
    /\ start' = "window"
    /\ UNCHANGED <<group, rec, observer, missed, stop, signals>>

(* waitidPeek in the startup window: ECHILD, exited, or the window's end.  *)
PeekFails ==
    /\ start = "window" /\ leader = "reaped"
    /\ listed' = FALSE
    /\ start' = "failed"
    /\ UNCHANGED <<group, rec, observer, missed, stop, signals>>

SeeFastExit ==
    /\ start = "window" /\ leader = "zombie"
    /\ start' = "reap"
    /\ UNCHANGED <<group, listed, rec, observer, missed, stop, signals>>

WindowEnds ==
    /\ start = "window" /\ leader = "alive"
    /\ start' = "running"
    /\ observer' = "peek"
    /\ UNCHANGED <<group, listed, rec, missed, stop, signals>>

(* The fast exit reaps without the record's mutex and does not close it.   *)
ReapFastExit ==
    /\ start = "reap"
    /\ leader' = "reaped"
    /\ start' = "forget"
    /\ UNCHANGED <<others, forks, killed, reused, listed, rec, observer,
                   missed, stop, signals>>

ForgetFastExit ==
    /\ start = "forget"
    /\ listed' = FALSE
    /\ start' = "failed"
    /\ UNCHANGED <<group, rec, observer, missed, stop, signals>>

-----------------------------------------------------------------------------
(* finalize: the record's outcome, and done is closed.                     *)
Finalized(outcome) ==
    [rec EXCEPT !.result = outcome,
                !.finalized = IF @ < 2 THEN @ + 1 ELSE @]

(* observeNaturalExit.                                                     *)
Observe(from, to) ==
    /\ observer = from
    /\ observer' = to
    /\ UNCHANGED <<group, start, stop, signals>>

Taken == rec.closed \/ rec.stopClaimed

ObserveExitMutant ==
    leader # "reaped" /\ Observe("peek", "check") /\ UNCHANGED <<listed, rec, missed>>
ObserveExit ==
    \/ leader = "zombie" /\ Observe("peek", "check") /\ UNCHANGED <<listed, rec, missed>>
    \/ leader = "reaped" /\ Observe("peek", "off") /\ UNCHANGED <<listed, rec, missed>>

StepAside ==
    /\ Taken
    /\ Observe("check", "off")
    /\ UNCHANGED <<listed, rec, missed>>

BeginScan ==
    /\ \/ ~Taken /\ Observe("check", "scan1")
       \/ Observe("rest", "scan2")
    /\ missed' = FALSE
    /\ UNCHANGED <<listed, rec>>

ScanFindsMember ==
    /\ others > 0
    /\ Observe("scan1", "check") \/ Observe("scan2", "check")
    /\ UNCHANGED <<listed, rec, missed>>

ScanFindsNone ==
    /\ others = 0 \/ missed
    /\ Observe("scan1", "rest") \/ Observe("scan2", "close")
    /\ UNCHANGED <<listed, rec, missed>>

(* Uncertainty: the record is retained and left to Stop.                   *)
ScanUncertain ==
    /\ Observe("scan1", "off") \/ Observe("scan2", "off")
    /\ UNCHANGED <<listed, rec, missed>>

MayCloseMutant == TRUE
MayClose == ~Taken

CloseNaturally ==
    \/ /\ observer = "close" /\ MayClose
       /\ observer' = "forget"
       /\ rec' = [rec EXCEPT !.closed = TRUE]
       /\ leader' = "reaped"
       /\ UNCHANGED <<others, forks, killed, reused, listed, start, missed, stop, signals>>
    \/ /\ ~MayClose
       /\ Observe("close", "off")
       /\ UNCHANGED <<listed, rec, missed>>

ForgetNaturally ==
    /\ Observe("forget", "group")
    /\ listed' = FALSE
    /\ UNCHANGED <<rec, missed>>

FinishNaturally ==
    /\ Observe("group", "off")
    /\ \/ ~GroupExists /\ rec' = Finalized("ok")
       \/ GroupExists /\ rec' = Finalized("RecoveryRequired")
    /\ UNCHANGED <<listed, missed>>

-----------------------------------------------------------------------------
(* Stop.                                                                   *)
Goes(s, from, to) ==
    /\ stop[s].at = from
    /\ stop' = [stop EXCEPT ![s].at = to]
    /\ UNCHANGED <<start, observer, missed>>

Returns(s, from, result) ==
    /\ stop[s].at = from
    /\ stop' = [stop EXCEPT ![s] = [NoCall EXCEPT !.result = result]]
    /\ UNCHANGED <<start, observer, missed>>

Lookup(s) ==
    /\ start # "no"
    /\ \/ listed /\ Goes(s, "idle", "claim")
       \/ ~listed /\ Returns(s, "idle", "NotFound")
    /\ UNCHANGED <<group, listed, rec, signals>>

MayClaimMutant == ~rec.stopClaimed
MayClaim == ~Taken

(* Claim and SIGTERM, under the mutex.  Members may ignore the signal.     *)
Claim(s) ==
    /\ MayClaim
    /\ Goes(s, "claim", "grace")
    /\ rec' = [rec EXCEPT !.stopClaimed = TRUE]
    /\ signals' = signals \cup Met
    /\ UNCHANGED <<group, listed>>

Defer(s) ==
    /\ ~MayClaim
    /\ Goes(s, "claim", "await")
    /\ UNCHANGED <<group, listed, rec, signals>>

(* The grace period ends with the leader's exit or with its time.          *)
Grace(s) ==
    /\ stop[s].at = "grace"
    /\ \E exited \in {leader = "zombie", FALSE} :
           stop' = [stop EXCEPT ![s].at = "kill", ![s].exited = exited]
    /\ UNCHANGED <<group, listed, rec, start, observer, missed, signals>>

(* SIGKILL only if the leader has not been seen to exit.  The tests of     *)
(* closed here and in CloseAndReap guard against a natural end that the    *)
(* claim already rules out.                                                *)
Kill(s) ==
    /\ \/ /\ rec.closed
          /\ Goes(s, "kill", "await")
          /\ UNCHANGED <<killed, signals>>
       \/ /\ ~rec.closed /\ stop[s].exited
          /\ Goes(s, "kill", "leader")
          /\ UNCHANGED <<killed, signals>>
       \/ /\ ~rec.closed /\ ~stop[s].exited
          /\ Goes(s, "kill", "leader")
          /\ killed' = (killed \/ ~reused)
          /\ signals' = signals \cup Met
    /\ UNCHANGED <<leader, others, forks, reused, listed, rec>>

(* waitLeaderExited: an exit, ECHILD, or thirty seconds.                   *)
SeeLeaderExit(s) ==
    /\ leader \in {"zombie", "reaped"}
    /\ Goes(s, "leader", "reap")
    /\ UNCHANGED <<group, listed, rec, signals>>

LeaderStaysMutant(s) ==
    /\ leader = "alive"
    /\ Returns(s, "leader", "RecoveryRequired")
    /\ UNCHANGED <<group, listed, rec, signals>>
LeaderStays(s) ==
    /\ leader = "alive"
    /\ Returns(s, "leader", "RecoveryRequired")
    /\ rec' = Finalized("RecoveryRequired")
    /\ UNCHANGED <<group, listed, signals>>

(* closeAndReap, under the mutex.                                          *)
CloseAndReap(s) ==
    /\ \/ /\ rec.closed
          /\ Goes(s, "reap", "await")
          /\ UNCHANGED <<leader, rec>>
       \/ /\ ~rec.closed /\ stop[s].at = "reap"
          /\ stop' = [stop EXCEPT ![s].at = "forget",
                                  ![s].reapErr = (leader = "reaped")]
          /\ rec' = [rec EXCEPT !.closed = TRUE]
          /\ leader' = "reaped"
          /\ UNCHANGED <<start, observer, missed>>
    /\ UNCHANGED <<others, forks, killed, reused, listed, signals>>

Forget(s) ==
    /\ Goes(s, "forget", "group")
    /\ listed' = FALSE
    /\ UNCHANGED <<group, rec, signals>>

StopOutcomeMutant(s) == IF stop[s].reapErr THEN "RecoveryRequired" ELSE "ok"
StopOutcome(s) ==
    IF GroupExists \/ stop[s].reapErr THEN "RecoveryRequired" ELSE "ok"

Finish(s) ==
    /\ Returns(s, "group", StopOutcome(s))
    /\ rec' = Finalized(StopOutcome(s))
    /\ UNCHANGED <<group, listed, signals>>

AwaitResult(s) ==
    /\ rec.finalized > 0
    /\ Returns(s, "await", rec.result)
    /\ UNCHANGED <<group, listed, rec, signals>>

AwaitTimesOut(s) ==
    /\ rec.finalized = 0
    /\ Returns(s, "await", "RecoveryRequired")
    /\ UNCHANGED <<group, listed, rec, signals>>

-----------------------------------------------------------------------------

Processes == LeaderExits \/ Fork \/ OtherExits \/ HandOver \/ Reuse

StartSteps ==
    \/ Spawn \/ Register \/ PeekFails \/ SeeFastExit
    \/ WindowEnds \/ ReapFastExit \/ ForgetFastExit

ObserverSteps ==
    \/ ObserveExit \/ StepAside \/ BeginScan
    \/ ScanFindsMember \/ ScanFindsNone \/ ScanUncertain
    \/ CloseNaturally \/ ForgetNaturally \/ FinishNaturally

(* A call goes on by itself from where it is.                              *)
StopSteps(s) ==
    \/ Claim(s) \/ Defer(s) \/ Grace(s) \/ Kill(s)
    \/ SeeLeaderExit(s) \/ LeaderStays(s) \/ CloseAndReap(s)
    \/ Forget(s) \/ Finish(s) \/ AwaitResult(s)

Next ==
    \/ Processes
    \/ StartSteps
    \/ ObserverSteps
    \/ \E s \in Stopper : Lookup(s) \/ StopSteps(s) \/ AwaitTimesOut(s)

Spec == Init /\ [][Next]_vars

(* Goroutines that can run do run; processes need not exit, and a waiter   *)
(* need not give up.                                                       *)
FairSpec ==
    /\ Spec
    /\ WF_vars(StartSteps)
    /\ WF_vars(ObserverSteps)
    /\ \A s \in Stopper : WF_vars(StopSteps(s))

-----------------------------------------------------------------------------

(* Exactly one activity decides the run's outcome: closing done a second   *)
(* time would be a panic (supervisor.go:105-113).                          *)
OneOutcome == rec.finalized <= 1

(* A Stop, or a waiter that only learns its result, reports success only   *)
(* when every process of the group is gone, however forks and exits fall   *)
(* between the scans (supervisor.go:413-425, 627-637).                     *)
SuccessMeansGone ==
    (rec.result = "ok" \/ \E s \in Stopper : stop[s].result = "ok")
        => leader = "reaped" /\ others = 0

(* No signal follows the closing of the record, and neither the number of  *)
(* a reaped leader nor a group of strangers that was given that number is  *)
(* ever signalled, except when Start's fast exit reaped the leader         *)
(* (supervisor.go:533-544).                                                *)
SignalsAreBound ==
    /\ "closed" \notin signals
    /\ "reaped" \in signals \/ "foreign" \in signals => start \in {"forget", "failed"}

(* A waiter of a record that somebody has claimed or closed does not wait  *)
(* in vain: its outcome is decided in the end (supervisor.go:67-76).       *)
TakenIsFinalized == Taken ~> rec.finalized > 0
=============================================================================
