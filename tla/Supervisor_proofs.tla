------------------------- MODULE Supervisor_proofs -------------------------
(***************************************************************************)
(* Proofs about Supervisor, for every number of concurrent Stop calls and  *)
(* of forks.                                                               *)
(*                                                                         *)
(* The argument: whoever may still decide the run's outcome is alone.  A   *)
(* Stop past its claim, and the observer past its close, exclude each      *)
(* other and every other decider (Ownership); the leader is reaped only    *)
(* by closing the record, or by Start's fast exit (Retained); and nothing  *)
(* can fork once the leader is reaped and no member is left.               *)
(***************************************************************************)
EXTENDS Supervisor, TLAPS

(* Stops that have claimed the record and not yet returned.                *)
Deciding(s) == stop[s].at \in {"grace", "kill", "leader", "reap", "forget", "group"}
StopClosed(s) == stop[s].at \in {"forget", "group"}
ObserverClosed == observer \in {"forget", "group"}

Ownership ==
    /\ \A s \in Stopper : Deciding(s) =>
          /\ rec.stopClaimed /\ rec.finalized = 0
          /\ rec.closed <=> StopClosed(s)
    /\ \A s, t \in Stopper : Deciding(s) /\ Deciding(t) => s = t
    /\ ObserverClosed => rec.closed /\ ~rec.stopClaimed /\ rec.finalized = 0
    /\ rec.finalized > 0 => Taken

(* Where the leader can be, given where Start and the record are.          *)
Retained ==
    /\ start = "no" => leader = "none" /\ \A s \in Stopper : stop[s].at = "idle"
    /\ start # "no" => leader # "none"
    /\ observer # "off" => start = "running"
    /\ rec.closed => leader = "reaped"
    /\ leader = "reaped" => rec.closed \/ start \in {"forget", "failed"}
    /\ reused => leader = "reaped"

Gone == leader = "reaped" /\ others = 0

IInv ==
    /\ TypeOK
    /\ Ownership
    /\ Retained
    /\ OneOutcome
    /\ SuccessMeansGone
    /\ SignalsAreBound

-----------------------------------------------------------------------------
(***************************************************************************)
(* Type correctness.                                                       *)
(***************************************************************************)

Place == {"idle", "claim", "grace", "kill", "leader", "reap", "forget", "group", "await"}

(* Where a call of Stop may go, and what it may return, is of its type.    *)
LEMMA GoesType ==
    ASSUME TypeOK, NEW s \in Stopper, NEW from, NEW to \in Place, Goes(s, from, to)
    PROVE  stop' \in [Stopper -> Call]
  BY DEF TypeOK, Goes, Call, Place

LEMMA ReturnsType ==
    ASSUME TypeOK, NEW s \in Stopper, NEW from,
           NEW result \in Outcome \cup {None, "NotFound"}, Returns(s, from, result)
    PROVE  stop' \in [Stopper -> Call]
  BY DEF TypeOK, Returns, NoCall, Call

(* What finalize writes is a record, and its outcome the one given.        *)
LEMMA FinalizedType ==
    ASSUME TypeOK, NEW outcome \in Outcome
    PROVE  /\ Finalized(outcome) \in Record
           /\ Finalized(outcome).stopClaimed = rec.stopClaimed
           /\ Finalized(outcome).closed = rec.closed
           /\ Finalized(outcome).result = outcome
           /\ rec.finalized = 0 => Finalized(outcome).finalized = 1
           /\ Finalized(outcome).finalized > 0
<1>1. /\ rec \in Record /\ rec.finalized \in 0..2
      /\ rec.stopClaimed \in BOOLEAN /\ rec.closed \in BOOLEAN
  BY DEF TypeOK, Record
<1> DEFINE count == IF rec.finalized < 2 THEN rec.finalized + 1 ELSE rec.finalized
<1>2. count \in 1..2 /\ (rec.finalized = 0 => count = 1)
  BY <1>1
<1>3. Finalized(outcome) = [rec EXCEPT !.result = outcome, !.finalized = count]
  BY DEF Finalized
<1> HIDE DEF count
<1>4. Finalized(outcome) = [stopClaimed |-> rec.stopClaimed, closed |-> rec.closed,
                            result |-> outcome, finalized |-> count]
  BY <1>1, <1>3 DEF Record
<1> QED
  BY <1>1, <1>2, <1>4 DEF Record

LEMMA MetType ==
    ASSUME TypeOK
    PROVE  /\ signals \cup Met \subseteq {"own", "closed", "reaped", "foreign"}
           /\ "closed" \in Met <=> rec.closed
           /\ "reaped" \in Met <=> leader = "reaped"
           /\ "foreign" \in Met <=> reused
<1>1. rec.closed \in BOOLEAN /\ reused \in BOOLEAN
  BY DEF TypeOK, Record
<1> QED
  BY <1>1 DEF Met, TypeOK

LEMMA ProcessTypes ==
    ASSUME TypeOK, Processes PROVE TypeOK'
<1>1. CASE LeaderExits
  BY <1>1 DEF LeaderExits, TypeOK
<1>2. CASE Fork
  <2>1. forks + 1 \in 0..MaxForks /\ others + 1 \in 0..(forks + 1)
    BY <1>2, ForksAssumption DEF Fork, TypeOK
  <2> QED
    BY <1>2, <2>1 DEF Fork, TypeOK
<1>3. CASE OtherExits
  <2>1. others - 1 \in 0..forks
    BY <1>3, ForksAssumption DEF OtherExits, TypeOK
  <2> QED
    BY <1>3, <2>1 DEF OtherExits, TypeOK
<1>4. CASE HandOver
  BY <1>4 DEF HandOver, group, TypeOK
<1>5. CASE Reuse
  BY <1>5 DEF Reuse, TypeOK
<1> QED
  BY <1>1, <1>2, <1>3, <1>4, <1>5 DEF Processes

LEMMA StartTypes ==
    ASSUME TypeOK, Retained, StartSteps PROVE TypeOK'
<1> USE DEF group
<1>1. CASE Spawn
  BY <1>1 DEF Spawn, TypeOK, Retained
<1>2. CASE Register
  BY <1>2 DEF Register, TypeOK
<1>3. CASE PeekFails
  BY <1>3 DEF PeekFails, TypeOK
<1>4. CASE SeeFastExit
  BY <1>4 DEF SeeFastExit, TypeOK
<1>5. CASE WindowEnds
  BY <1>5 DEF WindowEnds, TypeOK
<1>6. CASE ReapFastExit
  BY <1>6 DEF ReapFastExit, TypeOK
<1>7. CASE ForgetFastExit
  BY <1>7 DEF ForgetFastExit, TypeOK
<1> QED
  BY <1>1, <1>2, <1>3, <1>4, <1>5, <1>6, <1>7 DEF StartSteps

LEMMA ObserverTypes ==
    ASSUME TypeOK, ObserverSteps PROVE TypeOK'
<1> USE DEF group, Observe
<1>1. CASE ObserveExit
  BY <1>1 DEF ObserveExit, TypeOK
<1>2. CASE StepAside
  BY <1>2 DEF StepAside, TypeOK
<1>3. CASE BeginScan
  BY <1>3 DEF BeginScan, TypeOK
<1>4. CASE ScanFindsMember
  BY <1>4 DEF ScanFindsMember, TypeOK
<1>5. CASE ScanFindsNone
  BY <1>5 DEF ScanFindsNone, TypeOK
<1>6. CASE ScanUncertain
  BY <1>6 DEF ScanUncertain, TypeOK
<1>7. CASE CloseNaturally
  <2>1. rec' \in Record
    BY <1>7 DEF CloseNaturally, TypeOK, Record
  <2> QED
    BY <1>7, <2>1 DEF CloseNaturally, TypeOK
<1>8. CASE ForgetNaturally
  BY <1>8 DEF ForgetNaturally, TypeOK
<1>9. CASE FinishNaturally
  <2>1. rec' \in Record
    BY <1>9, FinalizedType DEF FinishNaturally, Outcome
  <2> QED
    BY <1>9, <2>1 DEF FinishNaturally, TypeOK
<1> QED
  BY <1>1, <1>2, <1>3, <1>4, <1>5, <1>6, <1>7, <1>8, <1>9 DEF ObserverSteps

LEMMA StopTypes ==
    ASSUME TypeOK, NEW s \in Stopper, Lookup(s) \/ StopSteps(s) \/ AwaitTimesOut(s)
    PROVE  TypeOK'
<1> USE DEF group
<1>1. CASE Lookup(s)
  <2>1. stop' \in [Stopper -> Call]
    BY <1>1, GoesType, ReturnsType DEF Lookup, Place
  <2> QED
    BY <1>1, <2>1 DEF Lookup, Goes, Returns, TypeOK
<1>2. CASE Claim(s)
  <2>1. stop' \in [Stopper -> Call]
    BY <1>2, GoesType DEF Claim, Place
  <2>2. rec' \in Record
    BY <1>2 DEF Claim, TypeOK, Record
  <2> QED
    BY <1>2, <2>1, <2>2, MetType DEF Claim, Goes, TypeOK
<1>3. CASE Defer(s)
  <2>1. stop' \in [Stopper -> Call]
    BY <1>3, GoesType DEF Defer, Place
  <2> QED
    BY <1>3, <2>1 DEF Defer, Goes, TypeOK
<1>4. CASE Grace(s)
  <2>1. stop' \in [Stopper -> Call]
    <3>1. PICK exited \in BOOLEAN : stop' = [stop EXCEPT ![s].at = "kill", ![s].exited = exited]
      BY <1>4, Zenon DEF Grace
    <3>2. [stop[s] EXCEPT !.at = "kill", !.exited = exited] \in Call
      BY DEF TypeOK, Call
    <3>3. stop' = [stop EXCEPT ![s] = [stop[s] EXCEPT !.at = "kill", !.exited = exited]]
      BY <3>1 DEF TypeOK, Call
    <3> QED
      BY <3>2, <3>3 DEF TypeOK
  <2> QED
    BY <1>4, <2>1 DEF Grace, TypeOK
<1>5. CASE Kill(s)
  <2>1. stop' \in [Stopper -> Call]
    BY <1>5, GoesType DEF Kill, Place
  <2>2. killed' \in BOOLEAN
    <3>1. killed \in BOOLEAN
      BY DEF TypeOK
    <3> QED
      BY <1>5, <3>1, Zenon DEF Kill
  <2>3. signals' \subseteq {"own", "closed", "reaped", "foreign"}
    BY <1>5, MetType DEF Kill, TypeOK
  <2> QED
    BY <1>5, <2>1, <2>2, <2>3 DEF Kill, Goes, TypeOK
<1>6. CASE SeeLeaderExit(s)
  <2>1. stop' \in [Stopper -> Call]
    BY <1>6, GoesType DEF SeeLeaderExit, Place
  <2> QED
    BY <1>6, <2>1 DEF SeeLeaderExit, Goes, TypeOK
<1>7. CASE LeaderStays(s)
  <2>1. stop' \in [Stopper -> Call]
    BY <1>7, ReturnsType DEF LeaderStays, Outcome
  <2>2. rec' \in Record
    BY <1>7, FinalizedType DEF LeaderStays, Outcome
  <2> QED
    BY <1>7, <2>1, <2>2 DEF LeaderStays, Returns, TypeOK
<1>8. CASE CloseAndReap(s)
  <2>1. stop' \in [Stopper -> Call]
    BY <1>8, GoesType DEF CloseAndReap, Place, TypeOK, Call
  <2>2. rec' \in Record
    BY <1>8 DEF CloseAndReap, TypeOK, Record
  <2> QED
    BY <1>8, <2>1, <2>2 DEF CloseAndReap, Goes, TypeOK
<1>9. CASE Forget(s)
  <2>1. stop' \in [Stopper -> Call]
    BY <1>9, GoesType DEF Forget, Place
  <2> QED
    BY <1>9, <2>1 DEF Forget, Goes, TypeOK
<1>10. CASE Finish(s)
  <2>1. StopOutcome(s) \in Outcome
    BY DEF StopOutcome, Outcome
  <2>2. stop' \in [Stopper -> Call]
    BY <1>10, <2>1, ReturnsType DEF Finish
  <2>3. rec' \in Record
    BY <1>10, <2>1, FinalizedType DEF Finish
  <2> QED
    BY <1>10, <2>2, <2>3 DEF Finish, Returns, TypeOK
<1>11. CASE AwaitResult(s)
  <2>1. rec.result \in Outcome \cup {None}
    BY DEF TypeOK, Record
  <2>2. stop' \in [Stopper -> Call]
    BY <1>11, <2>1, ReturnsType DEF AwaitResult
  <2> QED
    BY <1>11, <2>2 DEF AwaitResult, Returns, TypeOK
<1>12. CASE AwaitTimesOut(s)
  <2>1. stop' \in [Stopper -> Call]
    BY <1>12, ReturnsType DEF AwaitTimesOut, Outcome
  <2> QED
    BY <1>12, <2>1 DEF AwaitTimesOut, Returns, TypeOK
<1> QED
  BY <1>1, <1>2, <1>3, <1>4, <1>5, <1>6, <1>7, <1>8, <1>9, <1>10, <1>11, <1>12
     DEF StopSteps

LEMMA TypeStep ==
    ASSUME TypeOK, Retained, [Next]_vars PROVE TypeOK'
<1>1. CASE UNCHANGED vars
  BY <1>1 DEF vars, TypeOK
<1> QED
  BY <1>1, ProcessTypes, StartTypes, ObserverTypes, StopTypes DEF Next

-----------------------------------------------------------------------------
(***************************************************************************)
(* What the steps of a call do to the calls.                               *)
(***************************************************************************)

LEMMA GoesEffect ==
    ASSUME TypeOK, NEW s \in Stopper, NEW from, NEW to, Goes(s, from, to)
    PROVE  /\ stop[s].at = from /\ stop'[s].at = to
           /\ stop'[s].result = stop[s].result
           /\ \A t \in Stopper \ {s} : stop'[t] = stop[t]
           /\ start' = start /\ observer' = observer
  BY DEF TypeOK, Goes, Call

LEMMA ReturnsEffect ==
    ASSUME TypeOK, NEW s \in Stopper, NEW from, NEW result, Returns(s, from, result)
    PROVE  /\ stop[s].at = from /\ stop'[s].at = "idle"
           /\ stop'[s].result = result
           /\ \A t \in Stopper \ {s} : stop'[t] = stop[t]
           /\ start' = start /\ observer' = observer
  BY DEF TypeOK, Returns, NoCall

LEMMA GraceEffect ==
    ASSUME TypeOK, NEW s \in Stopper, Grace(s)
    PROVE  /\ stop[s].at = "grace" /\ stop'[s].at = "kill"
           /\ stop'[s].result = stop[s].result
           /\ \A t \in Stopper \ {s} : stop'[t] = stop[t]
<1>1. PICK exited \in BOOLEAN : stop' = [stop EXCEPT ![s].at = "kill", ![s].exited = exited]
  BY Zenon DEF Grace
<1> QED
  BY <1>1 DEF TypeOK, Call, Grace

LEMMA CloseEffect ==
    ASSUME TypeOK, NEW s \in Stopper, CloseAndReap(s)
    PROVE  /\ stop[s].at = "reap"
           /\ stop'[s].result = stop[s].result
           /\ \A t \in Stopper \ {s} : stop'[t] = stop[t]
           /\ start' = start /\ observer' = observer
           /\ rec.closed => stop'[s].at = "await" /\ rec' = rec /\ leader' = leader
           /\ ~rec.closed => /\ stop'[s].at = "forget"
                             /\ rec' = [rec EXCEPT !.closed = TRUE]
                             /\ leader' = "reaped"
<1>1. CASE rec.closed
  BY <1>1, GoesEffect DEF CloseAndReap
<1>2. CASE ~rec.closed
  BY <1>2 DEF CloseAndReap, TypeOK, Call
<1> QED
  BY <1>1, <1>2

(* The processes and Start leave the record, the calls, and a close that   *)
(* the observer has made alone.                                            *)
LEMMA Quiet ==
    ASSUME TypeOK, Retained, Processes \/ StartSteps \/ UNCHANGED vars
    PROVE  /\ rec' = rec /\ stop' = stop /\ signals' = signals
           /\ observer' = observer \/ (observer = "off" /\ observer' = "peek")
<1>1. CASE Processes
  BY <1>1 DEF Processes, LeaderExits, Fork, OtherExits, HandOver, Reuse
<1>2. CASE StartSteps
  BY <1>2 DEF StartSteps, Spawn, Register, PeekFails, SeeFastExit, WindowEnds,
              ReapFastExit, ForgetFastExit, Retained
<1> QED
  BY <1>1, <1>2 DEF vars

-----------------------------------------------------------------------------
(***************************************************************************)
(* The leader is reaped by a close or by Start's fast exit, and by nobody  *)
(* else.                                                                   *)
(***************************************************************************)

LEMMA RetainedQuiet ==
    ASSUME TypeOK, Retained, Processes \/ StartSteps \/ UNCHANGED vars
    PROVE  Retained'
<1>1. rec' = rec /\ stop' = stop
  BY Quiet
<1>2. CASE Processes
  BY <1>1, <1>2 DEF Processes, LeaderExits, Fork, OtherExits, HandOver, Reuse,
                    Retained, group
<1>3. CASE StartSteps
  BY <1>1, <1>3 DEF StartSteps, Spawn, Register, PeekFails, SeeFastExit, WindowEnds,
                    ReapFastExit, ForgetFastExit, Retained, group
<1>4. CASE UNCHANGED vars
  BY <1>4 DEF vars, Retained
<1> QED
  BY <1>2, <1>3, <1>4

LEMMA RetainedObserver ==
    ASSUME TypeOK, Retained, ObserverSteps PROVE Retained'
<1> USE DEF group, Observe
<1>1. CASE CloseNaturally
  BY <1>1 DEF CloseNaturally, Retained, TypeOK, Record
<1>2. CASE FinishNaturally
  <2>1. rec'.closed = rec.closed
    BY <1>2, FinalizedType DEF FinishNaturally, Outcome
  <2> QED
    BY <1>2, <2>1 DEF FinishNaturally, Retained
<1>3. CASE ~CloseNaturally /\ ~FinishNaturally
  BY <1>3 DEF ObserverSteps, ObserveExit, StepAside, BeginScan, ScanFindsMember,
              ScanFindsNone, ScanUncertain, ForgetNaturally, Retained
<1> QED
  BY <1>1, <1>2, <1>3

LEMMA RetainedStop ==
    ASSUME TypeOK, Retained, NEW s \in Stopper,
           Lookup(s) \/ StopSteps(s) \/ AwaitTimesOut(s)
    PROVE  Retained'
<1> USE DEF group
<1>1. start # "no" /\ start' = start /\ observer' = observer
  <2>1. CASE Grace(s)
    BY <2>1, GraceEffect DEF Retained, Grace
  <2>2. CASE CloseAndReap(s)
    BY <2>2, CloseEffect DEF Retained
  <2>3. CASE ~Grace(s) /\ ~CloseAndReap(s)
    BY <2>3 DEF StopSteps, Lookup, Claim, Defer, Kill, SeeLeaderExit, LeaderStays,
                Forget, Finish, AwaitResult, AwaitTimesOut, Goes, Returns, Retained
  <2> QED
    BY <2>1, <2>2, <2>3
<1>2. CASE CloseAndReap(s)
  <2>1. rec.closed => rec' = rec /\ leader' = leader
    BY <1>2, CloseEffect
  <2>2. ~rec.closed => rec'.closed /\ leader' = "reaped"
    BY <1>2, CloseEffect DEF TypeOK, Record
  <2>3. reused' = reused
    BY <1>2 DEF CloseAndReap
  <2> QED
    BY <1>1, <2>1, <2>2, <2>3 DEF Retained
<1>3. CASE ~CloseAndReap(s)
  <2>1. rec'.closed = rec.closed /\ leader' = leader /\ reused' = reused
    <3>1. CASE LeaderStays(s)
      BY <3>1, FinalizedType DEF LeaderStays, Outcome
    <3>2. CASE Finish(s)
      BY <3>2, FinalizedType DEF Finish, StopOutcome, Outcome
    <3>3. CASE Claim(s)
      BY <3>3 DEF Claim, TypeOK, Record
    <3>4. CASE ~LeaderStays(s) /\ ~Finish(s) /\ ~Claim(s)
      BY <1>3, <3>4 DEF StopSteps, Lookup, Defer, Grace, Kill, SeeLeaderExit, Forget,
                        AwaitResult, AwaitTimesOut
    <3> QED
      BY <3>1, <3>2, <3>3, <3>4
  <2> QED
    BY <1>1, <2>1 DEF Retained
<1> QED
  BY <1>2, <1>3

LEMMA RetainedStep ==
    ASSUME TypeOK, Retained, [Next]_vars PROVE Retained'
  BY RetainedQuiet, RetainedObserver, RetainedStop DEF Next

-----------------------------------------------------------------------------
(***************************************************************************)
(* Nobody decides beside the decider.                                      *)
(***************************************************************************)

LEMMA OwnershipObserver ==
    ASSUME TypeOK, Ownership, ObserverSteps PROVE Ownership'
<1> USE DEF Observe, Ownership, Deciding, StopClosed, ObserverClosed, Taken
<1>1. CASE CloseNaturally
  <2>1. CASE MayClose /\ observer = "close" /\ rec' = [rec EXCEPT !.closed = TRUE]
    <3>1. /\ rec'.closed /\ rec'.stopClaimed = rec.stopClaimed
          /\ rec'.finalized = rec.finalized /\ rec.finalized \in 0..2
      BY <2>1 DEF TypeOK, Record
    <3>2. stop' = stop
      BY <1>1 DEF CloseNaturally
    <3>3. ~rec.closed /\ ~rec.stopClaimed /\ rec.finalized = 0
      BY <2>1, <3>1 DEF MayClose
    <3> QED
      BY <3>1, <3>2, <3>3
  <2>2. CASE rec' = rec /\ stop' = stop /\ observer' = "off"
    BY <2>2
  <2> QED
    BY <1>1, <2>1, <2>2 DEF CloseNaturally
<1>2. CASE FinishNaturally
  <2>1. rec'.closed = rec.closed /\ rec'.stopClaimed = rec.stopClaimed
    BY <1>2, FinalizedType DEF FinishNaturally, Outcome
  <2>2. stop' = stop /\ observer = "group" /\ observer' = "off"
    BY <1>2 DEF FinishNaturally
  <2> QED
    BY <2>1, <2>2
<1>3. CASE ~CloseNaturally /\ ~FinishNaturally
  BY <1>3 DEF ObserverSteps, ObserveExit, StepAside, BeginScan, ScanFindsMember,
              ScanFindsNone, ScanUncertain, ForgetNaturally
<1> QED
  BY <1>1, <1>2, <1>3

LEMMA OwnershipStop ==
    ASSUME TypeOK, Ownership, NEW s \in Stopper,
           Lookup(s) \/ StopSteps(s) \/ AwaitTimesOut(s)
    PROVE  Ownership'
<1> USE DEF Ownership, Deciding, StopClosed, ObserverClosed, Taken
<1>0. rec \in Record /\ rec.finalized \in 0..2
  BY DEF TypeOK, Record
<1>1. CASE Lookup(s)
  BY <1>1, GoesEffect, ReturnsEffect DEF Lookup
<1>2. CASE Claim(s)
  <2>1. /\ rec'.stopClaimed /\ rec'.closed = rec.closed
        /\ rec'.finalized = rec.finalized /\ ~rec.closed /\ ~rec.stopClaimed
    BY <1>2, <1>0 DEF Claim, MayClaim, Record
  <2>2. /\ stop'[s].at = "grace" /\ observer' = observer
        /\ \A t \in Stopper \ {s} : stop'[t] = stop[t]
    BY <1>2, GoesEffect DEF Claim
  <2> QED
    BY <1>0, <2>1, <2>2
<1>3. CASE Defer(s)
  BY <1>3, GoesEffect DEF Defer
<1>4. CASE Grace(s)
  <2>1. rec' = rec /\ observer' = observer
    BY <1>4 DEF Grace
  <2> QED
    BY <1>4, <2>1, GraceEffect
<1>5. CASE Kill(s)
  BY <1>5, GoesEffect DEF Kill
<1>6. CASE SeeLeaderExit(s)
  BY <1>6, GoesEffect DEF SeeLeaderExit
<1>7. CASE LeaderStays(s)
  <2>1. rec'.closed = rec.closed /\ rec'.stopClaimed = rec.stopClaimed
    BY <1>7, FinalizedType DEF LeaderStays, Outcome
  <2>2. /\ stop[s].at = "leader" /\ stop'[s].at = "idle" /\ observer' = observer
        /\ \A t \in Stopper \ {s} : stop'[t] = stop[t]
    BY <1>7, ReturnsEffect DEF LeaderStays
  <2> QED
    BY <2>1, <2>2
<1>8. CASE CloseAndReap(s)
  <2>1. /\ stop[s].at = "reap" /\ stop'[s].at = "forget" /\ observer' = observer
        /\ \A t \in Stopper \ {s} : stop'[t] = stop[t]
        /\ rec' = [rec EXCEPT !.closed = TRUE]
    BY <1>8, CloseEffect
  <2>2. rec'.closed /\ rec'.stopClaimed = rec.stopClaimed /\ rec'.finalized = rec.finalized
    BY <1>0, <2>1 DEF Record
  <2> QED
    BY <2>1, <2>2
<1>9. CASE Forget(s)
  BY <1>9, GoesEffect DEF Forget
<1>10. CASE Finish(s)
  <2>1. rec'.closed = rec.closed /\ rec'.stopClaimed = rec.stopClaimed
    BY <1>10, FinalizedType DEF Finish, StopOutcome, Outcome
  <2>2. /\ stop[s].at = "group" /\ stop'[s].at = "idle" /\ observer' = observer
        /\ \A t \in Stopper \ {s} : stop'[t] = stop[t]
    BY <1>10, ReturnsEffect DEF Finish
  <2> QED
    BY <2>1, <2>2
<1>11. CASE AwaitResult(s)
  BY <1>11, ReturnsEffect DEF AwaitResult
<1>12. CASE AwaitTimesOut(s)
  BY <1>12, ReturnsEffect DEF AwaitTimesOut
<1> QED
  BY <1>1, <1>2, <1>3, <1>4, <1>5, <1>6, <1>7, <1>8, <1>9, <1>10, <1>11, <1>12
     DEF StopSteps

LEMMA OwnershipStep ==
    ASSUME TypeOK, Retained, Ownership, [Next]_vars PROVE Ownership'
<1>1. CASE Processes \/ StartSteps \/ UNCHANGED vars
  BY <1>1, Quiet DEF Ownership, Deciding, StopClosed, ObserverClosed, Taken
<1> QED
  BY <1>1, OwnershipObserver, OwnershipStop DEF Next

-----------------------------------------------------------------------------
(***************************************************************************)
(* The three safety properties.                                            *)
(***************************************************************************)

(* finalize is only reached by a decider, and a decider finds finalized 0. *)
LEMMA OneOutcomeStep ==
    ASSUME TypeOK, Retained, Ownership, OneOutcome, [Next]_vars PROVE OneOutcome'
<1> USE DEF OneOutcome
<1>0. rec \in Record
  BY DEF TypeOK
<1>1. CASE Processes \/ StartSteps \/ UNCHANGED vars
  BY <1>1, Quiet
<1>2. CASE ObserverSteps
  <2>1. CASE FinishNaturally
    BY <2>1, FinalizedType
       DEF FinishNaturally, Observe, Ownership, ObserverClosed, Outcome
  <2>2. CASE ~FinishNaturally
    BY <1>0, <1>2, <2>2
       DEF ObserverSteps, ObserveExit, StepAside, BeginScan, ScanFindsMember,
           ScanFindsNone, ScanUncertain, CloseNaturally, ForgetNaturally, Record
  <2> QED
    BY <2>1, <2>2
<1>3. ASSUME NEW s \in Stopper, Lookup(s) \/ StopSteps(s) \/ AwaitTimesOut(s)
      PROVE  OneOutcome'
  <2>1. CASE LeaderStays(s)
    BY <2>1, FinalizedType DEF LeaderStays, Returns, Ownership, Deciding, Outcome
  <2>2. CASE Finish(s)
    BY <2>2, FinalizedType
       DEF Finish, StopOutcome, Returns, Ownership, Deciding, Outcome
  <2>3. CASE ~LeaderStays(s) /\ ~Finish(s)
    BY <1>0, <1>3, <2>3
       DEF StopSteps, Lookup, Claim, Defer, Grace, Kill, SeeLeaderExit, CloseAndReap,
           Forget, AwaitResult, AwaitTimesOut, Record
  <2> QED
    BY <2>1, <2>2, <2>3
<1> QED
  BY <1>1, <1>2, <1>3 DEF Next

(* Once the leader is reaped and no member lives, nothing can fork.        *)
LEMMA GoneIsStable ==
    ASSUME TypeOK, Retained, Gone, [Next]_vars PROVE Gone'
<1> USE DEF Gone, group
<1>1. CASE Processes
  BY <1>1 DEF Processes, LeaderExits, Fork, OtherExits, HandOver, Reuse
<1>2. CASE StartSteps
  BY <1>2 DEF StartSteps, Spawn, Register, PeekFails, SeeFastExit, WindowEnds,
              ReapFastExit, ForgetFastExit, Retained
<1>3. CASE ObserverSteps
  BY <1>3 DEF ObserverSteps, Observe, ObserveExit, StepAside, BeginScan,
              ScanFindsMember, ScanFindsNone, ScanUncertain, CloseNaturally,
              ForgetNaturally, FinishNaturally
<1>4. ASSUME NEW s \in Stopper, Lookup(s) \/ StopSteps(s) \/ AwaitTimesOut(s)
      PROVE  Gone'
  BY <1>4 DEF StopSteps, Lookup, Claim, Defer, Grace, Kill, SeeLeaderExit,
              LeaderStays, CloseAndReap, Forget, Finish, AwaitResult, AwaitTimesOut
<1>5. CASE UNCHANGED vars
  BY <1>5 DEF vars
<1> QED
  BY <1>1, <1>2, <1>3, <1>4, <1>5 DEF Next

LEMMA NoGroupIsGone ==
    ASSUME TypeOK, Retained, start # "no", ~GroupExists PROVE Gone
  BY ForksAssumption DEF TypeOK, Retained, GroupExists, Gone

(* A success that is new was decided by a probe that found no group, or is *)
(* the decided one.                                                        *)
LEMMA SuccessStep ==
    ASSUME TypeOK, Retained, SuccessMeansGone, [Next]_vars PROVE SuccessMeansGone'
<1>0. rec \in Record
  BY DEF TypeOK
<1>1. SUFFICES ASSUME ~Gone PROVE SuccessMeansGone'
  BY GoneIsStable DEF SuccessMeansGone, Gone
<1>2. rec.result # "ok" /\ \A s \in Stopper : stop[s].result # "ok"
  BY <1>1 DEF SuccessMeansGone, Gone
<1>3. SUFFICES (rec'.result = "ok" \/ \E s \in Stopper : stop'[s].result = "ok") => Gone
  BY GoneIsStable DEF SuccessMeansGone, Gone
<1>4. CASE Processes \/ StartSteps \/ UNCHANGED vars
  BY <1>2, <1>4, Quiet
<1>5. CASE ObserverSteps
  <2>1. CASE FinishNaturally
    <3>1. stop' = stop /\ start # "no"
      BY <2>1 DEF FinishNaturally, Observe, Retained
    <3>2. rec'.result = "ok" => ~GroupExists
      BY <2>1, FinalizedType DEF FinishNaturally, Outcome
    <3> QED
      BY <1>2, <3>1, <3>2, NoGroupIsGone
  <2>2. CASE ~FinishNaturally
    BY <1>0, <1>2, <1>5, <2>2
       DEF ObserverSteps, Observe, ObserveExit, StepAside, BeginScan, ScanFindsMember,
           ScanFindsNone, ScanUncertain, CloseNaturally, ForgetNaturally, Record
  <2> QED
    BY <2>1, <2>2
<1>6. ASSUME NEW s \in Stopper, Lookup(s) \/ StopSteps(s) \/ AwaitTimesOut(s)
      PROVE  (rec'.result = "ok" \/ \E t \in Stopper : stop'[t].result = "ok") => Gone
  <2>1. CASE Lookup(s)
    BY <1>2, <2>1, GoesEffect, ReturnsEffect DEF Lookup
  <2>2. CASE Claim(s)
    BY <1>0, <1>2, <2>2, GoesEffect DEF Claim, Record
  <2>3. CASE Defer(s)
    BY <1>2, <2>3, GoesEffect DEF Defer
  <2>4. CASE Grace(s)
    <3>1. rec' = rec
      BY <2>4 DEF Grace
    <3> QED
      BY <1>2, <2>4, <3>1, GraceEffect
  <2>5. CASE Kill(s)
    BY <1>2, <2>5, GoesEffect DEF Kill
  <2>6. CASE SeeLeaderExit(s)
    BY <1>2, <2>6, GoesEffect DEF SeeLeaderExit
  <2>7. CASE LeaderStays(s)
    <3>1. rec'.result = "RecoveryRequired"
      BY <2>7, FinalizedType DEF LeaderStays, Outcome
    <3>2. /\ stop'[s].result = "RecoveryRequired"
          /\ \A t \in Stopper \ {s} : stop'[t] = stop[t]
      BY <2>7, ReturnsEffect DEF LeaderStays
    <3> QED
      BY <1>2, <3>1, <3>2
  <2>8. CASE CloseAndReap(s)
    <3>1. rec'.result = rec.result
      BY <1>0, <2>8 DEF CloseAndReap, Record
    <3> QED
      BY <1>2, <2>8, <3>1, CloseEffect
  <2>9. CASE Forget(s)
    BY <1>2, <2>9, GoesEffect DEF Forget
  <2>10. CASE Finish(s)
    <3>1. start # "no"
      BY <2>10 DEF Finish, Returns, Retained
    <3>2. rec'.result = StopOutcome(s)
      BY <2>10, FinalizedType DEF Finish, StopOutcome, Outcome
    <3>3. /\ stop'[s].result = StopOutcome(s)
          /\ \A t \in Stopper \ {s} : stop'[t] = stop[t]
      BY <2>10, ReturnsEffect DEF Finish
    <3>4. StopOutcome(s) = "ok" => ~GroupExists
      BY DEF StopOutcome
    <3> QED
      BY <1>2, <3>1, <3>2, <3>3, <3>4, NoGroupIsGone
  <2>11. CASE AwaitResult(s)
    BY <1>2, <2>11, ReturnsEffect DEF AwaitResult
  <2>12. CASE AwaitTimesOut(s)
    BY <1>2, <2>12, ReturnsEffect DEF AwaitTimesOut
  <2> QED
    BY <1>6, <2>1, <2>2, <2>3, <2>4, <2>5, <2>6, <2>7, <2>8, <2>9, <2>10, <2>11, <2>12
       DEF StopSteps
<1> QED
  BY <1>4, <1>5, <1>6 DEF Next

(* Only Claim and Kill signal, and each of them finds the record open.     *)
LEMMA SignalsStep ==
    ASSUME TypeOK, Retained, SignalsAreBound, [Next]_vars PROVE SignalsAreBound'
<1> USE DEF SignalsAreBound
<1>1. CASE Processes \/ UNCHANGED vars
  BY <1>1 DEF Processes, LeaderExits, Fork, OtherExits, HandOver, Reuse, vars
<1>2. CASE StartSteps
  BY <1>2 DEF StartSteps, Spawn, Register, PeekFails, SeeFastExit, WindowEnds,
              ReapFastExit, ForgetFastExit
<1>3. CASE ObserverSteps
  BY <1>3 DEF ObserverSteps, Observe, ObserveExit, StepAside, BeginScan,
              ScanFindsMember, ScanFindsNone, ScanUncertain, CloseNaturally,
              ForgetNaturally, FinishNaturally
<1>4. ASSUME NEW s \in Stopper, Lookup(s) \/ StopSteps(s) \/ AwaitTimesOut(s)
      PROVE  SignalsAreBound'
  <2>1. ~rec.closed => /\ "closed" \notin signals \cup Met
                     /\ ("reaped" \in signals \cup Met => start \in {"forget", "failed"})
                     /\ ("foreign" \in signals \cup Met => start \in {"forget", "failed"})
    BY MetType DEF Retained
  <2>2. CASE Claim(s)
    BY <2>1, <2>2 DEF Claim, MayClaim, Taken, Goes
  <2>3. CASE Kill(s)
    BY <2>1, <2>3 DEF Kill, Goes
  <2>4. CASE ~Claim(s) /\ ~Kill(s)
    BY <1>4, <2>4
       DEF StopSteps, Lookup, Defer, Grace, SeeLeaderExit, LeaderStays, CloseAndReap,
           Forget, Finish, AwaitResult, AwaitTimesOut, Goes, Returns
  <2> QED
    BY <2>2, <2>3, <2>4
<1> QED
  BY <1>1, <1>2, <1>3, <1>4 DEF Next

-----------------------------------------------------------------------------
(***************************************************************************)
(* The theorems.                                                           *)
(***************************************************************************)

LEMMA InitInv == Init => IInv
<1> SUFFICES ASSUME Init PROVE IInv
  OBVIOUS
<1>1. \A s \in Stopper : stop[s].at = "idle" /\ stop[s].result # "ok"
  BY NoneAssumption DEF Init, NoCall
<1>2. TypeOK
  <2>1. NoCall \in Call /\ rec \in Record
    BY DEF Init, NoCall, Call, Record
  <2>2. stop \in [Stopper -> Call]
    BY <2>1 DEF Init
  <2>3. forks \in 0..MaxForks /\ others \in 0..forks
    BY ForksAssumption DEF Init
  <2> QED
    BY <2>1, <2>2, <2>3 DEF Init, TypeOK
<1>3. Ownership
  BY <1>1 DEF Init, Ownership, Deciding, ObserverClosed
<1>4. Retained
  BY <1>1 DEF Init, Retained
<1>5. OneOutcome /\ SuccessMeansGone /\ SignalsAreBound
  BY <1>1, NoneAssumption DEF Init, OneOutcome, SuccessMeansGone, SignalsAreBound
<1> QED
  BY <1>2, <1>3, <1>4, <1>5 DEF IInv

LEMMA StepInv == IInv /\ [Next]_vars => IInv'
  BY TypeStep, OwnershipStep, RetainedStep, OneOutcomeStep, SuccessStep, SignalsStep
     DEF IInv

(* Every reachable state is well typed, and at most one activity owns the  *)
(* decision on the outcome (supervisor.go:358-373, 521-548).               *)
THEOREM Invariance == Spec => []IInv
<1>1. Init => IInv
  BY InitInv
<1>2. IInv /\ [Next]_vars => IInv'
  BY StepInv
<1> QED
  BY <1>1, <1>2, PTL DEF Spec

(* The record, its group, the observer and every Stop are where the code   *)
(* can have brought them (Start, observeNaturalExit, Stop).                *)
THEOREM TypeCorrect == Spec => []TypeOK
BY Invariance, PTL DEF IInv

(* The outcome is decided at most once, whatever Start, the observer and   *)
(* any number of Stop calls do: done is never closed twice                 *)
(* (supervisor.go:105-113).                                                *)
THEOREM OneDecider == Spec => []OneOutcome
<1>1. IInv => OneOutcome
  BY DEF IInv
<1> QED
  BY <1>1, Invariance, PTL

(* A success reported by a Stop or learned by a waiter is true, and stays  *)
(* true: every process of the group is gone (supervisor.go:413-425).       *)
THEOREM SuccessIsTrue == Spec => []SuccessMeansGone
<1>1. IInv => SuccessMeansGone
  BY DEF IInv
<1> QED
  BY <1>1, Invariance, PTL

(* No signal follows the closing of the record, nor the reaping of the     *)
(* leader but for Start's fast exit, and so none ever meets strangers      *)
(* under the group's number but there (supervisor.go:533-544).             *)
THEOREM SignalsStayBound == Spec => []SignalsAreBound
<1>1. IInv => SignalsAreBound
  BY DEF IInv
<1> QED
  BY <1>1, Invariance, PTL
=============================================================================
