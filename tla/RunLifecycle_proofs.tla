------------------------ MODULE RunLifecycle_proofs ------------------------
(***************************************************************************)
(* Proofs about RunLifecycle, for any agents, profiles, runs, requests and *)
(* concurrent calls: a run is dispatched at most once, no agent has two    *)
(* worker groups, and the outcome of a start is never rewritten.           *)
(*                                                                         *)
(* The dispatch marker is what all three rest on.  Only one call gets past *)
(* it, that call spawns before it can report anything (Marked, Started),   *)
(* and a run that may still get a live group keeps its agent busy          *)
(* (OneMayLive).                                                           *)
(***************************************************************************)
EXTENDS RunLifecycle, SequenceTheorems, TLAPS

InFlight == [step : Step, run : RunID]

(* Call h is the one that committed the marker of run r.                   *)
Dispatching(h, r) ==
    /\ handlers[h].step \in {"marked", "spawned", "startOk", "startErr"}
    /\ handlers[h].run = r

(* Calls, receipts and operations are about runs that are in the store.    *)
Served ==
    /\ \A h \in Handler : handlers[h] # Idle => Exists(handlers[h].run)
    /\ \A k \in Agent \X RequestID : receipts[k] # None => Exists(receipts[k].run)
    /\ \A r \in RunID : startOp[r] # None => Exists(r)

(* One call gets past the marker, and the start has no outcome before it.  *)
Marked == \A r \in RunID :
    /\ \A h \in Handler : Dispatching(h, r) =>
          /\ runs[r].DispatchAttempted
          /\ startOp[r] \notin {"Succeeded", "Failed"}
          /\ \A k \in Handler : Dispatching(k, r) => k = h
    /\ Exists(r) /\ ~runs[r].DispatchAttempted =>
          startOp[r] \notin {"Succeeded", "Failed"}

(* A group, its record and every later step of a call come after the spawn,*)
(* and the calls about to record that a run is Exited know its group gone. *)
Started ==
    /\ \A h \in Handler : At(h, "marked") => starts[handlers[h].run] = 0
    /\ \A h \in Handler :
          handlers[h].step \in {"spawned", "startOk", "startErr",
                                "stopping", "stopOk"} =>
              starts[handlers[h].run] = 1
    /\ \A r \in RunID : group[r] # "none" \/ owned[r] # "no" => starts[r] = 1
    /\ \A h \in Handler :
          handlers[h].step \in {"startErr", "stopOk"} =>
              group[handlers[h].run] # "live"

(* A run that has a live group or may still get one.                       *)
MayLive(r) ==
    \/ group[r] = "live"
    \/ \E h \in Handler : At(h, "marked") /\ handlers[h].run = r
    \/ Exists(r) /\ runs[r].State = "Starting" /\ ~runs[r].DispatchAttempted

(* Such a run is not Exited, and is the only one of its agent.             *)
OneMayLive ==
    /\ \A r \in RunID : MayLive(r) => Exists(r) /\ runs[r].State # "Exited"
    /\ \A r, q \in RunID :
          r # q /\ MayLive(r) /\ MayLive(q) => runs[r].AgentID # runs[q].AgentID

IInv == TypeOK /\ DispatchedOnce /\ Served /\ Marked /\ Started /\ OneMayLive

-----------------------------------------------------------------------------
(* What a run and a call in flight are.                                    *)
LEMMA Typed ==
  ASSUME TypeOK
  PROVE  /\ \A r \in RunID : Exists(r) => runs[r] \in Run
         /\ \A h \in Handler : handlers[h] # Idle => handlers[h] \in InFlight
         /\ \A h \in Handler, s \in Step : At(h, s) => handlers[h] \in InFlight
BY DEF TypeOK, Exists, InFlight, At, Idle, Step

(* A commit that observes a run changes its state and nothing else that    *)
(* the invariants read.                                                    *)
Observed(r, s) ==
    /\ runs' \in [RunID -> Run \cup {None}]
    /\ \A q \in RunID : Exists(q) =>
          /\ Exists(q)'
          /\ runs'[q].AgentID = runs[q].AgentID
          /\ runs'[q].DispatchAttempted = runs[q].DispatchAttempted
          /\ runs'[q].State = IF q = r THEN s ELSE runs[q].State
    /\ \A q \in RunID : Exists(q)' => Exists(q)

LEMMA RunMoves ==
  ASSUME TypeOK, NEW r \in RunID, Exists(r), NEW s \in RunState,
         \/ runs' = [runs EXCEPT ![r].State = s]
         \/ \E e \in {"startFailed", "stopped"} :
               runs' = [runs EXCEPT ![r].State = s, ![r].ExitReason = e]
  PROVE  Observed(r, s)
<1>1. runs[r] \in Run /\ runs \in [RunID -> Run \cup {None}]
  BY DEF TypeOK, Exists
<1>2. /\ runs' \in [RunID -> Run \cup {None}] /\ runs'[r] \in Run
      /\ \A q \in RunID \ {r} : runs'[q] = runs[q]
  BY <1>1 DEF Run
<1>3. /\ runs'[r].AgentID = runs[r].AgentID /\ runs'[r].State = s
      /\ runs'[r].DispatchAttempted = runs[r].DispatchAttempted
  BY <1>1 DEF Run
<1>4. runs'[r] # None
  BY <1>2, NoneAssumption
<1> QED
  BY <1>2, <1>3, <1>4 DEF Exists, Observed

(* The marker's commit.                                                    *)
LEMMA RunMarked ==
  ASSUME TypeOK, NEW r \in RunID, Exists(r),
         runs' = [runs EXCEPT ![r].DispatchAttempted = TRUE]
  PROVE  /\ runs' \in [RunID -> Run \cup {None}]
         /\ \A q \in RunID : Exists(q) =>
               /\ Exists(q)'
               /\ runs'[q].AgentID = runs[q].AgentID
               /\ runs'[q].State = runs[q].State
         /\ \A q \in RunID : Exists(q)' => Exists(q)
         /\ runs'[r].DispatchAttempted
         /\ \A q \in RunID \ {r} : runs'[q] = runs[q]
<1>1. runs[r] \in Run /\ runs \in [RunID -> Run \cup {None}]
  BY DEF TypeOK, Exists
<1>2. /\ runs' \in [RunID -> Run \cup {None}] /\ runs'[r] \in Run
      /\ \A q \in RunID \ {r} : runs'[q] = runs[q]
  BY <1>1 DEF Run
<1>3. /\ runs'[r].AgentID = runs[r].AgentID /\ runs'[r].State = runs[r].State
      /\ runs'[r].DispatchAttempted
  BY <1>1 DEF Run
<1>4. runs'[r] # None
  BY <1>2, NoneAssumption
<1> QED
  BY <1>2, <1>3, <1>4 DEF Exists

(* A step of call h leaves the other calls alone, and it at its new step   *)
(* or at its end.                                                          *)
LEMMA HandlerMoves ==
  ASSUME TypeOK, NEW h \in Handler, NEW s \in Step, NEW r \in RunID,
         \/ Reaches(h, s) /\ handlers[h].run = r
         \/ Applied(h, s, r)
         \/ handlers' = [handlers EXCEPT ![h] = Idle]
         \/ handlers' = [handlers EXCEPT ![h] = [step |-> s, run |-> r]]
  PROVE  /\ handlers' \in [Handler -> InFlight \cup {Idle}]
         /\ \A k \in Handler \ {h} : handlers'[k] = handlers[k]
         /\ handlers'[h] \in {Idle, [step |-> s, run |-> r]}
<1>1. [step |-> s, run |-> r] \in InFlight
  BY DEF InFlight
<1>2. CASE handlers' = [handlers EXCEPT ![h] = [step |-> s, run |-> r]]
  BY <1>1, <1>2 DEF TypeOK, InFlight
<1>3. CASE Reaches(h, s) /\ handlers[h].run = r
  BY <1>2, <1>3 DEF Reaches, RunOf
<1>4. CASE Applied(h, s, r)
  <2>1. PICK c \in BOOLEAN : handlers' =
           [handlers EXCEPT ![h] = IF c THEN [step |-> s, run |-> r] ELSE Idle]
    BY <1>4 DEF Applied
  <2> QED
    BY <1>1, <2>1 DEF TypeOK, InFlight
<1>5. CASE handlers' = [handlers EXCEPT ![h] = Idle]
  BY <1>5 DEF TypeOK, InFlight
<1> QED
  BY <1>2, <1>3, <1>4, <1>5

(* A step that lets no further run have a live group keeps the runs that   *)
(* may have one apart.                                                     *)
LEMMA LiveStaysApart ==
  ASSUME OneMayLive,
         \A r \in RunID : Exists(r) =>
            Exists(r)' /\ runs'[r].AgentID = runs[r].AgentID,
         \A r \in RunID : MayLive(r)' => MayLive(r) /\ runs'[r].State # "Exited"
  PROVE  OneMayLive'
BY DEF OneMayLive

(* The steps that change only how far a call has got: it ends, it begins   *)
(* at a replay, or it reads what the supervisor answers.                   *)
LEMMA HandlersOnly ==
  ASSUME IInv, NEW h \in Handler, NEW s \in Step, NEW r \in RunID,
         \/ Reaches(h, s) /\ handlers[h].run = r
         \/ handlers' = [handlers EXCEPT ![h] = Idle]
         \/ handlers' = [handlers EXCEPT ![h] = [step |-> s, run |-> r]],
         UNCHANGED <<durable, owned, group, starts>>, host' = host, 
         Exists(r),
         s \in {"intended", "startOk", "stopIntended", "stopErr"},
         s = "startOk" => handlers[h].step = "spawned" /\ handlers[h].run = r
  PROVE  IInv'
<1> USE DEF IInv
<1>1. /\ handlers' \in [Handler -> InFlight \cup {Idle}]
      /\ \A k \in Handler \ {h} : handlers'[k] = handlers[k]
      /\ handlers'[h] \in {Idle, [step |-> s, run |-> r]}
  BY HandlerMoves DEF Step
<1>2. UNCHANGED <<approved, runs, startOp, stopOps, receipts, owned, group, starts, host>>
  BY DEF durable
<1>3. TypeOK'
  BY <1>1, <1>2 DEF TypeOK, InFlight
<1>4. DispatchedOnce'
  BY <1>2 DEF DispatchedOnce, Exists
<1>5. Served'
  BY <1>1, <1>2 DEF Served, Exists, Idle
<1>6. \A k \in Handler, q \in RunID : Dispatching(k, q)' => Dispatching(k, q)
  BY <1>1 DEF Dispatching, Idle
<1>7. Marked'
  BY <1>2, <1>6 DEF Marked, Exists
<1>8. Started'
  BY <1>1, <1>2 DEF Started, At, Idle
<1>9. OneMayLive'
  <2>1. \A q \in RunID : MayLive(q)' => MayLive(q)
    BY <1>1, <1>2 DEF MayLive, At, Exists, Idle
  <2> QED
    BY <1>2, <2>1, LiveStaysApart DEF OneMayLive, Exists
<1> QED
  BY <1>3, <1>4, <1>5, <1>7, <1>8, <1>9

LEMMA CallSteps ==
  ASSUME IInv, NEW h \in Handler,
         \/ CommitFails(h) \/ StartReturns(h) \/ StopFindsNothing(h)
         \/ \E a \in Agent, q \in RequestID, r \in RunID :
               StartReplay(h, a, q, r) \/ StopReplay(h, a, q, r)
  PROVE  IInv'
<1> USE DEF IInv
<1>1. CASE CommitFails(h) \/ StartReturns(h) \/ StopFindsNothing(h)
  <2>1. handlers[h] \in InFlight /\ Exists(handlers[h].run)
    BY <1>1, Typed DEF CommitFails, StartReturns, StopFindsNothing, At, Step,
       Served, Idle
  <2>2. handlers[h].run \in RunID
    BY <2>1 DEF InFlight
  <2>3. CASE CommitFails(h)
    BY <2>1, <2>2, <2>3, HandlersOnly DEF CommitFails, Step
  <2>4. CASE StartReturns(h)
    BY <2>1, <2>2, <2>4, HandlersOnly DEF StartReturns, At, Step
  <2>5. CASE StopFindsNothing(h)
    BY <2>1, <2>2, <2>5, HandlersOnly DEF StopFindsNothing, Step
  <2> QED
    BY <1>1, <2>3, <2>4, <2>5
<1>2. ASSUME NEW a \in Agent, NEW q \in RequestID, NEW r \in RunID,
             StartReplay(h, a, q, r) \/ StopReplay(h, a, q, r)
      PROVE  IInv'
  <2>1. receipts[<<a, q>>].run = r /\ receipts[<<a, q>>] \in Receipt
    BY <1>2, NoneAssumption DEF StartReplay, StopReplay, Replays, Receipt
  <2>2. Exists(r)
    BY <2>1, NoneAssumption DEF Served
  <2>3. CASE StartReplay(h, a, q, r)
    BY <2>2, <2>3, HandlersOnly DEF StartReplay, Step
  <2>4. CASE StopReplay(h, a, q, r)
    BY <2>2, <2>4, HandlersOnly DEF StopReplay, Step
  <2> QED
    BY <1>2, <2>3, <2>4
<1> QED
  BY <1>1, <1>2

(* The intent: no run that may be live is the agent's, since only an Exited*)
(* run releases it.                                                        *)
LEMMA IntentStep ==
  ASSUME IInv, NEW h \in Handler, NEW a \in Agent, NEW q \in RequestID,
         NEW r \in RunID, NEW p \in Profile, StartIntent(h, a, q, r, p)
  PROVE  IInv'
<1> USE DEF IInv
<1> DEFINE new == [AgentID |-> a, ProfileID |-> p, State |-> "Starting",
                   DispatchAttempted |-> FALSE, ExitReason |-> None]
           k == <<a, q>>
           receipt == [command |-> "StartRun", run |-> r]
<1>1. /\ handlers' \in [Handler -> InFlight \cup {Idle}]
      /\ \A g \in Handler \ {h} : handlers'[g] = handlers[g]
      /\ handlers'[h] \in {Idle, [step |-> "intended", run |-> r]}
  <2>1. "intended" \in Step
    BY DEF Step
  <2> QED
    BY <2>1, HandlerMoves DEF StartIntent
<1>2. new \in Run /\ new # None /\ receipt \in Receipt /\ receipt # None
  <2>1. new \in Run
    BY DEF Run, RunState
  <2>2. receipt \in Receipt
    BY DEF Receipt
  <2> QED
    BY <2>1, <2>2, NoneAssumption
<1>3. /\ runs' = [runs EXCEPT ![r] = new] /\ startOp' = [startOp EXCEPT ![r] = "Pending"]
      /\ receipts' = [receipts EXCEPT ![k] = receipt]
      /\ UNCHANGED <<approved, stopOps, host, owned, group, starts>>
      /\ ~Exists(r) /\ ~HasActiveRun(a)
  BY DEF StartIntent, Recorded
<1>4. /\ runs' \in [RunID -> Run \cup {None}]
      /\ runs'[r] = new /\ \A t \in RunID \ {r} : runs'[t] = runs[t]
  BY <1>2, <1>3 DEF TypeOK
<1>5. TypeOK'
  <2>1. startOp' \in [RunID -> OpState \cup {None}]
    BY <1>3 DEF TypeOK, OpState
  <2>2. receipts' \in [Agent \X RequestID -> Receipt \cup {None}]
    BY <1>2, <1>3 DEF TypeOK
  <2> QED
    BY <1>1, <1>3, <1>4, <2>1, <2>2 DEF TypeOK, InFlight
<1>6. starts[r] = 0
  <2>1. starts[r] \in Nat /\ starts[r] <= 1 /\ starts[r] # 1
    BY <1>3 DEF DispatchedOnce, TypeOK
  <2> QED
    BY <2>1
<1>7. DispatchedOnce'
  BY <1>3, <1>4, <1>6 DEF DispatchedOnce, Exists
<1>8. Served'
  <2>1. \A t \in RunID : Exists(t) => Exists(t)'
    BY <1>2, <1>4 DEF Exists
  <2>2. Exists(r)'
    BY <1>2, <1>4 DEF Exists
  <2>3. \A g \in Handler : handlers'[g] # Idle => runs'[handlers'[g].run] # None
    <3> TAKE g \in Handler
    <3>1. CASE g = h
      BY <1>1, <2>2, <3>1 DEF Exists
    <3>2. CASE g # h
      BY <1>1, <2>1, <3>2, Typed DEF Served, InFlight, Exists
    <3> QED
      BY <3>1, <3>2
  <2>4. \A j \in Agent \X RequestID : receipts'[j] # None => runs'[receipts'[j].run] # None
    <3> TAKE j \in Agent \X RequestID
    <3>1. CASE j = k
      BY <1>3, <2>2, <3>1 DEF TypeOK, Exists
    <3>2. CASE j # k
      <4>1. receipts'[j] = receipts[j] /\ receipts[j] \in Receipt \cup {None}
        BY <1>3, <3>2 DEF TypeOK
      <4> QED
        BY <2>1, <4>1 DEF Served, Receipt, Exists
    <3> QED
      BY <3>1, <3>2
  <2>5. \A t \in RunID : startOp'[t] # None => Exists(t)'
    BY <1>3, <2>1, <2>2 DEF Served, TypeOK
  <2> QED
    BY <2>3, <2>4, <2>5 DEF Served, Exists
<1>9. Marked'
  <2>1. \A g \in Handler, t \in RunID : Dispatching(g, t)' => Dispatching(g, t) /\ t # r
    BY <1>1, <1>3 DEF Dispatching, Idle, Served
  <2>2. startOp'[r] = "Pending" /\ \A t \in RunID \ {r} : startOp'[t] = startOp[t]
    BY <1>3 DEF TypeOK
  <2> QED
    BY <1>4, <2>1, <2>2 DEF Marked, Exists
<1>10. Started'
  BY <1>1, <1>3 DEF Started, At, Idle
<1>11. OneMayLive'
  <2>1. \A t \in RunID \ {r} : MayLive(t)' => MayLive(t)
    BY <1>1, <1>3, <1>4 DEF MayLive, At, Exists, Idle
  <2>2. \A t \in RunID \ {r} : MayLive(t) => runs[t].AgentID # a
    BY <1>3, Typed DEF OneMayLive, HasActiveRun, Run, RunState
  <2>3. Exists(r)' /\ runs'[r].State = "Starting" /\ runs'[r].AgentID = a
    BY <1>2, <1>4 DEF Exists
  <2> QED
    BY <1>4, <2>1, <2>2, <2>3 DEF OneMayLive, Exists
<1> QED
  BY <1>5, <1>7, <1>8, <1>9, <1>10, <1>11

(* The marker: the call that commits it is the only one past it, and has   *)
(* not spawned.                                                            *)
LEMMA MarkStep ==
  ASSUME IInv, NEW h \in Handler, MarkDispatch(h)
  PROVE  IInv'
<1> USE DEF IInv
<1> DEFINE r == handlers[h].run
<1>1. r \in RunID /\ Exists(r)
  BY Typed DEF MarkDispatch, At, Step, InFlight, Served, Idle
<1>2. /\ runs' = [runs EXCEPT ![r].DispatchAttempted = TRUE]
      /\ startOp' = [startOp EXCEPT ![r] = "Running"]
      /\ Applied(h, "marked", r)
      /\ UNCHANGED <<approved, stopOps, receipts, host, owned, group, starts>>
      /\ ~runs[r].DispatchAttempted /\ runs[r].State = "Starting"
  BY DEF MarkDispatch, RunOf, CanDispatch
<1> HIDE DEF r
<1>3. /\ handlers' \in [Handler -> InFlight \cup {Idle}]
      /\ \A g \in Handler \ {h} : handlers'[g] = handlers[g]
      /\ handlers'[h] \in {Idle, [step |-> "marked", run |-> r]}
  BY <1>1, <1>2, HandlerMoves DEF Step
<1>4. /\ runs' \in [RunID -> Run \cup {None}]
      /\ \A q \in RunID : Exists(q) =>
            /\ Exists(q)'
            /\ runs'[q].AgentID = runs[q].AgentID
            /\ runs'[q].State = runs[q].State
      /\ \A q \in RunID : Exists(q)' => Exists(q)
      /\ runs'[r].DispatchAttempted
      /\ \A q \in RunID \ {r} : runs'[q] = runs[q]
  BY <1>1, <1>2, RunMarked
<1>5. startOp'[r] = "Running" /\ \A q \in RunID \ {r} : startOp'[q] = startOp[q]
  BY <1>1, <1>2 DEF TypeOK
<1>6. starts[r] = 0
  <2>1. starts[r] \in Nat /\ starts[r] <= 1 /\ starts[r] # 1
    BY <1>1, <1>2 DEF DispatchedOnce, TypeOK
  <2> QED
    BY <2>1
<1>7. TypeOK'
  <2>1. startOp' \in [RunID -> OpState \cup {None}]
    BY <1>2 DEF TypeOK, OpState
  <2> QED
    BY <1>2, <1>3, <1>4, <2>1 DEF TypeOK, InFlight
<1>8. DispatchedOnce'
  BY <1>2, <1>4 DEF DispatchedOnce
<1>9. Served'
  <2>1. \A g \in Handler : handlers'[g] # Idle => runs'[handlers'[g].run] # None
    BY <1>1, <1>3, <1>4, Typed DEF Served, Exists, InFlight
  <2>2. \A k \in Agent \X RequestID : receipts'[k] # None => runs'[receipts'[k].run] # None
    BY <1>2, <1>4 DEF Served, Exists, TypeOK, Receipt
  <2>3. \A q \in RunID : startOp'[q] # None => Exists(q)'
    BY <1>1, <1>4, <1>5 DEF Served
  <2> QED
    BY <2>1, <2>2, <2>3 DEF Served, Exists
<1>10. Marked'
  <2>1. \A g \in Handler : ~Dispatching(g, r)
    BY <1>1, <1>2 DEF Marked
  <2>2. \A g \in Handler, q \in RunID :
           Dispatching(g, q)' => (g = h /\ q = r) \/ (q # r /\ Dispatching(g, q))
    BY <1>3, <2>1 DEF Dispatching, Idle
  <2> QED
    BY <1>4, <1>5, <2>2 DEF Marked, Exists
<1>11. Started'
  BY <1>2, <1>3, <1>6 DEF Started, At, Idle
<1>12. OneMayLive'
  <2>1. MayLive(r)
    BY <1>1, <1>2 DEF MayLive
  <2>2. \A q \in RunID : MayLive(q)' => MayLive(q)
    <3> TAKE q \in RunID
    <3>1. CASE q = r
      BY <2>1, <3>1
    <3>2. CASE q # r
      BY <1>2, <1>3, <1>4, <3>2 DEF MayLive, At, Exists, Idle
    <3> QED
      BY <3>1, <3>2
  <2> QED
    BY <1>4, <2>2, LiveStaysApart DEF OneMayLive
<1> QED
  BY <1>7, <1>8, <1>9, <1>10, <1>11, <1>12

(* Supervisor.Start is called: by the one call at the marker, once.        *)
LEMMA SpawnStep ==
  ASSUME IInv, NEW h \in Handler, Spawn(h) \/ SpawnFails(h)
  PROVE  IInv'
<1> USE DEF IInv
<1> DEFINE r == handlers[h].run
           to == IF Spawn(h) THEN "spawned" ELSE "startErr"
<1>1. r \in RunID /\ Exists(r) /\ At(h, "marked")
  BY Typed DEF Spawn, SpawnFails, At, Step, InFlight, Served, Idle
<1>2. /\ starts' = [starts EXCEPT ![r] = @ + 1]
      /\ UNCHANGED <<approved, runs, startOp, stopOps, receipts, host>>
      /\ \/ /\ Reaches(h, "spawned")
            /\ group' = [group EXCEPT ![r] = "live"]
            /\ owned' = [owned EXCEPT ![r] = "yes"]
         \/ Reaches(h, "startErr") /\ UNCHANGED <<owned, group>>
  BY DEF Spawn, SpawnFails, RunOf, durable
<1>3. /\ starts[r] = 0 /\ runs[r].DispatchAttempted /\ Dispatching(h, r)
      /\ group[r] = "none"
  BY <1>1 DEF Started, Marked, Dispatching, At
<1> HIDE DEF r
<1>4. PICK s \in {"spawned", "startErr"} :
      /\ handlers' \in [Handler -> InFlight \cup {Idle}]
      /\ \A g \in Handler \ {h} : handlers'[g] = handlers[g]
      /\ handlers'[h] = [step |-> s, run |-> r]
      /\ s = "startErr" => UNCHANGED <<owned, group>>
      /\ group' \in [RunID -> Group] /\ owned' \in [RunID -> {"no", "yes", "claimed"}]
      /\ \A q \in RunID \ {r} : group'[q] = group[q] /\ owned'[q] = owned[q]
  <2>1. handlers[h].run = r
    BY DEF r
  <2>2. CASE Reaches(h, "spawned") /\ group' = [group EXCEPT ![r] = "live"]
             /\ owned' = [owned EXCEPT ![r] = "yes"]
    BY <1>1, <2>1, <2>2 DEF TypeOK, Reaches, RunOf, InFlight, Step, Group
  <2>3. CASE Reaches(h, "startErr") /\ UNCHANGED <<owned, group>>
    BY <1>1, <2>1, <2>3 DEF TypeOK, Reaches, RunOf, InFlight, Step
  <2> QED
    BY <1>2, <2>2, <2>3
<1>5. /\ starts' \in [RunID -> Nat] /\ starts'[r] = 1
      /\ \A q \in RunID \ {r} : starts'[q] = starts[q]
  BY <1>1, <1>2, <1>3 DEF TypeOK
<1>6. TypeOK'
  BY <1>2, <1>4, <1>5 DEF TypeOK, InFlight
<1>7. DispatchedOnce'
  BY <1>1, <1>2, <1>3, <1>5 DEF DispatchedOnce, Exists
<1>8. Served'
  BY <1>1, <1>2, <1>4 DEF Served, Exists
<1>9. \A g \in Handler, q \in RunID : Dispatching(g, q)' => Dispatching(g, q)
  BY <1>3, <1>4 DEF Dispatching
<1>10. Marked'
  BY <1>2, <1>9 DEF Marked, Exists
<1>11. \A g \in Handler \ {h} : At(g, "marked") => handlers[g].run # r
  BY <1>1, <1>3 DEF Marked, Dispatching, At
<1>12. Started'
  <2>1. \A g \in Handler : At(g, "marked")' => starts'[handlers'[g].run] = 0
    BY <1>4, <1>5, <1>11, Typed DEF Started, At, Step, InFlight
  <2>2. \A g \in Handler :
           handlers'[g].step \in {"spawned", "startOk", "startErr", "stopping", "stopOk"} =>
              starts'[handlers'[g].run] = 1
    BY <1>4, <1>5, Typed DEF Started, Idle, InFlight
  <2>3. \A q \in RunID : group'[q] # "none" \/ owned'[q] # "no" => starts'[q] = 1
    BY <1>4, <1>5 DEF Started
  <2>4. \A g \in Handler : handlers'[g].step \in {"startErr", "stopOk"} =>
           group'[handlers'[g].run] # "live"
    <3> TAKE g \in Handler
    <3>1. CASE g = h
      BY <1>3, <1>4, <3>1
    <3>2. CASE g # h /\ handlers[g].step \in {"startErr", "stopOk"}
      BY <1>3, <1>4, <3>2, Typed DEF Started, Idle, InFlight
    <3> QED
      BY <1>4, <3>1, <3>2
  <2> QED
    BY <2>1, <2>2, <2>3, <2>4 DEF Started, At
<1>13. OneMayLive'
  <2>1. MayLive(r)
    BY <1>1 DEF MayLive, r
  <2>2. \A q \in RunID : MayLive(q)' => MayLive(q)
    <3> TAKE q \in RunID
    <3>1. CASE q = r
      BY <2>1, <3>1
    <3>2. CASE q # r
      BY <1>2, <1>4, <3>2 DEF MayLive, At, Exists
    <3> QED
      BY <3>1, <3>2
  <2> QED
    BY <1>2, <2>2, LiveStaysApart DEF OneMayLive, Exists
<1> QED
  BY <1>6, <1>7, <1>8, <1>10, <1>12, <1>13

(* The steps that only move a call on and record, forget or empty a group. *)
LEMMA SupervisorSteps ==
  ASSUME IInv, NEW h \in Handler,
         StartGivesUp(h) \/ StopClaims(h) \/ StopSucceeds(h) \/ StopGivesUp(h)
  PROVE  IInv'
<1> USE DEF IInv
<1> DEFINE r == handlers[h].run
<1>1. /\ r \in RunID /\ Exists(r)
      /\ handlers[h].step \in {"spawned", "stopIntended", "stopping"}
  BY Typed DEF StartGivesUp, StopClaims, StopSucceeds, StopGivesUp, At, Step,
     InFlight, Served, Idle
<1>2. starts[r] = 1
  BY <1>1 DEF StartGivesUp, StopClaims, StopSucceeds, StopGivesUp, At, Started, RunOf
<1>3. PICK s \in {"startErr", "stopping", "stopOk", "stopErr"} :
      /\ Reaches(h, s)
      /\ s = "startErr" => handlers[h].step = "spawned"
      /\ group' \in [RunID -> Group]
      /\ \A q \in RunID \ {r} : group'[q] = group[q]
      /\ group'[r] = "live" => group[r] = "live"
      /\ s \in {"startErr", "stopOk"} => group'[r] # "live"
      /\ owned' \in [RunID -> {"no", "yes", "claimed"}]
      /\ \A q \in RunID \ {r} : owned'[q] = owned[q]
  <2>1. CASE StartGivesUp(h)
    <3>1. Reaches(h, "startErr") /\ handlers[h].step = "spawned"
      BY <2>1 DEF StartGivesUp, At
    <3> QED
      BY <1>1, <2>1, <3>1 DEF StartGivesUp, TypeOK, Group, RunOf
  <2>2. CASE StopClaims(h)
    <3>1. Reaches(h, "stopping")
      BY <2>2 DEF StopClaims
    <3> QED
      BY <1>1, <2>2, <3>1 DEF StopClaims, TypeOK, RunOf
  <2>3. CASE StopSucceeds(h)
    <3>1. Reaches(h, "stopOk")
      BY <2>3 DEF StopSucceeds
    <3> QED
      BY <1>1, <2>3, <3>1 DEF StopSucceeds, TypeOK, Group, RunOf
  <2>4. CASE StopGivesUp(h)
    <3>1. Reaches(h, "stopErr")
      BY <2>4 DEF StopGivesUp
    <3> QED
      BY <1>1, <2>4, <3>1 DEF StopGivesUp, TypeOK, RunOf
  <2> QED
    BY <2>1, <2>2, <2>3, <2>4
<1>4. UNCHANGED <<approved, runs, startOp, stopOps, receipts, host, starts>>
  BY DEF StartGivesUp, StopClaims, StopSucceeds, StopGivesUp, durable
<1>5. handlers[h].run = r
  OBVIOUS
<1> HIDE DEF r
<1>6. /\ handlers' \in [Handler -> InFlight \cup {Idle}]
      /\ \A g \in Handler \ {h} : handlers'[g] = handlers[g]
      /\ handlers'[h] = [step |-> s, run |-> r]
  BY <1>1, <1>3, <1>5 DEF TypeOK, Reaches, RunOf, InFlight, Step
<1>7. TypeOK'
  BY <1>3, <1>4, <1>6 DEF TypeOK, InFlight
<1>8. DispatchedOnce'
  BY <1>4 DEF DispatchedOnce, Exists
<1>9. Served'
  BY <1>1, <1>4, <1>6 DEF Served, Exists
<1>10. \A g \in Handler, q \in RunID : Dispatching(g, q)' => Dispatching(g, q)
  BY <1>3, <1>5, <1>6 DEF Dispatching
<1>11. Marked'
  BY <1>4, <1>10 DEF Marked, Exists
<1>12. Started'
  <2>1. \A g \in Handler : At(g, "marked")' => starts'[handlers'[g].run] = 0
    BY <1>4, <1>6 DEF Started, At
  <2>2. \A g \in Handler :
           handlers'[g].step \in {"spawned", "startOk", "startErr", "stopping", "stopOk"} =>
              starts'[handlers'[g].run] = 1
    BY <1>2, <1>4, <1>6 DEF Started
  <2>3. \A q \in RunID : group'[q] # "none" \/ owned'[q] # "no" => starts'[q] = 1
    BY <1>2, <1>3, <1>4 DEF Started
  <2>4. \A g \in Handler : handlers'[g].step \in {"startErr", "stopOk"} =>
           group'[handlers'[g].run] # "live"
    <3> TAKE g \in Handler
    <3>1. CASE g = h
      BY <1>3, <1>6, <3>1
    <3>2. CASE g # h /\ handlers[g].step \in {"startErr", "stopOk"}
      BY <1>3, <1>6, <3>2, Typed DEF Started, Idle, InFlight
    <3> QED
      BY <1>6, <3>1, <3>2
  <2> QED
    BY <2>1, <2>2, <2>3, <2>4 DEF Started, At
<1>13. OneMayLive'
  <2>1. \A q \in RunID : MayLive(q)' => MayLive(q)
    BY <1>3, <1>4, <1>6 DEF MayLive, At, Exists
  <2> QED
    BY <1>4, <2>1, LiveStaysApart DEF OneMayLive, Exists
<1> QED
  BY <1>7, <1>8, <1>9, <1>11, <1>12, <1>13

(* The commits of an outcome, of a stop intent and of the reconciliation   *)
(* set the state of a run that exists.  What they share: an operation of   *)
(* the run gets a state, no group changes, and no further run may be live. *)
LEMMA RunStateStep ==
  ASSUME IInv, NEW r \in RunID, Exists(r), NEW s \in RunState,
         Observed(r, s), s # "Starting",
         s = "Exited" => ~MayLive(r),
         handlers' \in [Handler -> InFlight \cup {Idle}],
         \A h \in Handler : \/ handlers'[h] = handlers[h] \/ handlers'[h] = Idle
                            \/ handlers'[h] = [step |-> "stopIntended", run |-> r],
         startOp' \in [RunID -> OpState \cup {None}],
         \A q \in RunID \ {r} : startOp'[q] = startOp[q],
         startOp'[r] \in {"Succeeded", "Failed"} /\ startOp'[r] # startOp[r] =>
            /\ runs[r].DispatchAttempted
            /\ \A h \in Handler : handlers'[h].run = r =>
                  handlers'[h].step \notin {"marked", "spawned", "startOk", "startErr"},
         stopOps' \in [RunID -> Seq(OpState)],
         receipts' \in [Agent \X RequestID -> Receipt \cup {None}],
         \A k \in Agent \X RequestID :
            receipts'[k] = receipts[k] \/ receipts'[k].run = r,
         host' \in {"down", "reconciling", "up"},
         UNCHANGED <<approved, owned, group, starts>>
  PROVE  IInv'
<1> USE DEF IInv
<1>1. /\ runs' \in [RunID -> Run \cup {None}]
      /\ \A q \in RunID : Exists(q) =>
            /\ Exists(q)'
            /\ runs'[q].AgentID = runs[q].AgentID
            /\ runs'[q].DispatchAttempted = runs[q].DispatchAttempted
            /\ runs'[q].State = IF q = r THEN s ELSE runs[q].State
      /\ \A q \in RunID : Exists(q)' => Exists(q)
  BY DEF Observed
<1>2. TypeOK'
  BY <1>1 DEF TypeOK, InFlight
<1>3. DispatchedOnce'
  BY <1>1 DEF DispatchedOnce
<1>4. Served'
  <2>0. \A q \in RunID : Exists(q) => runs'[q] # None
    BY <1>1 DEF Exists
  <2>1. \A h \in Handler : handlers'[h] # Idle => runs'[handlers'[h].run] # None
    <3> TAKE h \in Handler
    <3>1. CASE handlers'[h] = handlers[h] /\ handlers[h] # Idle
      <4>1. handlers[h].run \in RunID /\ Exists(handlers[h].run)
        BY <3>1, Typed DEF Served, InFlight
      <4> QED
        BY <2>0, <3>1, <4>1
    <3>2. CASE handlers'[h] = [step |-> "stopIntended", run |-> r]
      BY <2>0, <3>2
    <3> QED
      BY <3>1, <3>2
  <2>2. \A k \in Agent \X RequestID : receipts'[k] # None => runs'[receipts'[k].run] # None
    <3> TAKE k \in Agent \X RequestID
    <3>1. CASE receipts'[k] = receipts[k] /\ receipts[k] # None
      <4>1. receipts[k].run \in RunID /\ Exists(receipts[k].run)
        BY <3>1 DEF Served, TypeOK, Receipt
      <4> QED
        BY <2>0, <3>1, <4>1
    <3>2. CASE receipts'[k].run = r
      BY <2>0, <3>2
    <3> QED
      BY <3>1, <3>2
  <2>3. \A q \in RunID : startOp'[q] # None => Exists(q)'
    BY <1>1 DEF Served
  <2> QED
    BY <2>1, <2>2, <2>3 DEF Served, Exists
<1>5. \A h \in Handler : handlers'[h].step \in Step \ {"stopIntended"} =>
         handlers'[h] = handlers[h]
  <2> TAKE h \in Handler
  <2>1. CASE handlers'[h] = handlers[h]
    BY <2>1
  <2>2. CASE handlers'[h] = Idle
    BY <2>2 DEF Idle, Step
  <2>3. CASE handlers'[h] = [step |-> "stopIntended", run |-> r]
    BY <2>3 DEF Step
  <2> QED
    BY <2>1, <2>2, <2>3
<1>9. \A h \in Handler, q \in RunID : Dispatching(h, q)' => Dispatching(h, q)
  BY <1>5 DEF Dispatching, Step
<1>6. Marked'
  <2>1. \A h \in Handler, q \in RunID : Dispatching(h, q) => Exists(q)
    <3>1. \A h \in Handler : handlers[h].step # "idle" => Exists(handlers[h].run)
      BY DEF Served, Idle
    <3> QED
      BY <3>1 DEF Dispatching, Exists
  <2>2. \A h \in Handler, q \in RunID : Dispatching(h, q)' =>
           /\ runs'[q].DispatchAttempted
           /\ startOp'[q] \notin {"Succeeded", "Failed"}
           /\ \A k \in Handler : Dispatching(k, q)' => k = h
    <3> TAKE h \in Handler, q \in RunID
    <3> HAVE Dispatching(h, q)'
    <3>1. Dispatching(h, q) /\ Exists(q)
      BY <1>9, <2>1
    <3>2. runs'[q].DispatchAttempted
      BY <1>1, <3>1 DEF Marked
    <3>3. startOp'[q] = startOp[q] \/ startOp'[q] \notin {"Succeeded", "Failed"}
      BY DEF Dispatching
    <3>4. \A k \in Handler : Dispatching(k, q)' => k = h
      BY <1>9, <3>1 DEF Marked
    <3>5. startOp[q] \notin {"Succeeded", "Failed"}
      BY <3>1 DEF Marked
    <3> QED
      BY <3>2, <3>3, <3>4, <3>5
  <2>3. \A q \in RunID : Exists(q)' /\ ~runs'[q].DispatchAttempted =>
           startOp'[q] \notin {"Succeeded", "Failed"}
    BY <1>1 DEF Marked
  <2> QED
    BY <2>2, <2>3 DEF Marked
<1>7. Started'
  <2>1. \A h \in Handler : At(h, "marked")' => starts'[handlers'[h].run] = 0
    <3>1. \A h \in Handler : handlers'[h].step = "marked" => handlers'[h] = handlers[h]
      BY <1>5 DEF Step
    <3>2. \A h \in Handler : handlers[h].step = "marked" => starts[handlers[h].run] = 0
      BY DEF Started, At
    <3> QED
      BY <3>1, <3>2 DEF At
  <2>2. \A h \in Handler :
           handlers'[h].step \in {"spawned", "startOk", "startErr", "stopping", "stopOk"} =>
              starts'[handlers'[h].run] = 1
    BY <1>5 DEF Started, Step
  <2>3. \A q \in RunID : group'[q] # "none" \/ owned'[q] # "no" => starts'[q] = 1
    BY DEF Started
  <2>4. \A h \in Handler : handlers'[h].step \in {"startErr", "stopOk"} =>
           group'[handlers'[h].run] # "live"
    BY <1>5 DEF Started, Step
  <2> QED
    BY <2>1, <2>2, <2>3, <2>4 DEF Started, At
<1>8. OneMayLive'
  <2>1. \A q \in RunID : MayLive(q)' => MayLive(q)
    BY <1>1, <1>5 DEF MayLive, At, Step
  <2>2. \A q \in RunID : MayLive(q)' => runs'[q].State # "Exited"
    BY <1>1, <2>1 DEF OneMayLive
  <2> QED
    BY <1>1, <2>1, <2>2, LiveStaysApart
<1> QED
  BY <1>2, <1>3, <1>4, <1>6, <1>7, <1>8

(* A call that has learned that the group is not live may end the run.     *)
LEMMA NotLive ==
  ASSUME IInv, NEW h \in Handler, At(h, "startErr") \/ At(h, "stopOk")
  PROVE  ~MayLive(handlers[h].run)
<1> USE DEF IInv
<1> DEFINE r == handlers[h].run
<1>1. r \in RunID
  BY Typed DEF At, Step, InFlight
<1>2. starts[r] = 1 /\ group[r] # "live"
  BY DEF At, Started
<1>3. \A k \in Handler : At(k, "marked") => handlers[k].run # r
  BY <1>2 DEF Started
<1>4. runs[r].DispatchAttempted
  BY <1>1, <1>2 DEF DispatchedOnce
<1> QED
  BY <1>2, <1>3, <1>4 DEF MayLive

(* The observation of a start, by the only call past the marker.           *)
LEMMA ObserveStartStep ==
  ASSUME IInv, NEW h \in Handler, ObserveStarted(h) \/ ObserveStartFailed(h)
  PROVE  IInv'
<1> USE DEF IInv
<1> DEFINE r == handlers[h].run
<1>1. r \in RunID /\ Exists(r)
  BY Typed DEF ObserveStarted, ObserveStartFailed, At, Step, InFlight, Served, Idle
<1>2. /\ Dispatching(h, r) /\ handlers' = [handlers EXCEPT ![h] = Idle]
      /\ UNCHANGED <<approved, owned, group, starts>>
      /\ UNCHANGED <<stopOps, receipts, host>>
  BY DEF ObserveStarted, ObserveStartFailed, At, Dispatching
<1>3. PICK s \in {"Running", "Exited"}, o \in {"Succeeded", "Failed"} :
      /\ Observed(r, s)
      /\ s = "Exited" => At(h, "startErr")
      /\ startOp' = [startOp EXCEPT ![r] = o]
  <2>1. CASE ObserveStarted(h)
    <3>1. "Running" \in RunState
      BY DEF RunState
    <3>2. Observed(r, "Running")
      BY <1>1, <2>1, <3>1, RunMoves DEF ObserveStarted, RunOf
    <3> QED
      BY <2>1, <3>2 DEF ObserveStarted, RunOf
  <2>2. CASE ObserveStartFailed(h)
    <3>1. "Exited" \in RunState
      BY DEF RunState
    <3>2. Observed(r, "Exited")
      BY <1>1, <2>2, <3>1, RunMoves DEF ObserveStartFailed, RunOf
    <3> QED
      BY <2>2, <3>2 DEF ObserveStartFailed, RunOf
  <2> QED
    BY <2>1, <2>2
<1>4. s = "Exited" => ~MayLive(r)
  BY <1>3, NotLive
<1> HIDE DEF r
<1>5. handlers' \in [Handler -> InFlight \cup {Idle}]
  BY <1>2 DEF TypeOK, InFlight
<1>6. \A k \in Handler : handlers'[k] = IF k = h THEN Idle ELSE handlers[k]
  BY <1>2 DEF TypeOK
<1>7. \A k \in Handler : handlers'[k].run = r =>
         handlers'[k].step \notin {"marked", "spawned", "startOk", "startErr"}
  <2>1. \A k \in Handler : Dispatching(k, r) => k = h
    BY <1>1, <1>2 DEF Marked
  <2> TAKE k \in Handler
  <2>2. CASE k = h
    BY <1>6, <2>2 DEF Idle
  <2>3. CASE k # h
    <3>1. handlers'[k] = handlers[k] /\ ~Dispatching(k, r)
      BY <1>6, <2>1, <2>3
    <3> QED
      BY <3>1 DEF Dispatching
  <2> QED
    BY <2>2, <2>3
<1>8. runs[r].DispatchAttempted
  BY <1>1, <1>2 DEF Marked
<1>9. /\ startOp' \in [RunID -> OpState \cup {None}]
      /\ \A q \in RunID \ {r} : startOp'[q] = startOp[q]
  BY <1>3 DEF TypeOK, OpState
<1>10. /\ stopOps' \in [RunID -> Seq(OpState)]
       /\ receipts' \in [Agent \X RequestID -> Receipt \cup {None}]
       /\ \A k \in Agent \X RequestID : receipts'[k] = receipts[k]
       /\ host' \in {"down", "reconciling", "up"}
  BY <1>2 DEF TypeOK
<1>11. s \in RunState /\ s # "Starting"
  BY DEF RunState
<1> QED
  <2>1. \A k \in Handler : handlers'[k] = handlers[k] \/ handlers'[k] = Idle
    BY <1>6
  <2> QED
    BY <1>1, <1>2, <1>3, <1>4, <1>5, <1>7, <1>8, <1>9, <1>10, <1>11, <2>1,
       RunStateStep

(* The outcome of a stop, recorded with the oldest stop operation.         *)
LEMMA ObserveStopStep ==
  ASSUME IInv, NEW h \in Handler, ObserveStopped(h) \/ ObserveStopFailed(h)
  PROVE  IInv'
<1> USE DEF IInv
<1> DEFINE r == handlers[h].run
<1>1. r \in RunID /\ Exists(r)
  BY Typed DEF ObserveStopped, ObserveStopFailed, At, Step, InFlight, Served, Idle
<1>2. /\ handlers' = [handlers EXCEPT ![h] = Idle]
      /\ UNCHANGED <<approved, owned, group, starts>>
      /\ UNCHANGED <<startOp, receipts, host>>
  BY DEF ObserveStopped, ObserveStopFailed
<1>3. PICK s \in {"Exited", "RecoveryRequired"}, o \in {"Succeeded", "RecoveryRequired"} :
      /\ Observed(r, s)
      /\ s = "Exited" => At(h, "stopOk")
      /\ stopOps' = [stopOps EXCEPT ![r][1] = o]
  <2>1. CASE ObserveStopped(h)
    <3>1. "Exited" \in RunState
      BY DEF RunState
    <3>2. Observed(r, "Exited")
      BY <1>1, <2>1, <3>1, RunMoves DEF ObserveStopped, RunOf
    <3> QED
      BY <2>1, <3>2 DEF ObserveStopped, StopOutcome, RunOf
  <2>2. CASE ObserveStopFailed(h)
    <3>1. "RecoveryRequired" \in RunState
      BY DEF RunState
    <3>2. Observed(r, "RecoveryRequired")
      BY <1>1, <2>2, <3>1, RunMoves DEF ObserveStopFailed, RunOf
    <3> QED
      BY <2>2, <3>2 DEF ObserveStopFailed, StopOutcome, RunOf
  <2> QED
    BY <2>1, <2>2
<1>4. s = "Exited" => ~MayLive(r)
  BY <1>3, NotLive
<1> HIDE DEF r
<1>5. handlers' \in [Handler -> InFlight \cup {Idle}]
  BY <1>2 DEF TypeOK, InFlight
<1>6. \A k \in Handler : handlers'[k] = handlers[k] \/ handlers'[k] = Idle
  BY <1>2 DEF TypeOK
<1>7. stopOps' \in [RunID -> Seq(OpState)]
  <2>1. o \in OpState
    BY DEF OpState
  <2>2. [stopOps[r] EXCEPT ![1] = o] \in Seq(OpState)
    <3>1. stopOps[r] \in Seq(OpState)
      BY <1>1 DEF TypeOK
    <3>2. CASE 1 \in 1..Len(stopOps[r])
      BY <2>1, <3>1, <3>2, ExceptSeq
    <3>3. CASE 1 \notin 1..Len(stopOps[r])
      <4>1. 1 \notin DOMAIN stopOps[r]
        BY <3>1, <3>3
      <4>2. [stopOps[r] EXCEPT ![1] = o] = stopOps[r]
        BY <3>1, <4>1
      <4> QED
        BY <3>1, <4>2
    <3> QED
      BY <3>2, <3>3
  <2> QED
    BY <1>3, <2>2 DEF TypeOK
<1>8. /\ startOp' \in [RunID -> OpState \cup {None}]
      /\ \A q \in RunID : startOp'[q] = startOp[q]
      /\ receipts' \in [Agent \X RequestID -> Receipt \cup {None}]
      /\ \A k \in Agent \X RequestID : receipts'[k] = receipts[k]
      /\ host' \in {"down", "reconciling", "up"}
  BY <1>2 DEF TypeOK
<1>9. s \in RunState /\ s # "Starting"
  BY DEF RunState
<1> QED
  BY <1>1, <1>2, <1>3, <1>4, <1>5, <1>6, <1>7, <1>8, <1>9, RunStateStep

(* The stop intent.                                                        *)
LEMMA StopIntentStep ==
  ASSUME IInv, NEW h \in Handler, NEW q \in RequestID, NEW r \in RunID,
         StopIntent(h, q, r)
  PROVE  IInv'
<1> USE DEF IInv
<1> DEFINE k == <<runs[r].AgentID, q>>
           receipt == [command |-> "StopRun", run |-> r]
<1>1. Exists(r) /\ runs[r].AgentID \in Agent
  BY Typed DEF StopIntent, Run
<1>2. Observed(r, "Stopping")
  BY <1>1, RunMoves DEF StopIntent, RunState
<1>3. /\ handlers' \in [Handler -> InFlight \cup {Idle}]
      /\ \A g \in Handler : \/ handlers'[g] = handlers[g] \/ handlers'[g] = Idle
                            \/ handlers'[g] = [step |-> "stopIntended", run |-> r]
  <2>1. "stopIntended" \in Step /\ Applied(h, "stopIntended", r)
    BY DEF Step, StopIntent
  <2> QED
    BY <2>1, HandlerMoves
<1>4. stopOps' \in [RunID -> Seq(OpState)]
  <2>1. Append(stopOps[r], "Running") \in Seq(OpState)
    BY DEF TypeOK, OpState
  <2> QED
    BY <2>1 DEF StopIntent, TypeOK
<1>5. /\ receipts' \in [Agent \X RequestID -> Receipt \cup {None}]
      /\ \A j \in Agent \X RequestID :
            receipts'[j] = receipts[j] \/ receipts'[j].run = r
  <2>1. receipts' = [receipts EXCEPT ![k] = receipt]
    BY DEF StopIntent, Recorded
  <2>2. receipt \in Receipt
    BY DEF Receipt
  <2> QED
    BY <2>1, <2>2 DEF TypeOK
<1>6. /\ startOp' \in [RunID -> OpState \cup {None}]
      /\ \A t \in RunID : startOp'[t] = startOp[t]
      /\ host' \in {"down", "reconciling", "up"}
      /\ UNCHANGED <<approved, owned, group, starts>>
  BY DEF TypeOK, StopIntent
<1>7. "Stopping" \in RunState
  BY DEF RunState
<1> QED
  BY <1>1, <1>2, <1>3, <1>4, <1>5, <1>6, <1>7, RunStateStep

(* The startup reconciliation of one run.                                  *)
LEMMA ReconcileStep ==
  ASSUME IInv, NEW r \in RunID, ReconcileStuckRun(r)
  PROVE  IInv'
<1> USE DEF IInv
<1>1. Exists(r)
  BY DEF ReconcileStuckRun, Stuck
<1>2. Observed(r, "RecoveryRequired")
  BY <1>1, RunMoves DEF ReconcileStuckRun, RunState
<1>3. /\ startOp' \in [RunID -> OpState \cup {None}]
      /\ \A q \in RunID \ {r} : startOp'[q] = startOp[q]
      /\ startOp'[r] \in {startOp[r], "RecoveryRequired"}
  BY DEF ReconcileStuckRun, ReconciledOp, TypeOK, OpState
<1>4. /\ stopOps' \in [RunID -> Seq(OpState)]
      /\ receipts' \in [Agent \X RequestID -> Receipt \cup {None}]
      /\ \A k \in Agent \X RequestID : receipts'[k] = receipts[k]
      /\ host' \in {"down", "reconciling", "up"}
      /\ handlers' \in [Handler -> InFlight \cup {Idle}]
      /\ \A h \in Handler : handlers'[h] = handlers[h]
      /\ UNCHANGED <<approved, owned, group, starts>>
  BY DEF ReconcileStuckRun, TypeOK, InFlight
<1>5. "RecoveryRequired" \in RunState
  BY DEF RunState
<1> QED
  BY <1>1, <1>2, <1>3, <1>4, <1>5, RunStateStep

(* The host opens or ends, a group exits, a record is dropped: nothing is  *)
(* begun and no group comes to life.                                       *)
LEMMA HostSteps ==
  ASSUME IInv,
         \/ \E p \in Profile : ApproveProfile(p)
         \/ OpenHost \/ OpenDone \/ HostStops
         \/ \E r \in RunID : GroupExits(r) \/ ObserveNaturalExit(r)
         \/ UNCHANGED vars
  PROVE  IInv'
<1> USE DEF IInv
<1>1. /\ approved' \subseteq Profile
      /\ UNCHANGED <<runs, startOp, stopOps, receipts, starts>>
      /\ host' \in {"down", "reconciling", "up"}
  BY DEF ApproveProfile, OpenHost, OpenDone, HostStops, GroupExits,
     ObserveNaturalExit, vars, durable, TypeOK
<1>2. /\ handlers' \in [Handler -> InFlight \cup {Idle}]
      /\ \A h \in Handler : handlers'[h] = handlers[h] \/ handlers'[h] = Idle
  BY DEF ApproveProfile, OpenHost, OpenDone, HostStops, GroupExits,
     ObserveNaturalExit, vars, TypeOK, InFlight
<1>3. /\ group' \in [RunID -> Group]
      /\ \A r \in RunID : \/ group'[r] = group[r]
                          \/ group'[r] = "gone" /\ group[r] # "none"
  BY DEF ApproveProfile, OpenHost, OpenDone, HostStops, GroupExits,
     ObserveNaturalExit, vars, TypeOK, Group
<1>4. /\ owned' \in [RunID -> {"no", "yes", "claimed"}]
      /\ \A r \in RunID : owned'[r] = owned[r] \/ owned'[r] = "no"
  BY DEF ApproveProfile, OpenHost, OpenDone, HostStops, GroupExits,
     ObserveNaturalExit, vars, TypeOK, NothingOwned
<1>5. TypeOK'
  BY <1>1, <1>2, <1>3, <1>4 DEF TypeOK, InFlight
<1>6. DispatchedOnce'
  BY <1>1 DEF DispatchedOnce, Exists
<1>7. Served'
  BY <1>1, <1>2 DEF Served, Exists
<1>8. \A h \in Handler : handlers'[h].step # "idle" => handlers'[h] = handlers[h]
  BY <1>2 DEF Idle
<1>9. Marked'
  BY <1>1, <1>8 DEF Marked, Dispatching, Exists
<1>10. Started'
  <2>1. \A h \in Handler : At(h, "marked")' => starts'[handlers'[h].run] = 0
    BY <1>1, <1>8 DEF Started, At
  <2>2. \A h \in Handler :
           handlers'[h].step \in {"spawned", "startOk", "startErr", "stopping", "stopOk"} =>
              starts'[handlers'[h].run] = 1
    BY <1>1, <1>8 DEF Started
  <2>3. \A r \in RunID : group'[r] # "none" \/ owned'[r] # "no" => starts'[r] = 1
    BY <1>1, <1>3, <1>4 DEF Started
  <2>4. \A h \in Handler : handlers'[h].step \in {"startErr", "stopOk"} =>
           group'[handlers'[h].run] # "live"
    BY <1>3, <1>8, Typed DEF Started, InFlight, Idle
  <2> QED
    BY <2>1, <2>2, <2>3, <2>4 DEF Started, At
<1>11. OneMayLive'
  <2>1. \A r \in RunID : MayLive(r)' => MayLive(r)
    BY <1>1, <1>3, <1>8 DEF MayLive, At, Exists
  <2> QED
    BY <1>1, <2>1, LiveStaysApart DEF OneMayLive, Exists
<1> QED
  BY <1>5, <1>6, <1>7, <1>9, <1>10, <1>11

-----------------------------------------------------------------------------
LEMMA Start == Init => IInv
BY DEF Init, IInv, TypeOK, DispatchedOnce, Served, Marked, Started, OneMayLive,
   MayLive, Dispatching, At, Exists, Idle, NothingOwned, Group

LEMMA Inductive ==
  ASSUME IInv, [Next]_vars
  PROVE  IInv'
<1>1. ASSUME NEW h \in Handler, HandlerStep(h)
      PROVE  IInv'
  BY <1>1, CallSteps, IntentStep, MarkStep, SpawnStep, SupervisorSteps,
     ObserveStartStep, ObserveStopStep, StopIntentStep DEF HandlerStep
<1> QED
  BY <1>1, ReconcileStep, HostSteps DEF Next

(* The inductive invariant holds for ever.                                 *)
THEOREM Invariance == Spec => []IInv
<1>1. Init => IInv
  BY Start
<1>2. IInv /\ [Next]_vars => IInv'
  BY Inductive
<1> QED
  BY <1>1, <1>2, PTL DEF Spec

(* The types of the state hold (Snapshot, Supervisor.processes).           *)
THEOREM TypeCorrect == Spec => []TypeOK
BY Invariance, PTL DEF IInv

(* Supervisor.Start is called at most once for a run, and not before the   *)
(* marker is in the store, whatever is retried, raced or restarted         *)
(* (StartRun).                                                             *)
THEOREM DispatchIsOnce == Spec => []DispatchedOnce
BY Invariance, PTL DEF IInv

(* No agent has two live worker groups (findActiveRunForAgent): two runs   *)
(* with live groups are two that may have them.                            *)
THEOREM OneGroupPerAgent == Spec => []OneWorkerPerAgent
<1>1. IInv => OneWorkerPerAgent
  BY DEF IInv, OneMayLive, MayLive, OneWorkerPerAgent
<1> QED
  BY <1>1, Invariance, PTL

-----------------------------------------------------------------------------
(* The outcome of a start is written by the call past the marker, and that *)
(* there is such a call means that there is no outcome yet.                *)
LEMMA OutcomeStep ==
  ASSUME IInv, [Next]_vars, NEW r \in RunID, startOp[r] \in {"Succeeded", "Failed"}
  PROVE  startOp'[r] = startOp[r]
<1> USE DEF IInv
<1>1. Exists(r)
  BY NoneAssumption DEF Served, OpState
<1>2. ASSUME NEW h \in Handler, HandlerStep(h)
      PROVE  startOp'[r] = startOp[r]
  <2>1. CASE UNCHANGED startOp
    BY <2>1
  <2>2. ASSUME NEW a \in Agent, NEW q \in RequestID, NEW s \in RunID,
               NEW p \in Profile, StartIntent(h, a, q, s, p)
        PROVE  startOp'[r] = startOp[r]
    BY <1>1, <2>2 DEF StartIntent, TypeOK
  <2>3. CASE MarkDispatch(h)
    <3>1. startOp' = [startOp EXCEPT ![handlers[h].run] = "Running"]
      BY <2>3 DEF MarkDispatch, RunOf
    <3>2. handlers[h].run # r
      BY <1>1, <2>3 DEF MarkDispatch, CanDispatch, RunOf, Marked
    <3> QED
      BY <3>1, <3>2 DEF TypeOK
  <2>4. CASE ObserveStarted(h) \/ ObserveStartFailed(h)
    <3>1. Dispatching(h, handlers[h].run)
      BY <2>4 DEF ObserveStarted, ObserveStartFailed, At, Dispatching
    <3>2. handlers[h].run # r
      BY <3>1 DEF Marked
    <3>3. PICK o : startOp' = [startOp EXCEPT ![handlers[h].run] = o]
      BY <2>4 DEF ObserveStarted, ObserveStartFailed, RunOf
    <3> QED
      BY <3>2, <3>3 DEF TypeOK
  <2> QED
    BY <1>2, <2>1, <2>2, <2>3, <2>4 DEF HandlerStep, StartReplay, Spawn,
       SpawnFails, StartReturns, StartGivesUp, StopIntent, StopReplay,
       StopFindsNothing, StopClaims, StopSucceeds, StopGivesUp,
       ObserveStopped, ObserveStopFailed, CommitFails, durable
<1>3. ASSUME NEW s \in RunID, ReconcileStuckRun(s)
      PROVE  startOp'[r] = startOp[r]
  BY <1>3 DEF ReconcileStuckRun, ReconciledOp, TypeOK
<1> QED
  BY <1>2, <1>3 DEF Next, ApproveProfile, OpenHost, OpenDone, HostStops,
     GroupExits, ObserveNaturalExit, vars, durable

(* What a start operation reported as its end is never rewritten, by no    *)
(* retry, late observation or reconciliation.                              *)
THEOREM OutcomeStays == Spec => StartOutcomeIsFinal
<1>1. IInv /\ [Next]_vars =>
         [\A r \in RunID : startOp[r] \in {"Succeeded", "Failed"} =>
             startOp'[r] = startOp[r]]_vars
  BY OutcomeStep
<1> QED
  BY <1>1, Invariance, PTL DEF Spec, StartOutcomeIsFinal

=============================================================================
