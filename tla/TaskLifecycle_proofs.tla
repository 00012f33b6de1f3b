------------------------ MODULE TaskLifecycle_proofs ------------------------
(***************************************************************************)
(* Proofs about TaskLifecycle, for all agents, callers, reviewers, tasks,  *)
(* results and bounds: the type invariant, the agreement of a task with    *)
(* its result, and that decisions are final.                               *)
(*                                                                         *)
(* The two invariants need each other.  That a command on one task leaves  *)
(* the result of another alone follows because the current result of a     *)
(* task names that task; that a transition or a new report strands no      *)
(* pending result follows because a task with one awaits review.           *)
(***************************************************************************)
EXTENDS TaskLifecycle, TLAPS

IInv == TypeOK /\ ResultMatchesStatus /\ PendingIsReviewable

-----------------------------------------------------------------------------
(* An entry that is there has the fields of its type, and an absent one    *)
(* none: no task or result is None (engine.go's maps).                     *)
LEMMA Typed ==
  ASSUME TypeOK
  PROVE  /\ \A t \in TaskID : Exists(t) => tasks[t] \in Task
         /\ \A r \in ResultID : results[r] # None => results[r] \in Result
BY DEF TypeOK, Exists

(* A moved task is a task at the next revision with the same assignee and  *)
(* the same current result (transition and statusChange).                  *)
LEMMA MovedType ==
  ASSUME TypeOK, NEW c \in Caller, NEW t \in TaskID, Exists(t),
         NEW to \in Status
  PROVE  /\ Moved(c, t, to) \in Task
         /\ Moved(c, t, to).Status = to
         /\ Moved(c, t, to).Revision = tasks[t].Revision + 1
         /\ Moved(c, t, to).CurrentResultID = tasks[t].CurrentResultID
         /\ Moved(c, t, to) # None
<1>1. tasks[t] \in Task
  BY Typed
<1>2. StatusChangeOf(c, tasks[t].Revision + 1, tasks[t].Status, to) \in StatusChange
  BY <1>1 DEF StatusChangeOf, StatusChange, Task
<1>3. /\ tasks[t].AssigneeID \in Agent \cup {None} /\ tasks[t].Revision \in Nat
      /\ tasks[t].CurrentResultID \in ResultID \cup {None}
  BY <1>1 DEF Task
<1>4. Moved(c, t, to) \in Task
  BY <1>2, <1>3 DEF Moved, Task
<1> QED
  BY <1>4, AbsentAssumption DEF Moved

(* A decided result is a result with the same task, and no other result    *)
(* changes (AcceptTaskResult and RejectTaskResult).                        *)
LEMMA DecidedType ==
  ASSUME TypeOK, NEW c \in Caller, NEW r \in ResultID, results[r] # None,
         NEW decision \in Decision
  PROVE  /\ Decided(c, r, decision) \in [ResultID -> Result \cup {None}]
         /\ Decided(c, r, decision)[r] \in Result
         /\ Decided(c, r, decision)[r].TaskID = results[r].TaskID
         /\ Decided(c, r, decision)[r].by = results[r].by
         /\ Decided(c, r, decision)[r].Decision = decision
         /\ \A q \in ResultID \ {r} : Decided(c, r, decision)[q] = results[q]
<1>1. results[r] \in Result /\ results \in [ResultID -> Result \cup {None}]
  BY Typed DEF TypeOK
<1> QED
  BY <1>1 DEF Decided, Result

-----------------------------------------------------------------------------
(* The conjuncts of Next, each with its arguments typed.                   *)
LEMMA TypeStep ==
  ASSUME TypeOK, [Next]_vars
  PROVE  TypeOK'
<1>1. ASSUME NEW c \in Caller, NEW a \in Agent,
             RegisterAgent(c, a) \/ UpdateAgent(c, a)
      PROVE  TypeOK'
  BY <1>1 DEF TypeOK, RegisterAgent, UpdateAgent
<1>2. ASSUME NEW c \in Caller, NEW t \in TaskID, NEW a \in Agent \cup {None},
             CreateTask(c, t, a)
      PROVE  TypeOK'
  <2> DEFINE new == [AssigneeID |-> a, Status |-> "Todo", Revision |-> 1,
                     CurrentResultID |-> None,
                     LastStatusChange |-> StatusChangeOf(c, 1, None, "Todo")]
  <2>1. StatusChangeOf(c, 1, None, "Todo") \in StatusChange
    BY DEF StatusChangeOf, StatusChange, Status
  <2>2. new \in Task
    BY <2>1 DEF Task, Status
  <2> QED
    BY <1>2, <2>2 DEF TypeOK, CreateTask
<1>3. ASSUME NEW c \in Caller, NEW t \in TaskID, NEW from \in Status,
             NEW to \in Status, TransitionTask(c, t, from, to)
      PROVE  TypeOK'
  <2>1. Exists(t)
    BY <1>3 DEF TransitionTask
  <2>2. \A r : r \in ResultID \cup {None} =>
            [Moved(c, t, to) EXCEPT !.CurrentResultID = r] \in Task
    BY <2>1, MovedType DEF Task
  <2>3. Moved(c, t, to).CurrentResultID \in ResultID \cup {None}
    BY <2>1, MovedType DEF Task
  <2>4. PICK r \in ResultID \cup {None} :
            tasks' = [tasks EXCEPT ![t] =
                         [Moved(c, t, to) EXCEPT !.CurrentResultID = r]]
    BY <1>3, <2>3 DEF TransitionTask
  <2> QED
    BY <1>3, <2>2, <2>4 DEF TypeOK, TransitionTask
<1>4. ASSUME NEW c \in Caller, NEW t \in TaskID, NEW r \in ResultID,
             NEW expected \in 1..MaxTaskRevision,
             ReportTaskResult(c, t, r, expected)
      PROVE  TypeOK'
  <2>1. Exists(t)
    BY <1>4 DEF ReportTaskResult
  <2>2. [Moved(c, t, "AwaitingReview") EXCEPT !.CurrentResultID = r] \in Task
    BY <2>1, MovedType DEF Task, Status
  <2>3. [TaskID |-> t, by |-> c, atRevision |-> tasks[t].Revision + 1,
         Decision |-> "Pending", decidedBy |-> None] \in Result
    BY <2>1, Typed DEF Task, Result, Decision
  <2> QED
    BY <1>4, <2>2, <2>3 DEF TypeOK, ReportTaskResult
<1>5. ASSUME NEW c \in Caller, NEW t \in TaskID, NEW r \in ResultID,
             NEW expected \in 1..MaxTaskRevision,
             \/ AcceptTaskResult(c, t, r, expected)
             \/ RejectTaskResult(c, t, r, expected)
      PROVE  TypeOK'
  <2>1. Exists(t) /\ results[r] # None
    BY <1>5 DEF AcceptTaskResult, RejectTaskResult, LoadPendingDecision
  <2>2. Moved(c, t, "Done") \in Task /\ Moved(c, t, "Doing") \in Task
    BY <2>1, MovedType DEF Status
  <2>3. /\ Decided(c, r, "Accepted") \in [ResultID -> Result \cup {None}]
        /\ Decided(c, r, "Rejected") \in [ResultID -> Result \cup {None}]
    BY <2>1, DecidedType DEF Decision
  <2> QED
    BY <1>5, <2>2, <2>3 DEF TypeOK, AcceptTaskResult, RejectTaskResult
<1>6. CASE UNCHANGED vars
  BY <1>6 DEF TypeOK, vars
<1> QED
  BY <1>1, <1>2, <1>3, <1>4, <1>5, <1>6 DEF Next

-----------------------------------------------------------------------------
(* What the commands on a task do to it, field by field, and that they     *)
(* leave the other tasks alone.                                            *)
LEMMA TransitionEffect ==
  ASSUME TypeOK, NEW c \in Caller, NEW t \in TaskID, NEW from \in Status,
         NEW to \in Status, TransitionTask(c, t, from, to)
  PROVE  /\ Exists(t) /\ tasks'[t] # None
         /\ tasks[t].Status = from /\ tasks'[t].Status = to
         /\ tasks'[t].CurrentResultID =
                IF from = "Done" THEN None ELSE tasks[t].CurrentResultID
         /\ \A u \in TaskID \ {t} : tasks'[u] = tasks[u]
         /\ results' = results
<1>1. Exists(t)
  BY DEF TransitionTask
<1>2. PICK r \in ResultID \cup {None} :
          /\ tasks' = [tasks EXCEPT ![t] =
                          [Moved(c, t, to) EXCEPT !.CurrentResultID = r]]
          /\ r = IF from = "Done" THEN None ELSE tasks[t].CurrentResultID
  <2>1. tasks[t].CurrentResultID \in ResultID \cup {None}
    BY <1>1, Typed DEF Task
  <2>2. Moved(c, t, to).CurrentResultID = tasks[t].CurrentResultID
    BY <1>1, MovedType
  <2>3. from = "Done" => to = "Todo"
    BY DEF TransitionTask, GenericTransitions
  <2> QED
    BY <2>1, <2>2, <2>3 DEF TransitionTask
<1>3. Moved(c, t, to) \in Task /\ Moved(c, t, to).Status = to
  BY <1>1, MovedType
<1>4. /\ [Moved(c, t, to) EXCEPT !.CurrentResultID = r] \in Task
      /\ [Moved(c, t, to) EXCEPT !.CurrentResultID = r].Status = to
      /\ [Moved(c, t, to) EXCEPT !.CurrentResultID = r].CurrentResultID = r
  BY <1>3 DEF Task
<1> QED
  BY <1>1, <1>2, <1>4, AbsentAssumption DEF TypeOK, TransitionTask

LEMMA ReportEffect ==
  ASSUME TypeOK, NEW c \in Caller, NEW t \in TaskID, NEW r \in ResultID,
         NEW expected, ReportTaskResult(c, t, r, expected)
  PROVE  /\ Exists(t) /\ tasks'[t] # None
         /\ tasks[t].Status = "Doing" /\ tasks'[t].Status = "AwaitingReview"
         /\ tasks'[t].CurrentResultID = r
         /\ tasks'[t].Revision = tasks[t].Revision + 1
         /\ \A u \in TaskID \ {t} : tasks'[u] = tasks[u]
         /\ results[r] = None /\ results'[r] # None
         /\ results'[r].TaskID = t /\ results'[r].Decision = "Pending"
         /\ results'[r].atRevision = tasks[t].Revision + 1
         /\ \A q \in ResultID \ {r} : results'[q] = results[q]
<1>1. Exists(t)
  BY DEF ReportTaskResult
<1> DEFINE moved == Moved(c, t, "AwaitingReview")
           task == [moved EXCEPT !.CurrentResultID = r]
           result == [TaskID |-> t, by |-> c, atRevision |-> tasks[t].Revision + 1,
                      Decision |-> "Pending", decidedBy |-> None]
<1>2. /\ moved \in Task /\ moved.Status = "AwaitingReview"
      /\ moved.Revision = tasks[t].Revision + 1
  BY <1>1, MovedType DEF Status
<1>3. /\ task \in Task /\ task.Status = "AwaitingReview"
      /\ task.Revision = tasks[t].Revision + 1 /\ task.CurrentResultID = r
  BY <1>2 DEF Task
<1>4. result \in Result
  BY <1>1, Typed DEF Task, Result, Decision
<1>5. /\ tasks' = [tasks EXCEPT ![t] = task]
      /\ results' = [results EXCEPT ![r] = result]
      /\ tasks[t].Status = "Doing" /\ results[r] = None
  BY DEF ReportTaskResult
<1>6. /\ tasks'[t] = task /\ results'[r] = result
      /\ \A u \in TaskID \ {t} : tasks'[u] = tasks[u]
      /\ \A q \in ResultID \ {r} : results'[q] = results[q]
  BY <1>5 DEF TypeOK
<1> HIDE DEF task, moved
<1> QED
  BY <1>1, <1>3, <1>4, <1>5, <1>6, AbsentAssumption

Decides(c, t, r, expected, decision) ==
    \/ decision = "Accepted" /\ AcceptTaskResult(c, t, r, expected)
    \/ decision = "Rejected" /\ RejectTaskResult(c, t, r, expected)

LEMMA DecisionEffect ==
  ASSUME TypeOK, NEW c \in Caller, NEW t \in TaskID, NEW r \in ResultID,
         NEW expected, NEW decision, Decides(c, t, r, expected, decision)
  PROVE  /\ Exists(t) /\ tasks'[t] # None
         /\ tasks[t].Status = "AwaitingReview"
         /\ tasks'[t].Status = IF decision = "Accepted" THEN "Done" ELSE "Doing"
         /\ tasks[t].CurrentResultID = r /\ tasks'[t].CurrentResultID = r
         /\ \A u \in TaskID \ {t} : tasks'[u] = tasks[u]
         /\ results[r] # None /\ results[r].Decision = "Pending"
         /\ results'[r] # None /\ results'[r].Decision = decision
         /\ results'[r].TaskID = results[r].TaskID
         /\ results'[r].by = results[r].by
         /\ \A q \in ResultID \ {r} : results'[q] = results[q]
<1> DEFINE to == IF decision = "Accepted" THEN "Done" ELSE "Doing"
<1>1. /\ Exists(t) /\ tasks[t].Status = "AwaitingReview"
      /\ tasks[t].CurrentResultID = r
      /\ results[r] # None /\ results[r].Decision = "Pending"
      /\ decision \in Decision /\ to \in Status
  BY DEF Decides, AcceptTaskResult, RejectTaskResult, LoadPendingDecision,
         Decision, Status
<1>2. /\ tasks' = [tasks EXCEPT ![t] = Moved(c, t, to)]
      /\ results' = Decided(c, r, decision)
  BY DEF Decides, AcceptTaskResult, RejectTaskResult
<1>3. /\ tasks'[t] = Moved(c, t, to)
      /\ \A u \in TaskID \ {t} : tasks'[u] = tasks[u]
  BY <1>2 DEF TypeOK
<1>4. /\ Moved(c, t, to).Status = to /\ Moved(c, t, to).CurrentResultID = r
      /\ Moved(c, t, to) # None
  BY <1>1, MovedType
<1>5. results'[r] \in Result
  BY <1>1, <1>2, DecidedType
<1>6. /\ results'[r].Decision = decision
      /\ results'[r].TaskID = results[r].TaskID
      /\ results'[r].by = results[r].by
      /\ \A q \in ResultID \ {r} : results'[q] = results[q]
  BY <1>1, <1>2, DecidedType
<1> QED
  BY <1>1, <1>3, <1>4, <1>5, <1>6, AbsentAssumption

(* A new task has neither a result nor a past.                             *)
LEMMA CreationEffect ==
  ASSUME TypeOK, NEW c \in Caller, NEW t \in TaskID, NEW a \in Agent \cup {None},
         CreateTask(c, t, a)
  PROVE  /\ ~Exists(t)
         /\ tasks'[t].Status = "Todo" /\ tasks'[t].CurrentResultID = None
         /\ \A u \in TaskID \ {t} : tasks'[u] = tasks[u]
         /\ results' = results
BY DEF TypeOK, CreateTask

(* What a task and its result owe each other, for one task and one result. *)
Agrees(t) == Exists(t) =>
    IF tasks[t].CurrentResultID = None
    THEN tasks[t].Status \in {"Todo", "Doing", "Blocked"}
    ELSE /\ results[tasks[t].CurrentResultID] # None
         /\ results[tasks[t].CurrentResultID].TaskID = t
         /\ \/ CurrentDecision(t) = "Pending" /\ tasks[t].Status = "AwaitingReview"
            \/ CurrentDecision(t) = "Accepted" /\ tasks[t].Status = "Done"
            \/ /\ CurrentDecision(t) = "Rejected"
               /\ tasks[t].Status \in {"Doing", "Blocked"}

IsPending(r) == results[r] # None /\ results[r].Decision = "Pending"

Reviewable(r) == IsPending(r) =>
    /\ Exists(results[r].TaskID)
    /\ tasks[results[r].TaskID].CurrentResultID = r
    /\ tasks[results[r].TaskID].Revision = results[r].atRevision

LEMMA Parts ==
  /\ ResultMatchesStatus <=> \A t \in TaskID : Agrees(t)
  /\ PendingIsReviewable <=> \A r \in ResultID : Reviewable(r)
BY DEF ResultMatchesStatus, PendingIsReviewable, Agrees, Reviewable, IsPending

(* A task with a pending result awaits review.                             *)
LEMMA PendingAwaitsReview ==
  ASSUME IInv, NEW r \in ResultID, IsPending(r)
  PROVE  /\ results[r].TaskID \in TaskID
         /\ tasks[results[r].TaskID].Status = "AwaitingReview"
<1>1. results[r] \in Result
  BY Typed DEF IInv, IsPending
<1>2. results[r].TaskID \in TaskID
  BY <1>1 DEF Result
<1>3. Reviewable(r) /\ Agrees(results[r].TaskID)
  BY <1>2, Parts DEF IInv
<1>4. r # None
  BY NoneAssumption
<1> QED
  BY <1>2, <1>3, <1>4 DEF Reviewable, Agrees, IsPending, CurrentDecision

(* A command that leaves a task and its current result alone leaves them   *)
(* in agreement, and one that leaves a pending result and its task alone   *)
(* leaves it reviewable.                                                   *)
LEMMA Untouched ==
  ASSUME IInv
  PROVE  /\ \A t \in TaskID :
               /\ tasks'[t] = tasks[t]
               /\ tasks[t] # None /\ tasks[t].CurrentResultID # None =>
                     results'[tasks[t].CurrentResultID] =
                        results[tasks[t].CurrentResultID]
               => Agrees(t)'
         /\ \A r \in ResultID :
               /\ results'[r] = results[r]
               /\ IsPending(r) => tasks'[results[r].TaskID] = tasks[results[r].TaskID]
               => Reviewable(r)'
<1>1. /\ \A t \in TaskID : Agrees(t)
      /\ \A r \in ResultID : Reviewable(r)
  BY Parts DEF IInv
<1> QED
  BY <1>1 DEF Agrees, Reviewable, IsPending, Exists, CurrentDecision

(* The result of another task is another result.                           *)
LEMMA OthersResult ==
  ASSUME IInv, NEW t \in TaskID, Exists(t), tasks[t].CurrentResultID # None
  PROVE  /\ tasks[t].CurrentResultID \in ResultID
         /\ results[tasks[t].CurrentResultID] # None
         /\ results[tasks[t].CurrentResultID].TaskID = t
<1>1. tasks[t] \in Task
  BY Typed DEF IInv
<1>2. Agrees(t)
  BY Parts DEF IInv
<1> QED
  BY <1>1, <1>2 DEF Agrees, Task

-----------------------------------------------------------------------------
(* The agreement of tasks and results is kept by every command.            *)
LEMMA AgreementStep ==
  ASSUME IInv, [Next]_vars
  PROVE  ResultMatchesStatus' /\ PendingIsReviewable'
<1>0. /\ TypeOK
      /\ \A t \in TaskID : Agrees(t)
      /\ \A r \in ResultID : Reviewable(r)
  BY Parts DEF IInv
<1> SUFFICES /\ \A t \in TaskID : Agrees(t)'
             /\ \A r \in ResultID : Reviewable(r)'
  BY DEF ResultMatchesStatus, PendingIsReviewable, Agrees, Reviewable,
         IsPending, Exists, CurrentDecision
<1>1. ASSUME tasks' = tasks, results' = results
      PROVE  /\ \A t \in TaskID : Agrees(t)'
             /\ \A r \in ResultID : Reviewable(r)'
  BY <1>1, Untouched
<1>2. ASSUME NEW c \in Caller, NEW t \in TaskID, NEW a \in Agent \cup {None},
             CreateTask(c, t, a)
      PROVE  /\ \A u \in TaskID : Agrees(u)'
             /\ \A r \in ResultID : Reviewable(r)'
  <2>1. /\ ~Exists(t) /\ results' = results
        /\ tasks'[t].Status = "Todo" /\ tasks'[t].CurrentResultID = None
        /\ \A u \in TaskID \ {t} : tasks'[u] = tasks[u]
    BY <1>0, <1>2, CreationEffect
  <2>2. Agrees(t)'
    BY <2>1 DEF Agrees
  <2>3. \A u \in TaskID \ {t} : Agrees(u)'
    BY <2>1, Untouched
  <2>4. ASSUME NEW r \in ResultID
        PROVE  Reviewable(r)'
    <3>1. IsPending(r) => results[r].TaskID \in TaskID \ {t}
      BY <1>0, <2>1, PendingAwaitsReview DEF Reviewable
    <3> QED
      BY <2>1, <3>1, Untouched
  <2> QED
    BY <2>2, <2>3, <2>4
<1>3. ASSUME NEW c \in Caller, NEW t \in TaskID, NEW from \in Status,
             NEW to \in Status, TransitionTask(c, t, from, to)
      PROVE  /\ \A u \in TaskID : Agrees(u)'
             /\ \A r \in ResultID : Reviewable(r)'
  <2>1. /\ Exists(t) /\ tasks'[t] # None
        /\ tasks[t].Status = from /\ tasks'[t].Status = to
        /\ tasks'[t].CurrentResultID =
               IF from = "Done" THEN None ELSE tasks[t].CurrentResultID
        /\ \A u \in TaskID \ {t} : tasks'[u] = tasks[u]
        /\ results' = results
    BY <1>0, <1>3, TransitionEffect
  <2>2. <<from, to>> \in GenericTransitions
    BY <1>3 DEF TransitionTask
  <2>3. Agrees(t)'
    BY <1>0, <2>1, <2>2 DEF Agrees, Exists, CurrentDecision, GenericTransitions
  <2>4. \A u \in TaskID \ {t} : Agrees(u)'
    BY <2>1, Untouched
  <2>5. ASSUME NEW r \in ResultID
        PROVE  Reviewable(r)'
    <3>1. from # "AwaitingReview"
      BY <2>2 DEF GenericTransitions
    <3>2. IsPending(r) => results[r].TaskID \in TaskID \ {t}
      BY <2>1, <3>1, PendingAwaitsReview
    <3> QED
      BY <2>1, <3>2, Untouched
  <2> QED
    BY <2>3, <2>4, <2>5
<1>4. ASSUME NEW c \in Caller, NEW t \in TaskID, NEW r \in ResultID,
             NEW expected \in 1..MaxTaskRevision,
             ReportTaskResult(c, t, r, expected)
      PROVE  /\ \A u \in TaskID : Agrees(u)'
             /\ \A q \in ResultID : Reviewable(q)'
  <2>1. /\ Exists(t) /\ tasks'[t] # None
        /\ tasks[t].Status = "Doing" /\ tasks'[t].Status = "AwaitingReview"
        /\ tasks'[t].CurrentResultID = r
        /\ tasks'[t].Revision = tasks[t].Revision + 1
        /\ \A u \in TaskID \ {t} : tasks'[u] = tasks[u]
        /\ results[r] = None /\ results'[r] # None
        /\ results'[r].TaskID = t /\ results'[r].Decision = "Pending"
        /\ results'[r].atRevision = tasks[t].Revision + 1
        /\ \A q \in ResultID \ {r} : results'[q] = results[q]
    BY <1>0, <1>4, ReportEffect
  <2>2. r # None
    BY NoneAssumption
  <2>3. Agrees(t)' /\ Reviewable(r)'
    BY <2>1, <2>2 DEF Agrees, Reviewable, Exists, CurrentDecision
  <2>4. ASSUME NEW u \in TaskID \ {t}
        PROVE  Agrees(u)'
    <3>1. Exists(u) /\ tasks[u].CurrentResultID # None =>
              tasks[u].CurrentResultID \in ResultID \ {r}
      BY <2>1, OthersResult
    <3> QED
      BY <2>1, <3>1, Untouched DEF Exists
  <2>5. ASSUME NEW q \in ResultID \ {r}
        PROVE  Reviewable(q)'
    <3>1. IsPending(q) => results[q].TaskID \in TaskID \ {t}
      BY <2>1, PendingAwaitsReview
    <3> QED
      BY <2>1, <3>1, Untouched
  <2> QED
    BY <2>3, <2>4, <2>5
<1>5. ASSUME NEW c \in Caller, NEW t \in TaskID, NEW r \in ResultID,
             NEW expected, NEW decision, Decides(c, t, r, expected, decision)
      PROVE  /\ \A u \in TaskID : Agrees(u)'
             /\ \A q \in ResultID : Reviewable(q)'
  <2>1. /\ Exists(t) /\ tasks'[t] # None
        /\ tasks[t].Status = "AwaitingReview"
        /\ tasks'[t].Status = IF decision = "Accepted" THEN "Done" ELSE "Doing"
        /\ tasks[t].CurrentResultID = r /\ tasks'[t].CurrentResultID = r
        /\ \A u \in TaskID \ {t} : tasks'[u] = tasks[u]
        /\ results[r] # None /\ results[r].Decision = "Pending"
        /\ results'[r] # None /\ results'[r].Decision = decision
        /\ results'[r].TaskID = results[r].TaskID
        /\ \A q \in ResultID \ {r} : results'[q] = results[q]
    BY <1>0, <1>5, DecisionEffect
  <2>2. r # None /\ decision \in {"Accepted", "Rejected"}
    BY <1>5, NoneAssumption DEF Decides
  <2>3. results[r].TaskID = t
    BY <2>1, <2>2, OthersResult
  <2>4. Agrees(t)' /\ Reviewable(r)'
    BY <2>1, <2>2, <2>3 DEF Agrees, Reviewable, IsPending, CurrentDecision
  <2>5. ASSUME NEW u \in TaskID \ {t}
        PROVE  Agrees(u)'
    <3>1. Exists(u) /\ tasks[u].CurrentResultID # None =>
              tasks[u].CurrentResultID \in ResultID \ {r}
      BY <2>3, OthersResult
    <3> QED
      BY <2>1, <3>1, Untouched DEF Exists
  <2>6. ASSUME NEW q \in ResultID \ {r}
        PROVE  Reviewable(q)'
    <3>1. IsPending(q) => results[q].TaskID \in TaskID \ {t}
      BY <1>0, <2>1, PendingAwaitsReview DEF Reviewable
    <3> QED
      BY <2>1, <3>1, Untouched
  <2> QED
    BY <2>4, <2>5, <2>6
<1>6. ASSUME NEW c \in Caller, NEW a \in Agent,
             RegisterAgent(c, a) \/ UpdateAgent(c, a)
      PROVE  tasks' = tasks /\ results' = results
  BY <1>6 DEF RegisterAgent, UpdateAgent
<1>7. UNCHANGED vars => tasks' = tasks /\ results' = results
  BY DEF vars
<1> QED
  BY <1>1, <1>2, <1>3, <1>4, <1>5, <1>6, <1>7 DEF Next, Decides

(* TypeOK and both agreements always hold, whoever calls what with whatever *)
(* view (every command of engine.go on agents, tasks and results).         *)
THEOREM Invariance == Spec => []IInv
<1>1. Init => IInv
  BY DEF Init, IInv, TypeOK, ResultMatchesStatus, PendingIsReviewable, Exists
<1>2. IInv /\ [Next]_vars => IInv'
  BY TypeStep, AgreementStep DEF IInv
<1> QED
  BY <1>1, <1>2, PTL DEF Spec

(* The records keep the fields of domain.Task and domain.TaskResult.       *)
THEOREM TypeCorrect == Spec => []TypeOK
BY Invariance, PTL DEF IInv

(* Status, current result and decision of a task agree (transition,        *)
(* ReportTaskResult and the decisions).                                    *)
THEOREM StatusAgrees == Spec => []ResultMatchesStatus
BY Invariance, PTL DEF IInv

(* A pending result can be decided, at the revision the reviewer saw       *)
(* (loadPendingDecision).                                                  *)
THEOREM NoPendingIsStranded == Spec => []PendingIsReviewable
BY Invariance, PTL DEF IInv

(* No command changes a decided result, nor what a result was reported for *)
(* and by whom.                                                            *)
Kept(r) == results[r] # None =>
    /\ results'[r] # None
    /\ results'[r].by = results[r].by
    /\ results'[r].TaskID = results[r].TaskID
    /\ results[r].Decision # "Pending" => results'[r] = results[r]

LEMMA KeptStep ==
  ASSUME IInv, [Next]_vars, NEW q \in ResultID
  PROVE  Kept(q)
<1>0. TypeOK
  BY DEF IInv
<1>1. results' = results => Kept(q)
  BY DEF Kept
<1>2. ASSUME NEW c \in Caller, NEW t \in TaskID, NEW r \in ResultID,
             NEW expected, ReportTaskResult(c, t, r, expected)
      PROVE  Kept(q)
  <2>1. /\ results[r] = None
        /\ \A s \in ResultID \ {r} : results'[s] = results[s]
    BY <1>0, <1>2, ReportEffect
  <2> QED
    BY <2>1 DEF Kept
<1>3. ASSUME NEW c \in Caller, NEW t \in TaskID, NEW r \in ResultID,
             NEW expected, NEW decision, Decides(c, t, r, expected, decision)
      PROVE  Kept(q)
  <2>1. /\ results[r].Decision = "Pending" /\ results'[r] # None
        /\ results'[r].TaskID = results[r].TaskID
        /\ results'[r].by = results[r].by
        /\ \A s \in ResultID \ {r} : results'[s] = results[s]
    BY <1>0, <1>3, DecisionEffect
  <2> QED
    BY <2>1 DEF Kept
<1>4. ASSUME NEW c \in Caller,
             \/ \E a \in Agent : RegisterAgent(c, a) \/ UpdateAgent(c, a)
             \/ \E t \in TaskID, a \in Agent \cup {None} : CreateTask(c, t, a)
             \/ \E t \in TaskID, from, to \in Status : TransitionTask(c, t, from, to)
      PROVE  results' = results
  BY <1>4 DEF RegisterAgent, UpdateAgent, CreateTask, TransitionTask
<1>5. UNCHANGED vars => results' = results
  BY DEF vars
<1> QED
  BY <1>1, <1>2, <1>3, <1>4, <1>5 DEF Next, Decides

(* A decision is final (AcceptTaskResult, RejectTaskResult, TransitionTask *)
(* and the results' map).                                                  *)
THEOREM DecisionsStay == Spec => DecisionsAreFinal
<1>1. IInv /\ [Next]_vars =>
        [\A r \in ResultID :
            results[r] # None =>
                /\ results'[r] # None
                /\ results'[r].by = results[r].by
                /\ results'[r].TaskID = results[r].TaskID
                /\ results[r].Decision # "Pending" => results'[r] = results[r]]_vars
  BY KeptStep DEF Kept
<1> QED
  BY <1>1, Invariance, PTL DEF Spec, DecisionsAreFinal

=============================================================================
