--------------------------- MODULE TaskLifecycle ---------------------------
(***************************************************************************)
(* Agents, tasks and the review of their results: the commands of          *)
(* src/internal/core/task/engine.go on agents and tasks.                   *)
(*                                                                         *)
(* Each command runs its checks and its change inside one Commit, so a     *)
(* command is one step here; what makes the protocol hard is that callers  *)
(* act on views of any age.  A stale view is an argument that no longer    *)
(* fits (an expected revision, a result ID, a from-status), so the         *)
(* arguments of every command are arbitrary.  A command that is refused    *)
(* changes nothing and is not a step.                                      *)
(***************************************************************************)
EXTENDS Naturals

CONSTANTS Agent,            \* agent IDs that may be registered
          Caller,           \* identities commands are issued under
          Reviewer,         \* callers with human-review authority
          TaskID,
          ResultID,
          None,             \* the nil of an optional field
          MaxTaskRevision   \* bound of the model on a task's revisions

ASSUME CallerAssumption == Agent \subseteq Caller /\ Reviewer \subseteq Caller
ASSUME NoneAssumption == None \notin Caller \cup TaskID \cup ResultID
ASSUME RevisionAssumption == MaxTaskRevision \in Nat

VARIABLES agents,   \* Snapshot.Agents: who last wrote each record, or None
          tasks,    \* Snapshot.Tasks
          results   \* Snapshot.TaskResults

vars == <<agents, tasks, results>>

Status == {"Todo", "Doing", "Blocked", "AwaitingReview", "Done"}
Decision == {"Pending", "Accepted", "Rejected"}

StatusChange == [TaskRevision : Nat, FromStatus : Status \cup {None},
                 ToStatus : Status, by : Caller]

Task == [AssigneeID : Agent \cup {None}, Status : Status, Revision : Nat,
         CurrentResultID : ResultID \cup {None},
         LastStatusChange : StatusChange]

(* atRevision is the task revision the result created; the code keeps it   *)
(* only in the receipt and in the status change.                           *)
Result == [TaskID : TaskID, by : Caller, atRevision : Nat,
           Decision : Decision, decidedBy : Caller \cup {None}]

ASSUME AbsentAssumption == None \notin Task \cup Result

TypeOK ==
    /\ agents \in [Agent -> Caller \cup {None}]
    /\ tasks \in [TaskID -> Task \cup {None}]
    /\ results \in [ResultID -> Result \cup {None}]

Init ==
    /\ agents = [a \in Agent |-> None]
    /\ tasks = [t \in TaskID |-> None]
    /\ results = [r \in ResultID |-> None]

-----------------------------------------------------------------------------

(* canWriteAgentRecord: the agent itself or a human reviewer.              *)
CanWriteAgentRecord(c, a) == c = a \/ c \in Reviewer

Registered(a) == agents[a] # None

RegisterAgent(c, a) ==
    /\ CanWriteAgentRecord(c, a)
    /\ ~Registered(a)
    /\ agents' = [agents EXCEPT ![a] = c]
    /\ UNCHANGED <<tasks, results>>

UpdateAgent(c, a) ==
    /\ CanWriteAgentRecord(c, a)
    /\ Registered(a)
    /\ agents' = [agents EXCEPT ![a] = c]
    /\ UNCHANGED <<tasks, results>>

-----------------------------------------------------------------------------

(* The record statusChange builds for the revision it is stored with.      *)
StatusChangeOfMutant(c, revision, from, to) ==
    [TaskRevision |-> revision, FromStatus |-> to, ToStatus |-> from, by |-> c]
StatusChangeOf(c, revision, from, to) ==
    [TaskRevision |-> revision, FromStatus |-> from, ToStatus |-> to, by |-> c]

(* Task t after caller c moved it to a new status: the revision advances   *)
(* and the latest status change is replaced, in the same commit.           *)
Moved(c, t, to) ==
    [AssigneeID |-> tasks[t].AssigneeID,
     Status |-> to,
     Revision |-> tasks[t].Revision + 1,
     CurrentResultID |-> tasks[t].CurrentResultID,
     LastStatusChange |->
         StatusChangeOf(c, tasks[t].Revision + 1, tasks[t].Status, to)]

Exists(t) == tasks[t] # None
CanAdvance(t) == tasks[t].Revision < MaxTaskRevision

CreateTask(c, t, assignee) ==
    /\ ~Exists(t)
    /\ assignee # None => Registered(assignee)
    /\ tasks' = [tasks EXCEPT ![t] =
          [AssigneeID |-> assignee, Status |-> "Todo", Revision |-> 1,
           CurrentResultID |-> None,
           LastStatusChange |-> StatusChangeOf(c, 1, None, "Todo")]]
    /\ UNCHANGED <<agents, results>>

(* What TransitionTask permits; AwaitingReview and Done are reached only   *)
(* through the report and decision commands.                               *)
GenericTransitions ==
    {<<"Todo", "Doing">>, <<"Doing", "Blocked">>, <<"Blocked", "Doing">>,
     <<"Done", "Todo">>}

TransitionTaskMutant(c, t, from, to) ==
    LET reopening == from = "Done" /\ to = "Todo"
    IN  /\ <<from, to>> \in GenericTransitions
        /\ reopening => c \in Reviewer
        /\ Exists(t) /\ CanAdvance(t)
        /\ tasks[t].Status = from
        /\ tasks' = [tasks EXCEPT ![t] = Moved(c, t, to)]
        /\ UNCHANGED <<agents, results>>
TransitionTask(c, t, from, to) ==
    LET reopening == from = "Done" /\ to = "Todo"
    IN  /\ <<from, to>> \in GenericTransitions
        /\ reopening => c \in Reviewer
        /\ Exists(t) /\ CanAdvance(t)
        /\ tasks[t].Status = from
        /\ tasks' = [tasks EXCEPT ![t] =
              [Moved(c, t, to) EXCEPT !.CurrentResultID =
                                          IF reopening THEN None ELSE @]]
        /\ UNCHANGED <<agents, results>>

(* The assignee reports against the task revision it last saw.             *)
ReportTaskResult(c, t, r, expected) ==
    /\ Exists(t) /\ CanAdvance(t)
    /\ tasks[t].AssigneeID = c
    /\ tasks[t].Revision = expected
    /\ tasks[t].Status = "Doing"
    /\ results[r] = None
    /\ results' = [results EXCEPT ![r] =
          [TaskID |-> t, by |-> c, atRevision |-> tasks[t].Revision + 1,
           Decision |-> "Pending", decidedBy |-> None]]
    /\ tasks' = [tasks EXCEPT ![t] =
          [Moved(c, t, "AwaitingReview") EXCEPT !.CurrentResultID = r]]
    /\ UNCHANGED agents

(* loadPendingDecision: the revision is current, the result is the task's  *)
(* current one and undecided, and the task awaits review.                  *)
LoadPendingDecisionMutant(t, r, expected) ==
    /\ Exists(t)
    /\ tasks[t].Status = "AwaitingReview"
    /\ results[r] # None
    /\ results[r].TaskID = t
LoadPendingDecision(t, r, expected) ==
    /\ Exists(t)
    /\ tasks[t].Revision = expected
    /\ tasks[t].CurrentResultID = r
    /\ tasks[t].Status = "AwaitingReview"
    /\ results[r] # None
    /\ results[r].Decision = "Pending"

Decided(c, r, decision) ==
    [results EXCEPT ![r].Decision = decision, ![r].decidedBy = c]

AcceptTaskResult(c, t, r, expected) ==
    /\ c \in Reviewer
    /\ LoadPendingDecision(t, r, expected)
    /\ CanAdvance(t)
    /\ results' = Decided(c, r, "Accepted")
    /\ tasks' = [tasks EXCEPT ![t] = Moved(c, t, "Done")]
    /\ UNCHANGED agents

(* The rejected result stays the task's current one.                       *)
RejectTaskResult(c, t, r, expected) ==
    /\ c \in Reviewer
    /\ LoadPendingDecision(t, r, expected)
    /\ CanAdvance(t)
    /\ results' = Decided(c, r, "Rejected")
    /\ tasks' = [tasks EXCEPT ![t] = Moved(c, t, "Doing")]
    /\ UNCHANGED agents

Next == \E c \in Caller :
    \/ \E a \in Agent : RegisterAgent(c, a)
    \/ \E a \in Agent : UpdateAgent(c, a)
    \/ \E t \in TaskID, a \in Agent \cup {None} : CreateTask(c, t, a)
    \/ \E t \in TaskID, from, to \in Status : TransitionTask(c, t, from, to)
    \/ \E t \in TaskID, r \in ResultID, expected \in 1..MaxTaskRevision :
          \/ ReportTaskResult(c, t, r, expected)
          \/ AcceptTaskResult(c, t, r, expected)
          \/ RejectTaskResult(c, t, r, expected)

Spec == Init /\ [][Next]_vars

-----------------------------------------------------------------------------
(***************************************************************************)
(* Properties.                                                             *)
(***************************************************************************)

CurrentDecision(t) == results[tasks[t].CurrentResultID].Decision

(* A task's status and its current result always tell the same story:      *)
(* Todo has none, Doing and Blocked have none or a rejected one,           *)
(* AwaitingReview has the pending one and Done has the accepted one.  No   *)
(* order of reports, decisions, blocks and reopenings separates them.      *)
ResultMatchesStatus == \A t \in TaskID : Exists(t) =>
    IF tasks[t].CurrentResultID = None
    THEN tasks[t].Status \in {"Todo", "Doing", "Blocked"}
    ELSE /\ results[tasks[t].CurrentResultID] # None
         /\ results[tasks[t].CurrentResultID].TaskID = t
         /\ \/ /\ CurrentDecision(t) = "Pending"
               /\ tasks[t].Status = "AwaitingReview"
            \/ /\ CurrentDecision(t) = "Accepted"
               /\ tasks[t].Status = "Done"
            \/ /\ CurrentDecision(t) = "Rejected"
               /\ tasks[t].Status \in {"Doing", "Blocked"}

(* No result waits for a decision it can no longer get: a pending result   *)
(* is the current result of its task, and the task is still at the very    *)
(* revision the report created, so a reviewer decides on what it saw.      *)
PendingIsReviewable == \A r \in ResultID :
    results[r] # None /\ results[r].Decision = "Pending" =>
        /\ Exists(results[r].TaskID)
        /\ tasks[results[r].TaskID].CurrentResultID = r
        /\ tasks[results[r].TaskID].Revision = results[r].atRevision

(* A decision is final, and so is what was decided on: a reopened task     *)
(* starts a new result instead of taking the old decision back.            *)
DecisionsAreFinal == [][\A r \in ResultID :
    results[r] # None =>
        /\ results'[r] # None
        /\ results'[r].by = results[r].by
        /\ results'[r].TaskID = results[r].TaskID
        /\ results[r].Decision # "Pending" => results'[r] = results[r]]_vars

=============================================================================
