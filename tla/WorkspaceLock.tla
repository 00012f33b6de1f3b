--------------------------- MODULE WorkspaceLock ---------------------------
(***************************************************************************)
(* Ownership of a workspace: Open and Close of                             *)
(* src/internal/adapters/statestore/file.go over the flock of lock_unix.go.*)
(*                                                                         *)
(* The lock belongs to an open file, that is to an inode, and not to the   *)
(* name .lock.  Open creates or reopens .lock and tries the lock once;     *)
(* Close releases the lock, closes the file and removes the name, three    *)
(* system calls between which other processes run.  The kernel drops the   *)
(* lock of a process that dies.                                            *)
(***************************************************************************)
EXTENDS Naturals, FiniteSets

CONSTANTS Process,    \* processes that open the workspace
          Inode,      \* files that have been or may be named .lock
          None,       \* no file, or no owner
          MaxCrashes  \* bound of the model on the number of crashes

ASSUME NoneAssumption == None \notin Process \cup Inode
ASSUME InodeAssumption == IsFiniteSet(Inode) /\ IsFiniteSet(Process)
                          /\ Cardinality(Inode) > Cardinality(Process)
ASSUME MaxCrashesAssumption == MaxCrashes \in Nat

VARIABLES
    pc,       \* where each process is in Open or Close
    fd,       \* the inode of each process's FileStore.lockFile
    path,     \* the inode that .lock names
    owner,    \* the process that holds the flock of each inode
    removed,  \* whether a Close has ever removed the name (history)
    crashes   \* how many crashes there have been

lockVars == <<pc, fd, path, owner, removed, crashes>>

(* idle, then in Open: opened, then holding the workspace, then in Close:  *)
(* unlocked, closed and idle again.                                        *)
Step == {"idle", "opened", "holding", "unlocked", "closed"}

LockTypeOK ==
    /\ pc \in [Process -> Step]
    /\ fd \in [Process -> Inode \cup {None}]
    /\ path \in Inode \cup {None}
    /\ owner \in [Inode -> Process \cup {None}]
    /\ removed \in BOOLEAN
    /\ crashes \in 0..MaxCrashes
    /\ \A p \in Process :
          fd[p] # None <=> pc[p] \in {"opened", "holding", "unlocked"}

LockInit ==
    /\ pc = [p \in Process |-> "idle"]
    /\ fd = [p \in Process |-> None]
    /\ path = None
    /\ owner = [i \in Inode |-> None]
    /\ removed = FALSE
    /\ crashes = 0

-----------------------------------------------------------------------------

(* An inode that is neither named nor open: one that does not exist yet.   *)
Free(i) == i # path /\ \A p \in Process : fd[p] # i

(* os.OpenFile(.lock, O_CREATE): reopen the named file, or create one.     *)
OpenFileMutant(p) ==
    /\ pc[p] = "idle"
    /\ \/ path # None /\ UNCHANGED lockVars
       \/ /\ path = None
          /\ \E i \in {j \in Inode : Free(j)} :
                /\ path' = i
                /\ fd' = [fd EXCEPT ![p] = i]
          /\ pc' = [pc EXCEPT ![p] = "opened"]
          /\ UNCHANGED <<owner, removed, crashes>>
OpenFile(p) ==
    /\ pc[p] = "idle"
    /\ \/ /\ path # None
          /\ fd' = [fd EXCEPT ![p] = path]
          /\ UNCHANGED path
       \/ /\ path = None
          /\ \E i \in {j \in Inode : Free(j)} :
                /\ path' = i
                /\ fd' = [fd EXCEPT ![p] = i]
    /\ pc' = [pc EXCEPT ![p] = "opened"]
    /\ UNCHANGED <<owner, removed, crashes>>

(* acquireLock: flock without waiting.                                     *)
LockMutant(p) ==
    /\ pc[p] = "opened"
    /\ owner' = [owner EXCEPT ![fd[p]] = p]
    /\ pc' = [pc EXCEPT ![p] = "holding"]
    /\ UNCHANGED <<fd, path, removed, crashes>>
Lock(p) ==
    /\ pc[p] = "opened"
    /\ owner[fd[p]] = None
    /\ owner' = [owner EXCEPT ![fd[p]] = p]
    /\ pc' = [pc EXCEPT ![p] = "holding"]
    /\ UNCHANGED <<fd, path, removed, crashes>>

(* acquireLock fails: Open closes the file and answers Busy.               *)
BusyMutant(p) ==
    /\ pc[p] = "opened"
    /\ owner[fd[p]] # None
    /\ pc' = [pc EXCEPT ![p] = "idle"]
    /\ UNCHANGED <<fd, path, owner, removed, crashes>>
Busy(p) ==
    /\ pc[p] = "opened"
    /\ owner[fd[p]] # None
    /\ pc' = [pc EXCEPT ![p] = "idle"]
    /\ fd' = [fd EXCEPT ![p] = None]
    /\ UNCHANGED <<path, owner, removed, crashes>>

(* Close, first step: releaseLock.                                         *)
Unlock(p) ==
    /\ pc[p] = "holding"
    /\ owner' = [owner EXCEPT ![fd[p]] = None]
    /\ pc' = [pc EXCEPT ![p] = "unlocked"]
    /\ UNCHANGED <<fd, path, removed, crashes>>

(* Close, second step: lockFile.Close.                                     *)
CloseFile(p) ==
    /\ pc[p] = "unlocked"
    /\ fd' = [fd EXCEPT ![p] = None]
    /\ pc' = [pc EXCEPT ![p] = "closed"]
    /\ UNCHANGED <<path, owner, removed, crashes>>

(* Close, last step: os.Remove removes the name, whatever it names by now. *)
Remove(p) ==
    /\ pc[p] = "closed"
    /\ path' = None
    /\ removed' = (removed \/ path # None)
    /\ pc' = [pc EXCEPT ![p] = "idle"]
    /\ UNCHANGED <<fd, owner, crashes>>

(* A process dies: the kernel closes its files and drops its lock; the     *)
(* name stays.                                                             *)
ProcessDies(p) ==
    /\ pc[p] # "idle"
    /\ crashes < MaxCrashes
    /\ crashes' = crashes + 1
    /\ pc' = [pc EXCEPT ![p] = "idle"]
    /\ fd' = [fd EXCEPT ![p] = None]
    /\ owner' = [i \in Inode |-> IF owner[i] = p THEN None ELSE owner[i]]
    /\ UNCHANGED <<path, removed>>

LockNext == \E p \in Process :
    \/ OpenFile(p)
    \/ Lock(p)
    \/ Busy(p)
    \/ Unlock(p)
    \/ CloseFile(p)
    \/ Remove(p)
    \/ ProcessDies(p)

LockSpec == LockInit /\ [][LockNext]_lockVars

(* A process that has begun Open or Close finishes the call unless it      *)
(* crashes, and somebody always tries to open the workspace again.  That a *)
(* holder ever closes is not assumed: serve holds the workspace for good.  *)
FairSpec ==
    /\ LockSpec
    /\ \A p \in Process :
          /\ WF_lockVars(OpenFile(p))
          /\ WF_lockVars(Lock(p) \/ Busy(p))
          /\ WF_lockVars(CloseFile(p))
          /\ WF_lockVars(Remove(p))

-----------------------------------------------------------------------------
(***************************************************************************)
(* Properties.                                                             *)
(***************************************************************************)

Holding == {p \in Process : pc[p] = "holding"}

(* The comment on Open: a second Open against the same root, from this     *)
(* process or a live other one, fails Busy.                                *)
OneHolder == \A p, q \in Holding : p = q

(* Crashes alone never break the exclusion: until some Close has removed   *)
(* the name, at most one process holds the workspace, whatever processes   *)
(* died and left the file behind.                                          *)
OneHolderUntilRemove == ~removed => OneHolder

(* A lock file left behind by a crash, or by a crash inside Close, never   *)
(* wedges the workspace: as long as somebody tries, somebody gets it.      *)
NeverWedged == []<>(Holding # {})

=============================================================================
