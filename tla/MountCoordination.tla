-------------------------- MODULE MountCoordination --------------------------
(***************************************************************************)
(* The mount-coordination layer of the storage subsystem: the process-wide *)
(* map apolloStorageOngoingOperationMap (storage.go:28), guarded by        *)
(* apolloStorageMapLock, through which the Ceph driver serialises mounts   *)
(* and unmounts of container volumes (ContainerMount/ContainerUmount) and  *)
(* of custom volumes (StoragePoolVolumeMount/StoragePoolVolumeUmount).     *)
(*                                                                         *)
(* A call takes the map lock; if the operation's lock id is present it     *)
(* waits on the channel stored there and then returns (false, nil); if not *)
(* it stores a fresh channel, checks IsMountPoint, maps and mounts (or     *)
(* unmounts), takes the lock again, closes and deletes the channel and     *)
(* returns.  The channel is identified here by the thread that created it: *)
(* a thread holds at most one entry at a time.  The kernel mount table is  *)
(* mounts[o], the number of mounts stacked on o's mount point (Linux lets  *)
(* a second mount stack on a mount point).                                 *)
(***************************************************************************)
EXTENDS Naturals, FiniteSets, Functions, TLC

CONSTANTS
  Threads,      \* goroutines calling into the storage driver
  Containers,   \* container volumes (ContainerMount / ContainerUmount)
  Customs,      \* custom volumes (StoragePoolVolumeMount / ...Umount)
  NoThread,     \* "no channel"
  MaxStack      \* bound on the mounts the kernel stacks on one mount point

ASSUME Containers \cap Customs = {}
ASSUME NoThread \notin Threads
ASSUME MaxStack \in Nat \ {0}

Objects == Containers \cup Customs
Ops == {"mount", "umount"}

(* getContainerMountLockID, getContainerUmountLockID, getCustomMountLockID *)
(* and getCustomUmountLockID: the formatted strings are distinct for       *)
(* distinct (operation, kind, pool, name), so a pair is the lock id.       *)
LockId(op, o) == <<op, o>>
LockIds == {LockId(op, o) : op \in Ops, o \in Objects}

VARIABLES
  pc,        \* where each thread is in its call
  call,      \* the operation and object of each thread's current call
  ongoing,   \* apolloStorageOngoingOperationMap: lock id -> channel owner
  waitOn,    \* the channel a waiting thread reads from
  mounts,    \* the kernel mount table: mounts stacked on each object
  loc,       \* the call's locals: ourMount/ourUmount, the error, ret < 0
  res        \* what the call returned: did_work, failed, whether it waited

vars == <<pc, call, ongoing, waitOn, mounts, loc, res>>

PCs == {"idle", "check", "act", "release", "wait", "woken", "ret"}
Locals == [our : BOOLEAN, err : BOOLEAN, neg : BOOLEAN]
Results == [didWork : BOOLEAN, failed : BOOLEAN, waited : BOOLEAN]
NoLocals == [our |-> FALSE, err |-> FALSE, neg |-> FALSE]
NoResult == [didWork |-> FALSE, failed |-> FALSE, waited |-> FALSE]
NoCall == [op |-> "mount", obj |-> CHOOSE o \in Objects : TRUE]

IsMountPoint(o) == mounts[o] > 0
Lid(t) == LockId(call[t].op, call[t].obj)
Goto(t, to) == pc' = [pc EXCEPT ![t] = to]

(* A caller may not start a mount and an unmount of one object at once    *)
(* (spec 4.2: the two lock ids are distinct and higher-level callers must  *)
(* not invoke both concurrently).                                          *)
Disciplined(op, o) ==
  \A u \in Threads : pc[u] # "idle" /\ call[u].obj = o
                       => call[u].op = op

(* Mutant: the lookup is dropped and every call inserts and does the work. *)
LookupOrInsertNoCheck(t, lid) ==
  /\ ongoing' = ongoing @@ (lid :> t)
  /\ Goto(t, "check")
  /\ UNCHANGED waitOn

(* The first critical section of every call: look the lock id up; if an    *)
(* operation is ongoing capture its channel and wait, otherwise store a    *)
(* fresh channel and go on to do the work.                                 *)
LookupOrInsert(t, lid) ==
  IF lid \in DOMAIN ongoing
  THEN /\ waitOn' = [waitOn EXCEPT ![t] = ongoing[lid]]
       /\ Goto(t, "wait")
       /\ UNCHANGED ongoing
  ELSE /\ ongoing' = ongoing @@ (lid :> t)
       /\ Goto(t, "check")
       /\ UNCHANGED waitOn

Begin(t, op, o) ==
  /\ pc[t] = "idle"
  /\ Disciplined(op, o)
  /\ call' = [call EXCEPT ![t] = [op |-> op, obj |-> o]]
  /\ LookupOrInsert(t, LockId(op, o))
  /\ UNCHANGED <<mounts, loc, res>>

ContainerMountBegin(t, o) == o \in Containers /\ Begin(t, "mount", o)
ContainerUmountBegin(t, o) == o \in Containers /\ Begin(t, "umount", o)
CustomMountBegin(t, o) == o \in Customs /\ Begin(t, "mount", o)
CustomUmountBegin(t, o) == o \in Customs /\ Begin(t, "umount", o)

Working(t, op, kind) ==
  pc[t] = "check" /\ call[t].op = op /\ call[t].obj \in kind

(* ContainerMount: if the mount point is not mounted, resolve (map) the    *)
(* RBD device; only when that succeeds (ret >= 0) is tryMount called.      *)
ContainerMountCheck(t) ==
  /\ Working(t, "mount", Containers)
  /\ IF IsMountPoint(call[t].obj)
     THEN Goto(t, "release") /\ UNCHANGED loc
     ELSE \E mapped \in BOOLEAN :
            IF mapped THEN Goto(t, "act") /\ UNCHANGED loc
            ELSE /\ loc' = [loc EXCEPT ![t].neg = TRUE]
                 /\ Goto(t, "release")
  /\ UNCHANGED <<call, ongoing, waitOn, mounts, res>>

(* StoragePoolVolumeMount: the device is resolved and tryMount is called   *)
(* whatever ret is; with an empty device path the mount fails.             *)
CustomMountCheck(t) ==
  /\ Working(t, "mount", Customs)
  /\ IF IsMountPoint(call[t].obj)
     THEN Goto(t, "release") /\ UNCHANGED loc
     ELSE \E mapped \in BOOLEAN :
            /\ loc' = [loc EXCEPT ![t].neg = ~mapped]
            /\ Goto(t, "act")
  /\ UNCHANGED <<call, ongoing, waitOn, mounts, res>>

(* Mutant: the IsMountPoint check before unmounting is dropped.          *)
UmountCheckUnconditional(t, kind) ==
  /\ Working(t, "umount", kind)
  /\ Goto(t, "act")
  /\ UNCHANGED <<call, ongoing, waitOn, mounts, loc, res>>

(* ContainerUmount / StoragePoolVolumeUmount: unmount only a mount point.  *)
UmountCheck(t, kind) ==
  /\ Working(t, "umount", kind)
  /\ Goto(t, IF IsMountPoint(call[t].obj) THEN "act" ELSE "release")
  /\ UNCHANGED <<call, ongoing, waitOn, mounts, loc, res>>

ContainerUmountCheck(t) == UmountCheck(t, Containers)
CustomUmountCheck(t) == UmountCheck(t, Customs)

(* tryMount: the kernel stacks a new mount on the mount point; it may fail *)
(* (and always does without a device).  ourMount becomes true either way.  *)
TryMount(t) ==
  /\ pc[t] = "act" /\ call[t].op = "mount"
  /\ \E ok \in BOOLEAN :
       LET o == call[t].obj
           succeeds == ok /\ ~loc[t].neg /\ mounts[o] < MaxStack
       IN /\ mounts' = [mounts EXCEPT ![o] = IF succeeds THEN @ + 1 ELSE @]
          /\ loc' = [loc EXCEPT ![t].our = TRUE, ![t].err = ~succeeds]
  /\ Goto(t, "release")
  /\ UNCHANGED <<call, ongoing, waitOn, res>>

(* Mutant: the error of tryUnmount is not assigned to the returned error. *)
TryUnmountIgnoringError(t) ==
  /\ pc[t] = "act" /\ call[t].op = "umount"
  /\ \E ok \in BOOLEAN :
       LET o == call[t].obj
       IN /\ mounts' = [mounts EXCEPT ![o] = IF ok THEN @ - 1 ELSE @]
          /\ loc' = [loc EXCEPT ![t].our = TRUE, ![t].err = FALSE]
  /\ Goto(t, "release")
  /\ UNCHANGED <<call, ongoing, waitOn, res>>

(* tryUnmount removes the top mount of the mount point, or fails.          *)
TryUnmount(t) ==
  /\ pc[t] = "act" /\ call[t].op = "umount"
  /\ \E ok \in BOOLEAN :
       LET o == call[t].obj
       IN /\ mounts' = [mounts EXCEPT ![o] = IF ok THEN @ - 1 ELSE @]
          /\ loc' = [loc EXCEPT ![t].our = TRUE, ![t].err = ~ok]
  /\ Goto(t, "release")
  /\ UNCHANGED <<call, ongoing, waitOn, res>>

(* Mutant: the error check before returning is dropped.                   *)
OutcomeIgnoringError(t) ==
  [didWork |-> loc[t].our, failed |-> FALSE, waited |-> FALSE]

(* The value a call returns after its second critical section.            *)
(* ContainerMount returns (false, mounterr) when mounterr != nil or        *)
(* ret < 0, so a failed mapping returns a nil error; the other three       *)
(* return (false, err) on error and (ourMount, nil) otherwise.             *)
Outcome(t) ==
  LET l == loc[t]
  IN IF l.err \/ l.neg
     THEN [didWork |-> FALSE, failed |-> l.err, waited |-> FALSE]
     ELSE [didWork |-> l.our, failed |-> FALSE, waited |-> FALSE]

(* Mutant: the channel is closed but the map entry is not deleted.        *)
ReleaseKeepEntry(t) ==
  /\ pc[t] = "release"
  /\ LET waiters == {w \in Threads : pc[w] = "wait" /\ waitOn[w] = t}
     IN /\ pc' = [u \in Threads |->
                    IF u = t THEN "ret" ELSE IF u \in waiters THEN "woken" ELSE pc[u]]
        /\ res' = [res EXCEPT ![t] = Outcome(t)]
  /\ UNCHANGED <<call, ongoing, waitOn, mounts, loc>>

(* Mutant: the map entry is deleted but its channel is never closed.      *)
ReleaseWithoutClose(t) ==
  /\ pc[t] = "release"
  /\ ongoing' = Restrict(ongoing, DOMAIN ongoing \ {Lid(t)})
  /\ Goto(t, "ret")
  /\ res' = [res EXCEPT ![t] = Outcome(t)]
  /\ UNCHANGED <<call, waitOn, mounts, loc>>

(* The second critical section: close the channel, which wakes every       *)
(* waiter on it, delete the entry, and return.                             *)
Release(t) ==
  /\ pc[t] = "release"
  /\ LET lid == Lid(t)
         waiters == {w \in Threads : pc[w] = "wait" /\ waitOn[w] = t}
     IN /\ IF lid \in DOMAIN ongoing
           THEN /\ ongoing' = Restrict(ongoing, DOMAIN ongoing \ {lid})
                /\ pc' = [u \in Threads |->
                            IF u = t THEN "ret"
                            ELSE IF u \in waiters THEN "woken" ELSE pc[u]]
           ELSE Goto(t, "ret") /\ UNCHANGED ongoing
        /\ res' = [res EXCEPT ![t] = Outcome(t)]
  /\ UNCHANGED <<call, waitOn, mounts, loc>>

(* A waiter's read of the closed channel returns; it gives the other       *)
(* thread the benefit of the doubt and returns (false, nil).               *)
WaiterReturn(t) ==
  /\ pc[t] = "woken"
  /\ Goto(t, "ret")
  /\ res' = [res EXCEPT ![t] = [didWork |-> FALSE, failed |-> FALSE, waited |-> TRUE]]
  /\ waitOn' = [waitOn EXCEPT ![t] = NoThread]
  /\ UNCHANGED <<call, ongoing, mounts, loc>>

(* The caller goes on with its result; the thread may call again.         *)
(* Its locals go out of scope.                                             *)
CallerContinues(t) ==
  /\ pc[t] = "ret"
  /\ Goto(t, "idle")
  /\ call' = [call EXCEPT ![t] = NoCall]
  /\ loc' = [loc EXCEPT ![t] = NoLocals]
  /\ res' = [res EXCEPT ![t] = NoResult]
  /\ UNCHANGED <<ongoing, waitOn, mounts>>

Init ==
  /\ pc = [t \in Threads |-> "idle"]
  /\ call = [t \in Threads |-> NoCall]
  /\ ongoing = <<>>
  /\ waitOn = [t \in Threads |-> NoThread]
  /\ mounts = [o \in Objects |-> 0]
  /\ loc = [t \in Threads |-> NoLocals]
  /\ res = [t \in Threads |-> NoResult]

(* The steps of a call, once it has started.                              *)
Step(t) ==
  \/ ContainerMountCheck(t) \/ CustomMountCheck(t)
  \/ ContainerUmountCheck(t) \/ CustomUmountCheck(t)
  \/ TryMount(t) \/ TryUnmount(t)
  \/ Release(t) \/ WaiterReturn(t)

Next ==
  \E t \in Threads :
    \/ \E o \in Objects :
         \/ ContainerMountBegin(t, o) \/ ContainerUmountBegin(t, o)
         \/ CustomMountBegin(t, o) \/ CustomUmountBegin(t, o)
    \/ Step(t)
    \/ CallerContinues(t)

(* Goroutines are scheduled and the mount syscalls return: every started  *)
(* call keeps taking steps.  Nothing forces a thread to start a call.      *)
Fairness == \A t \in Threads : WF_vars(Step(t)) /\ WF_vars(CallerContinues(t))

Spec == Init /\ [][Next]_vars /\ Fairness

-----------------------------------------------------------------------------
TypeOK ==
  /\ pc \in [Threads -> PCs]
  /\ call \in [Threads -> [op : Ops, obj : Objects]]
  /\ DOMAIN ongoing \subseteq LockIds /\ Range(ongoing) \subseteq Threads
  /\ waitOn \in [Threads -> Threads \cup {NoThread}]
  /\ mounts \in [Objects -> 0..MaxStack]
  /\ loc \in [Threads -> Locals]
  /\ res \in [Threads -> Results]

(* At most one mount is ever on a mount point: two concurrent mount calls  *)
(* of one volume never both pass the IsMountPoint check and call tryMount  *)
(* (spec 8: the kernel mount table holds exactly one mount for X).         *)
NoStackedMount == \A o \in Objects : mounts[o] <= 1

(* Every entry of the ongoing-operation map belongs to a call that is      *)
(* still doing that operation: an entry outliving its call would make all  *)
(* later calls wait on a dead channel or skip the work.                    *)
MapEntriesOwned ==
  \A lid \in DOMAIN ongoing :
     LET h == ongoing[lid] IN pc[h] \in {"check", "act", "release"} /\ Lid(h) = lid

Returned(t, op) == pc[t] = "ret" /\ call[t].op = op /\ ~res[t].failed

(* A custom-volume mount that did the work and returned nil leaves the     *)
(* volume mounted when its caller goes on (StoragePoolVolumeMount).        *)
CustomMountReturnsMounted ==
  \A t \in Threads :
     Returned(t, "mount") /\ ~res[t].waited /\ call[t].obj \in Customs
       => IsMountPoint(call[t].obj)

(* The same for container volumes (ContainerMount).                        *)
ContainerMountReturnsMounted ==
  \A t \in Threads :
     Returned(t, "mount") /\ ~res[t].waited /\ call[t].obj \in Containers
       => IsMountPoint(call[t].obj)

(* An unmount that did the work and returned nil leaves the volume         *)
(* unmounted: one tryUnmount removes every mount there is.                 *)
UmountReturnsUnmounted ==
  \A t \in Threads :
     Returned(t, "umount") /\ ~res[t].waited => ~IsMountPoint(call[t].obj)

(* Every call returns: a waiter is woken by the close of the channel it    *)
(* waits on, and the worker always reaches its second critical section.    *)
CallsReturn == \A t \in Threads : pc[t] \notin {"idle", "ret"} ~> pc[t] = "ret"
=============================================================================
