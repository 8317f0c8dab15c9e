---------------------------- MODULE IdmapAttach ----------------------------
(***************************************************************************)
(* storagePoolVolumeAttachInit (src/apollo/storage.go): attaching a       *)
(* custom storage volume to a container reads volatile.idmap.last from the *)
(* DB, compares it with the container's idmap, checks the volume's users,  *)
(* mounts the volume, unshifts the files from the last idmap, shifts them  *)
(* to the next one, writes the next idmap back as volatile.idmap.last and *)
(* unmounts the volume if it mounted it.                                   *)
(*                                                                         *)
(* The files' ownership is abstracted to the idmap they are shifted to    *)
(* (NoMap: not shifted) or "corrupt" (shifted by a map they were not       *)
(* unshifted from, or unshifted from a map they were not shifted to).      *)
(***************************************************************************)
EXTENDS Naturals, FiniteSets

CONSTANTS
    Containers,    \* containers attaching the volume, one goroutine each
    Idmaps,        \* idmap sets of unprivileged containers
    NoMap,         \* nil idmap (privileged container, unshifted files)
    UsedBy,        \* containers whose config uses the volume (DB)
    FaultSites,    \* steps that may fail: "usedby", "mount", "shift", "write"
    MaxFaults,
    Sequential,    \* are attaches of the volume run one at a time?
    IdmapsChange   \* may a container's idmap change between attaches?

ASSUME NoMap \notin Idmaps /\ UsedBy \subseteq Containers
ASSUME MaxFaults \in Nat /\ Sequential \in BOOLEAN /\ IdmapsChange \in BOOLEAN

Maps == Idmaps \cup {NoMap}

VARIABLES
    pc,        \* control point of each attach
    lastRead,  \* lastIdmap as read from volatile.idmap.last
    ourMount,  \* the attach mounted the volume itself
    res,       \* what the attach returned
    ctMap,     \* c.IdmapSet() of each container
    last,      \* volatile.idmap.last in the DB
    owner,     \* idmap the files on the volume are shifted to
    mounted,   \* the volume is mounted on its mount point
    faults

vars == <<pc, lastRead, ourMount, res, ctMap, last, owner, mounted, faults>>

Outcomes(site) ==
    IF site \in FaultSites /\ faults < MaxFaults THEN BOOLEAN ELSE {TRUE}
Charge(ok) == faults' = IF ok THEN faults ELSE faults + 1

\* UnshiftRootfs / ShiftRootfs of the files on the volume by map m.
Unshifted(m, o) == IF o = m THEN NoMap ELSE "corrupt"
Shifted(m, o) == IF o = NoMap THEN m ELSE "corrupt"

InFlight == {c \in Containers : pc[c] \notin {"idle", "done"}}

Goto(c, to) == pc' = [pc EXCEPT ![c] = to]
\* Return an error; the deferred StoragePoolVolumeUmount runs if armed.
ReturnErr(c) == /\ Goto(c, IF ourMount[c] THEN "umount" ELSE "done")
                /\ res' = [res EXCEPT ![c] = "err"]

Init ==
    /\ pc = [c \in Containers |-> "idle"]
    /\ lastRead = [c \in Containers |-> NoMap]
    /\ ourMount = [c \in Containers |-> FALSE]
    /\ res = [c \in Containers |-> "none"]
    /\ ctMap \in [Containers -> Maps]
    /\ last = NoMap
    /\ owner = NoMap
    /\ mounted = FALSE
    /\ faults = 0

\* The container's idmap changes while it is stopped (e.g. it is made
\* privileged or isolated); the next attach carries the new one.
ChangeIdmap(c) ==
    /\ IdmapsChange
    /\ pc[c] \in {"idle", "done"}
    /\ \E m \in Maps \ {ctMap[c]} : ctMap' = [ctMap EXCEPT ![c] = m]
    /\ UNCHANGED <<pc, lastRead, ourMount, res, last, owner, mounted, faults>>

(***************************************************************************)
(* storagePoolVolumeAttachInit (storage.go 423-559).                      *)
(***************************************************************************)

\* Read volatile.idmap.last and the container's idmap (429-454).
AttachBegin(c) ==
    /\ pc[c] \in {"idle", "done"}
    /\ Sequential => InFlight = {}
    /\ lastRead' = [lastRead EXCEPT ![c] = last]
    /\ ourMount' = [ourMount EXCEPT ![c] = FALSE]
    /\ res' = [res EXCEPT ![c] = "none"]
    /\ Goto(c, "check")
    /\ UNCHANGED <<ctMap, last, owner, mounted, faults>>

\* Equal idmaps skip the shift; otherwise the users of the volume are read
\* from the DB and every one of them must have the same idmap, or the
\* container must be the only user (463-495).
AttachCheckUsers(c) ==
    /\ pc[c] = "check"
    /\ \E ok \in IF ctMap[c] = lastRead[c] THEN {TRUE} ELSE Outcomes("usedby") :
          /\ Charge(ok)
          /\ IF ctMap[c] = lastRead[c] THEN Goto(c, "write") /\ UNCHANGED res
             ELSE IF ~ok
                     \/ (Cardinality(UsedBy) > 1 /\ \E u \in UsedBy : ctMap[u] # ctMap[c])
                     \/ (Cardinality(UsedBy) = 1 /\ UsedBy # {c})
                THEN ReturnErr(c)
                ELSE Goto(c, "mount") /\ UNCHANGED res
    /\ UNCHANGED <<lastRead, ourMount, ctMap, last, owner, mounted>>

\* StoragePoolVolumeMount; the unmount is deferred when we mounted (498-510).
AttachMount(c) ==
    /\ pc[c] = "mount"
    /\ \E ok \in IF mounted THEN {TRUE} ELSE Outcomes("mount") :
          /\ Charge(ok)
          /\ IF ok THEN /\ ourMount' = [ourMount EXCEPT ![c] = ~mounted]
                        /\ mounted' = TRUE
                        /\ Goto(c, "unshift")
                        /\ UNCHANGED res
                   ELSE ReturnErr(c) /\ UNCHANGED <<ourMount, mounted>>
    /\ UNCHANGED <<lastRead, ctMap, last, owner>>

\* Mutant: the files are unshifted from the container's idmap.
AttachUnshiftUsingNext(c) ==
    /\ pc[c] = "unshift"
    /\ \E ok \in IF lastRead[c] = NoMap THEN {TRUE} ELSE Outcomes("unshift") :
          /\ Charge(ok)
          /\ owner' = IF lastRead[c] # NoMap /\ ok /\ mounted
                         THEN Unshifted(ctMap[c], owner) ELSE owner
          /\ IF ok THEN Goto(c, "shift") /\ UNCHANGED res ELSE ReturnErr(c)
    /\ UNCHANGED <<lastRead, ourMount, ctMap, last, mounted>>

\* UnshiftRootfs from the last idmap, if there was one (512-520).  Without
\* a mount the walk only sees the empty mount point directory.
AttachUnshift(c) ==
    /\ pc[c] = "unshift"
    /\ \E ok \in IF lastRead[c] = NoMap THEN {TRUE} ELSE Outcomes("unshift") :
          /\ Charge(ok)
          /\ owner' = IF lastRead[c] # NoMap /\ ok /\ mounted
                         THEN Unshifted(lastRead[c], owner) ELSE owner
          /\ IF ok THEN Goto(c, "shift") /\ UNCHANGED res ELSE ReturnErr(c)
    /\ UNCHANGED <<lastRead, ourMount, ctMap, last, mounted>>

\* ShiftRootfs to the next idmap, if there is one (522-531).  A failure
\* part of the way leaves the tree half shifted.
AttachShift(c) ==
    /\ pc[c] = "shift"
    /\ \E ok \in IF ctMap[c] = NoMap THEN {TRUE} ELSE Outcomes("shift") :
          /\ Charge(ok)
          /\ owner' = IF ctMap[c] = NoMap \/ ~mounted THEN owner
                      ELSE IF ok THEN Shifted(ctMap[c], owner) ELSE "corrupt"
          /\ IF ok THEN Goto(c, "write") /\ UNCHANGED res ELSE ReturnErr(c)
    /\ UNCHANGED <<lastRead, ourMount, ctMap, last, mounted>>

\* volatile.idmap.last = next, written with StoragePoolVolumeUpdate (534-556).
AttachWriteLast(c) ==
    /\ pc[c] = "write"
    /\ \E ok \in Outcomes("write") :
          /\ Charge(ok)
          /\ last' = IF ok THEN ctMap[c] ELSE last
          /\ IF ok THEN /\ Goto(c, IF ourMount[c] THEN "umount" ELSE "done")
                        /\ res' = [res EXCEPT ![c] = "ok"]
                   ELSE ReturnErr(c)
    /\ UNCHANGED <<lastRead, ourMount, ctMap, owner, mounted>>

\* The deferred StoragePoolVolumeUmount at return; its error is only logged.
AttachUmount(c) ==
    /\ pc[c] = "umount"
    /\ mounted' = FALSE
    /\ Goto(c, "done")
    /\ UNCHANGED <<lastRead, ourMount, res, ctMap, last, owner, faults>>

Attach(c) ==
    \/ AttachCheckUsers(c) \/ AttachMount(c) \/ AttachUnshift(c)
    \/ AttachShift(c) \/ AttachWriteLast(c) \/ AttachUmount(c)

Next == \E c \in Containers : AttachBegin(c) \/ Attach(c) \/ ChangeIdmap(c)

Spec == Init /\ [][Next]_vars /\ \A c \in Containers : WF_vars(Attach(c))

(***************************************************************************)
(* Properties.                                                            *)
(***************************************************************************)

\* Whenever no attach is running, volatile.idmap.last names the idmap the
\* files on the volume are really shifted to, so the next attach unshifts
\* them correctly; the unshift/shift pair and the DB write must agree over
\* any sequence of attaches with changing idmaps.
IdmapRecordMatchesFiles ==
    InFlight = {} => owner = last

=============================================================================
