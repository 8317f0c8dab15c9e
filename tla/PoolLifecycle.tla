---------------------------- MODULE PoolLifecycle ----------------------------
(***************************************************************************)
(* Ceph storage pools and their custom volumes (storage_ceph.go): an      *)
(* APOLLO pool record <<host, pool name>> is bound to an OSD pool of a    *)
(* Ceph cluster that several APOLLO hosts (and other users) share.        *)
(* StoragePoolCreate creates the OSD pool or attaches to an existing one, *)
(* creates the pool mount point on the host and stamps                    *)
(* volatile.pool.pristine; the RBD volume "apollo_<pool name>" in the OSD *)
(* pool is the marker other hosts look for.  StoragePoolDelete destroys   *)
(* the OSD pool when the record is pristine.  StoragePoolVolumeCreate and *)
(* StoragePoolVolumeDelete create and delete custom RBD volumes.          *)
(*                                                                         *)
(* Handlers of different pools or volumes are serialised per object by    *)
(* the API, so each is one atomic action; its failing step (or "none") is *)
(* chosen among the FaultSites, and its deferred reverts are applied.     *)
(* The reverts themselves are assumed to succeed (their errors are only   *)
(* logged).                                                               *)
(***************************************************************************)
EXTENDS Naturals, FiniteSets, Sequences

CONSTANTS
    Hosts,       \* APOLLO daemons sharing the cluster
    PoolNames,   \* names of APOLLO storage pools
    OSDNames,    \* names of OSD pools
    External,    \* OSD pools that exist before any APOLLO pool uses them
    Vols,        \* names of custom volumes
    FaultSites,  \* steps that may fail (names used in the *Steps below)
    MaxFaults

\* The OSD pool name defaults to the pool's name.
ASSUME PoolNames \subseteq OSDNames /\ External \subseteq OSDNames
ASSUME MaxFaults \in Nat

Records == Hosts \X PoolNames

VARIABLES
    osd,      \* OSD pools in the cluster
    markers,  \* marker volumes: <<OSD pool, pool name>>
    rbd,      \* custom RBD volumes: <<OSD pool, volume>>
    mapped,   \* krbd devices: <<host, OSD pool, volume>>
    pool,     \* DB record and config of each pool record
    mnt,      \* storage-pools/<name> exists on the record's host
    volDB,    \* custom volumes of each pool in the DB
    volMnt,   \* storage-pools/<name>/custom/<volume> exists
    creating, \* StoragePoolCreate in progress for each record
    creator,  \* history: the record whose create last made each OSD pool ({}: none)
    faults

vars == <<osd, markers, rbd, mapped, pool, mnt, volDB, volMnt, creating, creator,
          faults>>

PoolRec == [db: BOOLEAN, osd: OSDNames, pristine: BOOLEAN]

\* The pool's config as the client supplies it: "source" and
\* "ceph.osd.pool_name", each unset ("") or an OSD pool name.
Configs == [source: OSDNames \cup {""}, poolName: OSDNames \cup {""}]

\* The steps of a create in progress: the OSD pool it settled on, whether
\* cephOSDPoolExists found it missing, whether the deferred
\* cephOSDPoolDestroy is registered, and whether the marker was found.
CreateState == [at: {"idle", "osd", "mkdir", "marker"}, o: OSDNames,
                new: BOOLEAN, reg: BOOLEAN, hasMarker: BOOLEAN]

Idle(r) == [at |-> "idle", o |-> r[2], new |-> FALSE, reg |-> FALSE,
            hasMarker |-> FALSE]

(***************************************************************************)
(* Steps and faults (as in ContainerVolume).                              *)
(***************************************************************************)
Ran(steps, f, k) ==
    f = "none" \/ \E i, j \in 1..Len(steps) : steps[i] = k /\ steps[j] = f /\ i < j

FailChoice(S) ==
    {"none"} \cup (IF faults < MaxFaults THEN S \cap FaultSites ELSE {})

Charge(f) == faults' = IF f = "none" THEN faults ELSE faults + 1

\* A step the environment makes fail, else the injected failure.
Forced(k, cond, S) == IF cond THEN {k} ELSE FailChoice(S)

\* cephOSDPoolDestroy: destroying an OSD pool removes every RBD volume in it.
Destroyed(o) ==
    /\ osd' = osd \ {o}
    /\ markers' = {m \in markers : m[1] # o}
    /\ rbd' = {v \in rbd : v[1] # o}

\* History: an OSD pool its creator's delete destroyed is no longer
\* anyone's; a destroy by the delete of any other record leaves the
\* creator in place, so OnlyOwnerDestroysOSDPool sees it.
ForgetCreator(r, o) ==
    creator' = IF creator[o] = {r} THEN [creator EXCEPT ![o] = {}] ELSE creator

Init ==
    /\ osd = External
    /\ markers = {}
    /\ rbd = {}
    /\ mapped = {}
    /\ pool = [r \in Records |-> [db |-> FALSE, osd |-> r[2], pristine |-> FALSE]]
    /\ mnt = [r \in Records |-> FALSE]
    /\ volDB = [r \in Records |-> {}]
    /\ volMnt = [r \in Records |-> {}]
    /\ creating = [r \in Records |-> Idle(r)]
    /\ creator = [o \in OSDNames |-> {}]
    /\ faults = 0

(***************************************************************************)
(* StoragePoolCreate (storage_ceph.go 88-254).                            *)
(***************************************************************************)

\* The sanity check: "source" and "ceph.osd.pool_name" must not differ; a
\* config that fails it returns before anything changes.
Sane(c) == c.source = "" \/ c.poolName = "" \/ c.source = c.poolName

\* Mutant: no fallback to the pool's name when both keys are unset.
OSDPoolForNoDefault(r, c) ==
    IF c.source # "" THEN c.source ELSE c.poolName

\* s.OSDPoolName: "source" if set, else "ceph.osd.pool_name" (set by
\* StoragePoolInit), else the pool's name.
OSDPoolFor(r, c) ==
    IF c.source # "" THEN c.source
    ELSE IF c.poolName # "" THEN c.poolName ELSE r[2]

\* Creates of one record are serialised by the API; creates of different
\* records, and of the same pool name on different hosts, interleave.  The
\* sanity check, the choice of s.OSDPoolName and cephOSDPoolExists.
PoolCreateBegin(r, c) ==
    /\ ~pool[r].db /\ creating[r].at = "idle"
    /\ Sane(c)
    /\ LET o == OSDPoolFor(r, c)
       IN creating' = [creating EXCEPT ![r] = [Idle(r) EXCEPT !.at = "osd",
                                                  !.o = o, !.new = o \notin osd]]
    /\ UNCHANGED <<osd, markers, rbd, mapped, pool, mnt, volDB, volMnt,
                   faults, creator>>

\* The failure of a step after the OSD pool: the deferred os.Remove of the
\* mount point and, when registered, cephOSDPoolDestroy run.
PoolCreateRevertKeepOSD(r) ==
    /\ mnt' = [mnt EXCEPT ![r] = FALSE]
    /\ creating' = [creating EXCEPT ![r] = Idle(r)]
    /\ UNCHANGED <<osd, markers, rbd, creator>>

PoolCreateRevertKeepMnt(r) ==
    /\ IF creating[r].reg THEN Destroyed(creating[r].o) /\ UNCHANGED creator
       ELSE UNCHANGED <<osd, markers, rbd, creator>>
    /\ creating' = [creating EXCEPT ![r] = Idle(r)]
    /\ UNCHANGED mnt

PoolCreateRevert(r) ==
    /\ IF creating[r].reg THEN Destroyed(creating[r].o) /\ UNCHANGED creator
       ELSE UNCHANGED <<osd, markers, rbd, creator>>
    /\ mnt' = [mnt EXCEPT ![r] = FALSE]
    /\ creating' = [creating EXCEPT ![r] = Idle(r)]

\* "osd pool create" of a pool found missing, else "osd pool get pg_num".
\* A pool another host created in between makes the create either fail or
\* succeed ("already exists"); a success registers cephOSDPoolDestroy.
\* The get fails on a pool another host destroyed in between.
PoolCreateOSD(r) ==
    /\ creating[r].at = "osd"
    /\ LET o == creating[r].o
           k == IF creating[r].new THEN "osdcreate" ELSE "pgget"
           env == CASE creating[r].new /\ o \in osd -> {"exists"}
                    [] ~creating[r].new /\ o \notin osd -> {"gone"}
                    [] OTHER -> {}
       IN \E f \in IF "gone" \in env THEN env ELSE FailChoice({k}) \cup env :
            /\ creating' = [creating EXCEPT ![r] =
                              IF f = "none" THEN [@ EXCEPT !.at = "mkdir",
                                                           !.reg = creating[r].new]
                              ELSE Idle(r)]
            /\ osd' = IF f = "none" /\ creating[r].new THEN osd \cup {o} ELSE osd
            /\ creator' = IF f = "none" /\ o \notin osd
                          THEN [creator EXCEPT ![o] = {r}] ELSE creator
            /\ faults' = IF f \in {"none", "exists", "gone"} THEN faults ELSE faults + 1
    /\ UNCHANGED <<markers, rbd, mapped, pool, mnt, volDB, volMnt>>

\* MkdirAll of the mount point, then cephRBDVolumeExists of the marker.
PoolCreateMkdir(r) ==
    /\ creating[r].at = "mkdir"
    /\ \E f \in FailChoice({"mkdir"}) :
         /\ IF f = "none"
              THEN /\ mnt' = [mnt EXCEPT ![r] = TRUE]
                   /\ creating' = [creating EXCEPT ![r].at = "marker",
                        ![r].hasMarker = <<creating[r].o, r[2]>> \in markers]
                   /\ UNCHANGED <<osd, markers, rbd, creator>>
              ELSE PoolCreateRevert(r)
         /\ Charge(f)
    /\ UNCHANGED <<mapped, pool, volDB, volMnt>>

\* pristine is "false" when the marker was found, else "true" and the
\* marker is created, which fails if it exists by now or the OSD pool is
\* gone.  The API persists
\* the record only when the driver succeeds.
PoolCreateMarker(r) ==
    /\ creating[r].at = "marker"
    /\ LET cs == creating[r]
           m == <<cs.o, r[2]>>
       IN \E f \in IF cs.hasMarker THEN {"none"}
                   ELSE Forced("marker", m \in markers \/ cs.o \notin osd, {"marker"}) :
            /\ IF f = "none"
                 THEN /\ markers' = IF cs.hasMarker THEN markers ELSE markers \cup {m}
                      /\ pool' = [pool EXCEPT ![r] = [db |-> TRUE, osd |-> cs.o,
                                                      pristine |-> ~cs.hasMarker]]
                      /\ creating' = [creating EXCEPT ![r] = Idle(r)]
                      /\ UNCHANGED <<osd, rbd, mnt, creator>>
                 ELSE PoolCreateRevert(r) /\ UNCHANGED pool
            /\ faults' = IF f = "none" \/ m \in markers \/ cs.o \notin osd
                          THEN faults ELSE faults + 1
    /\ UNCHANGED <<mapped, volDB, volMnt>>

(***************************************************************************)
(* StoragePoolDelete (storage_ceph.go 256-303).  The API refuses to       *)
(* delete a pool that still has volumes, and removes the DB record when  *)
(* the driver succeeds.  A missing OSD pool makes the driver return an   *)
(* error before any change (a stuttering step, left out).                *)
(***************************************************************************)

\* cephOSDPoolDestroy if pristine, then os.RemoveAll of the mount point.
PoolDeleteSteps(pristine) ==
    (IF pristine THEN <<"osddestroy">> ELSE <<>>) \o <<"rmall">>

PoolDelete(r) ==
    /\ pool[r].db
    /\ volDB[r] = {}
    /\ pool[r].osd \in osd
    /\ LET steps == PoolDeleteSteps(pool[r].pristine)
       IN \E f \in FailChoice({steps[i] : i \in 1..Len(steps)}) :
            /\ IF pool[r].pristine /\ Ran(steps, f, "osddestroy")
               THEN Destroyed(pool[r].osd) /\ ForgetCreator(r, pool[r].osd)
               ELSE UNCHANGED <<osd, markers, rbd, creator>>
            /\ mnt' = [mnt EXCEPT ![r] = @ /\ f # "none"]
            /\ volMnt' = [volMnt EXCEPT ![r] = IF f = "none" THEN {} ELSE @]
            /\ pool' = [pool EXCEPT ![r].db = f # "none"]
            /\ Charge(f)
    /\ UNCHANGED <<mapped, volDB, creating>>

(***************************************************************************)
(* Custom volumes.  The API adds the volume's DB entry before             *)
(* StoragePoolVolumeCreate and removes it when the driver fails.          *)
(***************************************************************************)

\* cephRBDVolumeCreate, cephRBDVolumeMap, makeFSType, MkdirAll of the
\* volume's mount point (storage_ceph.go 335-451).
VolumeCreateSteps == <<"rbdcreate", "map", "mkfs", "volmkdir">>

\* Mutant: the deferred cephRBDVolumeDelete is not run.
RBDAfterVolumeCreateNoRevert(o, v, f) ==
    IF Ran(VolumeCreateSteps, f, "rbdcreate") THEN rbd \cup {<<o, v>>} ELSE rbd

\* The new RBD volume stays only if the create succeeds: the deferred
\* cephRBDVolumeDelete, cephRBDVolumeUnmap and os.Remove run, last first,
\* on any later failure.
RBDAfterVolumeCreate(o, v, f) ==
    IF f = "none" THEN rbd \cup {<<o, v>>} ELSE rbd

\* Creating an RBD volume that exists, or in an OSD pool that is gone,
\* fails.  On success the device stays mapped.
VolumeCreate(r, v) ==
    /\ pool[r].db
    /\ v \notin volDB[r]
    /\ LET o == pool[r].osd
       IN \E f \in Forced("rbdcreate", <<o, v>> \in rbd \/ o \notin osd,
                          {VolumeCreateSteps[i] : i \in 1..4}) :
            /\ rbd' = RBDAfterVolumeCreate(o, v, f)
            /\ mapped' = IF f = "none" THEN mapped \cup {<<r[1], o, v>>} ELSE mapped
            /\ volMnt' = [volMnt EXCEPT ![r] = IF f = "none" THEN @ \cup {v} ELSE @]
            /\ volDB' = [volDB EXCEPT ![r] = IF f = "none" THEN @ \cup {v} ELSE @]
            /\ faults' = IF f = "none" \/ <<o, v>> \in rbd \/ o \notin osd
                         THEN faults ELSE faults + 1
    /\ UNCHANGED <<osd, markers, pool, mnt, creating, creator>>

\* The unmount of a mounted volume (whose error is only logged) is left to
\* MountCoordination; cephRBDVolumeUnmap, cephRBDVolumeDelete, the DB
\* delete (whose error is only logged) and os.Remove of the mount point
\* (storage_ceph.go 453-518).
VolumeDeleteSteps == <<"unmap", "rbddelete", "dbdelete", "volrm">>

\* Deleting an RBD volume that is gone fails.
VolumeDelete(r, v) ==
    /\ v \in volDB[r]
    /\ LET o == pool[r].osd
           steps == VolumeDeleteSteps
       IN \E f \in Forced("rbddelete", <<o, v>> \notin rbd,
                          {steps[i] : i \in 1..4}) :
            /\ mapped' = IF Ran(steps, f, "unmap") THEN mapped \ {<<r[1], o, v>>}
                         ELSE mapped
            /\ rbd' = IF Ran(steps, f, "rbddelete") THEN rbd \ {<<o, v>>} ELSE rbd
            /\ volDB' = [volDB EXCEPT ![r] = IF Ran(steps, f, "dbdelete") THEN @ \ {v} ELSE @]
            /\ volMnt' = [volMnt EXCEPT ![r] = IF f \in {"none", "dbdelete"}
                                               THEN @ \ {v} ELSE @]
            /\ faults' = IF f = "none" \/ <<o, v>> \notin rbd
                         THEN faults ELSE faults + 1
    /\ UNCHANGED <<osd, markers, pool, mnt, creating, creator>>

Next ==
    \/ \E r \in Records, c \in Configs : PoolCreateBegin(r, c)
    \/ \E r \in Records : PoolCreateOSD(r) \/ PoolCreateMkdir(r) \/ PoolCreateMarker(r)
    \/ \E r \in Records : PoolDelete(r)
    \/ \E r \in Records, v \in Vols : VolumeCreate(r, v) \/ VolumeDelete(r, v)

Spec == Init /\ [][Next]_vars

(***************************************************************************)
(* Properties.                                                            *)
(***************************************************************************)

TypeOK ==
    /\ osd \subseteq OSDNames
    /\ markers \subseteq OSDNames \X PoolNames
    /\ rbd \subseteq OSDNames \X Vols
    /\ mapped \subseteq Hosts \X OSDNames \X Vols
    /\ pool \in [Records -> PoolRec]
    /\ mnt \in [Records -> BOOLEAN]
    /\ volDB \in [Records -> SUBSET Vols]
    /\ volMnt \in [Records -> SUBSET Vols]
    /\ creating \in [Records -> CreateState]
    /\ creator \in [OSDNames -> SUBSET Records]
    /\ faults \in 0..MaxFaults

Live == {r \in Records : pool[r].db}

\* Every OSD pool in the cluster was there before APOLLO, backs a pool
\* record, or is one a create in progress will destroy if it fails: the
\* deferred cephOSDPoolDestroy of StoragePoolCreate removes an OSD pool it
\* created when a later step fails, and StoragePoolDelete only drops the
\* record of a pool it destroyed or did not own.
NoLeakedOSDPool ==
    osd \subseteq External \cup {pool[r].osd : r \in Live}
                           \cup {creating[r].o : r \in {q \in Records : creating[q].reg}}

\* Every custom RBD volume has a DB entry in a pool bound to its OSD pool:
\* StoragePoolVolumeCreate's deferred reverts delete the volume when a
\* later step fails, and StoragePoolVolumeDelete removes the DB entry only
\* after the volume.
NoLeakedVolume == rbd \subseteq UNION {{pool[r].osd} \X volDB[r] : r \in Live}

\* Each host's directories and devices agree with its DB: a pool mount
\* point exists exactly for a pool record (or a create past its MkdirAll),
\* volume mount points only under an existing pool mount point, and krbd
\* devices only for the record's volumes, across create reverts and
\* deletes that fail part of the way.  A volume mount point may outlive
\* its DB entry: StoragePoolVolumeDelete deletes the entry (491-500)
\* before os.Remove (504), whose failure leaves the directory; it is
\* reused by MkdirAll (421) and removed by the pool's os.RemoveAll.
HostLayoutMatchesDB ==
    /\ \A r \in Records :
          /\ mnt[r] = (pool[r].db \/ creating[r].at = "marker")
          /\ volMnt[r] # {} => mnt[r]
    /\ \A m \in mapped : \E r \in Live :
          r[1] = m[1] /\ pool[r].osd = m[2] /\ m[3] \in volDB[r]

\* volatile.pool.pristine records whether this host created the OSD pool
\* (spec: "delete must only destroy the underlying store when pristine"),
\* and a create's revert destroys only what that create made: an OSD pool
\* that existed before APOLLO is never destroyed, and one a pool record
\* created is not destroyed while that record lives - neither by the
\* delete of a record that attached to it nor by the revert of another
\* host's create that found it missing at the same time.
OnlyOwnerDestroysOSDPool ==
    /\ External \subseteq osd
    /\ \A r \in Live : creator[pool[r].osd] = {r} => pool[r].osd \in osd
=============================================================================
