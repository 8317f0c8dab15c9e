---------------------------- MODULE ImageCache ----------------------------
(***************************************************************************)
(* The Ceph image cache of one image fingerprint on one pool               *)
(* (src/apollo/storage_ceph.go): ContainerCreateFromImage with the        *)
(* create/image entry of the ongoing-operation map, ImageCreate with its   *)
(* revert stack (fresh volume or zombie resurrection), ImageDelete         *)
(* (destroy, or mark zombie when clones exist), ImageMount/ImageUmount and *)
(* ContainerDelete.                                                         *)
(*                                                                         *)
(* The RBD helpers (cephRBDVolumeCreate, cephRBDSnapshotProtect, ...) live *)
(* outside this repository.  They are given the semantics of the rbd tool: *)
(* a clone needs a protected snapshot, a protected snapshot or one with    *)
(* clones cannot be removed, a volume with snapshots or a mapped device    *)
(* cannot be deleted, a mounted device cannot be unmapped.  A helper call  *)
(* listed in FaultSites may also fail on its own, at most MaxFaults times. *)
(***************************************************************************)
EXTENDS Naturals, SequencesExt, FiniteSets, TLC

CONSTANTS
    Creators,          \* goroutines creating a container (named after it)
    Deleters,          \* goroutines calling ImageDelete
    NoThread,
    FaultSites,        \* helper calls that may fail
    MaxFaults,
    MaxDeletes,        \* bound on ImageDelete calls
    DeleteRacesCreate  \* may ImageDelete run while a create is in flight?

ASSUME Deleters \cap Creators = {} /\ NoThread \notin Creators
ASSUME MaxFaults \in Nat /\ MaxDeletes \in Nat /\ DeleteRacesCreate \in BOOLEAN

VARIABLES
    pc,        \* control point of each creator
    holder,    \* create/image/<pool>/<fp> map entry: its creator or NoThread
    waitOn,    \* channel a creator waits on
    imgerr,    \* imgerr of ContainerCreateFromImage
    undo,      \* deferred reverts of ImageCreate, most recent first
    result,    \* what ContainerCreateFromImage returned
    rbd,       \* the image volume image_<fp> / zombie_image_<fp> and its readonly snapshot
    mntDir,    \* the image mount point directory exists
    dbRow,     \* the image's storage pool volume row
    cvol,      \* container volume of each creator: none, cloned or ready
    cfilled,   \* the container volume holds the image content
    dpc,       \* control point of each deleter
    deletes,   \* ImageDelete calls so far
    faults     \* helper failures so far

vars == <<pc, holder, waitOn, imgerr, undo, result, rbd, mntDir, dbRow,
          cvol, cfilled, dpc, deletes, faults>>

Vol == {"none", "image", "zombie"}
SnapState == {"none", "unprotected", "protected"}
RevertOps == {"rmdir", "delete", "unmap", "snapDelete", "unprotect", "markDeleted"}
CreatePCs == {"idle", "wait", "exists", "mkdir", "zombie", "create", "map",
              "mkfs", "mount", "unpack", "umount", "unmap", "snapshot", "protect",
              "dbrow", "revert", "release", "clone", "finish", "done"}
DeletePCs == {"idle", "umount", "list", "unprotect", "purge", "unmap",
              "delete", "zunmap", "mark", "db", "rmdir"}
\* Control points between the first and the last statement of ImageCreate.
InImageCreate == CreatePCs \ {"idle", "wait", "exists", "release",
                              "clone", "finish", "done"}

Clones == {c \in Creators : cvol[c] # "none"}

(***************************************************************************)
(* Helper failures.                                                       *)
(***************************************************************************)
Outcomes(site) ==
    IF site \in FaultSites /\ faults < MaxFaults THEN BOOLEAN ELSE {TRUE}
Charge(ok) == faults' = IF ok THEN faults ELSE faults + 1

(***************************************************************************)
(* rbd semantics of the helpers (environment, not code of this repo).     *)
(***************************************************************************)
CanDeleteVolume == rbd.snap = "none" /\ ~rbd.mapped
CanUnmap == ~rbd.mnt
CanUnprotect == rbd.snap = "protected" /\ Clones = {}
CanPurge == rbd.snap # "protected"
CanClone == rbd.vol = "image" /\ rbd.snap = "protected"

Goto(t, to) == pc' = [pc EXCEPT ![t] = to]
Push(t, op) == undo' = [undo EXCEPT ![t] = <<op>> \o @]
\* A failed step of ImageCreate returns: the deferred reverts run.
Fail(t) == /\ Goto(t, "revert")
           /\ imgerr' = [imgerr EXCEPT ![t] = TRUE]
           /\ UNCHANGED undo
Succeed(t, to) == Goto(t, to) /\ UNCHANGED imgerr

Init ==
    /\ pc = [t \in Creators |-> "idle"]
    /\ holder = NoThread
    /\ waitOn = [t \in Creators |-> NoThread]
    /\ imgerr = [t \in Creators |-> FALSE]
    /\ undo = [t \in Creators |-> <<>>]
    /\ result = [t \in Creators |-> "none"]
    /\ rbd = [vol |-> "none", snap |-> "none", mapped |-> FALSE,
              mnt |-> FALSE, filled |-> FALSE, snapFilled |-> FALSE]
    /\ mntDir = FALSE
    /\ dbRow = FALSE
    /\ cvol = [t \in Creators |-> "none"]
    /\ cfilled = [t \in Creators |-> FALSE]
    /\ dpc = [d \in Deleters |-> "idle"]
    /\ deletes = 0
    /\ faults = 0

(***************************************************************************)
(* ContainerCreateFromImage, first critical section (storage_ceph.go      *)
(* 812-822): wait on the create/image channel, or insert it.               *)
(***************************************************************************)
CreateBegin(t) ==
    /\ pc[t] = "idle"
    /\ cvol[t] = "none"
    /\ DeleteRacesCreate \/ \A d \in Deleters : dpc[d] = "idle"
    /\ imgerr' = [imgerr EXCEPT ![t] = FALSE]
    /\ result' = [result EXCEPT ![t] = "none"]
    /\ IF holder # NoThread
          THEN /\ waitOn' = [waitOn EXCEPT ![t] = holder]
               /\ Goto(t, "wait")
               /\ UNCHANGED holder
          ELSE /\ holder' = t
               /\ Goto(t, "exists")
               /\ UNCHANGED waitOn
    /\ UNCHANGED <<undo, rbd, mntDir, dbRow, cvol, cfilled, dpc, deletes, faults>>
\* Mutant: any image volume, zombie included, counts as existing.
ImageExistsAnyPrefix(t) ==
    /\ pc[t] = "exists"
    /\ Goto(t, IF rbd.vol # "none" THEN "release" ELSE "mkdir")
    /\ UNCHANGED <<holder, waitOn, imgerr, undo, result, rbd, mntDir, dbRow,
                   cvol, cfilled, dpc, deletes, faults>>


\* cephRBDVolumeExists(image) decides whether ImageCreate runs (824-828).
ImageExists(t) ==
    /\ pc[t] = "exists"
    /\ Goto(t, IF rbd.vol = "image" THEN "release" ELSE "mkdir")
    /\ UNCHANGED <<holder, waitOn, imgerr, undo, result, rbd, mntDir, dbRow,
                   cvol, cfilled, dpc, deletes, faults>>

(***************************************************************************)
(* ImageCreate (2036-2311), one action per helper call.                    *)
(***************************************************************************)
CreateStep(t, from) == pc[t] = from
Keep == <<holder, waitOn, result, cvol, cfilled, dpc, deletes>>

\* The mount point is created if missing and its removal deferred (2043-2068);
\* the zombie volume then decides the branch (2072-2074).
ImageMkdir(t) ==
    /\ CreateStep(t, "mkdir")
    /\ \E ok \in IF mntDir THEN {TRUE} ELSE Outcomes("mkdir") :
          /\ Charge(ok)
          /\ IF ok THEN /\ mntDir' = TRUE
                        /\ Push(t, "rmdir")
                        /\ Succeed(t, IF rbd.vol = "zombie" THEN "zombie" ELSE "create")
                   ELSE /\ Fail(t)
                        /\ UNCHANGED mntDir
    /\ UNCHANGED <<rbd, dbRow>> /\ UNCHANGED Keep

\* Zombie branch: cephRBDVolumeUnmarkDeleted, deferred re-mark (2262-2293).
ImageUnmarkDeleted(t) ==
    /\ CreateStep(t, "zombie")
    /\ \E ok \in Outcomes("unmark") :
          /\ Charge(ok)
          /\ IF ok /\ rbd.vol = "zombie"
                THEN /\ rbd' = [rbd EXCEPT !.vol = "image"]
                     /\ Push(t, "markDeleted")
                     /\ Succeed(t, "dbrow")
                ELSE Fail(t) /\ UNCHANGED rbd
    /\ UNCHANGED <<mntDir, dbRow>> /\ UNCHANGED Keep

\* getRBDSize and cephRBDVolumeCreate, deferred volume delete (2075-2118).
ImageVolumeCreate(t) ==
    /\ CreateStep(t, "create")
    /\ \E ok \in Outcomes("create") :
          /\ Charge(ok)
          /\ IF ok /\ rbd.vol = "none"
                THEN /\ rbd' = [rbd EXCEPT !.vol = "image", !.filled = FALSE]
                     /\ Push(t, "delete")
                     /\ Succeed(t, "map")
                ELSE Fail(t) /\ UNCHANGED rbd
    /\ UNCHANGED <<mntDir, dbRow>> /\ UNCHANGED Keep
\* Mutant: the deferred unmap is not registered.
ImageVolumeMapNoRevert(t) ==
    /\ CreateStep(t, "map")
    /\ \E ok \in Outcomes("map") :
          /\ Charge(ok)
          /\ IF ok THEN /\ rbd' = [rbd EXCEPT !.mapped = TRUE]
                        /\ Succeed(t, "mkfs") /\ UNCHANGED undo
                   ELSE Fail(t) /\ UNCHANGED rbd
    /\ UNCHANGED <<mntDir, dbRow>> /\ UNCHANGED Keep


\* cephRBDVolumeMap, deferred unmap (2119-2146).
ImageVolumeMap(t) ==
    /\ CreateStep(t, "map")
    /\ \E ok \in Outcomes("map") :
          /\ Charge(ok)
          /\ IF ok THEN /\ rbd' = [rbd EXCEPT !.mapped = TRUE]
                        /\ Push(t, "unmap")
                        /\ Succeed(t, "mkfs")
                   ELSE Fail(t) /\ UNCHANGED rbd
    /\ UNCHANGED <<mntDir, dbRow>> /\ UNCHANGED Keep

\* makeFSType on the mapped device (2147-2161).
ImageMkfs(t) ==
    /\ CreateStep(t, "mkfs")
    /\ \E ok \in Outcomes("mkfs") :
          /\ Charge(ok)
          /\ IF ok THEN Succeed(t, "mount") ELSE Fail(t)
    /\ UNCHANGED <<rbd, mntDir, dbRow, undo>> /\ UNCHANGED Keep

\* Mutant: a failed ImageMount is ignored, as the ImageUmount error is.
ImageMountIgnoreError(t) ==
    /\ CreateStep(t, "mount")
    /\ \E ok \in IF rbd.mnt THEN {TRUE} ELSE Outcomes("mount") :
          /\ Charge(ok)
          /\ rbd' = [rbd EXCEPT !.mnt = @ \/ (ok /\ rbd.mapped)]
          /\ Succeed(t, "unpack")
    /\ UNCHANGED <<mntDir, dbRow, undo>> /\ UNCHANGED Keep

\* ImageMount (2163-2166, 2443-2471): nothing to do on a mount point; fails
\* when the device is not mapped (ret < 0) or tryMount fails.
ImageMount(t) ==
    /\ CreateStep(t, "mount")
    /\ \E ok \in IF rbd.mnt THEN {TRUE} ELSE Outcomes("mount") :
          /\ Charge(ok)
          /\ IF rbd.mnt THEN Succeed(t, "unpack") /\ UNCHANGED rbd
             ELSE IF ok /\ rbd.mapped
                THEN rbd' = [rbd EXCEPT !.mnt = TRUE] /\ Succeed(t, "unpack")
                ELSE Fail(t) /\ UNCHANGED rbd
    /\ UNCHANGED <<mntDir, dbRow, undo>> /\ UNCHANGED Keep

\* unpackImage into the image mount point (2168-2181): the content lands in
\* the volume only if it is mounted there.  Success or failure, ImageUmount
\* follows.
ImageUnpack(t) ==
    /\ CreateStep(t, "unpack")
    /\ \E ok \in Outcomes("unpack") :
          /\ Charge(ok)
          /\ rbd' = [rbd EXCEPT !.filled = @ \/ (ok /\ rbd.mnt)]
          /\ imgerr' = [imgerr EXCEPT ![t] = ~ok]
    /\ Goto(t, "umount")
    /\ UNCHANGED <<mntDir, dbRow, undo>> /\ UNCHANGED Keep

\* ImageUmount (2177/2185, 2473-2488); its error is ignored.  After a failed
\* unpack ImageCreate returns.
ImageUmountStep(t) ==
    /\ CreateStep(t, "umount")
    /\ \E ok \in IF rbd.mnt THEN Outcomes("umount") ELSE {TRUE} :
          /\ Charge(ok)
          /\ rbd' = [rbd EXCEPT !.mnt = @ /\ ~ok]
    /\ Goto(t, IF imgerr[t] THEN "revert" ELSE "unmap")
    /\ UNCHANGED <<imgerr, mntDir, dbRow, undo>> /\ UNCHANGED Keep

\* cephRBDVolumeUnmap (2187-2198); a mounted device cannot be unmapped.
ImageVolumeUnmap(t) ==
    /\ CreateStep(t, "unmap")
    /\ \E ok \in Outcomes("unmap") :
          /\ Charge(ok)
          /\ IF ok /\ CanUnmap
                THEN rbd' = [rbd EXCEPT !.mapped = FALSE] /\ Succeed(t, "snapshot")
                ELSE Fail(t) /\ UNCHANGED rbd
    /\ UNCHANGED <<mntDir, dbRow, undo>> /\ UNCHANGED Keep

\* cephRBDSnapshotCreate "readonly", deferred snapshot delete (2200-2229).
ImageSnapshotCreate(t) ==
    /\ CreateStep(t, "snapshot")
    /\ \E ok \in Outcomes("snapshot") :
          /\ Charge(ok)
          /\ IF ok /\ rbd.snap = "none"
                THEN /\ rbd' = [rbd EXCEPT !.snap = "unprotected",
                                           !.snapFilled = rbd.filled]
                     /\ Push(t, "snapDelete")
                     /\ Succeed(t, "protect")
                ELSE Fail(t) /\ UNCHANGED rbd
    /\ UNCHANGED <<mntDir, dbRow>> /\ UNCHANGED Keep

\* cephRBDSnapshotProtect, deferred unprotect (2231-2261).
ImageSnapshotProtect(t) ==
    /\ CreateStep(t, "protect")
    /\ \E ok \in Outcomes("protect") :
          /\ Charge(ok)
          /\ IF ok THEN /\ rbd' = [rbd EXCEPT !.snap = "protected"]
                        /\ Push(t, "unprotect")
                        /\ Succeed(t, "dbrow")
                   ELSE Fail(t) /\ UNCHANGED rbd
    /\ UNCHANGED <<mntDir, dbRow>> /\ UNCHANGED Keep
\* Mutant: success does not reset the revert stack.
ImageDbPoolVolumeKeepReverts(t) ==
    /\ CreateStep(t, "dbrow")
    /\ \E ok \in Outcomes("dbrow") :
          /\ Charge(ok)
          /\ IF ok /\ ~dbRow
                THEN dbRow' = TRUE /\ Succeed(t, "release") /\ UNCHANGED undo
                ELSE Fail(t) /\ UNCHANGED dbRow
    /\ UNCHANGED <<rbd, mntDir>> /\ UNCHANGED Keep


\* createImageDbPoolVolume (2295-2310): inserting an existing row fails.
\* Success disarms the reverts (revert = false).
ImageDbPoolVolume(t) ==
    /\ CreateStep(t, "dbrow")
    /\ \E ok \in Outcomes("dbrow") :
          /\ Charge(ok)
          /\ IF ok /\ ~dbRow
                THEN /\ dbRow' = TRUE
                     /\ undo' = [undo EXCEPT ![t] = <<>>]
                     /\ Succeed(t, "release")
                ELSE Fail(t) /\ UNCHANGED dbRow
    /\ UNCHANGED <<rbd, mntDir>> /\ UNCHANGED Keep

(***************************************************************************)
(* The deferred reverts of ImageCreate, run most recent first once it      *)
(* returns an error; a failing revert is only logged.                      *)
(***************************************************************************)
RevertedRbd(op) ==
    CASE op = "unprotect" /\ CanUnprotect -> [rbd EXCEPT !.snap = "unprotected"]
      [] op = "snapDelete" /\ rbd.snap = "unprotected" -> [rbd EXCEPT !.snap = "none"]
      [] op = "unmap" /\ CanUnmap -> [rbd EXCEPT !.mapped = FALSE]
      [] op = "delete" /\ rbd.vol = "image" /\ CanDeleteVolume ->
            [rbd EXCEPT !.vol = "none", !.filled = FALSE, !.snapFilled = FALSE]
      [] op = "markDeleted" /\ rbd.vol = "image" -> [rbd EXCEPT !.vol = "zombie"]
      [] OTHER -> rbd

ImageRevert(t) ==
    /\ CreateStep(t, "revert")
    /\ undo[t] # <<>>
    /\ undo' = [undo EXCEPT ![t] = Tail(@)]
    /\ \E ok \in Outcomes("revert") :
          /\ Charge(ok)
          /\ rbd' = IF ok THEN RevertedRbd(Head(undo[t])) ELSE rbd
          \* os.Remove of a mount point fails (EBUSY)
          /\ mntDir' = IF ok /\ Head(undo[t]) = "rmdir" /\ ~rbd.mnt
                          THEN FALSE ELSE mntDir
    /\ UNCHANGED <<pc, imgerr, dbRow>> /\ UNCHANGED Keep

ImageCreateReturns(t) ==
    /\ CreateStep(t, "revert")
    /\ undo[t] = <<>>
    /\ Goto(t, "release")
    /\ UNCHANGED <<imgerr, undo, rbd, mntDir, dbRow, faults>> /\ UNCHANGED Keep
\* Mutant: the channel is deleted but not closed.
CreateReleaseWithoutClose(t) ==
    /\ pc[t] = "release"
    /\ holder' = NoThread
    /\ Goto(t, IF imgerr[t] THEN "done" ELSE "clone")
    /\ result' = [result EXCEPT ![t] = IF imgerr[t] THEN "err" ELSE @]
    /\ UNCHANGED <<waitOn, imgerr, undo, rbd, mntDir, dbRow, cvol, cfilled, dpc,
                   deletes, faults>>


(***************************************************************************)
(* Second critical section (830-839): close and delete the channel, which *)
(* lets every waiter go on to the clone without looking at imgerr; the    *)
(* creator returns imgerr if it is set.                                    *)
(***************************************************************************)
Waiters(t) == {u \in Creators : pc[u] = "wait" /\ waitOn[u] = t}

CreateRelease(t) ==
    /\ pc[t] = "release"
    /\ holder' = NoThread
    /\ pc' = [u \in Creators |->
                IF u = t THEN IF imgerr[t] THEN "done" ELSE "clone"
                ELSE IF u \in Waiters(t) THEN "clone" ELSE pc[u]]
    /\ waitOn' = [u \in Creators |-> IF u \in Waiters(t) THEN NoThread ELSE waitOn[u]]
    /\ result' = [result EXCEPT ![t] = IF imgerr[t] THEN "err" ELSE @]
    /\ UNCHANGED <<imgerr, undo, rbd, mntDir, dbRow, cvol, cfilled, dpc,
                   deletes, faults>>

\* cephRBDCloneCreate of image_<fp>@readonly into container_<name> (842-851).
ContainerClone(t) ==
    /\ pc[t] = "clone"
    /\ \E ok \in Outcomes("clone") :
          /\ Charge(ok)
          /\ IF ok /\ CanClone
                THEN /\ cvol' = [cvol EXCEPT ![t] = "cloned"]
                     /\ cfilled' = [cfilled EXCEPT ![t] = rbd.snapFilled]
                     /\ Goto(t, "finish")
                     /\ UNCHANGED result
                ELSE /\ Goto(t, "done")
                     /\ result' = [result EXCEPT ![t] = "err"]
                     /\ UNCHANGED <<cvol, cfilled>>
    /\ UNCHANGED <<holder, waitOn, imgerr, undo, rbd, mntDir, dbRow, dpc, deletes>>

\* Map, mount point, ContainerMount, shift, chmod and the create template
\* (852-972); a failure runs the deferred unmap, rmdir and volume delete.
ContainerFinish(t) ==
    /\ pc[t] = "finish"
    /\ \E ok \in Outcomes("finish") :
          /\ Charge(ok)
          /\ cvol' = [cvol EXCEPT ![t] = IF ok THEN "ready" ELSE "none"]
          /\ cfilled' = [cfilled EXCEPT ![t] = ok /\ @]
          /\ result' = [result EXCEPT ![t] = IF ok THEN "ok" ELSE "err"]
    /\ Goto(t, "done")
    /\ UNCHANGED <<holder, waitOn, imgerr, undo, rbd, mntDir, dbRow, dpc, deletes>>

\* The rest of containerCreateFromImage (container.go 565-581).  After an
\* error c.Delete() finds no volume: every failing path above removed it.
\* After success containerConfigureInternal fails on the quota of a root
\* disk with a size (StorageEntitySetQuota always fails on Ceph) or on
\* the backup file, and c.Delete() then runs ContainerDelete; one failure
\* per call, so a failed backup is followed by a delete that succeeds.
CallerContinues(t) ==
    /\ pc[t] = "done"
    /\ Goto(t, "idle")
    /\ result' = [result EXCEPT ![t] = "none"]
    /\ \/ UNCHANGED <<cvol, cfilled, faults>>
       \/ /\ result[t] = "ok"
          /\ \E cfg \in {"quota"} \cup (IF Outcomes("backup") = BOOLEAN
                                        THEN {"backup"} ELSE {}) :
             \E ok \in IF cfg = "backup" THEN {TRUE} ELSE Outcomes("cdelete") :
                /\ faults' = faults + (IF cfg = "backup" \/ ~ok THEN 1 ELSE 0)
                /\ cvol' = [cvol EXCEPT ![t] = IF ok THEN "none" ELSE @]
                /\ cfilled' = [cfilled EXCEPT ![t] = ~ok /\ @]
    /\ UNCHANGED <<holder, waitOn, imgerr, undo, rbd, mntDir, dbRow, dpc, deletes>>

\* ContainerDelete (979-1017): umount, cephContainerDelete, mount point.
ContainerDelete(t) ==
    /\ pc[t] = "idle"
    /\ cvol[t] = "ready"
    /\ \E ok \in Outcomes("cdelete") :
          /\ Charge(ok)
          /\ cvol' = [cvol EXCEPT ![t] = IF ok THEN "none" ELSE @]
          /\ cfilled' = [cfilled EXCEPT ![t] = ~ok /\ @]
    /\ UNCHANGED <<pc, holder, waitOn, imgerr, undo, result, rbd, mntDir, dbRow,
                   dpc, deletes>>

(***************************************************************************)
(* ImageDelete (2313-2441).  It takes no entry of the ongoing-operation   *)
(* map.  Every failing helper call makes it return.                        *)
(***************************************************************************)
DKeep == <<pc, holder, waitOn, imgerr, undo, result, cvol, cfilled>>
CreatesInFlight == \E t \in Creators : pc[t] \notin {"idle", "done"}

\* "try to umount but don't fail" (2317-2318).
DeleteBegin(d) ==
    /\ dpc[d] = "idle"
    /\ deletes < MaxDeletes
    /\ DeleteRacesCreate \/ ~CreatesInFlight
    /\ deletes' = deletes + 1
    /\ \E ok \in IF rbd.mnt THEN Outcomes("umount") ELSE {TRUE} :
          /\ Charge(ok)
          /\ rbd' = [rbd EXCEPT !.mnt = @ /\ ~ok]
    /\ dpc' = [dpc EXCEPT ![d] = "list"]
    /\ UNCHANGED <<mntDir, dbRow>> /\ UNCHANGED DKeep

\* One helper call of ImageDelete: on success the volume becomes new and
\* ImageDelete goes on at to; otherwise it returns the error.
DeleteCall(d, from, site, can, new, to) ==
    /\ dpc[d] = from
    /\ \E ok \in Outcomes(site) :
          /\ Charge(ok)
          /\ IF ok /\ can THEN rbd' = new /\ dpc' = [dpc EXCEPT ![d] = to]
                          ELSE UNCHANGED rbd /\ dpc' = [dpc EXCEPT ![d] = "idle"]
    /\ UNCHANGED <<mntDir, dbRow, deletes>> /\ UNCHANGED DKeep

\* cephRBDSnapshotListClones (2321-2334): no clones is NoSuchObjectError;
\* listing the children of a missing volume or snapshot is another error.
DeleteListClones(d) ==
    DeleteCall(d, "list", "list", rbd.vol = "image" /\ rbd.snap # "none", rbd,
               IF Clones = {} THEN "unprotect" ELSE "zunmap")

DeleteUnprotect(d) ==      \* 2335-2348
    DeleteCall(d, "unprotect", "dunprotect", CanUnprotect,
               [rbd EXCEPT !.snap = "unprotected"], "purge")

DeletePurge(d) ==          \* cephRBDSnapshotsPurge, 2349-2361
    DeleteCall(d, "purge", "purge", CanPurge, [rbd EXCEPT !.snap = "none"], "unmap")

DeleteUnmap(d) ==          \* 2362-2374
    DeleteCall(d, "unmap", "dunmap", CanUnmap, [rbd EXCEPT !.mapped = FALSE], "delete")

DeleteVolume(d) ==         \* 2375-2386
    DeleteCall(d, "delete", "ddelete", rbd.vol = "image" /\ CanDeleteVolume,
               [rbd EXCEPT !.vol = "none", !.filled = FALSE, !.snapFilled = FALSE],
               "db")

DeleteZombieUnmap(d) ==    \* 2387-2398
    DeleteCall(d, "zunmap", "dunmap", CanUnmap, [rbd EXCEPT !.mapped = FALSE], "mark")

DeleteMarkDeleted(d) ==    \* cephRBDVolumeMarkDeleted, 2399-2411
    DeleteCall(d, "mark", "mark", rbd.vol = "image", [rbd EXCEPT !.vol = "zombie"], "db")

\* deleteImageDbPoolVolume (2413-2421): deleting a missing row fails.
DeleteDbPoolVolume(d) ==
    /\ dpc[d] = "db"
    /\ \E ok \in Outcomes("ddb") :
          /\ Charge(ok)
          /\ dbRow' = (dbRow /\ ~ok)
          /\ dpc' = [dpc EXCEPT ![d] = IF ok /\ dbRow THEN "rmdir" ELSE "idle"]
    /\ UNCHANGED <<rbd, mntDir, deletes>> /\ UNCHANGED DKeep

\* Removal of the image mount point if it exists (2423-2436).
DeleteMountpoint(d) ==
    /\ dpc[d] = "rmdir"
    /\ \E ok \in IF mntDir THEN Outcomes("drmdir") ELSE {TRUE} :
          /\ Charge(ok)
          /\ mntDir' = (mntDir /\ ~(ok /\ ~rbd.mnt))
    /\ dpc' = [dpc EXCEPT ![d] = "idle"]
    /\ UNCHANGED <<rbd, dbRow, deletes>> /\ UNCHANGED DKeep

(***************************************************************************)
(* The specification.                                                     *)
(***************************************************************************)
CreateProgress(t) ==
    \/ ImageExists(t) \/ ImageMkdir(t) \/ ImageUnmarkDeleted(t)
    \/ ImageVolumeCreate(t) \/ ImageVolumeMap(t) \/ ImageMkfs(t)
    \/ ImageMount(t) \/ ImageUnpack(t) \/ ImageUmountStep(t)
    \/ ImageVolumeUnmap(t) \/ ImageSnapshotCreate(t) \/ ImageSnapshotProtect(t)
    \/ ImageDbPoolVolume(t) \/ ImageRevert(t) \/ ImageCreateReturns(t)
    \/ CreateRelease(t) \/ ContainerClone(t) \/ ContainerFinish(t)

DeleteProgress(d) ==
    \/ DeleteListClones(d) \/ DeleteUnprotect(d) \/ DeletePurge(d)
    \/ DeleteUnmap(d) \/ DeleteVolume(d) \/ DeleteZombieUnmap(d)
    \/ DeleteMarkDeleted(d) \/ DeleteDbPoolVolume(d) \/ DeleteMountpoint(d)

Next ==
    \/ \E t \in Creators :
          CreateBegin(t) \/ CreateProgress(t) \/ CallerContinues(t) \/ ContainerDelete(t)
    \/ \E d \in Deleters : DeleteBegin(d) \/ DeleteProgress(d)

\* Goroutines are scheduled and helpers return; the callers decide when to
\* create, delete and go on.
Fairness ==
    /\ \A t \in Creators : WF_vars(CreateProgress(t))
    /\ \A d \in Deleters : WF_vars(DeleteProgress(d))

Spec == Init /\ [][Next]_vars /\ Fairness

(***************************************************************************)
(* Properties.                                                            *)
(***************************************************************************)

\* Every variable holds a value of its type; the revert stack of
\* ImageCreate never holds more than its five deferred inverses.
TypeOK ==
    /\ pc \in [Creators -> CreatePCs]
    /\ holder \in Creators \cup {NoThread}
    /\ waitOn \in [Creators -> Creators \cup {NoThread}]
    /\ imgerr \in [Creators -> BOOLEAN]
    /\ undo \in [Creators -> SeqOf(RevertOps, 5)]
    /\ result \in [Creators -> {"none", "ok", "err"}]
    /\ rbd \in [vol : Vol, snap : SnapState, mapped : BOOLEAN, mnt : BOOLEAN,
                filled : BOOLEAN, snapFilled : BOOLEAN]
    /\ mntDir \in BOOLEAN /\ dbRow \in BOOLEAN
    /\ cvol \in [Creators -> {"none", "cloned", "ready"}]
    /\ cfilled \in [Creators -> BOOLEAN]
    /\ dpc \in [Deleters -> DeletePCs]
    /\ deletes \in 0..MaxDeletes /\ faults \in 0..MaxFaults

\* No ImageCreate or ImageDelete is between its first and last statement.
Quiescent ==
    /\ \A t \in Creators : pc[t] \notin InImageCreate
    /\ \A d \in Deleters : dpc[d] = "idle"

\* Whenever no ImageCreate or ImageDelete is running, the cache is in one of
\* the states the code means it to be in: a usable image (unmapped, with its
\* content in a protected readonly snapshot, its mount point and its DB
\* row), a zombie without DB row or mount point, or nothing.  ImageCreate's
\* revert stack must undo exactly the steps that succeeded for this to hold
\* after a failure.
ImageCacheConsistent ==
    Quiescent =>
        /\ rbd.vol = "image" =>
              /\ rbd.snap = "protected" /\ rbd.snapFilled
              /\ ~rbd.mapped /\ ~rbd.mnt /\ dbRow /\ mntDir
        /\ rbd.vol # "image" => ~dbRow /\ ~mntDir /\ ~rbd.mapped
        /\ rbd.vol = "none" => rbd.snap = "none"

\* Every container volume cloned from the image holds the image content
\* (spec section 8, scenario 5): ContainerCreateFromImage never clones a
\* snapshot taken before a successful unpack.
ContainersHoldImageContent ==
    \A c \in Creators : cvol[c] # "none" => cfilled[c]

\* ContainerCreateFromImage fails only when some helper call failed: the
\* create/image entry and the existence check make every concurrent create,
\* the waiting ones included, find a usable image.
CreateFailsOnlyOnHelperFailure ==
    \A t \in Creators : result[t] = "err" => faults > 0

\* Every ContainerCreateFromImage and ImageDelete returns; no waiter is left
\* on a channel nobody closes.
CallsReturn ==
    /\ \A t \in Creators : pc[t] \notin {"idle", "done"} ~> pc[t] = "done"
    /\ \A d \in Deleters : dpc[d] # "idle" ~> dpc[d] = "idle"

(***************************************************************************)
(* Refinement of ImageCacheAbstract.  The image is present when its       *)
(* volume has a protected readonly snapshot with the image content, which *)
(* is what cephRBDCloneCreate clones (a waiter released by a failed       *)
(* create may clone the next create's snapshot before its DB row is       *)
(* inserted).  It is a zombie while the volume is marked deleted.  The    *)
(* users are the containers whose volume is a clone.                      *)
(***************************************************************************)
AbsImg ==
    IF rbd.vol = "zombie" THEN "zombie"
    ELSE IF rbd.vol = "image" /\ rbd.snap = "protected" /\ rbd.snapFilled
         THEN "present" ELSE "absent"

Abstract == INSTANCE ImageCacheAbstract WITH img <- AbsImg, users <- Clones

\* ContainerCreateFromImage, ImageCreate and ImageDelete together behave as
\* the abstract cache: containers are only cloned from a published image
\* holding the content, an image with clones is never removed (a delete
\* or a failed resurrection leaves a zombie), and a zombie only comes back
\* through a create.
ImageCacheRefinesAbstract == Abstract!Spec

=============================================================================
