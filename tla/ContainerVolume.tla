--------------------------- MODULE ContainerVolume ---------------------------
(***************************************************************************)
(* The on-disk layout of one container on a Ceph pool (storage_ceph.go,   *)
(* storage.go): its RBD volume and RBD snapshots, the krbd mappings, the   *)
(* mount, the mount point storage-pools/<pool>/containers/<name>, the      *)
(* stable symlink {VAR}/containers/<name>, the snapshot directory          *)
(* storage-pools/<pool>/snapshots/<name> with one mount point per          *)
(* snapshot, and the stable symlink {VAR}/snapshots/<name>.                *)
(*                                                                         *)
(* The container's operations are serialised by its caller, so each       *)
(* storage handler is one atomic action.  A handler is a sequence of       *)
(* steps with deferred reverts; the failing step (or "none") is chosen     *)
(* among the FaultSites, and the handler's effect is computed step by      *)
(* step, followed by the reverts registered before the failing step, run   *)
(* last-in first-out as Go runs deferred functions.                        *)
(***************************************************************************)
EXTENDS Naturals, SequencesExt, FiniteSets

CONSTANTS
    Names,       \* names the container may have
    Snaps,       \* names its snapshots may have
    FaultSites,  \* steps that may fail (names used in the *Steps below)
    MaxFaults,
    SourceSnaps, \* the snapshots of a copy's source, as source.Snapshots() lists them
    SnapSizes    \* whether those snapshots' root disk devices may carry a size

ASSUME MaxFaults \in Nat /\ "none" \notin Names
ASSUME SourceSnaps \in Seq(Snaps) /\ IsInjective(SourceSnaps)
ASSUME SnapSizes \subseteq BOOLEAN /\ SnapSizes # {}

VARIABLES
    exists,  \* the container has a DB record
    name,    \* its name in the DB
    snaps,   \* its snapshots in the DB
    disk,    \* RBD and filesystem state, see Disk
    faults,
    quotaLeft \* history: snapshots whose configure in containerCreateAsCopy
              \* returned at the quota error (container.go 842), before
              \* 'defer c.StorageStop()' was registered

vars == <<exists, name, snaps, disk, faults, quotaLeft>>

Disk == [vol: Names \cup {"none"},   \* RBD image container_<vol>
         rsnaps: SUBSET Snaps,        \* RBD snapshots snapshot_<s> of it
         mapped: [Names -> 0..1],     \* krbd devices of image <n>, at most one
         mounted: BOOLEAN,            \* volume mounted on its mount point
         mntDir: SUBSET Names,        \* storage-pools/p/containers/<n>
         ctLink: SUBSET Names,        \* {VAR}/containers/<n>
         sDir: SUBSET Names,          \* storage-pools/p/snapshots/<n>
         sMnt: SUBSET (Names \X Snaps), \* storage-pools/p/snapshots/<n>/<s>
         sLink: SUBSET Names,         \* {VAR}/snapshots/<n>
         prot: SUBSET Snaps,          \* protected RBD snapshots
         clones: SUBSET Snaps,        \* start clones <name>_<s>_start_clone
         cloneMapped: SUBSET Snaps,   \* krbd devices of the start clones
         sMounted: SUBSET Snaps,      \* snapshot mount points mounted
         stale: BOOLEAN]              \* image rolled back under its mount

Empty == [vol |-> "none", rsnaps |-> {}, mapped |-> [n \in Names |-> 0],
          mounted |-> FALSE,
          mntDir |-> {}, ctLink |-> {}, sDir |-> {}, sMnt |-> {}, sLink |-> {},
          prot |-> {}, clones |-> {}, cloneMapped |-> {}, sMounted |-> {},
          stale |-> FALSE]

(***************************************************************************)
(* Steps and faults.  Ran(steps, f, k): step k ran and succeeded when the *)
(* handler fails at f ("none": it does not fail).                         *)
(***************************************************************************)
Ran(steps, f, k) ==
    f = "none" \/ \E i, j \in DOMAIN steps : steps[i] = k /\ steps[j] = f /\ i < j

\* The injected failure: "none" or one of the steps S that run, once the
\* failure f of an earlier handler in the same action is counted (the
\* quota error of containerConfigureInternal counts as one, uncharged).
FailChoiceAfter(S, f) ==
    {"none"} \cup (IF faults + (IF f = "none" THEN 0 ELSE 1) < MaxFaults
                   THEN S \cap FaultSites ELSE {})
FailChoice(S) == FailChoiceAfter(S, "none")

Charge(F) == faults' = faults + Cardinality(F \ {"none"})

\* Renaming entries of a set of names / of (name, snapshot) pairs.
Mv(S, a, b) == IF a \in S THEN (S \ {a}) \cup {b} ELSE S
MvPairs(P, a, b) == {<<IF p[1] = a THEN b ELSE p[1], p[2]>> : p \in P}

(***************************************************************************)
(* storage.go mount point helpers.                                        *)
(***************************************************************************)

\* createContainerMountpoint: mkdir if missing, symlink if missing.
CreateContainerMountpoint(d, n) ==
    [d EXCEPT !.mntDir = @ \cup {n}, !.ctLink = @ \cup {n}]

\* Mutant: the symlink is left behind.
DeleteContainerMountpointKeepLink(d, n) == [d EXCEPT !.mntDir = @ \ {n}]

\* deleteContainerMountpoint: remove the symlink, then the mount point.
DeleteContainerMountpoint(d, n) ==
    [d EXCEPT !.ctLink = @ \ {n}, !.mntDir = @ \ {n}]

\* renameContainerMountpoint: rename the mount point if it exists, remove
\* the old symlink if it exists, create the new symlink (an existing one
\* makes os.Symlink fail, which the reverts ignore).
RenameContainerMountpoint(d, a, b) ==
    [d EXCEPT !.mntDir = Mv(@, a, b), !.ctLink = (@ \ {a}) \cup {b}]

\* createSnapshotMountpoint: MkdirAll of the snapshot mount point (and so
\* of the container's snapshot directory), the symlink if missing.
CreateSnapshotMountpoint(d, n, s) ==
    [d EXCEPT !.sDir = @ \cup {n}, !.sMnt = @ \cup {<<n, s>>},
              !.sLink = @ \cup {n}]

\* The snapshot directory of n exists and holds no snapshot mount point.
SnapDirEmpty(d, n) == n \in d.sDir /\ \A p \in d.sMnt : p[1] # n

\* deleteSnapshotMountpoint: remove the snapshot mount point if it exists;
\* os.Remove of the snapshot directory succeeds only once it is empty, and
\* only then is the {VAR}/snapshots symlink removed.  Errors of the
\* directory removal are ignored.
DeleteSnapshotMountpoint(d, n, s) ==
    LET d1 == [d EXCEPT !.sMnt = @ \ {<<n, s>>}]
    IN IF SnapDirEmpty(d1, n) THEN [d1 EXCEPT !.sDir = @ \ {n}, !.sLink = @ \ {n}]
       ELSE d1

Init ==
    /\ exists = FALSE
    /\ name \in Names
    /\ snaps = {}
    /\ disk = Empty
    /\ faults = 0
    /\ quotaLeft = {}

(***************************************************************************)
(* Storage handlers as functions of the disk state and the failing step.  *)
(***************************************************************************)

\* Mapping adds a krbd device for the image (mapped[n] + 1 below);
\* cephRBDVolumeUnmap with unmapUntilEINVAL, as every caller here passes,
\* removes all of them (mapped[n] = 0).
MapDev(d, n) == [d EXCEPT !.mapped[n] = @ + 1]

\* ContainerUmount: unmount if the mount point is mounted.
Umounted(d) == [d EXCEPT !.mounted = FALSE]

\* Mutant: the image is mapped again although a device exists.
ContainerMountFxMapAlways(d, n, f) ==
    LET canMap == d.mapped[n] > 0 \/ d.vol = n
        d1 == IF d.vol = n THEN MapDev(d, n) ELSE d
    IN IF f = "none" /\ canMap /\ n \in d.mntDir
       THEN [d1 EXCEPT !.mounted = TRUE] ELSE d1

\* ContainerMount of an unmounted volume: getRBDMappedDevPath maps the
\* image under the container's name unless a device exists (this fails
\* when no image has that name), then tryMount on the mount point.
ContainerMountFx(d, n, f) ==
    LET canMap == d.mapped[n] > 0 \/ d.vol = n
        d1 == IF d.mapped[n] = 0 /\ canMap THEN MapDev(d, n) ELSE d
    IN IF f = "none" /\ canMap /\ n \in d.mntDir
       THEN [d1 EXCEPT !.mounted = TRUE] ELSE d1

\* ContainerDelete (storage_ceph.go 979-1017): ContainerUmount, then
\* cephContainerDelete (which unmaps the image and removes it with its
\* snapshots; a missing image is nothing to delete), then
\* deleteContainerMountpoint.  Any error returns at once.
DeleteSteps == <<"umount", "delete">>
DeleteRuns(d) == IF d.mounted THEN {"umount", "delete"} ELSE {"delete"}
ContainerDeleteFx(d, n, f) ==
    LET d1 == IF Ran(DeleteSteps, f, "umount") THEN Umounted(d) ELSE d
        d2 == IF Ran(DeleteSteps, f, "delete")
              THEN [d1 EXCEPT !.vol = IF @ = n THEN "none" ELSE @,
                              !.rsnaps = IF d1.vol = n THEN {} ELSE @,
                              !.mapped[n] = 0]
              ELSE d1
    IN IF f = "none" THEN DeleteContainerMountpoint(d2, n) ELSE d2

\* ContainerCreate (storage_ceph.go 662-799): create the image (deferred
\* delete), map it (deferred unmap), mkfs, createContainerMountpoint
\* (deferred os.Remove of the mount point only), TemplateApply.  A failure
\* of createContainerMountpoint after its MkdirAll leaves the directory.
CreateSteps == <<"create", "map", "mkfs", "mountpoint", "template">>
ContainerCreateFx(d, n, f) ==
    LET ok(k) == Ran(CreateSteps, f, k)
        rev(k) == f # "none" /\ ok(k)
        d1 == [d EXCEPT !.vol = IF ok("create") THEN n ELSE @]
        d2 == [d1 EXCEPT !.mapped[n] = IF ok("map") THEN @ + 1 ELSE @]
        d3 == [d2 EXCEPT !.mntDir = IF ok("mountpoint") \/ f = "mountpoint"
                                    THEN @ \cup {n} ELSE @,
                         !.ctLink = IF ok("mountpoint") THEN @ \cup {n} ELSE @]
        r1 == [d3 EXCEPT !.mntDir = IF rev("mountpoint") THEN @ \ {n} ELSE @]
        r2 == [r1 EXCEPT !.mapped[n] = IF rev("map") THEN 0 ELSE @]
    IN [r2 EXCEPT !.vol = IF rev("create") THEN "none" ELSE @]

\* ContainerSnapshotDelete (storage_ceph.go 1719-1803): delete the RBD
\* snapshot (cephContainerSnapshotDelete; a missing one is nothing to
\* delete), RemoveAll the snapshot's mount point if it exists, and if the
\* container's snapshot directory is then empty remove it and the
\* {VAR}/snapshots/<name> symlink if it exists.  Any error returns at once.
SnapDeleteSteps == <<"snapdelete", "rmsnapmnt", "rmsnapdir", "rmsnaplink">>
SnapDeleteRuns(d, n, s) ==
    LET e == SnapDirEmpty([d EXCEPT !.sMnt = @ \ {<<n, s>>}], n)
    IN {"snapdelete"} \cup (IF <<n, s>> \in d.sMnt THEN {"rmsnapmnt"} ELSE {})
         \cup (IF e THEN {"rmsnapdir"} ELSE {})
         \cup (IF e /\ n \in d.sLink THEN {"rmsnaplink"} ELSE {})
ContainerSnapshotDeleteFx(d, n, s, f) ==
    LET ok(k) == Ran(SnapDeleteSteps, f, k)
        d1 == IF ok("snapdelete") THEN [d EXCEPT !.rsnaps = @ \ {s}] ELSE d
        d2 == IF ok("rmsnapmnt") THEN [d1 EXCEPT !.sMnt = @ \ {<<n, s>>}] ELSE d1
        e  == SnapDirEmpty(d2, n)
        d3 == IF ok("rmsnapdir") /\ e THEN [d2 EXCEPT !.sDir = @ \ {n}] ELSE d2
    IN IF ok("rmsnaplink") /\ e THEN [d3 EXCEPT !.sLink = @ \ {n}] ELSE d3

\* ContainerSnapshotCreate (storage_ceph.go 1649-1717): create the RBD
\* snapshot (deferred delete), then createSnapshotMountpoint for the
\* snapshot's mount point and the {VAR}/snapshots/<name> symlink.  A
\* failure of the latter after its MkdirAll leaves the directories.
SnapCreateSteps == <<"snapcreate", "snapmkdir">>
ContainerSnapshotCreateFx(d, n, s, f) ==
    LET ok(k) == Ran(SnapCreateSteps, f, k)
        d1 == IF ok("snapcreate") THEN [d EXCEPT !.rsnaps = @ \cup {s}] ELSE d
        d2 == IF ok("snapmkdir") THEN CreateSnapshotMountpoint(d1, n, s)
              ELSE IF f = "snapmkdir"
                   THEN [d1 EXCEPT !.sDir = @ \cup {n}, !.sMnt = @ \cup {<<n, s>>}]
              ELSE d1
    IN IF f # "none" /\ ok("snapcreate") THEN [d2 EXCEPT !.rsnaps = @ \ {s}] ELSE d2

\* ContainerSnapshotRename (storage_ceph.go 1805-1861): rename the RBD
\* snapshot (deferred rename back), then os.Rename the snapshot's mount
\* point, which fails when it does not exist.
SnapRenameSteps == <<"snaprename", "snapmv">>
ContainerSnapshotRenameFx(d, n, s, t, f) ==
    LET ok(k) == Ran(SnapRenameSteps, f, k)
        d1 == IF ok("snaprename") THEN [d EXCEPT !.rsnaps = Mv(@, s, t)] ELSE d
        d2 == IF ok("snapmv")
              THEN [d1 EXCEPT !.sMnt = (@ \ {<<n, s>>}) \cup {<<n, t>>}] ELSE d1
    IN IF f # "none" /\ ok("snaprename") THEN [d2 EXCEPT !.rsnaps = Mv(@, t, s)] ELSE d2

\* ContainerRename (storage_ceph.go 1430-1595), old name a, new name b:
\* ContainerUmount; unmap a (deferred: map a); rename the image (deferred:
\* rename back); map b (deferred: unmap b); renameContainerMountpoint,
\* i.e. rename the mount point if it exists, remove the old symlink if it
\* exists, create the new one (deferred: the reverse rename); rename the
\* snapshot directory if it exists (deferred: rename it back); remove
\* {VAR}/snapshots/a if it exists (deferred: symlink it again,
\* unconditionally); then create {VAR}/snapshots/b only if that path
\* already exists, where os.Symlink always fails.
RenameSteps == <<"umount", "unmap", "rbdrename", "map", "mvdir", "rmlink",
                 "mklink", "snapdir", "unlink", "symlink">>
RenameRuns(d, a) ==
    {"unmap", "rbdrename", "map", "mklink"}
      \cup (IF d.mounted THEN {"umount"} ELSE {})
      \cup (IF a \in d.mntDir THEN {"mvdir"} ELSE {})
      \cup (IF a \in d.ctLink THEN {"rmlink"} ELSE {})
      \cup (IF a \in d.sDir THEN {"snapdir"} ELSE {})
      \cup (IF a \in d.sLink THEN {"unlink"} ELSE {})

\* The step the rename really fails at: the injected failure f, an
\* os.Symlink onto an existing path, or an os.Rename of the snapshot
\* directory onto an existing one, whichever comes first.
RenameFailsAt(d, a, b, f) ==
    LET Fails(k) == \/ k = f
                    \/ k = "mklink" /\ b \in d.ctLink
                    \/ k = "snapdir" /\ a \in d.sDir /\ b \in d.sDir
                    \/ k = "symlink" /\ b \in d.sLink
        i == SelectInSeq(RenameSteps, Fails)
    IN IF i = 0 THEN "none" ELSE RenameSteps[i]

ContainerRenameFx(d, a, b, f) ==
    LET ok(k) == Ran(RenameSteps, f, k)
        rev(k) == f # "none" /\ ok(k)
        d1 == [d EXCEPT !.mounted = IF ok("umount") THEN FALSE ELSE @]
        d2 == [d1 EXCEPT !.mapped[a] = IF ok("unmap") THEN 0 ELSE @]
        d3 == [d2 EXCEPT !.vol = IF ok("rbdrename") /\ @ = a THEN b ELSE @]
        d4 == [d3 EXCEPT !.mapped[b] = IF ok("map") THEN @ + 1 ELSE @]
        d5 == [d4 EXCEPT !.mntDir = IF ok("mvdir") THEN Mv(@, a, b) ELSE @]
        d6 == [d5 EXCEPT !.ctLink = IF ok("rmlink") THEN @ \ {a} ELSE @]
        d7 == [d6 EXCEPT !.ctLink = IF ok("mklink") THEN @ \cup {b} ELSE @]
        d8 == [d7 EXCEPT !.sDir = IF ok("snapdir") THEN Mv(@, a, b) ELSE @,
                         !.sMnt = IF ok("snapdir") THEN MvPairs(@, a, b) ELSE @]
        d9 == [d8 EXCEPT !.sLink = IF ok("unlink") THEN @ \ {a} ELSE @]
        \* the deferred reverts, last registered first; their errors are
        \* only logged (an os.Rename back of a directory that is not there
        \* does nothing)
        r1 == [d9 EXCEPT !.sLink = IF rev("unlink") THEN @ \cup {a} ELSE @]
        r2 == [r1 EXCEPT !.sDir = IF rev("snapdir") THEN Mv(@, b, a) ELSE @,
                         !.sMnt = IF rev("snapdir") THEN MvPairs(@, b, a) ELSE @]
        r3 == IF rev("mklink") THEN RenameContainerMountpoint(r2, b, a) ELSE r2
        r4 == [r3 EXCEPT !.mapped[b] = IF rev("map") THEN 0 ELSE @]
        r5 == [r4 EXCEPT !.vol = IF rev("rbdrename") /\ @ = b THEN a ELSE @]
    IN [r5 EXCEPT !.mapped[a] = IF rev("unmap") THEN @ + 1 ELSE @]

\* ContainerSnapshotStart (storage_ceph.go 1863-1980): protect the RBD
\* snapshot (deferred unprotect; already protected is success), clone it
\* to <name>_<s>_start_clone (deferred delete; fails if the clone exists),
\* map the clone (deferred unmap), mount it on the snapshot's mount point
\* (fails if the mount point does not exist).  Unprotecting fails while a
\* clone of the snapshot exists; revert errors are only logged.
SnapStartSteps == <<"protect", "clone", "clonemap", "snapmount">>
SnapStartFailsAt(d, n, s, f) ==
    LET Fails(k) == \/ k = f
                    \/ k = "protect" /\ s \notin d.rsnaps
                    \/ k = "clone" /\ s \in d.clones
                    \/ k = "snapmount" /\ <<n, s>> \notin d.sMnt
        i == SelectInSeq(SnapStartSteps, Fails)
    IN IF i = 0 THEN "none" ELSE SnapStartSteps[i]
ContainerSnapshotStartFx(d, n, s, f) ==
    LET ok(k) == Ran(SnapStartSteps, f, k)
        rev(k) == f # "none" /\ ok(k)
        d1 == [d EXCEPT !.prot = IF ok("protect") THEN @ \cup {s} ELSE @]
        d2 == [d1 EXCEPT !.clones = IF ok("clone") THEN @ \cup {s} ELSE @]
        d3 == [d2 EXCEPT !.cloneMapped = IF ok("clonemap") THEN @ \cup {s} ELSE @]
        d4 == [d3 EXCEPT !.sMounted = IF ok("snapmount") THEN @ \cup {s} ELSE @]
        r1 == [d4 EXCEPT !.cloneMapped = IF rev("clonemap") THEN @ \ {s} ELSE @]
        r2 == [r1 EXCEPT !.clones = IF rev("clone") THEN @ \ {s} ELSE @]
    IN [r2 EXCEPT !.prot = IF rev("protect") /\ (rev("clone") \/ s \notin d.clones)
                           THEN @ \ {s} ELSE @]

\* ContainerSnapshotStop (storage_ceph.go 1982-2025): tryUnmount of the
\* snapshot's mount point (fails if it is not mounted), unmap the clone,
\* delete the clone (fails if there is none); any error returns at once.
\* The snapshot stays protected.
SnapStopSteps == <<"snapumount", "cloneunmap", "clonedelete">>
SnapStopFailsAt(d, s, f) ==
    LET Fails(k) == \/ k = f
                    \/ k = "snapumount" /\ s \notin d.sMounted
                    \/ k = "clonedelete" /\ s \notin d.clones
        i == SelectInSeq(SnapStopSteps, Fails)
    IN IF i = 0 THEN "none" ELSE SnapStopSteps[i]
\* Mutant: the clone is unmapped but not deleted.
ContainerSnapshotStopFxKeepClone(d, s, f) ==
    LET ok(k) == Ran(SnapStopSteps, f, k)
        d1 == [d EXCEPT !.sMounted = IF ok("snapumount") THEN @ \ {s} ELSE @]
    IN [d1 EXCEPT !.cloneMapped = IF ok("cloneunmap") THEN @ \ {s} ELSE @]
ContainerSnapshotStopFx(d, s, f) ==
    LET ok(k) == Ran(SnapStopSteps, f, k)
        d1 == [d EXCEPT !.sMounted = IF ok("snapumount") THEN @ \ {s} ELSE @]
        d2 == [d1 EXCEPT !.cloneMapped = IF ok("cloneunmap") THEN @ \ {s} ELSE @]
    IN [d2 EXCEPT !.clones = IF ok("clonedelete") THEN @ \ {s} ELSE @]

\* ContainerRestore (storage_ceph.go 1597-1643) of the container from its
\* snapshot s: source.StorageStart() (ContainerSnapshotStart; its
\* StorageStop deferred), target.StorageStart() (ContainerMount; its
\* StorageStop deferred if it mounted), then cephRBDVolumeRestore, the
\* rollback of the image to the snapshot.  A rollback of an image whose
\* filesystem is mounted leaves the kernel's view of it stale.  The
\* deferred stops are taken to succeed.
RestoreSteps == <<"protect", "clone", "clonemap", "snapmount", "mount", "rollback">>
ContainerRestoreFx(d, n, s, f) ==
    LET g == SnapStartFailsAt(d, n, s,
                              IF f \in Range(SnapStartSteps) THEN f ELSE "none")
        d1 == ContainerSnapshotStartFx(d, n, s, g)
        ourTargetStart == ~d1.mounted
        d2 == IF d1.mounted THEN d1
              ELSE ContainerMountFx(d1, n, IF f = "mount" THEN f ELSE "none")
        \* ContainerMount returns an error when tryMount fails, but none
        \* when the image cannot be mapped
        targetErr == ~d2.mounted /\ (d1.mapped[n] > 0 \/ d1.vol = n)
        d3 == [d2 EXCEPT !.stale = IF f # "rollback" THEN @ \/ d2.mounted ELSE @]
        d4 == IF ourTargetStart /\ d3.mounted THEN Umounted(d3) ELSE d3
    IN IF g # "none" THEN d1
       ELSE ContainerSnapshotStopFx(IF targetErr THEN d2 ELSE d4, s, "none")

\* ContainerCopy (storage_ceph.go 1019-1324) as a sequence of steps, each
\* a kind and the position of the source snapshot it is about (0: none):
\* source.StorageStart(); without snapshots to copy, the whole copy by
\* copyWithoutSnapshotsSparse/Full; else the target's mount point, an
\* empty RBD volume, for each source snapshot in the order listed the
\* incremental copyWithSnapshots against the previous one and the
\* snapshot's mount point, the copy of the live volume against the last
\* snapshot, the map of the target volume, ContainerMount, TemplateApply.
ContainerCopySteps(only) ==
    <<<<"srcstart", 0>>>> \o
    IF only \/ SourceSnaps = <<>> THEN <<<<"copyvol", 0>>>>
    ELSE <<<<"mountpoint", 0>>, <<"create", 0>>>>
         \o FlattenSeq([i \in DOMAIN SourceSnaps |->
                          <<<<"snapcopy", i>>, <<"snapmkdir", i>>>>])
         \o <<<<"copy", 0>>, <<"map", 0>>, <<"mount", 0>>, <<"template", 0>>>>

\* Step e of the sequence st ran and succeeded when it fails at position
\* f (0: nothing fails); FailsAt: e is the step that fails.
RanAt(st, f, e) == \E k \in DOMAIN st : st[k] = e /\ (f = 0 \/ k < f)
FailsAt(st, f, e) == f # 0 /\ st[f] = e

\* copyWithoutSnapshotsSparse/Full are not part of this repository: after
\* the data transfer the target is mounted and the copy template applied
\* (spec 4.6); what is left is the volume, mapped, with its mount point.
\* A failure is taken to leave nothing of the target.
CopyWithoutSnapshotsFx(d, n) ==
    [CreateContainerMountpoint(d, n) EXCEPT !.vol = n, !.mapped[n] = 1]

\* The forward steps of the snapshot branch up to the copy of the live
\* volume.  createSnapshotMountpoint makes the {VAR}/snapshots symlink
\* only for the first snapshot; that one failing at os.Symlink leaves its
\* directories behind, a later one can only fail at MkdirAll.
CopySnapshotsFx(d, n, st, f) ==
    LET ok(k, i) == RanAt(st, f, <<k, i>>)
        copied == {SourceSnaps[i] : i \in {i \in DOMAIN SourceSnaps : ok("snapcopy", i)}}
        made == {SourceSnaps[i] : i \in {i \in DOMAIN SourceSnaps : ok("snapmkdir", i)}}
        half == IF FailsAt(st, f, <<"snapmkdir", 1>>) /\ n \notin d.sLink
                THEN {SourceSnaps[1]} ELSE {}
        d1 == IF ok("mountpoint", 0) THEN CreateContainerMountpoint(d, n)
              ELSE IF FailsAt(st, f, <<"mountpoint", 0>>)
                   THEN [d EXCEPT !.mntDir = @ \cup {n}] ELSE d
    IN [d1 EXCEPT !.vol = IF ok("create", 0) THEN n ELSE @,
                  !.rsnaps = @ \cup copied,
                  !.sMnt = @ \cup ({n} \X (made \cup half)),
                  !.sDir = IF made \cup half # {} THEN @ \cup {n} ELSE @,
                  !.sLink = IF made # {} THEN @ \cup {n} ELSE @]

\* cephRBDVolumeMap of the target, then ContainerMount, which finds the
\* device and mounts it.
CopyMapMountFx(d, n, st, f) ==
    IF RanAt(st, f, <<"map", 0>>)
    THEN ContainerMountFx(MapDev(d, n), n,
                          IF FailsAt(st, f, <<"mount", 0>>) THEN "mount" ELSE "none")
    ELSE d

\* The whole ContainerCopy.  The deferred functions run last-in first-out
\* on every return: ContainerUmount if this call mounted; on failure the
\* snapshot mount point and RBD snapshot deletes, newest first, where
\* deleteSnapshotMountpoint removes the snapshot directory only once it is
\* empty and the symlink only after that; the delete of the target volume,
\* which rbd refuses while a krbd device holds it; and the removal of the
\* target's mount point.  Revert errors are only logged.  rbd refuses to
\* remove a volume that has snapshots or a krbd device.
ContainerCopyFx(d, n, st, f) ==
    LET ok(k, i) == RanAt(st, f, <<k, i>>)
        rev(k, i) == f # 0 /\ ok(k, i)
        copied == {SourceSnaps[i] : i \in {i \in DOMAIN SourceSnaps : rev("snapcopy", i)}}
        made == {SourceSnaps[i] : i \in {i \in DOMAIN SourceSnaps : rev("snapmkdir", i)}}
        d1 == CopyMapMountFx(CopySnapshotsFx(d, n, st, f), n, st, f)
        r1 == IF ok("mount", 0) THEN Umounted(d1) ELSE d1
        r2 == [r1 EXCEPT !.rsnaps = @ \ copied]
        r3 == FoldSet(LAMBDA s, e : DeleteSnapshotMountpoint(e, n, s), r2, made)
        r4 == IF rev("create", 0) /\ r3.mapped[n] = 0 /\ r3.rsnaps = {}
              THEN [r3 EXCEPT !.vol = "none"] ELSE r3
        r5 == IF rev("mountpoint", 0) THEN DeleteContainerMountpoint(r4, n) ELSE r4
    IN IF RanAt(st, f, <<"copyvol", 0>>) THEN CopyWithoutSnapshotsFx(d, n)
       ELSE r5

\* c.Delete() of a copy's container that has snapshot records S: the
\* container's Delete is not part of this repository; as its snapshot
\* records go with it, it is taken to run ContainerSnapshotDelete for each
\* of them (without failing) before ContainerDelete.
RECURSIVE SnapshotsDeletedFx(_, _, _)
SnapshotsDeletedFx(d, n, S) ==
    IF S = {} THEN d
    ELSE LET s == CHOOSE x \in S : TRUE
         IN SnapshotsDeletedFx(ContainerSnapshotDeleteFx(d, n, s, "none"), n, S \ {s})

\* containerConfigureInternal (container.go 816-861) of container n whose
\* root disk device has a size or not: c.StorageStart() (ContainerMount),
\* then the quota, which on Ceph always fails (StorageEntitySetQuota,
\* storage_ceph.go 2490) and returns before 'defer c.StorageStop()' is
\* registered, then writeBackupFile; the deferred stop unmounts if this
\* call mounted.  The root device lookup is taken to succeed.
ConfigureFails(d, sized, f) == (f = "cfgmount" /\ ~d.mounted) \/ sized \/ f = "backup"
ContainerConfigureFx(d, n, sized, f) ==
    LET m == IF d.mounted THEN d
             ELSE ContainerMountFx(d, n, IF f = "cfgmount" THEN "mount" ELSE "none")
        ourStart == ~d.mounted /\ m.mounted
    IN IF f = "cfgmount" \/ sized \/ ~ourStart THEN m ELSE Umounted(m)

\* containerConfigureInternal of snapshot s: c.StorageStart() is
\* ContainerSnapshotStart, which always reports that it started; the
\* deferred StorageStop (ContainerSnapshotStop, whose errors are dropped)
\* runs only past the quota.
SnapCfgSteps == SnapStartSteps \o <<"backup">> \o SnapStopSteps
SnapConfigureFails(d, n, s, sized, f) ==
    SnapStartFailsAt(d, n, s, IF f \in Range(SnapStartSteps) THEN f ELSE "none") # "none"
    \/ sized \/ f = "backup"
SnapshotConfigureFx(d, n, s, sized, f) ==
    LET g == SnapStartFailsAt(d, n, s, IF f \in Range(SnapStartSteps) THEN f ELSE "none")
        st == ContainerSnapshotStartFx(d, n, s, g)
    IN IF g # "none" \/ sized THEN st
       ELSE ContainerSnapshotStopFx(st, s,
              SnapStopFailsAt(st, s, IF f \in Range(SnapStopSteps) THEN f ELSE "none"))

\* containerCreateAsCopy's loop configuring the copied snapshots in order,
\* from the i-th on, failing at position f of st; it stops at the first
\* failure.  The result: the disk and the position of the snapshot that
\* failed (0: none).
RECURSIVE ConfigureSnapsFx(_, _, _, _, _, _)
ConfigureSnapsFx(d, n, i, sized, st, f) ==
    IF i > Len(SourceSnaps) THEN <<d, 0>>
    ELSE LET s == SourceSnaps[i]
             fi == IF f # 0 /\ st[f][2] = i THEN st[f][1] ELSE "none"
             d1 == SnapshotConfigureFx(d, n, s, sized, fi)
         IN IF SnapConfigureFails(d, n, s, sized, fi) THEN <<d1, i>>
            ELSE ConfigureSnapsFx(d1, n, i + 1, sized, st, f)

(***************************************************************************)
(* Actions: the handlers with their callers' DB updates.                  *)
(***************************************************************************)

\* containerCreateAsEmpty (container.go 501-522) of a container whose
\* root disk device has a size or not: the storage is created after the
\* DB record, then containerConfigureInternal; on failure of either
\* c.Delete() runs ContainerDelete and drops the record.
CreateAsEmpty(n) ==
    /\ ~exists
    /\ \E sized \in BOOLEAN, f \in FailChoice(Range(CreateSteps) \cup {"cfgmount", "backup"}) :
         LET c == ContainerCreateFx(disk, n, IF f \in Range(CreateSteps) THEN f ELSE "none")
             k == ContainerConfigureFx(c, n, sized, f)
             d == IF f \in Range(CreateSteps) THEN c ELSE k
         IN IF f = "none" /\ ~sized
            THEN /\ exists' = TRUE /\ name' = n /\ snaps' = {}
                 /\ disk' = k /\ Charge({f})
            ELSE \E g \in FailChoiceAfter(DeleteRuns(d), IF sized THEN "quota" ELSE f) :
                    /\ disk' = ContainerDeleteFx(d, n, g)
                    /\ Charge({f, g})
                    /\ UNCHANGED <<exists, name, snaps>>

\* The container (after its snapshots) is deleted; the DB record goes
\* only when ContainerDelete succeeds.
Delete ==
    /\ exists /\ snaps = {}
    /\ \E f \in FailChoice(DeleteRuns(disk)) :
         /\ disk' = ContainerDeleteFx(disk, name, f)
         /\ exists' = (f # "none")
         /\ Charge({f})
    /\ UNCHANGED <<name, snaps>>

\* ContainerMount (storage_ceph.go 1325-1382) without the lock map
\* (see MountCoordination), of a container whose mount point is not
\* mounted.
Mount ==
    /\ exists /\ ~disk.mounted
    /\ \E f \in FailChoice({"mount"}) :
         /\ disk' = ContainerMountFx(disk, name, f)
         /\ Charge({f})
    /\ UNCHANGED <<exists, name, snaps>>

\* ContainerUmount (storage_ceph.go 1383-1428) of a stopped container.
Umount ==
    /\ exists /\ disk.mounted
    /\ \E f \in FailChoice({"umount"}) :
         /\ disk' = IF f = "none" THEN Umounted(disk) ELSE disk
         /\ Charge({f})
    /\ UNCHANGED <<exists, name, snaps>>

\* The container is renamed to b; the DB takes the new name when
\* ContainerRename succeeds.
Rename(b) ==
    /\ exists /\ b # name
    /\ \E f \in FailChoice(RenameRuns(disk, name)) :
         LET g == RenameFailsAt(disk, name, b, f) IN
         /\ disk' = ContainerRenameFx(disk, name, b, g)
         /\ name' = IF g = "none" THEN b ELSE name
         /\ Charge({f})
    /\ UNCHANGED <<exists, snaps>>

\* containerCreateAsSnapshot (container.go 683-711), stateless: the
\* snapshot's record, then ContainerSnapshotCreate; on failure c.Delete()
\* runs ContainerSnapshotDelete and drops the record.  Then
\* c.StorageStart() (ContainerSnapshotStart), whose failure returns with
\* the snapshot kept, writeBackupFile, whose failure runs c.Delete()
\* again, and the deferred c.StorageStop() (ContainerSnapshotStop).
SnapshotCreate(s) ==
    /\ exists /\ s \notin snaps
    /\ \E f \in FailChoice(Range(SnapCreateSteps \o SnapStartSteps \o SnapStopSteps)
                          \cup {"backup"}) :
         LET c == ContainerSnapshotCreateFx(disk, name, s,
                     IF f \in Range(SnapCreateSteps) THEN f ELSE "none")
             g == SnapStartFailsAt(c, name, s,
                     IF f \in Range(SnapStartSteps) THEN f ELSE "none")
             st == ContainerSnapshotStartFx(c, name, s, g)
             Stop(d) == ContainerSnapshotStopFx(d, s,
                          SnapStopFailsAt(d, s, IF f \in Range(SnapStopSteps) THEN f ELSE "none"))
         IN CASE f \in Range(SnapCreateSteps) ->
                   \E g2 \in FailChoiceAfter(SnapDeleteRuns(c, name, s), f) :
                      /\ disk' = ContainerSnapshotDeleteFx(c, name, s, g2)
                      /\ Charge({f, g2})
                      /\ UNCHANGED snaps
              [] f = "backup" ->
                   \E g2 \in FailChoiceAfter(SnapDeleteRuns(st, name, s), f) :
                      /\ disk' = Stop(ContainerSnapshotDeleteFx(st, name, s, g2))
                      /\ snaps' = IF g2 = "none" THEN snaps ELSE snaps \cup {s}
                      /\ Charge({f, g2})
              [] OTHER ->
                   /\ disk' = IF g # "none" THEN st ELSE Stop(st)
                   /\ snaps' = snaps \cup {s}
                   /\ Charge({f})
    /\ UNCHANGED <<exists, name>>

\* The container is restored from its snapshot s.
Restore(s) ==
    /\ exists /\ s \in snaps
    /\ \E f \in FailChoice(Range(RestoreSteps)) :
         /\ disk' = ContainerRestoreFx(disk, name, s, f)
         /\ Charge({f})
    /\ UNCHANGED <<exists, name, snaps>>

\* A snapshot is deleted; its record goes when the storage delete succeeds.
SnapshotDelete(s) ==
    /\ exists /\ s \in snaps
    /\ \E f \in FailChoice(SnapDeleteRuns(disk, name, s)) :
         /\ disk' = ContainerSnapshotDeleteFx(disk, name, s, f)
         /\ snaps' = IF f = "none" THEN snaps \ {s} ELSE snaps
         /\ Charge({f})
    /\ UNCHANGED <<exists, name>>

\* A snapshot is renamed from s to t.
SnapshotRename(s, t) ==
    /\ exists /\ s \in snaps /\ t \notin snaps
    /\ \E f \in FailChoice(Range(SnapRenameSteps)) :
         LET g == IF f = "none" /\ <<name, s>> \notin disk.sMnt THEN "snapmv" ELSE f IN
         /\ disk' = ContainerSnapshotRenameFx(disk, name, s, t, g)
         /\ snaps' = IF g = "none" THEN Mv(snaps, s, t) ELSE snaps
         /\ Charge({f})
    /\ UNCHANGED <<exists, name>>

\* containerCreateAsCopy (container.go 583-647) of the source into a new
\* container n: the container's record, then unless containerOnly one
\* snapshot record per source snapshot (containerCreateInternal; a failure
\* returns at once, keeping the records made so far), then ContainerCopy
\* and containerConfigureInternal of the container, on whose failure
\* c.Delete() (SnapshotsDeletedFx, then ContainerDelete) drops the
\* records; then
\* containerConfigureInternal of each snapshot, on whose failure
\* (*cs).Delete() runs ContainerSnapshotDelete and the copy returns an
\* error, keeping the container.
AsCopySteps(only) ==
    (IF only THEN <<>> ELSE [i \in DOMAIN SourceSnaps |-> <<"dbsnap", i>>])
    \o ContainerCopySteps(only) \o <<<<"cfgmount", 0>>, <<"backup", 0>>>>
    \o (IF only THEN <<>>
        ELSE FlattenSeq([i \in DOMAIN SourceSnaps |->
                           [j \in DOMAIN SnapCfgSteps |-> <<SnapCfgSteps[j], i>>]]))

\* The failing step: none (0) or the position of a step whose kind is a
\* fault site.
CopyFailChoice(st) ==
    {0} \cup (IF faults < MaxFaults
              THEN {k \in DOMAIN st : st[k][1] \in FaultSites} ELSE {})

CreateAsCopy(n, only) ==
    /\ ~exists
    /\ LET st == AsCopySteps(only) IN
       \E f \in CopyFailChoice(st), sized \in BOOLEAN, ssized \in SnapSizes :
         LET inCopy == f # 0 /\ st[f] \in Range(ContainerCopySteps(only))
             c == ContainerCopyFx(disk, n, st, IF inCopy THEN f ELSE 0)
             cf == IF f # 0 /\ st[f][2] = 0 THEN st[f][1] ELSE "none"
             k == ContainerConfigureFx(c, n, sized, cf)
             r == IF only THEN <<k, 0>> ELSE ConfigureSnapsFx(k, n, 1, ssized, st, f)
             fs == IF f = 0 THEN "none" ELSE st[f][1]
         IN CASE f # 0 /\ st[f][1] = "dbsnap" ->
                   /\ exists' = TRUE /\ name' = n /\ UNCHANGED disk
                   /\ snaps' = {SourceSnaps[j] : j \in 1..(st[f][2] - 1)}
                   /\ Charge({fs}) /\ UNCHANGED quotaLeft
              [] inCopy \/ ConfigureFails(c, sized, cf) ->
                   LET recs == IF only THEN {} ELSE Range(SourceSnaps)
                       d == SnapshotsDeletedFx(IF inCopy THEN c ELSE k, n, recs)
                   IN
                   \E g \in FailChoiceAfter(DeleteRuns(d), IF inCopy \/ ~sized THEN fs ELSE "quota") :
                      /\ disk' = ContainerDeleteFx(d, n, g)
                      /\ Charge({fs, g})
                      /\ UNCHANGED <<exists, name, snaps, quotaLeft>>
              [] r[2] # 0 ->
                   LET s == SourceSnaps[r[2]] IN
                   \E g \in FailChoiceAfter(SnapDeleteRuns(r[1], n, s), fs) :
                      /\ exists' = TRUE /\ name' = n
                      /\ disk' = ContainerSnapshotDeleteFx(r[1], n, s, g)
                      /\ snaps' = Range(SourceSnaps) \ (IF g = "none" THEN {s} ELSE {})
                      /\ quotaLeft' = quotaLeft \cup (IF ssized THEN {s} ELSE {})
                      /\ Charge({fs, g})
              [] OTHER ->
                   /\ exists' = TRUE /\ name' = n /\ disk' = r[1]
                   /\ snaps' = IF only THEN {} ELSE Range(SourceSnaps)
                   /\ Charge({fs}) /\ UNCHANGED quotaLeft

Next ==
    \/ \E n \in Names, only \in BOOLEAN : CreateAsCopy(n, only)
    \/ /\ \/ \E n \in Names : CreateAsEmpty(n) \/ Rename(n)
          \/ Delete \/ Mount \/ Umount
          \/ \E s \in Snaps : SnapshotCreate(s) \/ SnapshotDelete(s) \/ Restore(s)
          \/ \E s, t \in Snaps : SnapshotRename(s, t)
       /\ UNCHANGED quotaLeft

Spec == Init /\ [][Next]_vars

(***************************************************************************)
(* Properties.                                                            *)
(***************************************************************************)

TypeOK ==
    /\ exists \in BOOLEAN /\ name \in Names /\ snaps \subseteq Snaps
    /\ disk \in Disk /\ faults \in 0..MaxFaults /\ quotaLeft \subseteq Snaps

\* Between operations the disk agrees with the DB: the image carries the
\* container's name and its snapshots, it is mapped (if at all) and
\* mounted only under that name, and exactly that name has a mount point,
\* a {VAR}/containers symlink, and (with snapshots) a snapshot directory
\* holding one mount point per snapshot; a deleted container leaves
\* nothing behind.  Creates, renames and deletes that fail part way must
\* revert to this.
LayoutMatchesRecord ==
    IF exists
    THEN /\ disk.vol = name /\ disk.rsnaps = snaps
         /\ \A n \in Names \ {name} : disk.mapped[n] = 0
         /\ disk.mounted => disk.mapped[name] > 0
         /\ disk.mntDir = {name} /\ disk.ctLink = {name}
         /\ disk.sDir = IF snaps = {} THEN {} ELSE {name}
         /\ disk.sMnt = {name} \X snaps
    ELSE /\ disk.vol = "none" /\ \A n \in Names : disk.mapped[n] = 0
         /\ ~disk.mounted
         /\ disk.mntDir = {} /\ disk.ctLink = {}

\* Every start clone is torn down by the time the call that started it
\* (containerCreateAsSnapshot, containerCreateAsCopy's configure of each
\* copied snapshot, ContainerRestore) returns: no clone, no clone device
\* and no mounted snapshot mount point is left, except for a copied
\* snapshot whose configure returned at the quota error, which
\* containerConfigureInternal does before it defers c.StorageStop() and
\* which (*cs).Delete() does not undo.
NoStartCloneLeft ==
    \A S \in {disk.clones, disk.cloneMapped, disk.sMounted} : S \subseteq quotaLeft

\* ContainerRestore never rolls the image back while its filesystem is
\* mounted (spec 4.5: restore is atomic on Ceph).
RollbackNotUnderMount == ~disk.stale

\* A container with snapshots has its stable {VAR}/snapshots/<name>
\* symlink (spec: renaming A to B and back restores the stable symlink).
SnapshotSymlinkPresent ==
    exists /\ snaps # {} => disk.sLink = {name}

=============================================================================
