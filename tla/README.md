# TLA+ models of the apollo-controller storage subsystem

This directory holds TLA+ models of the storage layer of the apollo daemon
(`src/apollo/storage.go`, `src/apollo/storage_ceph.go`, and the storage calls in
`src/apollo/container.go`), plus the parts of the client and CLI that have
concurrency of their own.  Every module is written from the Go source; the
lines that each definition models are listed under `map` in `PROJECT.json`.

## 1. Inventory

### Components, their state and operations

| Component | Source | State it keeps | Operations that change state |
|---|---|---|---|
| Mount coordination | storage.go:22-61, storage_ceph.go:520-635, 1325-1428 | `apolloStorageOngoingOperationMap` (lock id -> channel) behind `apolloStorageMapLock`; the kernel mount table | `ContainerMount`, `ContainerUmount`, `StoragePoolVolumeMount`, `StoragePoolVolumeUmount` |
| Image cache | storage_ceph.go:801-973, 2036-2488 | RBD image volume `image_<fp>` or `zombie_image_<fp>`, its `readonly` snapshot and protection, clones of it, the image's pool-volume DB row, the `create/image/<pool>/<fp>` map entry | `ContainerCreateFromImage`, `ImageCreate`, `ImageDelete`, `ImageMount`, `ImageUmount` |
| Idmap shift pipeline | storage.go:423-559, 747-778 | `volatile.idmap.last` / `volatile.idmap.next` of a volume, the ownership of the files on it, the volume's users | `storagePoolVolumeAttachInit`, `ShiftIfNecessary` |
| Container volumes | storage_ceph.go:645-1017, 1019-1323, 1430-1647; storage.go:609-698 | RBD container volumes, mapped devices, mount points and the stable symlinks `{VAR}/containers/<name>` | `ContainerCreate`, `ContainerDelete`, `ContainerCopy`, `ContainerRename`, `ContainerRestore`, `createContainerMountpoint`, `deleteContainerMountpoint`, `renameContainerMountpoint` |
| Snapshots | storage_ceph.go:1649-2034; storage.go:700-745 | RBD snapshots `snapshot_<name>`, their protection, start clones `<c>_<s>_start_clone`, snapshot mount points and the `{VAR}/snapshots/<c>` symlink | `ContainerSnapshotCreate/Delete/Rename/Start/Stop/CreateEmpty` |
| Pool lifecycle | storage_ceph.go:23-335 | OSD pool, the `apollo` marker volume, pool config (`volatile.pool.pristine`, `volatile.initial_source`, `ceph.osd.pg_num`), pool mount point | `StorageCoreInit`, `StoragePoolInit`, `StoragePoolCreate`, `StoragePoolDelete`, custom volume create/delete (335-518) |
| Driver dispatch and helpers | storage.go:63-420, 561-607 | drivers cache (atomic value + mutex) | `storageCoreInit`, `storageInit`, `storageTypeToString`, `storageStringToType`, `filesystemDetect` |
| Container facade | container.go:501-881 | container DB rows, snapshots list | `containerCreateAsEmpty`, `containerCreateFromImage`, `containerCreateAsCopy`, `containerCreateAsSnapshot`, `containerCreateInternal`, `containerConfigureInternal` |
| Client library | src/client/*.go | `RemoteOperation` (target op, error, done and post channels, handlers); an exec session's websockets, goroutines and `DataDone` | `CopyImage`, `CreateContainerFromImage`, `CopyContainer`, `CopyContainerSnapshot`, `proxyMigration`, the try functions, `GetContainerLogfiles`, ... (HTTP) |
| CLI helpers | main_waitready.go, main_callhook.go, main_activateifneeded.go | none beyond a result channel | `cmdWaitReady`, `cmdCallHook`, `cmdActivateIfNeeded` |
| Other | containers_get.go, shared/api, shared/version, mercury, test/deps, storage.go:780-839 | none | HTTP handlers, data types, progress rendering |

### How they interact

* Every mount or unmount of a container or custom volume goes through the
  ongoing-operation map: a caller that finds its lock id waits on the channel and
  then returns `(false, nil)` ("benefit of the doubt"); the caller that inserted
  the entry checks `IsMountPoint`, maps and mounts, then closes and removes the
  channel.  Mount and unmount use different lock ids.
* `containerCreateFromImage` (container.go) calls `ContainerCreateFromImage`,
  which takes the `create/image` lock id the same way, calls `ImageCreate` only
  if the image volume does not exist, releases the entry, and then clones the
  image's `readonly` snapshot, maps, creates the mount point, mounts through the
  coordination map and shifts the rootfs.  `ImageDelete` takes no lock.
* `storagePoolVolumeAttachInit` reads the volume's last idmap, asks the DB which
  containers use the volume, mounts it through the coordination map, unshifts
  and shifts, and writes the new idmap back to the DB.
* Every mutating Ceph operation keeps a revert flag: each successful step
  registers a deferred inverse that runs unless the flag is cleared at the end.
* Backend effects go through helpers (`cephRBDVolumeCreate`, `cephRBDCloneCreate`,
  `cephRBDSnapshotProtect`, ...) that live outside `src/`; the models give them
  the semantics of the `rbd` tool (a clone needs a protected snapshot, a
  snapshot with clones cannot be unprotected) and let each of them fail.

### What is hard

* Interleavings of goroutines on the coordination map: two mounts of one
  volume, a waiter and a worker that fails, a later caller arriving after the
  entry is deleted.
* Check-then-act on shared state outside the map lock: `IsMountPoint` read and
  then mount; image existence checked and then the image cloned while
  `ImageDelete` runs without the lock; the users of a custom volume read and then
  the volume shifted ("I'm not sure if we want some locking here").
* Partial failure: every step of a Ceph operation may fail after earlier steps
  changed the backend; the revert stack must undo exactly those.
* Protocol sequences: rename A->B->A, snapshot start then stop then delete,
  image delete while clones exist then create again (zombie resurrection).

### What makes each component correct

* Mount coordination: never two mounts stacked on one mount point; a call that
  did the work and returned nil leaves the volume in the state it promised;
  the map holds only
  entries of calls in progress; every call returns.
* Image cache: one unpack per image however many containers are created from
  it concurrently (spec §8 scenario 5); an image with clones is never destroyed,
  only marked zombie; the DB row exists exactly when the image volume is usable.
* Idmap pipeline: after a successful attach `last == next`; a volume with
  several users is only shifted when all of them have the same idmap.
* Container volumes: rename A->B->A restores mount point and symlinks;
  create/delete returns the backend to its previous objects; revert undoes a
  failed create.
* Snapshots: create then delete returns the set of RBD objects; start/stop
  leave the snapshot as they found it.
* Pool lifecycle: the OSD pool is destroyed only when this host created it.

## 2. Plan

Modules, in the order they are built (most important behaviour first):

1. `MountCoordination` - the ongoing-operation map and the four mount/unmount
   functions, with the kernel mount table.  **Done**.
2. `ImageCache` - `ContainerCreateFromImage` with the `create/image` lock,
   `ImageCreate` (fresh or zombie resurrection, with its revert stack) and
   `ImageDelete` (destroy or mark zombie) over an RBD object model; several
   creating threads and one deleting thread.  Properties: one unpack per image
   generation, no destroyed image with live clones, DB row iff usable image.
   **Done**, with its abstract specification `ImageCacheAbstract`
   checked as a refinement property.
3. `IdmapAttach` - `storagePoolVolumeAttachInit` with concurrent attaches of a
   custom volume by containers with different idmaps, and shift failures.
   **Done**.
4. `ContainerVolume` - create / delete / rename of container volumes with the
   mount point and symlink helpers of storage.go; rename round trip; snapshot
   create / delete / rename.  **Done**.
5. Snapshot start / stop (the transient start clone and the protection it
   leaves) and restore, in `ContainerVolume`.  **Done**.  Copy with
   snapshots (`containerCreateAsCopy`, `ContainerCopy`) and
   `containerConfigureInternal` in `ContainerVolume`.  **Done**; the order
   of `prev` depends on `source.Snapshots()`, which is not in this
   repository.
6. `PoolLifecycle` - pool create / delete with the pristine flag and the
   marker volume, custom volume create / delete, over a cluster shared by
   several hosts, with `StoragePoolCreate` split into steps so creates on
   two hosts interleave.  **Done**.  The `pg_num` value is abstracted away.
7. `StorageHelpers` - pure operators: `filesystemDetect`,
   `storageTypeToString`/`storageStringToType` round trip,
   `containerGetParentAndSnapshotName`, checked against reference definitions.
   **Not done**: see Not modelled.
8. `RemoteOperation` - the client's copy and create calls, the retry loop of
   the try functions and the alias goroutine of `tryCopyImage`.  **Done**.
   The handler registration racing the loop is not modelled:
   `AddHandler` is not in this repository.
9. `ExecContainer` - the client's exec call: websocket connects, the
   interactive and batch goroutines and `DataDone`, checked in the client
   run after the remote call.  **Done**.

Composition: `ImageCache` models the `create/image` lock with the waiter
semantics of `MountCoordination`; `ContainerVolume`'s mount and unmount leave
the lock map out, since the container's operations there run one at a time
(`INSTANCE MountCoordination` is not used).

## 3. Modules and runs

### MountCoordination (MountCoordination.tla, MCMountCoordination.tla)

State: `pc`, `call` (operation and object of each thread), `ongoing` (the map,
with the channel identified by the thread that created it), `waitOn` (the
channel a waiter reads), `mounts` (mounts stacked on each mount point),
`loc` (`ourMount`, the error, `ret < 0`) and `res` (returned value).

Actions: `ContainerMountBegin`, `ContainerUmountBegin`, `CustomMountBegin`,
`CustomUmountBegin` (first critical section), `ContainerMountCheck`,
`CustomMountCheck`, `ContainerUmountCheck`, `CustomUmountCheck` (IsMountPoint and
device resolution), `TryMount`, `TryUnmount`, `Release` (second critical section:
close, delete, return), `WaiterReturn` (read of the closed channel) and the
environment step `CallerContinues`.

Assumption: a mount and an unmount of the same object are never in progress at
once (`Disciplined`), as spec §4.2 requires of callers.

Bounds: 3 threads (one worker and two waiters on one channel, or one thread on
each of several lock ids), one container and one custom volume, `MaxStack = 2`
(enough to show a stacked mount).  One pool: lock ids of different pools are
disjoint, so pools do not interact.  No symmetry reduction, because the run
checks a liveness property.

Fairness: weak fairness of every step of a started call and of the caller
continuing.  Goroutines are scheduled by the Go runtime; the model assumes the
mount syscalls and RBD helpers return (spec §5: they may block, but nothing in
the code waits on them with a timeout).

| Run | Expect | Shows |
|---|---|---|
| `mount_coordination` | pass | no stacked mounts; map entries belong to live calls; custom-volume mounts and all unmounts that did the work and returned nil leave the volume mounted/unmounted; every call returns |
| `container_mount_map_failure` | violation | `ContainerMount` returns `(false, nil)` when mapping the RBD device fails: the caller is told the volume is mounted by someone else |

### ImageCache (ImageCache.tla, MCImageCache.tla)

One image fingerprint on one pool.  State: `rbd` (the volume `image_<fp>` or
`zombie_image_<fp>`, its `readonly` snapshot and protection, whether it is
mapped and mounted, whether it holds the unpacked image and whether the
snapshot was taken of a filled volume), `mntDir` (the image mount point),
`dbRow` (the image's pool-volume row), `cvol`/`cfilled` (each container
volume and whether it holds the image content), `holder`/`waitOn` (the
`create/image` map entry and its waiters), and per goroutine `pc`, `imgerr`,
`undo` (the deferred reverts of ImageCreate, most recent first) and `result`.

Actions: `CreateBegin` (first critical section), `ImageExists`, one action per
helper call of ImageCreate (`ImageMkdir`, `ImageUnmarkDeleted`,
`ImageVolumeCreate`, `ImageVolumeMap`, `ImageMkfs`, `ImageMount`, `ImageUnpack`,
`ImageUmountStep`, `ImageVolumeUnmap`, `ImageSnapshotCreate`,
`ImageSnapshotProtect`, `ImageDbPoolVolume`), `ImageRevert` (one deferred
inverse), `ImageCreateReturns`, `CreateRelease` (second critical section, wakes
the waiters, who go straight to the clone), `ContainerClone`, `ContainerFinish`
(map, mount point, mount, shift and template as one step whose failure runs
their reverts), `CallerContinues` (the rest of `containerCreateFromImage`:
`containerConfigureInternal`, whose quota error on a root disk with a size or
failed backup file makes `c.Delete()` remove the new clone),
`ContainerDelete`, and for ImageDelete `DeleteBegin` (with its
ImageUmount) and one action per helper call.

The rbd helpers are outside this repository; they get the rules of the `rbd`
tool (a clone needs a protected snapshot; unprotect fails with clones or on an
unprotected snapshot; purge fails on a protected snapshot; delete fails with
snapshots or while mapped; unmap fails while mounted; listing the clones of a
missing snapshot is an error other than NoSuchObject).  A call site in
`FaultSites` may also fail on its own, at most `MaxFaults` times.

Bounds: three creating goroutines (one holder and two waiters), one deleter,
two ImageDelete calls (enough for destroy, zombie and a delete after a
resurrection), one helper failure (every single failure of the create path).
`DeleteRacesCreate = FALSE` in the passing run: ImageDelete is only started
while no create is in flight; the race is its own run.  Fairness: weak
fairness of every step of a started call.

| Run | Expect | Shows |
|---|---|---|
| `image_cache` | pass | with any one create-path helper failing, ImageCreate's reverts leave the cache usable, zombie or empty (`ImageCacheConsistent`); concurrent creates fail only on a helper failure; every call returns; the cache implements `ImageCacheAbstract` (`ImageCacheRefinesAbstract`) |
| `image_delete_races_create` | violation | ImageDelete's ImageUmount during the unpack makes the snapshot empty; containers are cloned without the image content |

Refinement.  `ImageCacheAbstract.tla` states what the cache promises its
users.  The image is `absent`, `present` or `zombie`, and `users` is the set
of containers cloned from it.  Its actions:

* `Publish`: a create, or a resurrection of a zombie;
* `Retire`: a delete, which leaves a zombie whenever clones remain;
* `Clone(t)`: only from a present image;
* `Drop(t)`: a clone is removed.

`ImageCache` instantiates it as `Abstract == INSTANCE ImageCacheAbstract WITH
img <- AbsImg, users <- Clones`, and the `image_cache` run checks
`ImageCacheRefinesAbstract == Abstract!Spec` as a property.  Under `AbsImg`,
the image is present when its volume has a protected readonly snapshot holding
the image content, and a zombie while the volume is marked deleted.  The DB row
is left out of the mapping on purpose.  A waiter released by a failed create
goes straight to `cephRBDCloneCreate`, so it can clone the next create's
snapshot before that create inserts its row (hazard at storage_ceph.go:842).
With two failures allowed, that path breaks `ImageCacheConsistent`.

With `"umount"` added to the fault sites, `ImageCacheConsistent` fails: the
ignored ImageUmount error after the unpack leaves the device busy, so the unmap
and every revert after it fail, and a mapped, mounted image volume without
snapshot stays behind that later creates take as cached (hazard at
storage_ceph.go:2185).  With `"purge"` added, `ImageCacheConsistent` fails too: a
purge failure after the unprotect leaves an image that no create can clone and
no ImageDelete can remove (hazard at storage_ceph.go:2351; no run is kept for
it).

### IdmapAttach (IdmapAttach.tla, MCIdmapAttach.tla)

State: `last` (`volatile.idmap.last` in the DB), `owner` (the idmap the files
on the volume are shifted to, `NoMap` for unshifted, or `"corrupt"`),
`mounted`, `ctMap` (each container's `IdmapSet()`), and per attach `pc`,
`lastRead`, `ourMount`, `res`.  Actions follow the function:
`AttachBegin` (read last and next), `AttachCheckUsers` (equality and
used-by check), `AttachMount`, `AttachUnshift`, `AttachShift`,
`AttachWriteLast`, `AttachUmount` (the deferred unmount); `ChangeIdmap` is the
environment changing a stopped container's idmap.  Shifting files that are not
unshifted, or unshifting by a map they are not shifted to, makes them
`"corrupt"`; a shift without the volume mounted walks only the mount point.

Bounds: two containers that both use the volume, two idmaps plus `NoMap`, up to
two failures.  `Sequential = TRUE` in the passing run (one attach at a time, as
when containers start one after another); the concurrent case is its own run.

| Run | Expect | Shows |
|---|---|---|
| `idmap_attach` | pass | over any sequence of one-at-a-time attaches with changing idmaps and used-by/mount failures, `volatile.idmap.last` names the files' real shift |
| `idmap_concurrent_attach` | violation | two containers with the same idmap started at once shift the volume twice |

With `"shift"` added to the fault sites, `IdmapRecordMatchesFiles` fails: a
failed shift after a successful unshift leaves `volatile.idmap.last` naming the
old map (hazard at storage.go:524; no run is kept for it).

### ContainerVolume (ContainerVolume.tla, MCContainerVolume.tla)

One container on a Ceph pool.  State: the DB side (`exists`, `name`,
`snaps`) and `disk`, a record of what is on the cluster and the host: `vol`
(the name of the RBD image `container_<name>`, or none), `rsnaps` (its RBD
snapshots), `mapped` (krbd devices per image name), `mounted`, `mntDir` and
`ctLink` (the names that have a mount point / a `{VAR}/containers` symlink),
`sDir`, `sMnt` and `sLink` (snapshot directories, snapshot mount points and
`{VAR}/snapshots` symlinks), `prot` (protected RBD snapshots), `clones`,
`cloneMapped` and `sMounted` (the start clones `<c>_<s>_start_clone` of
ContainerSnapshotStart, their devices and mounts), and `stale` (the image was
rolled back under a mounted filesystem).

The container's operations are serialised by their caller, so each storage
handler is one action.  Its effect is a function of the disk and of the step
that fails (`FailChoice` picks none or one step that runs, among the fault
sites): `ContainerCreateFx`, `ContainerDeleteFx`, `ContainerRenameFx`,
`ContainerSnapshotCreateFx`, `ContainerSnapshotDeleteFx`,
`ContainerSnapshotRenameFx`, `ContainerSnapshotStartFx`,
`ContainerSnapshotStopFx`, `ContainerMountFx` and `ContainerRestoreFx` apply the handler's steps in order up to the
failing one, then the deferred reverts registered so far, last first.  The
storage.go helpers (`CreateContainerMountpoint`, `DeleteContainerMountpoint`,
`RenameContainerMountpoint`, `CreateSnapshotMountpoint`) are operators on the
disk.  The actions add what the callers do: `CreateAsEmpty` and
`SnapshotCreate` run `c.Delete()` after a failed create, `SnapshotCreate`
then starts and stops the new snapshot's storage as containerCreateAsSnapshot
does (a failed `writeBackupFile` in between runs `c.Delete()` before the
deferred stop), `Restore` is ContainerRestore with its deferred stops, and the DB takes the
new name, the new snapshot or the deletion only when the handler succeeds.
`RenameFailsAt`, `SnapStartFailsAt` and `SnapStopFailsAt` add the failures
the environment forces: `os.Symlink` onto an existing path, `os.Rename` of the
snapshot directory onto an existing one, a clone that already exists, a mount
on a missing mount point, an unmount of what is not mounted.

`CreateAsCopy(n, only)` is containerCreateAsCopy: the snapshot records of
the source's snapshots (`SourceSnaps`, a sequence, in the order
`source.Snapshots()` lists them) unless `only`, then `ContainerCopyFx`, then
`ContainerConfigureFx` of the container, then `SnapshotConfigureFx` of each
snapshot record in turn (`ConfigureSnapsFx`).  `ContainerCopyFx` is
ContainerCopy: the source's StorageStart, then either the copy without
snapshots (`CopyWithoutSnapshotsFx`) or the mount point, the target image,
per snapshot a copied RBD snapshot with its snapshot mount point, the final
copy, the map and the mount, followed by its five deferred reverts, last
first; the map has no revert of its own.  Its steps are pairs `<<kind, i>>`
(`i` the snapshot index) and the failing step is a position, so `RanAt` and
`FailsAt` play the part `Ran` and `FailChoice` play for the other handlers.
A failed copy or configure of the container runs `ct.Delete()`; a failed
configure of a snapshot runs that snapshot's `Delete()` and keeps the
container.  `containerConfigureInternal` mounts the volume if it is not
mounted, returns on the quota error before `defer c.StorageStop()` is
registered (on Ceph `StorageEntitySetQuota` always fails, so a root disk with
a size is a failure; `sized` and `SnapSizes` choose it), and writes the backup
file.  `CreateAsEmpty` is containerCreateAsEmpty with that configure step.
The quota error counts toward the one failure per action: the `c.Delete()`
after it runs without faults.  `quotaLeft` is a history variable: the
snapshots whose configure in `CreateAsCopy` returned at the quota error
(container.go:842), whose start clone the code leaves behind.

Helpers outside this repository are taken as: `c.Delete()` deletes the
storage of each of the container's snapshots (`SnapshotsDeletedFx`) and then
the container's, since the model drops the snapshot records with the
container; `copyWithoutSnapshotsSparse/Full` (spec 4.6) create the target
image with its mount point and leave it mapped; `cephContainerDelete` unmaps and
removes the image with its snapshots, and finds nothing to do for a missing
image; `cephContainerSnapshotDelete` likewise for a missing snapshot.

Bounds: three names (so a rename can go A -> B -> A and to a third name), three
snapshot names (renames among them), a copy source with two snapshots
(`<<s1, s2>>`, so the loop's first and later iterations and their reverts
both run), source snapshots with and without a root disk size
(`MCSnapSizesAll`), one failure at any step the code reverts
or after which the caller cleans up.  One failure is enough for every revert
path; with two, a failing `c.Delete()` after a failing create leaves the
mount point, which the code does not claim to handle.

| Run | Expect | Shows |
|---|---|---|
| `container_volume` | pass | create (empty or as a copy with or without snapshots, with configure), delete, mount, unmount, renames and snapshot create/delete/rename, each with any one reverted failure, keep the image, devices, mount points and container symlinks in agreement with the DB (`LayoutMatchesRecord`); snapshot creates, copies and restores leave no start clone, clone device or snapshot mount behind except for a copied snapshot whose configure hit the quota error (`NoStartCloneLeft`); at most one krbd device per image (`TypeOK`) |
| `container_restore_under_mount` | violation | ContainerRestore calls `target.StorageStart()`, so `cephRBDVolumeRestore` rolls the image back while its filesystem is mounted (`RollbackNotUnderMount`) |
| `container_rename_snapshot_symlink` | violation | a rename of a container with snapshots removes `{VAR}/snapshots/<old>` and, by the inverted `PathExists` test at storage_ceph.go:1582, never creates `{VAR}/snapshots/<new>` |

With `"mklink"` added to the fault sites, `LayoutMatchesRecord` fails: when the
new `{VAR}/containers` symlink cannot be created, `renameContainerMountpoint`
has already renamed the mount point and removed the old symlink, and
`ContainerRename` reverts the image rename but not those (hazard at
storage_ceph.go:1526; no run is kept for it).  With `"cloneunmap"` or
`"clonedelete"`, `NoStartCloneLeft` fails: ContainerSnapshotStop has no
reverts, and after such a failure neither a stop nor a start can remove the
clone (hazard at storage_ceph.go:1999).  With `"dbsnap"` (the snapshot record
create at container.go:612) added, `LayoutMatchesRecord` fails: the records
made before it stay without storage.  With no fault at all, configuring a
copied snapshot whose root disk has a size starts the snapshot (its start
clone), returns at the quota error, and never stops it (hazard at
container.go:842); `NoStartCloneLeft` exempts exactly those clones, recorded
in `quotaLeft`, and so still catches a start that any other path leaves.

### PoolLifecycle (PoolLifecycle.tla, MCPoolLifecycle.tla)

State: the cluster's OSD pools (`osd`), the marker volumes
`apollo_<pool name>` in them (`markers`, pairs of OSD pool and pool name),
the custom RBD volumes (`rbd`), the krbd devices of each host (`mapped`), and
per pool record `<<host, pool name>>` its DB row and config (`pool`: whether
the row exists, `ceph.osd.pool_name`, `volatile.pool.pristine`), its mount
point (`mnt`), its custom volumes in the DB (`volDB`) and their mount points
(`volMnt`).  `External` names OSD pools that exist before APOLLO uses them.

Actions, with the failing step chosen among `FaultSites` and the deferred
reverts applied (each handler one action, except the create):

* `StoragePoolCreate` is split at its cluster calls so that creates on
  different hosts interleave; `creating[r]` is the handler's progress and
  locals (the step reached, `s.OSDPoolName`, whether the OSD pool was found
  missing, whether `cephOSDPoolDestroy` is registered, whether the marker
  was found).  `PoolCreateBegin(r, c)` is the sanity check (`Sane`; a
  config that fails it returns before any change), the choice of the OSD
  pool name (`OSDPoolFor`) and `cephOSDPoolExists`.  `PoolCreateOSD(r)` is
  `osd pool create` of a missing pool (registering the destroy) or the
  `pg_num` query of an existing one; another host may have created the pool
  since the test, and then the create fails or succeeds ("already exists"),
  or destroyed it, and then the query fails.  `PoolCreateMkdir(r)` is
  `MkdirAll` of the mount point and the marker test, `PoolCreateMarker(r)`
  sets `pristine` and creates the marker when it was missing (failing if it
  exists by now or the OSD pool is gone), and the API keeps the row.
  `PoolCreateRevert(r)` is the deferred reverts of a failing step.
  `creator` is a history variable: the record whose create last made each
  OSD pool, cleared only when that record's own delete destroys it, so a
  destroy by any other record's delete stays visible.
* `PoolDelete(r)` is `StoragePoolDelete`: `cephOSDPoolDestroy` when pristine,
  then `os.RemoveAll` of the mount point.  The API refuses a pool with volumes
  (spec, section on `poolDelete`).  A missing OSD pool is an error return with
  no change, so it is left out.
* `VolumeCreate(r, v)` and `VolumeDelete(r, v)` are `StoragePoolVolumeCreate`
  (RBD create, map, mkfs, mount point, with reverts) and
  `StoragePoolVolumeDelete` (unmap, RBD delete, DB delete whose error is only
  logged, mount point removal).  The DB entry is gone once the DB delete ran,
  also when the final `os.Remove` fails and leaves the mount point.  The environment makes the RBD create fail on
  an existing volume or a missing OSD pool, and the RBD delete on a missing
  volume.

Bounds: two hosts that both name their pool P, the OSD pools P and X (X
pre-exists), one custom volume name, and up to two failing steps.  This covers:

* a host attaching to an OSD pool another host created;
* both hosts attaching to X;
* a pool created on X and on P;
* a failed delete followed by a failed create.

The reverts are assumed to succeed, since their errors are only logged.

| Run | Expect | Shows |
|---|---|---|
| `pool_lifecycle` | pass | no OSD pool and no RBD volume is leaked by a failing create or delete (`NoLeakedOSDPool`, `NoLeakedVolume`); each host's pool mount point exists exactly for its pool record, its volume mount points only under it (a failed `os.Remove` at storage_ceph.go:504 may leave one after its DB entry is gone), and its krbd devices only for the record's volumes (`HostLayoutMatchesDB`) |
| `pool_external_destroyed` | violation | `StoragePoolCreate` with `source=X` on a pre-existing OSD pool stamps `volatile.pool.pristine=true`, since it only checks the marker volume; `StoragePoolDelete` then destroys X (`OnlyOwnerDestroysOSDPool`: no OSD pool is destroyed except by the delete of the record whose create made it) |

`pool_external_destroyed` uses one host and the pre-existing pool X.
`OnlyOwnerDestroysOSDPool` also fails on a race of two hosts without any
external pool, which no kept run checks and the project records with the
finding of that run: with
`External <- NoFaults` and `MaxFaults = 1`, TLC finds in eight states h1
creating and registering P while h2, which found P missing before, gets
success from `osd pool create` on the now existing pool, registers
`cephOSDPoolDestroy`, fails at `MkdirAll` and destroys h1's OSD pool.

By design, and as the spec allows, the host that created an OSD pool destroys
it on delete while other hosts still use it with `pristine=false`.  Their
records then point at a missing OSD pool, and their deletes fail at the first
check.  No property claims otherwise.

### RemoteOperation (RemoteOperation.tla, MCRemoteOperation.tla)

The client asks a target server to fetch an image or a container from a
source server.  State: the call made (`call`, `mode`) and what it returned
(`ret`); the operations the servers run (`ops`, each on the source or the
target, running, succeeded or failed) and the migration's other operation
(`peer`); the forwarding goroutine's place (`fwd`), its address count, index
and `success` local (`urls`, `i`, `success`); the `RemoteOperation` fields
`targetOp`, `err` (`ropErr`) and `chDone`; the alias goroutine (`post`) and
the aliases it created (`aliases`).

Actions:

* `CopyImage`, `CreateContainerFromImage`, `CopyContainer(m)` and
  `CopyContainerSnapshot(m)` are the whole synchronous calls.  Each request
  may fail, and the call then returns its error.  The last two share
  `CopyFlow` for the local, push, relay and pull modes.  The relay's
  `proxyMigration` either returns an error or starts the proxy.  The try
  functions (`TryCreateContainer`, `TryMigrateContainer`,
  `TryMigrateContainerSnapshot`, `TryCopyImage`) return an error when there
  is no address, and otherwise start the loop.
* `Attempt`, `WaitReturn` and `Finish` are the forwarding goroutine of the try
  functions: a request per address, a Wait, continue on error, break on
  success, then set `rop.err` and close `chDone`.  `SimpleWait` is the
  goroutine of the local and relay modes.
* `PostAliases` is `tryCopyImage`'s alias goroutine.  `CreateImageAlias`
  errors are ignored, so any subset of the aliases is created.
* `OpFinish(o)` is the server finishing an operation.

`Operation.Wait` is not in this repository.  `WaitErrors` lets it return the
operation's outcome once the operation has finished.  With `LostWait` it may
also return an error while the operation still runs, as a wait whose
connection drops does.

Bounds: one call per behaviour, with every call and mode; up to two addresses
(a retry after a failed first address, and a second attempt after a success
if the loop did not break); one alias.

Fairness: weak fairness of every goroutine step (Go runs every runnable
goroutine) and of the servers finishing their operations.  The call itself is
not fair.  Deadlock is not checked: once the call, its goroutines and the
servers' operations are done, nothing is left to happen.

| Run | Expect | Shows |
|---|---|---|
| `client_remote_copy` | pass | a `RemoteOperation` that reports success names an operation that succeeded (`ReportedOutcomeSound`); every returned `RemoteOperation` completes, with both goroutines done (`RemoteOpCompletes`); then an exec closes `DataDone` only after all output was received and its data sockets closed (`ExecDataDoneAfterOutput`), and always once the command ends, whatever the caller's Stdin does (`ExecDataDoneEventually`) |

What the model shows but no run states:

* The alias goroutine creates aliases only after `chDone` and only when
  `rop.err` is nil.  That is its guard at apollo_images.go:453-454, and
  `Finish` sets `rop.err` and closes `chDone` in one step, so no property
  states it on top of `ReportedOutcomeSound`.
* After a lost Wait, the loop retries on the next address while the first
  operation still runs.  `rop.err` can then be set although that operation
  later succeeds (hazard at apollo_containers.go:97).
* An error return leaves the operations created so far pending: the relay
  after a failed `proxyMigration`, or push and pull with no address (hazard
  at apollo_containers.go:348).

Nothing in the repository or the spec says what the client promises in these
cases.

### ExecContainer (ExecContainer.tla, composed in MCRemoteOperation.tla)

`ProtocolAPOLLO.ExecContainer` (apollo_containers.go 573-699).  State: the
call's control point `epc` and result `eret`, `args` (whether args are
given, `Interactive`, whether Stdin and Stdout are set, whether `DataDone`
is), `plan` (the websockets still to connect, in code order: control, then
`0` for an interactive session or `0`, `1`, `2` for a batch one),
`opened`/`conns` (sockets connected / not yet closed by the client), the
goroutines `recv` (a `WebsocketRecvStream` per socket), `send` (the
`WebsocketSendStream` of stdin) and `wpc` (the goroutine that closes
`DataDone`), `stdinEOF`/`stdinClosed`, the server's operation `opSt`, and
`dataDone`.

Actions: `ExecBegin` (the POST, which may fail, and the choice of args),
`ExecConnect` (one `GetOperationWebsocket`, which may fail and return the
error, starting the socket's goroutines), `ExecReturn`, and the goroutine
steps `RecvDone`, `SendDone`, `WaiterWait`, `InteractiveWait`,
`WaiterCloseStdin`, `WaiterCloseConns`, `WaiterSignal`.  The environment:
`StdinEOF` (the user ends the input) and `ServerEnd` (the command ends once
the server's data sockets are connected; the server then ends the output
streams).  `shared.WebsocketSendStream`/`RecvStream` and the server are not
in this repository; they are taken as described in the module header.

Composition.  `MCRemoteOperation` instantiates `ExecContainer` as `E` and
runs it after the remote call is done (`~ENABLED Next`): the two share no
state, and running them side by side would only multiply the states.
Fairness: weak fairness of the call's steps, every goroutine and the
server's end of the command, none for `StdinEOF`, since a caller may keep
its input open.

With `DataSocketsClosed` added to the cfg, TLC finds a batch exec whose
stderr connect fails after stdin and stdout connected: the call returns the
error, and the two sockets, the stdin sender and the server's operation stay
open for good (hazard at apollo_containers.go:653).  The `doc.go` example
waits on `op.Wait()` and never on `DataDone`, which by
`ExecDataDoneAfterOutput` is what tells a caller its output is complete.

## 4. Not modelled

* The waiter's benefit of the doubt (storage_ceph.go:1342): a mount that
  waited on a concurrent mount returns `(false, nil)` even when that mount
  failed.  Spec §4.2 and the code comment require this; spec §8 says
  concurrent callers return the same outcome.  The spec disagrees with itself,
  so no run takes either side; `WaiterReturn` models what the code does.
* The client's handler list (`rop.handlers`, read by the forwarding goroutine
  while `AddHandler` may append to it): `RemoteOperation.AddHandler`,
  `GetTarget` and `Wait`, and `Operation.Wait`, are not in this repository.
* The pure storage helpers (`filesystemDetect`, the storage type name
  conversions, `containerGetParentAndSnapshotName`): string and magic-number
  conversions whose objects the other modules keep as model values; the
  wrong rendering of an unknown filesystem (storage.go:111) is left to a
  unit test.  `cmdActivateIfNeeded` (main_activateifneeded.go) is a
  sequential check of DB rows with one client connect.
* The client's single-request calls (getters, file push/pull, templates,
  renames, deletes), the connection constructors and `GetContainerLogfiles`
  (whose bug, a range over the wrong slice, spec §12 notes): one HTTP request
  each, with no client state between requests.
* Client HTTP plumbing, API types, progress rendering, version strings, the
  devlxd test client and the mercury CLI tests: pure I/O or data.
* Container config validation (container.go:42-400): string validation with
  no concurrency; left to unit tests.  The rest of `containerCreateAsCopy`'s
  callees not in this repository (`containerCreateInternal`'s DB insert,
  `c.Delete()`) are assumed as described under ContainerVolume.
* The other backends (btrfs, zfs, lvm, dir, mock): their sources are not in
  this repository snapshot.
