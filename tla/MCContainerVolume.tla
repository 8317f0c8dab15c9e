------------------------- MODULE MCContainerVolume -------------------------
(* Model-checking instance of ContainerVolume: two names for the          *)
(* container (so a rename A -> B -> A round trip happens), two snapshot   *)
(* names (so one snapshot can be renamed while another exists).           *)
EXTENDS ContainerVolume

CONSTANTS A, B, C, s1, s2, s3

MCNames == {A, B}
MCNames3 == {A, B, C}
MCSnaps == {s1, s2}
MCSnaps3 == {s1, s2, s3}
\* The source of a copy has two snapshots, listed in creation order.
MCSourceSnaps == <<s1, s2>>
\* The source's snapshots have no root disk size, or have one (then
\* configuring the copied snapshot fails at the quota).
MCSnapSizes == {FALSE}
MCSnapSizesAll == BOOLEAN
\* Steps whose failure the handler reverts, or after which the caller's
\* cleanup (c.Delete) removes what was left.
RevertedFaults == {"umount", "delete", "create", "map", "mkfs", "mountpoint",
                   "template", "unmap", "rbdrename", "snapdir", "unlink",
                   "snapcreate", "snapmkdir", "snaprename", "snapmv",
                   "snapdelete", "mount", "protect", "clone", "clonemap",
                   "snapmount", "rollback",
                   "srcstart", "copyvol", "snapcopy", "copy", "cfgmount", "backup"}
\* Not injected: "dbsnap" of containerCreateAsCopy, whose failure nothing
\* undoes (see README).
NoFaults == {}
=============================================================================
