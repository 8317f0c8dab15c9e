------------------------- MODULE ImageCacheAbstract -------------------------
(***************************************************************************)
(* What the Ceph image cache promises its users (storage_ceph.go,         *)
(* ContainerCreateFromImage, ImageCreate, ImageDelete): an image is       *)
(* absent, present (published: a DB row and a protected readonly snapshot *)
(* holding the image content) or a zombie (deleted while containers       *)
(* cloned from it remain).  Containers are cloned only from a present     *)
(* image; an image with clones never becomes absent; a create publishes  *)
(* the image again, resurrecting a zombie.                               *)
(***************************************************************************)
CONSTANTS Creators   \* containers that may be cloned from the image

VARIABLES
    img,     \* "absent", "present" or "zombie"
    users    \* containers whose volume is a clone of the image

absVars == <<img, users>>

Init == img = "absent" /\ users = {}

\* ImageCreate succeeds, or resurrects a zombie.
Publish ==
    /\ img \in {"absent", "zombie"}
    /\ img' = "present"
    /\ UNCHANGED users

\* ImageDelete of a present image, or a resurrection that fails after the
\* unmark: a zombie, or absent when no clone remains.
Retire ==
    /\ img = "present"
    /\ img' \in IF users = {} THEN {"absent", "zombie"} ELSE {"zombie"}
    /\ UNCHANGED users

\* A container volume is cloned from the image's snapshot.
Clone(t) ==
    /\ img = "present"
    /\ t \notin users
    /\ users' = users \cup {t}
    /\ UNCHANGED img

\* A clone is removed (its container is deleted or its create failed).
Drop(t) ==
    /\ t \in users
    /\ users' = users \ {t}
    /\ UNCHANGED img

Next == Publish \/ Retire \/ \E t \in Creators : Clone(t) \/ Drop(t)

Spec == Init /\ [][Next]_absVars
=============================================================================
