--------------------------- MODULE MCImageCache ---------------------------
(* Model-checking instance of ImageCache: three containers created from one *)
(* image, one ImageDelete caller.                                          *)
EXTENDS ImageCache

CONSTANTS c1, c2, c3, d1

MCCreators == {c1, c2, c3}
MCDeleters == {d1}
\* Helper calls of the create path that may fail.
CreateFaults == {"mkdir", "unmark", "create", "map", "mkfs", "mount", "unpack",
                 "unmap", "snapshot", "protect", "dbrow", "clone", "finish",
                 "cdelete", "backup"}
\* No helper fails.
NoFaults == {}
=============================================================================
