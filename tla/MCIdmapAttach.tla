--------------------------- MODULE MCIdmapAttach ---------------------------
(* Model-checking instance of IdmapAttach: two containers that both use   *)
(* one custom volume, two idmaps.                                          *)
EXTENDS IdmapAttach

CONSTANTS c1, c2, m1, m2

MCContainers == {c1, c2}
MCIdmaps == {m1, m2}
\* Steps whose failure leaves the tree and the DB unchanged.
CleanFaults == {"usedby", "mount"}
NoFaults == {}
=============================================================================
