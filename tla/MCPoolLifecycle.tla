-------------------------- MODULE MCPoolLifecycle --------------------------
(* Model-checking instance of PoolLifecycle: two hosts that both use the  *)
(* pool name P, an OSD pool X that exists before APOLLO, one custom       *)
(* volume name.                                                           *)
EXTENDS PoolLifecycle

CONSTANTS h1, h2, P, X, v1

MCHosts == {h1, h2}
MCHost == {h1}
MCPoolNames == {P}
MCOSDNames == {P, X}
MCExternal == {X}
MCVols == {v1}
\* Every step of the pool and volume handlers that returns an error.
HandlerFaults == {"osdcreate", "pgget", "mkdir", "marker", "osddestroy", "rmall",
                  "rbdcreate", "map", "mkfs", "volmkdir",
                  "unmap", "rbddelete", "dbdelete", "volrm"}
NoFaults == {}
=============================================================================
