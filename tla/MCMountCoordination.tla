------------------------ MODULE MCMountCoordination ------------------------
EXTENDS MountCoordination

CONSTANTS t1, t2, t3, c1, v1

MCThreads == {t1, t2, t3}
MCContainers == {c1}
MCCustoms == {v1}
MCMaxStack == 2

=============================================================================
