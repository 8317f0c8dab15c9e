CONSTANTS
  t1 = t1
  t2 = t2
  t3 = t3
  c1 = c1
  v1 = v1
  NoThread = NoThread
  Threads <- MCThreads
  Containers <- MCContainers
  Customs <- MCCustoms
  MaxStack <- MCMaxStack

SPECIFICATION Spec


INVARIANT ContainerMountReturnsMounted
