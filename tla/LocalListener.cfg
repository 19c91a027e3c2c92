SPECIFICATION FairSpec
CONSTANTS
  t1 = t1
  t2 = t2
  t3 = t3
  Threads <- ThreeThreads
  Nobody = Nobody
  MaxBinds = 2
INVARIANTS
  ServingIsExclusive
  SocketsAreAccounted
PROPERTIES
  ReplacementIsPreserved
  CallsReturn
