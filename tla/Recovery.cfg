SPECIFICATION RetriedSpec
CONSTANTS
  r1 = r1
  r2 = r2
  r3 = r3
  o1 = o1
  o2 = o2
  Revisions <- TwoRevisions
  Operations <- OneOperation
  NoRevision = NoRevision
  NoTransaction = NoTransaction
  DirSyncMayFail <- MCFaults
  RevisionRootWritable = TRUE
  ChildMayOutlive = TRUE
  ProbeCount = 2
INVARIANT MarkerIsCommitted
PROPERTIES
  CallsReturn
  PendingIsResolved
