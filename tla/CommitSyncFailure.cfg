SPECIFICATION Spec
CONSTANTS
  r1 = r1
  r2 = r2
  r3 = r3
  o1 = o1
  o2 = o2
  Revisions <- MCRevisions
  Operations <- MCOperations
  NoRevision = NoRevision
  NoTransaction = NoTransaction
  DirSyncMayFail <- MCCommitFault
  RevisionRootWritable = TRUE
  ChildMayOutlive = FALSE
  ProbeCount = 2
INVARIANT CleanupPreservesTarget
