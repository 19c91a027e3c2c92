SPECIFICATION SystemSpec
CONSTANTS
  p1 = p1
  p2 = p2
  Processes <- MCProcesses
  Writers <- MCProcesses
  MaxInodes = 2
  EntrySize = 2
  MaximumJournal = 8
  MaxAppends = 4
  StartupEvents = 2
SYMMETRY Symmetry
INVARIANTS
  MutualExclusion
  AppendedIsDurable
  JournalIsSound
  ServiceIsAudited
  OccupiedPathIsExplained
PROPERTY
  ImplementsLock
