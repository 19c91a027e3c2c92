CONSTANTS
  MaximumCaptured = 1
  ReadBuffer = 2
  PipeSize = 2
  Timeout = 3
  PollSlice = 1
  TicksPerMs = 2
  ExitCodes = {0, 1, 127}
  Endpoints <- MCEndpoints
SPECIFICATION FairSpec
INVARIANTS
  RunIsALoad
  VerdictsAreEarned
  CaptureIsHonest
PROPERTIES
  DeadlineIsExact
  CallsReturn
