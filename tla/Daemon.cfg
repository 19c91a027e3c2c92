SPECIFICATION FairSpec
CONSTANTS
  MaxErrors = 2
  Signals = {"SIGINT", "SIGTERM"}
  Arguments <- MCArguments
  Facts <- MCFacts
  Ids = {0, 1, 2}
  MaximumSocketPath = 3
CHECK_DEADLOCK FALSE
INVARIANTS
  GatesAdmitOnlyUsable
  RunIsOrderly
  NotKilledInService
  ExitZeroIsClean
PROPERTIES
  StopEndsProcess
