SPECIFICATION FairSpec
CONSTANTS
  Requests <- MCRequests
  Users = {1, 2}
  Groups = {1, 2}
  AllowedUser = 1
  AllowedGroups = {1}
  HeaderSize = 2
  MaximumPayload = 2
  ResponseSize = 1
  SocketBuffer = 2
  IoTimeout = 2
  TicksPerMs = 2
INVARIANTS
  DispatchIsEarned
  SessionTellsTruth
PROPERTIES
  DeadlineIsExact
  SessionEnds
