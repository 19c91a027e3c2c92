SPECIFICATION Spec
CONSTANTS
  MaximumAdmissions = 3
  Window = 2
  WindowRange = {1, 2, 3}
  TicksPerMs = 3
  MaxInstant = 14
INVARIANTS
  SlidingWindow
  DecisionIsExact
