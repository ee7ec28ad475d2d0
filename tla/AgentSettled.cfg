SPECIFICATION Spec
CONSTANTS
  MaxUser = 1
  MaxRuns = 1
  MaxRequests = 1
  MaxCalls = 2
  SteeringMode = "one-at-a-time"
  FollowUpMode = "one-at-a-time"
  CanThrow = TRUE
INVARIANT
  IdleMeansSettled
