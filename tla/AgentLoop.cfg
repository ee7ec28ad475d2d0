\* Listeners and callbacks may throw.
SPECIFICATION Spec
CONSTANTS
  MaxUser = 2
  MaxRuns = 2
  MaxRequests = 2
  MaxCalls = 2
  SteeringMode = "one-at-a-time"
  FollowUpMode = "all"
  CanThrow = TRUE
INVARIANTS
  ContextIsTranscript
  AnswersFollowCalls
  RequestsAreAnswered
  DeliveredInOrder
PROPERTIES
  NoMessageLost
  RunSettles
