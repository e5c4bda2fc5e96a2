SPECIFICATION Spec
CONSTANTS
  NoSum = NoSum
  Modes <- MCModes
  Whences = {"start", "end"}
  ReadSizes = {2}
INVARIANTS DeliveredExact CleanEndIsVerified TrustIsEarned SolidInStep
CHECK_DEADLOCK FALSE
