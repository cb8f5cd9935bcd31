SPECIFICATION Spec
CONSTANTS
  Jobs = {"job"} Batch <- TwoSteps Verdicts = {"accepted"}
  MaxAttempts = 1 MaxUpsets = 1
  None = None
INVARIANT PromotionIsLowest
CHECK_DEADLOCK FALSE
