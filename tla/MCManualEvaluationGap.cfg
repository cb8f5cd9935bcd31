SPECIFICATION Spec
CONSTANTS
  Jobs = {"job"} Batch <- TwoSteps Verdicts = {"accepted", "rejected"}
  MaxAttempts = 1 MaxUpsets = 0
  None = None
INVARIANT JournalStaysReadable
CHECK_DEADLOCK FALSE
