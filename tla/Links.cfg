CONSTANTS
    MaxAttempts = 2
    MaxLosses = 3
SPECIFICATION LinksFairSpec
INVARIANT ViewTrue
INVARIANT HeldUntilCorrected
PROPERTY AttemptsWait
PROPERTY RestoredInTheEnd
PROPERTY LinksComeBack
CHECK_DEADLOCK FALSE
