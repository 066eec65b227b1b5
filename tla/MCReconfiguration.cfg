SPECIFICATION FairSpec
CONSTANTS
    Plans = {"no_op", "rebuild", "rejected"}
    MaxAttempts = 2
PROPERTIES Switched ActivatesVerified LastKnownGoodActive Terminates
CHECK_DEADLOCK FALSE
