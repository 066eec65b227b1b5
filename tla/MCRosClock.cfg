\* Jumps, stalls and restarts between any two samples.
CONSTANTS
    NoSample = NoSample
    StallTimeout = 2
    MaxRos = 3
    MaxGap = 2
SPECIFICATION ClockSpec
PROPERTIES JumpNeverHidden StallDetected
CHECK_DEADLOCK FALSE
