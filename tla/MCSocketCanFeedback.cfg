\* Frames, timeouts, a dying I/O thread and a gateway that comes and goes.
CONSTANTS
    p = p
    None = None
    Publishers <- OnePublisher
    StableWindow = 1
    WatchdogTimeout = 1
    CanTimeout = 1
    RecoveryFrames = 2
    Modulo = 3
SPECIFICATION FeedbackSpec
PROPERTIES LinkProven DrivingBacked DeathReported
CHECK_DEADLOCK FALSE
