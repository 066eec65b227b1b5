\* The gateway's endpoint flickers within the watchdog timeout.
CONSTANTS
    p = p
    None = None
    Publishers <- OnePublisher
    StableWindow = 1
    WatchdogTimeout = 1
    CanTimeout = 1
    RecoveryFrames = 1
    Modulo = 2
SPECIFICATION FeedbackSpec
INVARIANTS HealthyImpliesCommand
CHECK_DEADLOCK FALSE
