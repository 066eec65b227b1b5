\* The loop of gateway and robot adapter, with failures around it.
CONSTANTS
    g1 = g1
    g2 = g2
    None = None
    Publishers <- TwoPublishers
    StableWindow = 1
    WatchdogTimeout = 2
    RecoveryTicks = 2
    MaxGlitches = 2
    MaxDeactivations = 2
SPECIFICATION FairSpec
INVARIANTS NoThrow
PROPERTIES MotionOfConfirmed Activates Moves
