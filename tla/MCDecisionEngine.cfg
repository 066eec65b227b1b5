\* Two sources, recovery, faults of health and late ticks together.
CONSTANTS
    a = a
    b = b
    g1 = g1
    None = None
    Sources <- TwoSources
    Generations <- OneGeneration
    Priority <- TwoPriorities
    IdOrder <- Ids
    Lease <- LeaseTwo
    CommandTimeout = 1
    SwitchHold = 1
    MaxFutureSkew = 1
    RecoveryValidSamples = 2
    LateThreshold = 1
    LateTicksToSafeStop = 1
    HealthInputs <- FaultyHealth
    Contents <- GoodOrBad
    StampOffsets <- OnTime
    RosRates <- Nominal
    MaxSequence = 2
    MaxTime = 2
    MaxEpoch = 1
SPECIFICATION Spec
INVARIANTS Agreement
PROPERTIES SwitchHeld ErrorOnlyFromInvariant RecoveryProven NoReplay MotionAuthorized
CHECK_DEADLOCK FALSE
