\* Polls, messages and restarts of the adapter across a reconfiguration.
CONSTANTS
    v = v
    w = w
    s = s
    None = None
    Adapters <- TwoAdapters
    Publishers <- OneSource
    StableWindow = 2
    VehicleTimeout = 1
    MaxBundles = 2
SPECIFICATION Spec
INVARIANTS FeedbackOfConfirmed DecisionOnTruth
PROPERTIES ActivationGated EndpointProven
CHECK_DEADLOCK FALSE
