\* Lifecycle services, output tick and health callbacks on two threads.
CONSTANTS
    Threads = 2
    MaxBundles = 2
    MaxActivations = 3
SPECIFICATION FairSpec
INVARIANTS OpenGate EngineFollowsLifecycle
PROPERTIES TransitionsComplete TickReturns
CHECK_DEADLOCK FALSE
