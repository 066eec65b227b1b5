\* Endpoint changes, rejections and silence against retries and full queues.
CONSTANTS
    p = p
    q = q
    None = None
    Publishers <- TwoPublishers
    StableWindow = 1
    WatchdogTimeout = 1
    TxPeriod = 1
    Modulo = 2
SPECIFICATION FairSpec
INVARIANTS AtMostOneLate CommandFromConfirmed
PROPERTIES CountersConsecutive HoldDelivered
CHECK_DEADLOCK FALSE
