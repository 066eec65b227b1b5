\* A queue that overflows, an engine that rejects, a writer that fails, and
\* stop() at any moment.
CONSTANTS
    QueueCapacity = 2
    MaxEvents = 5
SPECIFICATION FairRecorderSpec
INVARIANTS ValidTraceComplete LevelWithEngine
PROPERTIES StopCompletes QueueDrained
CHECK_DEADLOCK FALSE
