\* start(Some(1)) and start(None), a failed connection, a crash of the consumer, cancellation.
\* The system may stop after a terminal error.
SPECIFICATION FairSpec
CONSTANTS
    FromCheckpoints = {1, None}
    None = None
    Capacity = 1
    Ignored = {2}
    CanCancel = TRUE
    MaxCheckpoint = 2
    MaxPerCheckpoint = 2
    MaxFailures = 1
    MaxRestarts = 1
INVARIANT NoGap
INVARIANT PageCheckpointComplete
PROPERTY PagesInOrder
PROPERTY RepeatsAreRecent
PROPERTY EventsArrive
CHECK_DEADLOCK FALSE
