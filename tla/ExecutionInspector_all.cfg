\* An execution of up to four updates, one transient error, two retries; a calm node and one that prunes, lags and lies.
\* The system stops when the inspection did.
SPECIFICATION FairSpec
CONSTANTS
    None = None
    MaxRetries = 2
    Calm = {TRUE, FALSE}
    MaxVersion = 4
    MaxFaults = 1
INVARIANT WholeWalks
PROPERTY ImplementsFeed
PROPERTY FinishArrives
CHECK_DEADLOCK FALSE
