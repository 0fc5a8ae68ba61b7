\* Three tasks, one gas coin and one payment coin that any of them may name, futures may be dropped.
\*  The system stops when the submissions are used up.
SPECIFICATION FairSpec
CONSTANTS
    t1 = t1  t2 = t2  t3 = t3
    c1 = c1  c2 = c2
    Tasks = {t1, t2, t3}
    Coins = {c1, c2}
    NoRef = NoRef  NoTx = NoTx  Nobody = Nobody
    InitialCoins <- OneCoin
    PayCoins = {c2}
    CanDrop = TRUE
    MaxSubmissions = 1
    MaxVersion = 4
INVARIANT CoinsInOnePlace
INVARIANT StaleOnlyAfterFailure
INVARIANT OneAwaitedPerCoin
INVARIANT OkMeansExecuted
PROPERTY SubmissionsEnd
CHECK_DEADLOCK FALSE
