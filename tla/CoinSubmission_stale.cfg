\* A failed transaction leaves a stale reference in the pool.
\*  The system stops when the submissions are used up.
SPECIFICATION Spec
CONSTANTS
    t1 = t1  t2 = t2  t3 = t3
    c1 = c1  c2 = c2
    Tasks = {t1, t2}
    Coins = {c1}
    NoRef = NoRef  NoTx = NoTx  Nobody = Nobody
    InitialCoins <- OneCoin
    PayCoins = {}
    CanDrop = FALSE
    MaxSubmissions = 1
    MaxVersion = 4
INVARIANT PooledCoinsCurrent
CHECK_DEADLOCK FALSE
