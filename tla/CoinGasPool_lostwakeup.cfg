\* Two coins and four tasks: two releases may leave one permit for two waiters.
SPECIFICATION Spec
CONSTANTS
    Tasks = {t1, t2, t3, t4}
    r1 = r1  r2 = r2
    Refs = {r1, r2}
    NoRef = NoRef
    InitialRefs <- TwoRefs
    CanDrop = FALSE
    MaxSubmissions = 2
SYMMETRY TaskSymmetry
INVARIANT NoSleepOnCoin
CHECK_DEADLOCK FALSE
