\* Two pooled coins and one the callers pay with; futures may be dropped.
\* Bounded submissions: the system stops when they are used up.
SPECIFICATION Spec
CONSTANTS
    Tasks = {t1, t2, t3}
    r1 = r1  r2 = r2
    Refs = {r1, r2, r3}
    NoRef = NoRef
    InitialRefs <- TwoRefs
    CanDrop = TRUE
    MaxSubmissions = 3
SYMMETRY TaskSymmetry
INVARIANT TypeOK
INVARIANT ExclusiveCoins
PROPERTY CoinsConserved
PROPERTY ImplementsLease
CHECK_DEADLOCK FALSE
