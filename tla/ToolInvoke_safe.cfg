\* Three requests for one nonce with two inputs; leases and answers expire.
\* Every request ends and the clock stops at a bound.
SPECIFICATION Spec
CONSTANTS
    Requests = {r1, r2, r3}
    Leaders = {l1}
    Nonces = {n1}
    Hashes = {h1, h2}
    None = None
    Lease = 1
    TTL = 2
    MaxTime = 3
    MaxLists = 2
SYMMETRY Symmetry
INVARIANT TypeOK
INVARIANT OneLiveRun
INVARIANT NoOrphan
INVARIANT AnswerOfInput
PROPERTY RunOnce
CHECK_DEADLOCK FALSE
