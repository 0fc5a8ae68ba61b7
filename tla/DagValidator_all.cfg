\* Every description of five families, validated and executed in every order.
\* An execution ends.
SPECIFICATION Spec
CONSTANTS
    None = None
    Dags <- AllDags
INVARIANT VerdictExact
INVARIANT NestingSound
CHECK_DEADLOCK FALSE
