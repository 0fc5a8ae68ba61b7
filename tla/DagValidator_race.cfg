\* As DagValidator_all, for one property.
SPECIFICATION Spec
CONSTANTS
    None = None
    Dags <- AllDags
INVARIANT NoRace
CHECK_DEADLOCK FALSE
