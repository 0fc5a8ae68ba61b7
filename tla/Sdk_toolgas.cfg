SPECIFICATION Spec
CONSTANTS
    OfferedMethods <- MCToolGasMethods
    Uses = 2
    Leaders = {"l1", "l2"}
    Tools = {"t1"}
    OwnKey = "own"
    OtherKey = "other"
    MaxKeys = 2
    MaxChanges = 2
    Walks = {"w1", "w2"}
    NoWalk = "none"
    Moves = 4
    Commands = {"p1", "p2"}
    NewTools = {"c1", "c2"}
    MaxBegun = 2
    Fields = 3
    Wanted = 2
    MaxEdits = 2
    VerifierMethods = {"m1", "m2"}
    MaxTurns = 2
    TapSkills = {"s1", "s2"}
    Configured = "s1"
    NoSkill = "none"
    MaxShifts = 1
    MaxWord = 20000
    Budgets <- MCBudgets
    Percentages <- MCPercentages
    Amounts <- MCAmounts
    Syncers = {"sync"}
    Exporters = {"export"}
    MaxLists = 3
    Submitters = {"a", "b"}
    Contents = {"x"}
    MaxNonce = 2
    MaxEpoch = 1
    InputPorts = {"in1", "in2"}
    Values <- MCValues
    WALRUS_BLOB_ID_LENGTH = 3
    AvailableSize = 5
    SaveFor = 1
    MaxStorageEpoch = 3
    Coins = {1, 2}
    NoCoin = 0
INVARIANT
    RegisteredToolGasFound
