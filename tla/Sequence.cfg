CONSTANTS
    MaxDepth = 3
    MaxRows = 4
    Limits <- MCLimits
CHECK_DEADLOCK FALSE
SPECIFICATION Spec
INVARIANTS TypeOK ClientGetsSelection InternGetsSelection BacksUpOnlyInLimitedLeaf
