SPECIFICATION Spec
CONSTANTS
    endpointChunkSize = 3
    MaxRules = 7
    MaxSlots = 3
    MaxHeld = 4
INVARIANTS
    TypeOK
    EveryRulePlacedOnce
    PackedGreedily
    KeptExactlyTheUsed
PROPERTIES
    Terminates
CHECK_DEADLOCK FALSE
