CONSTANTS
    b1 = b1
    b2 = b2
    b3 = b3
    b4 = b4
    NoBatch = NoBatch
    NoSlot = NoSlot
    Batches = {b1, b2, b3, b4}
    Size <- MCSize
    Invalid = {b2}
    MaxItems = 2
    MaxBytes = 3
    ReplayPerBeat = 1
    LedgerMax = 2
    Slots = {s1, s2}
    MaxFaults = 1
SPECIFICATION FairSpec
INVARIANTS
    TypeOK
    
    
    StoredOnce
    QueueBounded
    LedgerBounded
PROPERTIES
    Drained
