SPECIFICATION Spec
CONSTANTS
    Clients = {c1, c2}
    Callbacks = {k1, k2}
    Workers = {w1}
    MaxTokens = 4
    MaxLosses = 1
    None = None
INVARIANTS
    StoredIsThisSession
    UsesOnlyStored
    RevokedIsNotCurrent
PROPERTIES
    RotationReplacesItsParent
SYMMETRY Symmetry
CHECK_DEADLOCK FALSE
