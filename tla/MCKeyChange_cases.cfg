SPECIFICATION Spec
CONSTANTS
    kk = kd
    Change = {ka, kb}
    Key = {kd}
    Of <- vOf
    Kind <- vKind
    MaxVersion = 4
    MaxSlips = 1
    None = None
INVARIANTS
    EndedAgrees
    RosterIsInForce
SYMMETRY Symmetry
VIEW Readable
CHECK_DEADLOCK FALSE
