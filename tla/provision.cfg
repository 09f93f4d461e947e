SPECIFICATION Spec
CONSTANTS
    Players = {alice}
    Pixels = {0, 1, 2}
    ClaimIds = {c1}
    None = None
    Requests = {r1, r2}
    Drawings = {{0, 2}, {0, 1, 2}}
    BatchSize = 2
    MaxErrors = 1
    MaxDeaths = 1
SYMMETRY Symmetry
INVARIANT TypeOK
INVARIANT ReadyIsFunded
PROPERTY ReadyLedger
PROPERTY FreeCellIsGranted
CHECK_DEADLOCK FALSE
