SPECIFICATION Spec
CONSTANTS
    Players = {alice, bob, bot}
    Pixels = {p1, p2}
    ClaimIds = {c1, c2, c3}
    None = None
    Requests = {r1}
    Direct = {bot}
    MaxErrors = 0
    MaxRestarts = 1
SYMMETRY Symmetry
INVARIANT TypeOK
INVARIANT OneActiveClaim
INVARIANT CanvasIsLedger
INVARIANT LockHasItsClaim
CHECK_DEADLOCK FALSE
