SPECIFICATION Spec
CONSTANTS
    Players = {alice, bob}
    Pixels = {p1, p2}
    ClaimIds = {c1, c2}
    None = None
    Requests = {r1, r2}
    Direct = {}
    MaxErrors = 1
    MaxRestarts = 1
SYMMETRY Symmetry
INVARIANT OneUnit
INVARIANT Exclusive
INVARIANT RecordedIsRegistered
INVARIANT PaintsArePosted
PROPERTY CellsImplemented
CHECK_DEADLOCK FALSE
