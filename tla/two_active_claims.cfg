SPECIFICATION Spec
CONSTANTS
    Players = {alice}
    Pixels = {p1, p2}
    ClaimIds = {c1, c2, c3}
    None = None
    Requests = {r1, r2}
    Direct = {}
    MaxErrors = 0
    MaxRestarts = 0
SYMMETRY Symmetry
INVARIANT OneActiveClaim
CHECK_DEADLOCK FALSE
