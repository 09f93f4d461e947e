SPECIFICATION FairSpec
CONSTANTS
    Players = {alice}
    Pixels = {p1, p2}
    ClaimIds = {c1, c2}
    None = None
    Requests = {r1, r2}
    Direct = {}
    MaxErrors = 0
    MaxRestarts = 0
PROPERTY LocksClear
PROPERTY CellsFairlyImplemented
CHECK_DEADLOCK FALSE
