SPECIFICATION Spec
CONSTANTS
    Players = {alice}
    Pixels = {p1, p2}
    ClaimIds = {c1, c2}
    None = None
    Requests = {r1}
    Direct = {}
    MaxErrors = 0
    MaxRestarts = 0
PROPERTY RejectedOnlyByOthers
CHECK_DEADLOCK FALSE
