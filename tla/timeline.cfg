SPECIFICATION Spec
CONSTANTS
    Cells = {p1}
    Colors = {red, blue}
    Roles = {"writer", "follower"}
    Minute = 2
    AnchorMax = 2
    PoolMax = 2
    FoldMax = 2
    MaxTime = 8
    MaxPosts = 3
    MaxRestarts = 1
    States = {s1, s2, s3}
    Payload = 2
    None = None
    MaxEvictions = 3
    MaxBoots = 2
    MaxFaults = 2
SYMMETRY Symmetry
INVARIANT TypeOK
INVARIANT FramesAreTrue
INVARIANT GridIsWhole
INVARIANT FileIsTrue
CHECK_DEADLOCK FALSE
