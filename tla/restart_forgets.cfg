SPECIFICATION Spec
CONSTANTS
    Cells = {p1, p2}
    Colors = {red}
    Requests = {r1, r2}
    Roles = {"writer"}
    PageSize = 2
    MaxPosts = 2
    MaxCrashes = 1
    MaxDrops = 1
    MaxRewinds = 1
SYMMETRY Symmetry
PROPERTY BootRestores
CHECK_DEADLOCK FALSE
