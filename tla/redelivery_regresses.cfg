SPECIFICATION Spec
CONSTANTS
    Cells = {p1}
    Colors = {red, blue}
    Requests = {}
    Roles = {"follower"}
    PageSize = 2
    MaxPosts = 3
    MaxCrashes = 0
    MaxDrops = 0
    MaxRewinds = 1
SYMMETRY Symmetry
INVARIANT DeliveredShows
CHECK_DEADLOCK FALSE
