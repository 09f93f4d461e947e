SPECIFICATION FairSpec
CONSTANTS
    Cells = {p1, p2}
    Colors = {red, blue}
    Requests = {r1}
    Roles = {"writer", "follower"}
    PageSize = 1
    MaxPosts = 2
    MaxCrashes = 2
    MaxDrops = 1
    MaxRewinds = 1
INVARIANT TypeOK
INVARIANT BitmapIsTrue
PROPERTY NoRegression
PROPERTY BootRestores
PROPERTY PostsArrive
CHECK_DEADLOCK FALSE
