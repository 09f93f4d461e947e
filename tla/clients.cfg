SPECIFICATION FairSpec
CONSTANTS
    None = None
    NoCell = NoCell
    Cells = {a, b}
    MaxClaims = 2
    MaxActs = 2
    MaxOpen = 2
    MaxFaults = 1
    MaxRivals = 1
    Newest = 2
    MaxSlides = 2
    Players = {u, v}
    Pixels = {o, p}
    ClaimIds = {c1, c2}
    Origin = o
    MaxMishaps = 1
    Workers = {w1, w2}
    MaxRetries = 1
    MayCancel = TRUE
    Word = 64
    ColorRange = 256
    GridW = 16
    GridH = 12
    Claims <- MCClaims
    Drawings <- MCDrawings
    Paintings <- MCPaintings
INVARIANT TypeOK
INVARIANT ArmedIsStanding
INVARIANT BoxesAreAnnounced
INVARIANT FrameIsNewest
INVARIANT Accounted
INVARIANT RunIsComplete
INVARIANT LoadNumbers
INVARIANT ColoursAgree
INVARIANT ShapesAreExact
INVARIANT BlueprintIsFaithful
INVARIANT PreviewIsPainting
PROPERTY Disarms
PROPERTY RunsEnd
CHECK_DEADLOCK FALSE
