SPECIFICATION MCSpec
CONSTANTS
    Cells = {p1}
    Colors = {red, blue}
    Requests = {r1, r2}
    ChanSize = 2
    MaxChanges = 2
    MaxBreaks = 1
INVARIANT TypeOK
INVARIANT ScreenIsServer
PROPERTY PaintsShow
CHECK_DEADLOCK FALSE
ACTION_CONSTRAINT InTurn
