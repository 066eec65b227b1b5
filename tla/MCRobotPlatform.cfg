\* Late answers, patchy discovery, a controller that is replaced.
CONSTANTS
    c = c
    d = d
    Nothing = Nothing
    Controllers <- TwoControllers
    ControllerWindow = 2
    StateTimeout = 2
    OdometryTimeout = 1
SPECIFICATION PlatformSpec
SYMMETRY ControllerSym
INVARIANTS PlatformBacked RequestsReleased
CHECK_DEADLOCK FALSE
