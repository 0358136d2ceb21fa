SPECIFICATION FairSpec
CONSTANTS
    Tablet <- PenAndTouch
    Named <- PenAndTouch
    DevType = {stylus, pad}
    TouchOf <- PairedTouch
    Profile = {p}
    NoTablet = NoTablet
    NoInfo = NoInfo
    NoProfile = NoProfile
    MaxId = 3
    MaxUnits = 1
    MaxEvents = 3
    MaxChanges = 6
    MaxLoads = 2
INVARIANTS TypeOK ListsAgree NothingLeftBehind
PROPERTY GhostIsDropped
CHECK_DEADLOCK FALSE
