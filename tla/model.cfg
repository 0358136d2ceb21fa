SPECIFICATION FairSpec
CONSTANTS
    Tablet = {pen, sensor}
    Sensor = {sensor}
    Profile = {p}
    NoProfile = NoProfile
    MaxChanges = 4
    MaxOps = 1
    MaxTimeouts = 1
INVARIANTS TypeOK RowsAreTrue SuccessIsReal
PROPERTIES OperationEnds ImplementsDirectory
CHECK_DEADLOCK FALSE
