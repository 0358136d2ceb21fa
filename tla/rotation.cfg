SPECIFICATION PageSpec
CONSTANTS
    Profile = {Default, pen, game}
    Default = Default
    NoProfile = NoProfile
    Lists <- RotationLists
    MaxRows = 3
    MaxActs = 5
INVARIANTS TypeOK PageAndListAgree
PROPERTIES WalkFollowsList SwitchesRespectDeletion
SYMMETRY OtherProfiles
CHECK_DEADLOCK FALSE
