SPECIFICATION Spec
CONSTANTS
    t1 = t1
    t2 = t2
    Other = Other
    mine = mine
    Tablet = {t1, t2}
    NoTablet = NoTablet
    Profile = {Default, Other}
    Default = Default
    NoName = NoName
    Edit = {mine}
    Standard = Standard
    Blank = Blank
    NoProfile = NoProfile
    NoGroup = NoGroup
    MaxHotplugs = 0
    MaxActs = 3
PROPERTY EditsReachHome
CHECK_DEADLOCK FALSE
