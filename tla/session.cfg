SPECIFICATION Spec
CONSTANTS
    t1 = t1
    t2 = t2
    Other = Other
    mine = mine
    Tablet = {t1, t2}
    NoTablet = NoTablet
    Profile = {Default, Other}
    Default = Default
    NoName = NoName
    Edit = {mine}
    Standard = Standard
    Blank = Blank
    NoProfile = NoProfile
    NoGroup = NoGroup
    MaxHotplugs = 1
    MaxActs = 4
SYMMETRY Tablets
INVARIANTS TypeOK PagesAreOfProfile SelectorsAgree DaemonIsCurrent
CHECK_DEADLOCK FALSE
