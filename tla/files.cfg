SPECIFICATION Spec
CONSTANTS
    Name <- MCName
    Default = "Default"
    NoName = ""
    Setting <- MCSetting
    Standard = "std"
    MaxActs = 4
INVARIANTS TypeOK ProfilesAsChosen
PROPERTY ContentsKept
CHECK_DEADLOCK FALSE
