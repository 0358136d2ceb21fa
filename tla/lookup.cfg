SPECIFICATION LookupSpec
CONSTANTS
    Serial = {1, 2, 3, 4, 5}
    HasLetter = {2, 3}
    DeviceList <- SomeDevices
    LibWacom <- SomeLibWacom
    Starts = {{}, {1, 2}}
    XButtons = {1, 2, 9}
    ButtonNumbers = {0, 2}
    MaxActs = 5
INVARIANT LookupTypeOK
PROPERTY DialogIsTrue
CHECK_DEADLOCK FALSE
