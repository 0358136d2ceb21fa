SPECIFICATION Spec
CONSTANTS
    Profile = {"default", "old", "new"}
    Presets <- SomePresets
    Tablets <- ThreeTablets
    XButtons = {"Button8"}
    Rotations = {"none", "cw"}
    Edits <- SomeEdits
    Spaces = {"desktop"}
    MousePoints <- SomePoints
    MaxActs = 4
INVARIANTS TypeOK SavedIsShown TouchTurnsWithPage DriverDoesAsShown
CHECK_DEADLOCK FALSE
