SPECIFICATION AreaSpec
CONSTANTS
    wide = wide
    tall = tall
    region = region
    Width = 30
    Height = 20
    TargetSize = 226
    Cycle <- TwoScreens
    Elsewhere = {region}
    ScreenSize <- Sizes
    PerPixel = 1
    Rotations = {"none", "cw"}
    MouseX = {65, 197}
    MouseY = {65, 125}
    Edits <- SomeEdits
    Taps <- SomeTaps
    Reach = 240
    MaxActs = 5
INVARIANTS AreaTypeOK AreasAreTrue
PROPERTIES ShownAsLeft SelectionFollowsMouse
CHECK_DEADLOCK FALSE
