SPECIFICATION MappingSpec
CONSTANTS
    Output = {1, 2, 3}
    Region = {region}
    Speed = {speed}
    Desktop = Desktop
    Geometry = {left, right}
    Orientation = {"none", "cw"}
    Tool = {"stylus", "eraser", "touch"}
    Contents <- MappedContents
    ClientTools = {"touch"}
    ClientRotations = {"half"}
INVARIANTS MappingTypeOK MatrixFollowsProfile EraserFollowsStylus
PROPERTY ScreensOnlyAct
CHECK_DEADLOCK FALSE
