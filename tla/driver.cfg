SPECIFICATION Spec
CONSTANTS
  XDev <- PenFingerMouse
  XID = {1, 2}
  Profiles <- TwoProfiles
  Asked <- ClientAsks
  Position <- Positions
  Empty = Empty
  NotANumber = NotANumber
  LEDs = 8
  Maximum <- Whole
  Word = 64
  MaxPlugs = 3
  MaxCalls = 3
INVARIANTS TypeOK TabletDoesAsAsked MeasuresWhole
CHECK_DEADLOCK FALSE
