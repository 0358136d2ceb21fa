SPECIFICATION Spec
CONSTANTS
    Texts <- SomeTexts
    Reloads <- SomeReloads
    KeyPresses <- SomePresses
    MouseButtons = {1, 32}
INVARIANTS TypeOK SelectorsShowShortcut WrittenIsRead
CHECK_DEADLOCK FALSE
