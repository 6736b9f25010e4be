\* Texts of any script: byte offsets against UTF-16 positions.
SPECIFICATION HookSpec
CONSTANTS
    MaxChars = 3
    NerLimit = 2
INVARIANTS
    EveryTextIsRedacted
CHECK_DEADLOCK FALSE
