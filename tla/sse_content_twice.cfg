\* A response that is streamed for the integrity scan alone.
SPECIFICATION Spec
CONSTANTS
    HasMappings = FALSE
    HasScanner = TRUE
    MaxText = 2
    MaxPieces = 4
    MaxLines = 4
INVARIANT ContentOnce
