\* Longer texts than the detection run: the chunks need not advance.
SPECIFICATION NerSpec
CONSTANTS
    MaxChunk = 4
    Overlap = 2
    MaxBytes = 8
    MaxChunks = 4
INVARIANTS
    ChunksAdvance
CHECK_DEADLOCK FALSE
