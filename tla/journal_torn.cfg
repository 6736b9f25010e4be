\* Two requests in a ring that never wraps.
SPECIFICATION Spec
CONSTANTS
    Ids = {i1, i2}
    RingSize = 20
    MaxLines = 3
SYMMETRY Symmetry
PROPERTY EveryLossIsFound
