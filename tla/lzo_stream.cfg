SPECIFICATION Spec
CONSTANTS
    InputSizes = {0, 3, 21, 31, 32, 44, 238, 239, 49200}
    Gaps = {0, 1, 3, 4, 18, 19, 274, 2100, 33000}
    Lengths = {4, 8, 9, 10, 12, 33, 34, 265}
    Offsets = {1, 2048, 2049, 16384, 16385, 32768}
    MaxMatches = 2
    Losses = {0, 3}
    Shorts = {0, 1}
INVARIANTS
    TypeOK
    WorstCase
    RoundTrip
    InBounds
CHECK_DEADLOCK FALSE
