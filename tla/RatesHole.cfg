SPECIFICATION Spec
CONSTANTS
    Requests = {p, q}
    LastDay = 4
    ChunkDays = 2
    FirstAlone = FALSE
INVARIANT SpanIsWhole
