CONSTANTS
    Sessions = {s1, s2}
    Payloads = {"material_updated", "other"}
    NoSession = NoSession
    Capacity = 2
    Callers = {c1, c2}
    Watched = s1
    Parts = 2
    Files = {{1}, {2}}
    MaxWrites = 1
    MaxNoise = 1
SPECIFICATION Spec
SYMMETRY Symmetry
INVARIANTS
    StreamTypeOK
    OnlyOldEventsMissed
    QuietCacheIsNewest
