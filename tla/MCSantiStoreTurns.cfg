CONSTANTS
    Sessions = {s1, s2}
    Messages = {m1, m2}
    Turns = {t1, t2}
    Spans = {}
    Calls = {}
    Titles = {}
SPECIFICATION StoreSpec
SYMMETRY Symmetry
INVARIANTS
    SessionLogDense
    TurnWindow
    LastSeenInLog
