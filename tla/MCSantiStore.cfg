CONSTANTS
    Sessions = {s1}
    Messages = {m1}
    Turns = {t1}
    Spans = {sp1}
    Calls = {c1}
    Titles = {edited}
SPECIFICATION StoreSpec
INVARIANTS
    StoreTypeOK
    SoulLogDense
    EntriesResolve
    RuntimeRowsLogged
PROPERTIES
    HistoryKept
    EndedSpansStay
    UserTitleKept
