CONSTANTS
    Turns = {t1}
    Sessions = {s1}
    Calls = {c1}
    Titles = {}
    Messages <- MCMessages
    Spans <- MCSpans
    None = None
    MaxRounds = 2
    MaxEvents = 4
    MaxFaults = 0
    MaxCrashes = 0
SPECIFICATION Spec
INVARIANTS
    ChipNamesPhase
