CONSTANTS
    Turns = {t1, t2}
    Sessions = {s1}
    Calls = {}
    Titles = {}
    Messages <- MCMessages
    Spans <- MCSpans
    None = None
    MaxRounds = 1
    MaxEvents = 1
    MaxFaults = 0
    MaxCrashes = 0
SPECIFICATION Spec
INVARIANTS
    MessagesBeforeNextWatermark
