CONSTANTS
    Turns = {t1, t2}
    Sessions = {s1}
    Calls = {c1}
    Titles = {}
    Messages <- MCMessages
    Spans <- MCSpans
    None = None
    MaxRounds = 2
    MaxEvents = 1
    MaxFaults = 0
    MaxCrashes = 0
SPECIFICATION FairSpec
INVARIANTS
    CallsAnswered
PROPERTIES
    SendAnswered
