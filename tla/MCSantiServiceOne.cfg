CONSTANTS
    Turns = {t1}
    Sessions = {s1}
    Calls = {c1, c2}
    Titles = {edited}
    Messages <- MCMessages
    Spans <- MCSpans
    None = None
    MaxRounds = 2
    MaxEvents = 3
    MaxFaults = 2
    MaxCrashes = 1
SPECIFICATION FairSpec
INVARIANTS
    ServiceTypeOK
    CompletionIsFinal
    FailureIsRecorded
    NoOrphanTurn
    EventsFollowRows
    SpansSettled
PROPERTIES
    TerminalEventIsLast
    OutcomeSpec
    OutcomeReported
