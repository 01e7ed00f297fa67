CONSTANTS
    Sessions = {s1, s2}
    Payloads <- MCPayloads
    NoSession = NoSession
    Capacity = 4
    Turns = {t1}
    Slots = {r1, r2}
SPECIFICATION Spec
SYMMETRY Symmetry
INVARIANTS
    FailureShown
