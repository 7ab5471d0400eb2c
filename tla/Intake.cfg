SPECIFICATION Spec
CONSTANTS
    None = None
    a1 = a1
    a2 = a2
    c = c
    d = d
    q1 = q1
    q2 = q2
    Requests = {q1, q2}
    Contents = {c, d}
    Artifacts = {a1, a2}
    MaxRecords = 3
    Faults = TRUE
SYMMETRY Symmetry
CHECK_DEADLOCK FALSE
INVARIANTS NoSilentRecordLoss AnswersAreKept
