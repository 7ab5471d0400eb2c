SPECIFICATION BuildersSpec
CONSTANTS
    None = None
    s1 = s1
    s2 = s2
    a = a
    b = b
    x = x
    y = y
    q1 = q1
    q2 = q2
    Scenarios = {s1, s2}
    Roles = {a, b}
    Codes = {x, y}
    Requests = {q1, q2}
    Scopes = {"global", "team"}
    Overrides = {TRUE, FALSE}
    Plans <- Work
SYMMETRY Symmetry
CHECK_DEADLOCK FALSE
INVARIANTS MirrorIsExact OverrideIsConfined
