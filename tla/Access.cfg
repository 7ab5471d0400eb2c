SPECIFICATION AccessSpec
CONSTANTS
    None = None
    note = note
    policy = policy
    viewer = viewer
    editor = editor
    b1 = b1
    b2 = b2
    x = x
    c = c
    named = named
    line = line
    q1 = q1
    q2 = q2
    e1 = e1
    Reach <- Reached
    Invitations = {named}
    Imports = {line}
    Terms <- Given
    Requests = {q1, q2}
    Editors = {e1}
    Roles = {viewer, editor}
    Scopes = {"global", "domain"}
    Levels = {"read", "write"}
    Caps = {0, 1}
    Bindings = {b1, b2}
    MaxEdits = 2
    Checks = {c}
    Questions <- Put
    Does <- RoleDoes
    TypesOf <- RoleTypes
    Types = {note, policy}
    Exceptions = {x}
    Settings <- Installed
SYMMETRY Symmetry
CHECK_DEADLOCK FALSE
INVARIANTS StandingGroundsDeny AllowedWasAllowable AcceptedUnlessWithdrawn OneAcceptUnlessUnbound LastWordHolds
