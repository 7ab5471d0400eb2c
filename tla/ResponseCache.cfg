SPECIFICATION CacheSpec
CONSTANTS
    u = u
    admin = admin
    r1 = r1
    r2 = r2
    w1 = w1
    w2 = w2
    Users = {u, admin}
    Keys <- Asked
    Readers = {r1, r2}
    Writers = {w1, w2}
    Plans <- Work
    MaxWrites = 1
SYMMETRY Symmetry
CHECK_DEADLOCK FALSE
INVARIANTS DroppedIsGone EntriesAreMirrored IndexFollowsRow
