SPECIFICATION SyncSpec
CONSTANTS
    r1 = r1
    r2 = r2
    Syncs = {r1, r2}
    MaxItems = 3
    Replies = {3}
    Folders = {2}
    Edited = {2}
    Window = 1
    MaxPages = 2
    MaxStamp = 1
SYMMETRY Symmetry
CHECK_DEADLOCK FALSE
INVARIANTS OrphansAreReported CursorCovers 
