SPECIFICATION Spec
CONSTANTS
    role = role
    job = job
    Presets <- SomePresets
    Jobs <- SomeJobs
    Templates <- SomeTemplates
    Editors = {e1, e2}
    Launches = {l1, l2}
    Patches <- SomePatches
    MaxEdits = 2
SYMMETRY Symmetry
INVARIANTS LogTellsTheTruth LaunchedAsPreviewed RepeatsHaveACause
PROPERTIES AssignmentIsKept
CHECK_DEADLOCK FALSE
