SPECIFICATION SchedSpec
CONSTANTS
    Runs = {r1, r2}
    Jobs = {j1}
    Ticks = {t1, t2}
    NoJob = NoJob
    NoTick = NoTick
    MaxMinute = 2
SYMMETRY Symmetry
CHECK_DEADLOCK FALSE
INVARIANTS DuplicateOnlyIfMoved ActivationRunsOrIsShadowed
