\* One run behind the queue, one executed inline, two workers that compete for
\* redeliveries of the first.  No symmetry, because liveness is checked.
SPECIFICATION FairSpec
CONSTANTS
    Runs = {r1, r2}
    InlineRuns = {r2}
    Workers = {w1, w2}
    NoRun = NoRun
    MaxRetry = 2
    MaxFaults = 2
CHECK_DEADLOCK FALSE
INVARIANTS ExecutedAtMostOnce NoSilentLoss
PROPERTIES ImplementsRunStatus TaskLeavesQueue RunSettles
