--------------------------- MODULE ScheduledRuns ---------------------------
(***************************************************************************)
(* Scheduled activations: knowledge:scheduled_tick handlers                *)
(* (JobService.ProcessScheduledTick) that insert runs, composed with what  *)
(* JobRuns makes of those runs, seen through RunStatus.  The two share     *)
(* job_runs: a tick looks for an earlier run of the minute by started_at,  *)
(* and a worker that claims a run sets started_at again.                   *)
(*                                                                         *)
(* Time is the UTC minute.  A tick takes time.Now() once, at its start;    *)
(* now() in SQL is the time at which the transaction began.  Every job     *)
(* here has an active trigger that fires every minute.                     *)
(***************************************************************************)
EXTENDS RunStatus, Naturals

CONSTANTS
    Jobs,       \* knowledge jobs with an active scheduled trigger
    Ticks,      \* deliveries of knowledge:scheduled_tick being handled
    NoJob,      \* the job of a row that is not inserted yet
    NoTick,     \* the holder of a free row lock
    MaxMinute   \* bound on the clock

ASSUME SchedulerAssumption ==
    /\ NoJob \notin Jobs
    /\ NoTick \notin Ticks
    /\ MaxMinute \in Nat

VARIABLES
    clock,      \* the current minute
    started,    \* started[r]: minute of job_runs.started_at
    tick,       \* tick[t]: local state of the handler
    rowLock,    \* rowLock[j]: holder of SELECT ... FOR UPDATE on the job
    origin,     \* history: origin[r] = the job and window r was inserted for
    served      \* history: <<job, window>> pairs a tick handled without error

schedVars == <<clock, started, tick, rowLock, origin, served>>
allVars == <<status, disputed, clock, started, tick, rowLock, origin, served>>

Minutes == 0..MaxMinute
TickSteps == {"idle", "loop", "lock", "check", "insert", "enqueue"}
TickStates == [at : TickSteps, window : Minutes, todo : SUBSET Jobs,
               job : Jobs \cup {NoJob}, begun : Minutes]
IdleTick == [at |-> "idle", window |-> 0, todo |-> {}, job |-> NoJob, begun |-> 0]
NoOrigin == [job |-> NoJob, window |-> 0]

SchedTypeOK ==
    /\ status \in [Runs -> Statuses]
    /\ disputed \in SUBSET Runs
    /\ clock \in Minutes
    /\ started \in [Runs -> Minutes]
    /\ tick \in [Ticks -> TickStates]
    /\ rowLock \in [Jobs -> Ticks \cup {NoTick}]
    /\ origin \in [Runs -> [job : Jobs \cup {NoJob}, window : Minutes]]
    /\ served \in SUBSET (Jobs \X Minutes)

SchedInit ==
    /\ Init
    /\ clock = 0
    /\ started = [r \in Runs |-> 0]
    /\ tick = [t \in Ticks |-> IdleTick]
    /\ rowLock = [j \in Jobs |-> NoTick]
    /\ origin = [r \in Runs |-> NoOrigin]
    /\ served = {}

-----------------------------------------------------------------------------
MinutePasses ==
    /\ clock < MaxMinute
    /\ clock' = clock + 1
    /\ UNCHANGED <<vars, started, tick, rowLock, origin, served>>

\* The handler starts: one now, one window and the triggers that fire in it.
TickStarts(t) ==
    /\ tick[t].at = "idle"
    /\ tick' = [tick EXCEPT ![t] =
          [at |-> "loop", window |-> clock, todo |-> Jobs, job |-> NoJob, begun |-> 0]]
    /\ UNCHANGED <<vars, clock, started, rowLock, origin, served>>

HandlerStep(t, at, todo, job, begun) == tick' = [tick EXCEPT ![t] =
    [at |-> at, window |-> tick[t].window, todo |-> todo, job |-> job, begun |-> begun]]
Goto(t, at) == HandlerStep(t, at, tick[t].todo, tick[t].job, tick[t].begun)

\* pool.Begin for the next trigger.
BeginTx(t, j) ==
    /\ tick[t].at = "loop"
    /\ j \in tick[t].todo
    /\ HandlerStep(t, "lock", tick[t].todo, j, clock)
    /\ UNCHANGED <<vars, clock, started, rowLock, origin, served>>

\* Mutant: the job is read without FOR UPDATE.
LockJobWithoutWait(t) ==
    /\ tick[t].at = "lock"
    /\ rowLock' = [rowLock EXCEPT ![tick[t].job] = t]
    /\ Goto(t, "check")
    /\ UNCHANGED <<vars, clock, started, origin, served>>

\* SELECT 1 FROM knowledge_jobs ... FOR UPDATE waits for the other holder.
LockJob(t) ==
    /\ tick[t].at = "lock"
    /\ rowLock[tick[t].job] = NoTick
    /\ rowLock' = [rowLock EXCEPT ![tick[t].job] = t]
    /\ Goto(t, "check")
    /\ UNCHANGED <<vars, clock, started, origin, served>>

\* Mutant: the query has no upper bound on started_at.
StartedSinceWindow(j, m) ==
    \E r \in Runs : origin[r].job = j /\ started[r] >= m

\* The EXISTS query: a scheduled run of j with started_at inside the window.
StartedInWindow(j, m) ==
    \E r \in Runs : origin[r].job = j /\ started[r] = m

NextTrigger(t) == HandlerStep(t, "loop", tick[t].todo \ {tick[t].job}, NoJob, 0)
Serve(t) == served' = served \cup {<<tick[t].job, tick[t].window>>}
Unlock(t) == rowLock' = [rowLock EXCEPT ![tick[t].job] = NoTick]

CheckWindow(t) ==
    /\ tick[t].at = "check"
    /\ IF StartedInWindow(tick[t].job, tick[t].window)
       THEN NextTrigger(t) /\ Unlock(t) /\ Serve(t)
       ELSE Goto(t, "insert") /\ UNCHANGED <<rowLock, served>>
    /\ UNCHANGED <<vars, clock, started, origin>>

\* INSERT and COMMIT: the row appears, queued or (no publisher) running, stamped
\* with the minute the transaction began.
InsertScheduled(t, r) ==
    /\ tick[t].at = "insert"
    /\ Insert(r)
    /\ started' = [started EXCEPT ![r] = tick[t].begun]
    /\ origin' = [origin EXCEPT ![r] = [job |-> tick[t].job, window |-> tick[t].window]]
    /\ Goto(t, "enqueue")
    /\ Unlock(t)
    /\ UNCHANGED <<clock, served>>

\* The enqueue (or the inline execution) returns nil: the next trigger; or an error,
\* which ends the loop.  What it writes to the run is a step of RunStatus.
EnqueueEnds(t) ==
    /\ tick[t].at = "enqueue"
    /\ \/ NextTrigger(t) /\ Serve(t)
       \/ tick' = [tick EXCEPT ![t] = IdleTick] /\ UNCHANGED served
    /\ UNCHANGED <<vars, clock, started, rowLock, origin>>

TickEnds(t) ==
    /\ tick[t].at = "loop"
    /\ tick[t].todo = {}
    /\ tick' = [tick EXCEPT ![t] = IdleTick]
    /\ UNCHANGED <<vars, clock, started, rowLock, origin, served>>

\* A statement of the transaction fails or the process stops before the commit:
\* rollback, and the rest of the triggers are left for another tick.
TickAborts(t) ==
    /\ tick[t].at \in {"loop", "lock", "check", "insert"}
    /\ tick' = [tick EXCEPT ![t] = IdleTick]
    /\ rowLock' = [j \in Jobs |-> IF rowLock[j] = t THEN NoTick ELSE rowLock[j]]
    /\ UNCHANGED <<vars, clock, started, origin, served>>

TickNext(t) ==
    \/ TickStarts(t) \/ LockJob(t) \/ CheckWindow(t) \/ EnqueueEnds(t)
    \/ TickEnds(t) \/ TickAborts(t)
    \/ \E j \in Jobs : BeginTx(t, j)
    \/ \E r \in Runs : InsertScheduled(t, r)

\* The UPDATE of ProcessQueuedRun that claims a queued run sets started_at=now() too.
ClaimRestamps(r) ==
    /\ Claim(r)
    /\ started' = [started EXCEPT ![r] = clock]
    /\ UNCHANGED <<clock, tick, rowLock, origin, served>>

\* Every other write to a run leaves started_at alone.
RunEnds(r) ==
    /\ Settle(r) \/ Dispute(r) \/ Overwrite(r)
    /\ UNCHANGED schedVars

SchedNext ==
    \/ MinutePasses
    \/ \E t \in Ticks : TickNext(t)
    \/ \E r \in Runs : ClaimRestamps(r) \/ RunEnds(r)

SchedSpec == SchedInit /\ [][SchedNext]_allVars

-----------------------------------------------------------------------------
Inserted == {r \in Runs : origin[r].job # NoJob}

\* What the code keeps of it, thanks to the row lock: of two runs inserted for
\* one job and one window, one has a started_at that left the window.
DuplicateOnlyIfMoved == \A r, q \in Inserted :
    origin[r] = origin[q] /\ r # q =>
        started[r] > origin[r].window \/ started[q] > origin[q].window

\* What the code keeps of a run for every activation (knowledge-jobs-engine.md, section on
\* scheduled triggers): one that got none of its own was shadowed by
\* a run of an earlier window whose started_at moved past it.
ActivationRunsOrIsShadowed == \A s \in served :
    \E r \in Inserted :
        origin[r].job = s[1] /\ origin[r].window <= s[2] /\ s[2] <= started[r]

\* Why: what time, the row lock and the check of the window guarantee together.
TickTime(t) ==
    /\ tick[t].window <= clock /\ tick[t].begun <= clock
    /\ tick[t].at \in {"lock", "check", "insert"} => tick[t].window <= tick[t].begun
    /\ tick[t].at \in {"lock", "check", "insert", "enqueue"} => tick[t].job \in Jobs

TimeInv ==
    /\ \A r \in Runs : origin[r].job = NoJob <=> status[r] = "absent"
    /\ \A r \in Inserted : origin[r].window <= started[r] /\ started[r] <= clock
    /\ \A t \in Ticks : TickTime(t)

RunsOf(t) == {r \in Inserted : origin[r] = [job |-> tick[t].job, window |-> tick[t].window]}

TickLock(t) ==
    /\ tick[t].at \in {"check", "insert"} => rowLock[tick[t].job] = t
    /\ tick[t].at = "insert" => \A r \in RunsOf(t) : started[r] > tick[t].window
    /\ tick[t].at = "enqueue" => RunsOf(t) # {}

LockInv == \A t \in Ticks : TickLock(t)

SchedInv == TimeInv /\ LockInv /\ DuplicateOnlyIfMoved /\ ActivationRunsOrIsShadowed
=============================================================================
