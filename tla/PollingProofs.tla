--------------------------- MODULE PollingProofs ---------------------------
(***************************************************************************)
(* What the platform does by the clock and on its own: the tick that turns *)
(* triggers into runs, and the syncs that poll a source feed.  They meet   *)
(* in no variable.                                                         *)
(*                                                                         *)
(* ScheduledRuns: for any number of jobs, runs, ticks and minutes, a       *)
(* second run of one activation, and an activation without a run, both     *)
(* need a started_at that left its window.  The invariant is SchedTypeOK   *)
(* /\ SchedInv.  Its heart is LockInv: from the check to the INSERT a tick *)
(* holds the job's row lock, so no other tick inserts for that job in      *)
(* between; and since started_at only ever grows (TimeInv), what the check *)
(* excluded stays excluded.                                                *)
(*                                                                         *)
(* FeedSync: for every adapter, any number of items, edits and concurrent  *)
(* sync requests, what became of every raw row, of everything the saved    *)
(* cursor has passed, and of sync_status.  FeedInv says what a sync holds  *)
(* at each step (StageInv), that a cursor and a page know posted items     *)
(* only (PostedInv), whose the raw rows without records are (OrphanInv),   *)
(* that a quiet sync left a raw row for all it is done with (PassedInv),   *)
(* what a sync with a cursor may have missed below its newest item         *)
(* (ListedInv), and CursorCovers also for the cursors that syncs read at   *)
(* their start (CoverInv).                                                 *)
(***************************************************************************)
EXTENDS ScheduledRuns, FeedSync, FiniteSetTheorems, WellFoundedInduction, TLAPS

-----------------------------------------------------------------------------
(* ScheduledRuns.                                                           *)

Inv == SchedTypeOK /\ SchedInv

LEMMA InitInv == SchedInit => Inv
BY SchedulerAssumption
   DEF SchedInit, Init, Inv, SchedTypeOK, SchedInv, TimeInv, LockInv, DuplicateOnlyIfMoved,
       ActivationRunsOrIsShadowed, TickTime, TickLock, RunsOf, Inserted, Minutes, TickStates, TickSteps, IdleTick, NoOrigin, Statuses

-----------------------------------------------------------------------------
(* What a step of one tick keeps of the invariant, when it touches no run.  *)

Others(t) == \A s \in Ticks \ {t} : tick'[s] = tick[s]

\* Replacing one tick's local state by another of its type.
LEMMA TickKept ==
    ASSUME SchedTypeOK, NEW t \in Ticks, NEW x \in TickStates, tick' = [tick EXCEPT ![t] = x]
    PROVE  tick' \in [Ticks -> TickStates] /\ Others(t) /\ tick'[t] = x
BY DEF SchedTypeOK, Others

\* The fields of a tick's local state.
LEMMA TickFields ==
    ASSUME SchedTypeOK, NEW t \in Ticks
    PROVE  /\ tick[t].at \in TickSteps /\ tick[t].window \in Minutes /\ tick[t].begun \in Minutes
           /\ tick[t].todo \in SUBSET Jobs /\ tick[t].job \in Jobs \cup {NoJob}
BY DEF SchedTypeOK, TickStates

\* The clock and the runs unchanged, only the moving tick's own times matter.
LEMMA TimeKept ==
    ASSUME Inv, NEW t \in Ticks, UNCHANGED <<status, clock, started, origin>>, Others(t), TickTime(t)'
    PROVE  TimeInv'
<1>1. \A s \in Ticks : TickTime(s)'
  BY DEF Inv, SchedInv, TimeInv, TickTime, Others
<1> QED BY <1>1 DEF Inv, SchedInv, TimeInv, Inserted

\* A tick that takes or gives back no lock but its own does not disturb another.
LEMMA LockKept ==
    ASSUME Inv, NEW t \in Ticks, UNCHANGED <<started, origin>>, Others(t), TickLock(t)',
           \A j \in Jobs : rowLock[j] \notin {NoTick, t} => rowLock'[j] = rowLock[j]
    PROVE  LockInv'
<1> SUFFICES ASSUME NEW s \in Ticks \ {t} PROVE TickLock(s)'
  BY DEF LockInv
<1>1. tick'[s] = tick[s] /\ RunsOf(s)' = RunsOf(s)
  BY DEF Others, RunsOf, Inserted
<1>2. tick[s].at \in {"check", "insert"} => rowLock[tick[s].job] = s /\ tick[s].job \in Jobs
  BY DEF Inv, SchedInv, TimeInv, TickTime, LockInv, TickLock
<1> QED BY <1>1, <1>2, SchedulerAssumption DEF Inv, SchedInv, LockInv, TickLock

\* Nothing that is said of runs and activations changes.
LEMMA RunsKept ==
    ASSUME Inv, UNCHANGED <<started, origin, served>>
    PROVE  DuplicateOnlyIfMoved' /\ ActivationRunsOrIsShadowed'
BY DEF Inv, SchedInv, DuplicateOnlyIfMoved, ActivationRunsOrIsShadowed, Inserted

-----------------------------------------------------------------------------
(* One lemma per kind of step.                                             *)

\* The clock moves on and nothing else does.
LEMMA ClockStep == Inv /\ MinutePasses => Inv'
<1> SUFFICES ASSUME Inv, MinutePasses PROVE Inv' OBVIOUS
<1>1. SchedTypeOK'
  BY SchedulerAssumption DEF Inv, SchedTypeOK, MinutePasses, vars, Minutes
<1>2. TimeInv'
  <2>1. \A t \in Ticks : TickTime(t)'
    <3> SUFFICES ASSUME NEW t \in Ticks PROVE TickTime(t)' OBVIOUS
    <3>1. TickTime(t) /\ tick[t].window \in Nat /\ tick[t].begun \in Nat /\ clock \in Nat
      BY TickFields, SchedulerAssumption DEF Inv, SchedTypeOK, SchedInv, TimeInv, Minutes
    <3> QED BY <3>1 DEF TickTime, MinutePasses
  <2> QED BY <2>1, SchedulerAssumption DEF Inv, SchedTypeOK, SchedInv, TimeInv, MinutePasses, vars,
          Inserted, Minutes
<1>3. LockInv'
  BY DEF Inv, SchedInv, LockInv, TickLock, RunsOf, Inserted, MinutePasses
<1>4. DuplicateOnlyIfMoved' /\ ActivationRunsOrIsShadowed'
  BY RunsKept DEF MinutePasses
<1> QED BY <1>1, <1>2, <1>3, <1>4 DEF Inv, SchedInv

\* A tick starts: one minute for all of its triggers.
LEMMA StartStep ==
    ASSUME Inv, NEW t \in Ticks, TickStarts(t)
    PROVE  Inv'
<1> DEFINE x == [at |-> "loop", window |-> clock, todo |-> Jobs, job |-> NoJob, begun |-> 0]
<1>1. x \in TickStates
  BY SchedulerAssumption DEF Inv, SchedTypeOK, TickStates, TickSteps, Minutes
<1>2. tick' \in [Ticks -> TickStates] /\ Others(t) /\ tick'[t] = x
  BY <1>1, TickKept DEF Inv, TickStarts
<1>3. SchedTypeOK'
  BY <1>2 DEF Inv, SchedTypeOK, TickStarts, vars
<1>4. TickTime(t)' /\ TickLock(t)'
  BY <1>2, SchedulerAssumption DEF Inv, SchedTypeOK, TickStarts, TickTime, TickLock, Minutes
<1>5. TimeInv' BY <1>2, <1>4, TimeKept DEF TickStarts, vars
<1>6. LockInv' BY <1>2, <1>4, LockKept DEF TickStarts
<1> QED BY <1>3, <1>5, <1>6, RunsKept DEF Inv, SchedInv, TickStarts

\* A transaction begins no earlier than the tick's window.
LEMMA BeginStep ==
    ASSUME Inv, NEW t \in Ticks, NEW j \in Jobs, BeginTx(t, j)
    PROVE  Inv'
<1> DEFINE x == [at |-> "lock", window |-> tick[t].window, todo |-> tick[t].todo,
                 job |-> j, begun |-> clock]
<1>1. x \in TickStates
  BY TickFields DEF Inv, SchedTypeOK, TickStates, TickSteps
<1>2. tick' = [tick EXCEPT ![t] = x]
  BY DEF BeginTx, HandlerStep
<1>3. tick' \in [Ticks -> TickStates] /\ Others(t) /\ tick'[t] = x
  BY <1>1, <1>2, TickKept DEF Inv
<1>4. SchedTypeOK'
  BY <1>3 DEF Inv, SchedTypeOK, BeginTx, vars
<1>5. tick[t].window <= clock /\ clock <= clock
  BY DEF Inv, SchedTypeOK, SchedInv, TimeInv, TickTime, Minutes
<1>6. TickTime(t)' /\ TickLock(t)'
  BY <1>3, <1>5 DEF BeginTx, TickTime, TickLock
<1>7. TimeInv' BY <1>3, <1>6, TimeKept DEF BeginTx, vars
<1>8. LockInv' BY <1>3, <1>6, LockKept DEF BeginTx
<1> QED BY <1>4, <1>7, <1>8, RunsKept DEF Inv, SchedInv, BeginTx

\* A tick that ends, or whose enqueue fails, holds no lock.
LEMMA EndStep ==
    ASSUME Inv, NEW t \in Ticks, tick' = [tick EXCEPT ![t] = IdleTick],
           UNCHANGED <<vars, clock, started, origin, served>>,
           \A j \in Jobs : rowLock[j] \notin {NoTick, t} => rowLock'[j] = rowLock[j],
           rowLock' \in [Jobs -> Ticks \cup {NoTick}]
    PROVE  Inv'
<1>1. IdleTick \in TickStates
  BY SchedulerAssumption DEF IdleTick, TickStates, TickSteps, Minutes
<1>2. tick' \in [Ticks -> TickStates] /\ Others(t) /\ tick'[t] = IdleTick
  BY <1>1, TickKept DEF Inv
<1>3. SchedTypeOK'
  BY <1>2 DEF Inv, SchedTypeOK, vars
<1>4. 0 <= clock
  BY SchedulerAssumption DEF Inv, SchedTypeOK, Minutes
<1>5. TickTime(t)' /\ TickLock(t)'
  BY <1>2, <1>4 DEF IdleTick, TickTime, TickLock
<1>6. TimeInv' BY <1>2, <1>5, TimeKept DEF vars
<1>7. LockInv' BY <1>2, <1>5, LockKept
<1> QED BY <1>3, <1>6, <1>7, RunsKept DEF Inv, SchedInv

\* The row lock is granted only when nobody holds it.
LEMMA LockStep ==
    ASSUME Inv, NEW t \in Ticks, LockJob(t)
    PROVE  Inv'
<1> DEFINE x == [at |-> "check", window |-> tick[t].window, todo |-> tick[t].todo,
                 job |-> tick[t].job, begun |-> tick[t].begun]
<1>1. x \in TickStates
  BY TickFields DEF Inv, TickStates, TickSteps
<1>2. tick' = [tick EXCEPT ![t] = x]
  BY DEF LockJob, Goto, HandlerStep
<1>3. tick' \in [Ticks -> TickStates] /\ Others(t) /\ tick'[t] = x
  BY <1>1, <1>2, TickKept DEF Inv
<1>4. SchedTypeOK'
  BY <1>3 DEF Inv, SchedTypeOK, LockJob, vars
<1>5. tick[t].job \in Jobs
  BY DEF Inv, SchedInv, TimeInv, TickTime, LockJob
<1>6. TickTime(t)'
  BY <1>3 DEF Inv, SchedInv, TimeInv, TickTime, LockJob
<1>7. TickLock(t)'
  BY <1>3, <1>5 DEF Inv, SchedTypeOK, TickLock, LockJob
<1>8. TimeInv' BY <1>3, <1>6, TimeKept DEF LockJob, vars
<1>9. \A j \in Jobs : rowLock[j] \notin {NoTick, t} => rowLock'[j] = rowLock[j]
  BY <1>5 DEF Inv, SchedTypeOK, LockJob
<1>10. LockInv' BY <1>3, <1>7, <1>9, LockKept DEF LockJob
<1> QED BY <1>4, <1>8, <1>10, RunsKept DEF Inv, SchedInv, LockJob

\* Moving on to the next trigger.
LEMMA NextTriggerType ==
    ASSUME SchedTypeOK, NEW t \in Ticks, NextTrigger(t)
    PROVE  tick' \in [Ticks -> TickStates] /\ Others(t) /\ tick'[t].at = "loop" /\ tick'[t].begun = 0
           /\ tick'[t].window = tick[t].window
<1> DEFINE x == [at |-> "loop", window |-> tick[t].window, todo |-> tick[t].todo \ {tick[t].job},
                 job |-> NoJob, begun |-> 0]
<1>1. x \in TickStates
  <2>1. tick[t].todo \ {tick[t].job} \in SUBSET Jobs /\ 0 \in Minutes
    BY TickFields, SchedulerAssumption DEF Minutes
  <2> QED BY <2>1, TickFields DEF TickStates, TickSteps
<1>2. tick' = [tick EXCEPT ![t] = x]
  BY DEF NextTrigger, HandlerStep
<1> QED BY <1>1, <1>2, TickKept

\* The check either finds a run stamped with the window, which shadows the
\* activation, or learns that every run of this activation is stamped later.
LEMMA CheckStep ==
    ASSUME Inv, NEW t \in Ticks, CheckWindow(t)
    PROVE  Inv'
<1>1. tick[t].job \in Jobs /\ rowLock[tick[t].job] = t /\ tick[t].window \in Minutes
  BY TickFields DEF Inv, SchedInv, TimeInv, TickTime, LockInv, TickLock, CheckWindow
<1>2. CASE StartedInWindow(tick[t].job, tick[t].window)
  <2>1. PICK r \in Runs : origin[r].job = tick[t].job /\ started[r] = tick[t].window
    BY <1>2 DEF StartedInWindow
  <2>2. r \in Inserted /\ origin[r].window <= started[r]
    BY <1>1, <2>1, SchedulerAssumption DEF Inv, SchedInv, TimeInv, Inserted
  <2>3. NextTrigger(t) /\ Unlock(t) /\ Serve(t) /\ UNCHANGED <<status, disputed, clock, started, origin>>
    BY <1>2 DEF CheckWindow, vars
  <2>4. SchedTypeOK' /\ Others(t) /\ tick'[t].at = "loop" /\ tick'[t].begun = 0
        /\ tick'[t].window = tick[t].window
    BY <1>1, <2>3, NextTriggerType DEF Inv, SchedTypeOK, Unlock, Serve
  <2>5. TickTime(t)' /\ TickLock(t)'
    BY <2>3, <2>4, SchedulerAssumption DEF Inv, SchedTypeOK, SchedInv, TimeInv, TickTime, TickLock, Minutes
  <2>6. TimeInv' BY <2>3, <2>4, <2>5, TimeKept
  <2>7. \A j \in Jobs : rowLock[j] \notin {NoTick, t} => rowLock'[j] = rowLock[j]
    BY <1>1, <2>3 DEF Inv, SchedTypeOK, Unlock
  <2>8. LockInv' BY <2>3, <2>4, <2>5, <2>7, LockKept
  <2>9. DuplicateOnlyIfMoved'
    BY <2>3 DEF Inv, SchedInv, DuplicateOnlyIfMoved, Inserted
  <2>10. ActivationRunsOrIsShadowed'
    <3>1. started[r] <= started[r]
      BY <1>1, <2>1 DEF Minutes
    <3> QED BY <2>1, <2>2, <2>3, <3>1 DEF Inv, SchedInv, ActivationRunsOrIsShadowed, Serve, Inserted
  <2> QED BY <2>4, <2>6, <2>8, <2>9, <2>10 DEF Inv, SchedInv
<1>3. CASE ~StartedInWindow(tick[t].job, tick[t].window)
  <2> DEFINE x == [at |-> "insert", window |-> tick[t].window, todo |-> tick[t].todo,
                   job |-> tick[t].job, begun |-> tick[t].begun]
  <2>1. x \in TickStates
    BY TickFields DEF Inv, TickStates, TickSteps
  <2>2. tick' = [tick EXCEPT ![t] = x]
    BY <1>3 DEF CheckWindow, Goto, HandlerStep
  <2>3. tick' \in [Ticks -> TickStates] /\ Others(t) /\ tick'[t] = x
    BY <2>1, <2>2, TickKept DEF Inv
  <2>4. SchedTypeOK'
    BY <1>3, <2>3 DEF Inv, SchedTypeOK, CheckWindow, vars
  <2>5. TickTime(t)'
    BY <2>3 DEF Inv, SchedInv, TimeInv, TickTime, CheckWindow
  <2>6. ASSUME NEW q \in RunsOf(t) PROVE started[q] > tick[t].window
    <3>1. q \in Runs /\ origin[q].job = tick[t].job /\ origin[q].window = tick[t].window /\ q \in Inserted
      BY DEF RunsOf, Inserted
    <3>2. started[q] # tick[t].window
      BY <1>3, <3>1 DEF StartedInWindow
    <3>3. tick[t].window <= started[q] /\ started[q] \in Minutes
      BY <3>1 DEF Inv, SchedTypeOK, SchedInv, TimeInv
    <3> QED BY <1>1, <3>2, <3>3 DEF Minutes
  <2>7. TickLock(t)'
    <3>1. RunsOf(t)' = RunsOf(t) /\ UNCHANGED <<started, rowLock>>
      BY <1>3, <2>3 DEF RunsOf, Inserted, CheckWindow
    <3> QED BY <1>1, <2>3, <2>6, <3>1 DEF TickLock
  <2>8. TimeInv' BY <2>3, <2>5, TimeKept DEF CheckWindow, vars
  <2>9. LockInv' BY <1>3, <2>3, <2>7, LockKept DEF CheckWindow
  <2> QED BY <1>3, <2>4, <2>8, <2>9, RunsKept DEF Inv, SchedInv, CheckWindow
<1> QED BY <1>2, <1>3

\* The INSERT: by LockInv every earlier run of the activation is stamped later,
\* and no other tick is between its own check and INSERT for this job.
LEMMA InsertStep ==
    ASSUME Inv, NEW t \in Ticks, NEW r \in Runs, InsertScheduled(t, r)
    PROVE  Inv'
<1> DEFINE o == [job |-> tick[t].job, window |-> tick[t].window]
           x == [at |-> "enqueue", window |-> tick[t].window, todo |-> tick[t].todo,
                 job |-> tick[t].job, begun |-> tick[t].begun]
<1>1. /\ tick[t].job \in Jobs /\ rowLock[tick[t].job] = t
      /\ tick[t].window <= tick[t].begun /\ tick[t].begun <= clock
      /\ \A q \in RunsOf(t) : started[q] > tick[t].window
  BY DEF Inv, SchedInv, TimeInv, TickTime, LockInv, TickLock, InsertScheduled
<1>2. x \in TickStates
  BY TickFields DEF Inv, TickStates, TickSteps
<1>3. tick' \in [Ticks -> TickStates] /\ Others(t) /\ tick'[t] = x
  BY <1>2, TickKept DEF Inv, InsertScheduled, Goto, HandlerStep
<1>4. PICK st \in {"queued", "running"} :
        status[r] = "absent" /\ status' = [status EXCEPT ![r] = st] /\ UNCHANGED disputed
  BY DEF InsertScheduled, Insert, Move
<1>5. /\ r \notin Inserted
      /\ Inserted' = Inserted \cup {r}
      /\ origin'[r] = o /\ started'[r] = tick[t].begun
      /\ \A q \in Inserted : origin'[q] = origin[q] /\ started'[q] = started[q]
      /\ \A q \in Inserted' \ {r} : q \in Inserted
  BY <1>1, <1>4, SchedulerAssumption
  DEF Inv, SchedTypeOK, SchedInv, TimeInv, InsertScheduled, Inserted
<1>6. SchedTypeOK'
  <2>1. o \in [job : Jobs \cup {NoJob}, window : Minutes]
    BY <1>1, TickFields DEF Inv
  <2>2. origin' \in [Runs -> [job : Jobs \cup {NoJob}, window : Minutes]]
    BY <2>1 DEF Inv, SchedTypeOK, InsertScheduled
  <2>3. started' \in [Runs -> Minutes] /\ status' \in [Runs -> Statuses]
    BY <1>4, TickFields DEF Inv, SchedTypeOK, InsertScheduled, Statuses
  <2> QED BY <1>3, <1>4, <2>2, <2>3 DEF Inv, SchedTypeOK, InsertScheduled, Unlock
<1>7. TimeInv'
  <2>1. \A q \in Runs : (origin[q].job = NoJob <=> status[q] = "absent")'
    BY <1>1, <1>4, <1>5, SchedulerAssumption DEF Inv, SchedTypeOK, SchedInv, TimeInv, InsertScheduled
  <2>2. \A q \in Inserted' : (origin[q].window <= started[q] /\ started[q] <= clock)'
    BY <1>1, <1>5 DEF Inv, SchedInv, TimeInv, InsertScheduled
  <2>3. \A s \in Ticks : TickTime(s)'
    BY <1>1, <1>3 DEF Inv, SchedInv, TimeInv, TickTime, Others, InsertScheduled
  <2> QED BY <2>1, <2>2, <2>3 DEF TimeInv
<1>8. LockInv'
  <2> SUFFICES ASSUME NEW s \in Ticks PROVE TickLock(s)'
    BY DEF LockInv
  <2>1. CASE s = t
    <3>1. r \in RunsOf(s)'
      BY <1>3, <1>5, <2>1 DEF RunsOf
    <3> QED BY <1>3, <2>1, <3>1 DEF TickLock
  <2>2. CASE s # t
    <3>1. tick'[s] = tick[s] /\ TickLock(s)
      BY <1>3, <2>2 DEF Inv, SchedInv, LockInv, Others
    <3>2. tick[s].at \in {"check", "insert"} =>
            tick[s].job \in Jobs /\ tick[s].job # tick[t].job /\ rowLock'[tick[s].job] = s
      BY <1>1, <2>2, <3>1 DEF Inv, SchedTypeOK, SchedInv, TimeInv, TickTime, TickLock, InsertScheduled, Unlock
    <3>3. RunsOf(s) \subseteq RunsOf(s)'
      BY <1>5, <3>1 DEF RunsOf
    <3>4. tick[s].at = "insert" => RunsOf(s)' \subseteq RunsOf(s)
      <4> SUFFICES ASSUME tick[s].at = "insert", NEW q \in RunsOf(s)' PROVE q \in RunsOf(s)
        OBVIOUS
      <4>1. q \in Inserted' /\ origin'[q].job = tick[s].job
               /\ origin'[q] = [job |-> tick[s].job, window |-> tick[s].window]
        BY <3>1 DEF RunsOf
      <4>2. q # r
        BY <1>5, <3>2, <4>1
      <4> QED BY <1>5, <4>1, <4>2 DEF RunsOf
    <3>5. \A q \in RunsOf(s) : started'[q] = started[q]
      BY <1>5 DEF RunsOf
    <3> QED BY <3>1, <3>2, <3>3, <3>4, <3>5 DEF TickLock
  <2> QED BY <2>1, <2>2
<1>9. DuplicateOnlyIfMoved'
  <2> SUFFICES ASSUME NEW p \in Inserted', NEW q \in Inserted', origin'[p] = origin'[q], p # q
               PROVE  started'[p] > origin'[p].window \/ started'[q] > origin'[q].window
    BY DEF DuplicateOnlyIfMoved
  <2>1. \A u \in Inserted : origin[u] = o => started[u] > origin[u].window
    BY <1>1 DEF RunsOf
  <2>2. CASE p = r
    BY <1>5, <2>1, <2>2
  <2>3. CASE q = r
    BY <1>5, <2>1, <2>3
  <2>4. CASE p # r /\ q # r
    BY <1>5, <2>4 DEF Inv, SchedInv, DuplicateOnlyIfMoved
  <2> QED BY <2>2, <2>3, <2>4
<1>10. ActivationRunsOrIsShadowed'
  BY <1>5 DEF Inv, SchedInv, ActivationRunsOrIsShadowed, InsertScheduled
<1> QED BY <1>6, <1>7, <1>8, <1>9, <1>10 DEF Inv, SchedInv

\* The enqueue: the activation is served by the run that was just inserted for it.
LEMMA EnqueueStep ==
    ASSUME Inv, NEW t \in Ticks, EnqueueEnds(t)
    PROVE  Inv'
<1>1. CASE tick' = [tick EXCEPT ![t] = IdleTick] /\ UNCHANGED served
  BY <1>1, EndStep DEF EnqueueEnds, Inv, SchedTypeOK
<1>2. CASE NextTrigger(t) /\ Serve(t)
  <2>1. PICK r \in Inserted : origin[r] = [job |-> tick[t].job, window |-> tick[t].window]
    BY DEF Inv, SchedInv, LockInv, TickLock, RunsOf, EnqueueEnds
  <2>2. tick[t].job \in Jobs /\ origin[r].window <= started[r] /\ tick[t].window <= clock
    BY <2>1 DEF Inv, SchedInv, TimeInv, TickTime, EnqueueEnds
  <2>3. /\ tick' \in [Ticks -> TickStates] /\ Others(t) /\ tick'[t].at = "loop" /\ tick'[t].begun = 0
        /\ tick'[t].window = tick[t].window
    BY <1>2, NextTriggerType DEF Inv
  <2>4. SchedTypeOK'
    BY <1>2, <2>2, <2>3, TickFields DEF Inv, SchedTypeOK, EnqueueEnds, Serve, vars
  <2>5. TickTime(t)' /\ TickLock(t)'
    BY <2>2, <2>3, SchedulerAssumption DEF Inv, SchedTypeOK, TickTime, TickLock, EnqueueEnds, Minutes
  <2>6. TimeInv' BY <2>3, <2>5, TimeKept DEF EnqueueEnds, vars
  <2>7. LockInv' BY <2>3, <2>5, LockKept DEF EnqueueEnds
  <2>8. DuplicateOnlyIfMoved'
    BY DEF Inv, SchedInv, DuplicateOnlyIfMoved, EnqueueEnds, Inserted
  <2>9. ActivationRunsOrIsShadowed'
    <3>1. tick[t].window <= tick[t].window
      BY TickFields, SchedulerAssumption DEF Inv, Minutes
    <3> QED BY <1>2, <2>1, <2>2, <3>1
            DEF Inv, SchedInv, ActivationRunsOrIsShadowed, EnqueueEnds, Serve, Inserted
  <2> QED BY <2>4, <2>6, <2>7, <2>8, <2>9 DEF Inv, SchedInv
<1> QED BY <1>1, <1>2 DEF EnqueueEnds

\* A tick that rolls back frees its own lock only.
LEMMA AbortStep ==
    ASSUME Inv, NEW t \in Ticks, TickAborts(t)
    PROVE  Inv'
BY EndStep DEF TickAborts, Inv, SchedTypeOK

\* A tick that is done with its triggers.
LEMMA FinishStep ==
    ASSUME Inv, NEW t \in Ticks, TickEnds(t)
    PROVE  Inv'
BY EndStep DEF TickEnds, Inv, SchedTypeOK

\* A claim stamps the run with the present, which is never before its old stamp:
\* what was past the window stays past it.
LEMMA ClaimStep ==
    ASSUME Inv, NEW r \in Runs, ClaimRestamps(r)
    PROVE  Inv'
<1>1. status[r] = "queued" /\ status' = [status EXCEPT ![r] = "running"] /\ UNCHANGED disputed
  BY DEF ClaimRestamps, Claim, Move
<1>2. r \in Inserted /\ Inserted' = Inserted /\ clock \in Minutes
  BY <1>1 DEF Inv, SchedTypeOK, SchedInv, TimeInv, ClaimRestamps, Inserted
<1>3. /\ started' \in [Runs -> Minutes]
      /\ started'[r] = clock
      /\ \A q \in Runs : started[q] \in Nat /\ started'[q] \in Nat
      /\ \A q \in Inserted : started[q] <= started'[q] /\ started'[q] <= clock /\ origin[q].window \in Nat
  BY <1>2, SchedulerAssumption DEF Inv, SchedTypeOK, SchedInv, TimeInv, ClaimRestamps, Inserted, Minutes
<1>4. SchedTypeOK'
  BY <1>1, <1>3 DEF Inv, SchedTypeOK, ClaimRestamps, Statuses
<1>5. TimeInv'
  <2>1. \A q \in Inserted : started[q] \in Nat /\ origin[q].window <= started[q] /\ clock \in Nat
    BY <1>2, SchedulerAssumption DEF Inv, SchedTypeOK, SchedInv, TimeInv, Inserted, Minutes
  <2>2. \A q \in Inserted' : (origin[q].window <= started[q] /\ started[q] <= clock)'
    BY <1>2, <1>3, <2>1 DEF ClaimRestamps
  <2>3. \A q \in Runs : (origin[q].job = NoJob <=> status[q] = "absent")'
    BY <1>1 DEF Inv, SchedTypeOK, SchedInv, TimeInv, ClaimRestamps
  <2>4. \A s \in Ticks : TickTime(s)'
    BY DEF Inv, SchedInv, TimeInv, TickTime, ClaimRestamps
  <2> QED BY <2>2, <2>3, <2>4 DEF TimeInv
<1>6. LockInv'
  <2> SUFFICES ASSUME NEW s \in Ticks PROVE TickLock(s)'
    BY DEF LockInv
  <2>1. RunsOf(s)' = RunsOf(s) /\ tick[s].window \in Nat /\ TickLock(s)
    BY <1>2, TickFields, SchedulerAssumption DEF Inv, SchedInv, LockInv, RunsOf, ClaimRestamps, Minutes
  <2>2. \A q \in RunsOf(s) : started[q] > tick[s].window => started'[q] > tick[s].window
    <3> SUFFICES ASSUME NEW q \in RunsOf(s), started[q] > tick[s].window
                 PROVE  started'[q] > tick[s].window
      OBVIOUS
    <3>1. q \in Inserted /\ q \in Runs
      BY DEF RunsOf, Inserted
    <3> QED BY <1>3, <2>1, <3>1
  <2> QED BY <2>1, <2>2 DEF TickLock, ClaimRestamps
<1>7. DuplicateOnlyIfMoved'
  <2> SUFFICES ASSUME NEW p \in Inserted, NEW q \in Inserted, origin[p] = origin[q], p # q
               PROVE  started'[p] > origin[p].window \/ started'[q] > origin[q].window
    BY <1>2 DEF DuplicateOnlyIfMoved, ClaimRestamps
  <2>1. started[p] > origin[p].window \/ started[q] > origin[q].window
    BY DEF Inv, SchedInv, DuplicateOnlyIfMoved
  <2>2. p \in Runs /\ q \in Runs
    BY DEF Inserted
  <2> QED BY <1>3, <2>1, <2>2
<1>8. ActivationRunsOrIsShadowed'
  <2> SUFFICES ASSUME NEW s \in served
               PROVE  \E q \in Inserted : origin[q].job = s[1] /\ origin[q].window <= s[2] /\ s[2] <= started'[q]
    BY <1>2 DEF ActivationRunsOrIsShadowed, ClaimRestamps
  <2>1. PICK q \in Inserted : origin[q].job = s[1] /\ origin[q].window <= s[2] /\ s[2] <= started[q]
    BY DEF Inv, SchedInv, ActivationRunsOrIsShadowed
  <2>2. s[2] \in Nat /\ q \in Runs
    BY SchedulerAssumption DEF Inv, SchedTypeOK, Minutes, Inserted
  <2>3. s[2] <= started'[q]
    BY <1>3, <2>1, <2>2
  <2> QED BY <2>1, <2>3
<1> QED BY <1>4, <1>5, <1>6, <1>7, <1>8 DEF Inv, SchedInv

\* The other writes to a run do not touch started_at, nor make it absent again.
LEMMA RunEndsStep ==
    ASSUME Inv, NEW r \in Runs, RunEnds(r)
    PROVE  Inv'
<1>1. status' \in [Runs -> Statuses] /\ disputed' \in SUBSET Runs
      /\ \A q \in Runs : status'[q] = "absent" <=> status[q] = "absent"
  BY DEF Inv, SchedTypeOK, RunEnds, Settle, Dispute, Overwrite, Move, Statuses, Terminal
<1>2. SchedTypeOK'
  BY <1>1 DEF Inv, SchedTypeOK, RunEnds, schedVars
<1>3. TimeInv'
  BY <1>1 DEF Inv, SchedInv, TimeInv, TickTime, Inserted, RunEnds, schedVars
<1>4. LockInv'
  BY DEF Inv, SchedInv, LockInv, TickLock, RunsOf, Inserted, RunEnds, schedVars
<1> QED BY <1>2, <1>3, <1>4, RunsKept DEF Inv, SchedInv, RunEnds, schedVars

-----------------------------------------------------------------------------

\* Every step of the ticks, the clock and the runs keeps the invariant.
LEMMA Step == Inv /\ [SchedNext]_allVars => Inv'
<1> SUFFICES ASSUME Inv, [SchedNext]_allVars PROVE Inv' OBVIOUS
<1>1. CASE MinutePasses
  BY <1>1, ClockStep
<1>2. ASSUME NEW t \in Ticks, TickNext(t) PROVE Inv'
  <2>1. CASE TickStarts(t) BY <2>1, StartStep
  <2>2. CASE LockJob(t) BY <2>2, LockStep
  <2>3. CASE CheckWindow(t) BY <2>3, CheckStep
  <2>4. CASE EnqueueEnds(t) BY <2>4, EnqueueStep
  <2>5. CASE TickEnds(t) BY <2>5, FinishStep
  <2>6. CASE TickAborts(t) BY <2>6, AbortStep
  <2>7. CASE \E j \in Jobs : BeginTx(t, j) BY <2>7, BeginStep
  <2>8. CASE \E r \in Runs : InsertScheduled(t, r) BY <2>8, InsertStep
  <2> QED BY <1>2, <2>1, <2>2, <2>3, <2>4, <2>5, <2>6, <2>7, <2>8 DEF TickNext
<1>3. ASSUME NEW r \in Runs, ClaimRestamps(r) \/ RunEnds(r) PROVE Inv'
  BY <1>3, ClaimStep, RunEndsStep
<1>4. CASE UNCHANGED allVars
  BY <1>4 DEF allVars, Inv, SchedTypeOK, SchedInv, TimeInv, TickTime, LockInv, TickLock, RunsOf,
              DuplicateOnlyIfMoved, ActivationRunsOrIsShadowed, Inserted
<1> QED BY <1>1, <1>2, <1>3, <1>4 DEF SchedNext

\* SchedTypeOK and SchedInv hold in every reachable state, whatever the number of
\* jobs, ticks and runs.
THEOREM SchedSafety == SchedSpec => [](SchedTypeOK /\ SchedInv)
<1>1. SchedInit => Inv BY InitInv
<1>2. Inv /\ [SchedNext]_allVars => Inv' BY Step
<1>3. Inv => SchedTypeOK /\ SchedInv BY DEF Inv
<1> QED BY <1>1, <1>2, <1>3, PTL DEF SchedSpec

\* processScheduledTick inserts a second run for one job and minute only when the
\* started_at of one of the two has left that minute.
THEOREM SchedNoPlainDuplicate == SchedSpec => []DuplicateOnlyIfMoved
<1>1. SchedTypeOK /\ SchedInv => DuplicateOnlyIfMoved BY DEF SchedInv
<1> QED BY <1>1, SchedSafety, PTL

\* A trigger that fired and was handled without error got its run, or a run of an
\* earlier minute whose started_at had moved to it or past it.
THEOREM SchedActivation == SchedSpec => []ActivationRunsOrIsShadowed
<1>1. SchedTypeOK /\ SchedInv => ActivationRunsOrIsShadowed BY DEF SchedInv
<1> QED BY <1>1, SchedSafety, PTL

\* Every reachable state of the ticks is well typed: runs are stamped with times that have come.
THEOREM SchedTypes == SchedSpec => []SchedTypeOK
BY SchedSafety, PTL

-----------------------------------------------------------------------------
(* FeedSync: the inductive invariant.                                       *)

IdsOf(S) == {v.id : v \in S}
Working == Persisting \cup {"finalize", "settle", "save"}
Thread == adapter.replies = "thread"

\* What a sync holds at each of its steps.
Stage(r) ==
    /\ run[r].at \in {"idle", "list", "left"} => run[r].page = {} /\ ~run[r].errs /\ ~run[r].cut
    /\ run[r].todo \subseteq run[r].page
    /\ \A v, w \in run[r].todo : v.id = w.id => v = w
    /\ \A v \in run[r].page : Origin(v.id) \in IdsOf(run[r].page)
    /\ run[r].at \notin Persisting => run[r].todo = {}
    /\ At(r, "thread") => /\ Thread /\ 1 \in IdsOf(run[r].page)
                          /\ \A v \in run[r].todo : v.id \notin Replies
    /\ At(r, "comments") => adapter.replies = "comments"
    /\ At(r, "save") => run[r].page # {}
    /\ run[r].at \in {"norm", "comments"} => \E w \in raws : IsHead(r, w.v)
StageInv == \A r \in Syncs : Stage(r)

\* Items are posted in their order, and a sync knows posted ones.
PostedInv ==
    /\ posted \subseteq Seen
    /\ \A j \in posted : \A i \in Seen \ posted : j < i
    /\ feed.cursor \in posted \cup {0}
    /\ \A r \in Syncs : run[r].cursor \in posted \cup {0} /\ IdsOf(run[r].page) \subseteq posted

\* A raw row without a record is the one its run is at, or its run tells of it.
Accounted(w) ==
    /\ w.v.id \in IdsOf(run[w.by].page) \/ RawOnly(w.v.id)
    /\ \/ HasRecord(w.v) \/ RawOnly(w.v.id) \/ run[w.by].errs \/ At(w.by, "crashed")
       \/ run[w.by].at \in {"norm", "comments"} /\ IsHead(w.by, w.v)
OrphanInv == \A w \in raws : Accounted(w)

\* A sync that does not tell of a failure has a raw row for all that it has listed and is done with.
Passed(r) ==
    \A v \in run[r].page :
        \/ v \in run[r].todo \/ run[r].errs \/ At(r, "crashed")
        \/ \E w \in raws : w.v.id = v.id
PassedInv == \A r \in Syncs : Passed(r)

\* What a sync with a cursor has not listed of the items up to its newest.
Listed(r) ==
    adapter.cursor /\ run[r].at \in Working /\ run[r].page # {} =>
        \A i \in posted : Thread \/ (\E v \in run[r].page : i <= v.id) =>
            \/ Origin(i) \in IdsOf(run[r].page)
            \/ Origin(i) <= run[r].cursor
            \/ run[r].cut /\ \A v \in run[r].page : Origin(i) < v.id
            \/ Thread /\ i \in late
ListedInv == \A r \in Syncs : Listed(r)

\* A sync that has listed a message has the replies to it, or goes on to fetch them, unless they
\* are late.
Heard(r) ==
    Thread /\ run[r].at \in Working /\ 1 \in IdsOf(run[r].page) =>
        \A i \in posted \cap Replies :
            \/ i \in late \cup IdsOf(run[r].page) \/ run[r].errs
            \/ run[r].replied /\ (At(r, "thread") \/ 1 \in IdsOf(run[r].todo))
HeardInv == \A r \in Syncs : Heard(r)

\* CursorCovers says this of what the cursor has passed; it also holds of what the cursor has
\* passed that a sync has read.
Covered(i) ==
    \/ \E v \in norms : v.id = i
    \/ \E r \in Syncs : Told(r) /\ Origin(i) \in IdsOf(run[r].page)
    \/ \E r \in Syncs : run[r].cut /\ \A v \in run[r].page : Origin(i) < v.id
    \/ Thread /\ i \in late
CoverInv ==
    adapter.cursor => \A i \in posted :
        \/ Origin(i) <= feed.cursor
        \/ \E r \in Syncs : InProgress(r) /\ Origin(i) <= run[r].cursor
        => Covered(i)

\* A sync that has yet to settle sync_status, or was stopped.
Settles(r) == At(r, "crashed") \/ (InProgress(r) /\ ~At(r, "save"))
SettleInv == adapter.cursor /\ feed.sync = "syncing" => \E r \in Syncs : Settles(r)

FeedInv ==
    /\ TypeOK /\ adapter \in Adapters
    /\ StageInv /\ PostedInv /\ OrphanInv /\ PassedInv /\ ListedInv /\ HeardInv /\ CoverInv /\ SettleInv

-----------------------------------------------------------------------------
(* FeedSync: lemmas about adapters, items and heads.                        *)

\* What is known of the traits of any adapter.
Sound(a) ==
    /\ a \in Traits
    /\ a.cursor => a.replies # "comments" /\ ~a.folders /\ ~a.leaks /\ (a.oldest => a.replies = "none")

LEMMA AdaptersSound == \A a \in Adapters : Sound(a)
<1>1. Sound(Plain) /\ ~Plain.cursor
  BY DEF Sound, Plain, Traits
<1>2. Sound(Telegram) /\ Sound(Slack) /\ Sound(Mattermost)
  BY <1>1 DEF Sound, Traits, Plain, Telegram, Slack, Mattermost
<1>3. Sound(Stamped) /\ ~Stamped.cursor
  BY <1>1 DEF Sound, Traits, Plain, Stamped
<1>4. Sound(Teams) /\ Sound(HTTPURL) /\ Sound(Filesystem) /\ Sound(Outlook) /\ Sound(M365Calendar) /\ Sound(Fireflies)
  BY <1>1 DEF Teams, HTTPURL, Filesystem, Outlook, M365Calendar, Fireflies
<1>5. Sound(HubSpot) /\ Sound(Intercom) /\ Sound(ConfluenceSpace)
  BY <1>3 DEF HubSpot, Intercom, ConfluenceSpace, ConfluencePage
<1>6. Sound(Jira) /\ Sound(Trello) /\ Sound(GoogleCalendar)
  BY <1>1 DEF Sound, Traits, Plain, Jira, Trello, GoogleCalendar
<1>7. Sound(Gmail) /\ Sound(Notion) /\ Sound(GoogleDrive)
  <2>1. Sound(NotionPage) /\ ~NotionPage.cursor
    BY <1>1 DEF Sound, Traits, Plain, NotionPage
  <2>2. Sound(DriveFile) /\ ~DriveFile.cursor
    BY <1>1 DEF Sound, Traits, Plain, DriveFile
  <2> QED
    BY <1>1, <2>1, <2>2 DEF Sound, Traits, Gmail, Notion, GoogleDrive
<1>8. Sound(Linear) /\ Sound(Asana) /\ Sound(Zendesk)
  BY <1>3 DEF Sound, Traits, Linear, Asana, Zendesk
<1>9. Sound(ConfluenceTree) /\ Sound(OneDrive)
  BY <1>3 DEF Sound, Traits, ConfluenceTree, ConfluencePage, OneDrive
<1> QED
  BY <1>2, <1>4, <1>5, <1>6, <1>7, <1>8, <1>9 DEF Adapters

\* The adapters with a cursor have no folders and no comments, and the one whose listings are cut
\* at the newest has no threads.
LEMMA CursorAdapters ==
    ASSUME adapter \in Adapters, adapter.cursor
    PROVE  /\ adapter.replies # "comments" /\ ~adapter.folders /\ ~adapter.leaks
           /\ adapter.oldest => ~Thread
           /\ \A i : ~RawOnly(i)
BY AdaptersSound DEF Sound, RawOnly, Thread

\* A bounded set of numbers that is not empty has a greatest one.
LEMMA Greatest ==
    ASSUME NEW n \in Nat, NEW S \in SUBSET (0..n), S # {}
    PROVE  \E m \in S : \A k \in S : k <= m
<1> DEFINE T == {n - s : s \in S}
           R == OpToRel(<, Nat)
<1>0. \A s \in S : s \in Nat /\ n - s \in Nat
  OBVIOUS
<1>1. T \subseteq Nat /\ T # {}
  BY <1>0, Zenon
<1>2. \A x, y \in Nat : x < y <=> <<x, y>> \in R
  BY DEF OpToRel
<1>3. IsWellFoundedOn(R, Nat)
  BY NatLessThanWellFounded
<1> HIDE DEF R
<1>4. PICK x \in T : \A y \in T : ~(<<y, x>> \in R)
  <2> HIDE DEF T
  <2> QED
    BY <1>1, <1>3, WFMin
<1>5. \A y \in T : ~(y < x)
  BY <1>1, <1>2, <1>4
<1>6. PICK m \in S : x = n - m
  BY <1>4, Zenon
<1>7. ASSUME NEW k \in S PROVE k <= m
  <2>1. n - k \in T
    BY Zenon
  <2>2. ~(n - k < n - m)
    BY <1>5, <1>6, <2>1
  <2> QED
    BY <1>0, <2>2
<1> QED
  BY <1>7

\* The cursor that is saved is the greatest id of the page, or 0.
LEMMA NewestIsGreatest ==
    ASSUME TypeOK, NEW r \in Syncs
    PROVE  /\ Newest(r) \in {0} \cup IdsOf(run[r].page)
           /\ \A v \in run[r].page : v.id <= Newest(r)
<1> DEFINE S == {0} \cup IdsOf(run[r].page)
<1>1. run[r].page \subseteq Versions /\ MaxItems \in Nat
  BY ItemsAssumption DEF TypeOK, RunStates
<1>2. \A v \in run[r].page : v.id \in 0..MaxItems
  BY <1>1 DEF Versions, Items
<1>3. S \in SUBSET (0..MaxItems) /\ S # {}
  BY <1>1, <1>2 DEF IdsOf
<1>4. PICK m \in S : \A k \in S : k <= m
  <2> HIDE DEF S
  <2> QED
    BY <1>1, <1>3, Greatest
<1>5. m \in S /\ \A v \in run[r].page : v.id <= m
  BY <1>4 DEF IdsOf
<1> QED
  BY <1>5 DEF Newest, IdsOf

\* A sync is at one version at a time.
LEMMA OneHead ==
    ASSUME TypeOK, NEW r \in Syncs, Stage(r), NEW v, IsHead(r, v)
    PROVE  /\ v \in run[r].todo /\ v \in Versions
           /\ \A w : IsHead(r, w) => w = v
           /\ v.id = 1 => \A w \in run[r].todo : Thread => w.id \notin Replies
<1>1. run[r].todo \subseteq Versions /\ \A w \in Versions : w.id \in Nat
  BY ItemsAssumption DEF TypeOK, RunStates, Versions, Items
<1>2. v \in run[r].todo
  BY DEF IsHead, InThread
<1>3. ASSUME NEW w, IsHead(r, w) PROVE w = v
  <2>1. w \in run[r].todo /\ w.id = v.id
    <3>1. w \in run[r].todo
      BY <1>3 DEF IsHead, InThread
    <3>2. v.id \in Nat /\ w.id \in Nat
      BY <1>1, <1>2, <3>1
    <3> QED
      BY <1>2, <1>3, <3>1, <3>2 DEF IsHead
  <2> QED
    BY <1>2, <2>1 DEF Stage
<1>4. ASSUME v.id = 1, NEW w \in run[r].todo, Thread PROVE w.id \notin Replies
  <2>1. InThread(r) = {}
    BY <1>4, ItemsAssumption DEF IsHead, InThread
  <2> QED
    BY <1>4, <2>1 DEF InThread, Thread
<1> QED
  BY <1>1, <1>2, <1>3, <1>4

\* With a cursor, an item that is posted is found under one that is listed, and that is posted too.
LEMMA OriginPosted ==
    ASSUME TypeOK, PostedInv, adapter \in Adapters, adapter.cursor, NEW i \in posted
    PROVE  /\ Origin(i) \in posted \ Replies /\ Origin(i) \in Nat
           /\ i \in Replies => Thread /\ Origin(i) = 1
           /\ i \notin Replies => Origin(i) = i
<1>1. Replies \subseteq 2..MaxItems /\ MaxItems \in Nat /\ i \in 1..MaxItems
  BY ItemsAssumption DEF TypeOK, Items
<1>2. CASE i \notin Replies
  BY <1>1, <1>2 DEF Origin
<1>3. CASE i \in Replies
  <2>1. Thread
    <3>1. adapter.replies # "none"
      BY <1>3 DEF PostedInv, Seen
    <3> QED
      BY <3>1, CursorAdapters DEF Thread, TypeOK, Traits
  <2>2. 1 \in Seen /\ 1 \notin Replies /\ ~(i < 1)
    BY <1>1 DEF Seen, Items
  <2>3. 1 \in posted
    BY <2>2 DEF PostedInv
  <2> QED
    BY <1>3, <2>1, <2>2, <2>3 DEF Origin, Thread
<1> QED
  BY <1>2, <1>3

-----------------------------------------------------------------------------
(* FeedSync: what a step of one sync keeps.                                 *)

\* One sync moves, the vendor's items and the other syncs stay, rows are only added.
Moves(r) ==
    /\ run' \in [Syncs -> RunStates]
    /\ \A q \in Syncs \ {r} : run'[q] = run[q]
    /\ UNCHANGED <<adapter, posted, item, late>>
    /\ feed' \in FeedStates /\ raws' \subseteq Rows /\ norms' \subseteq Versions
    /\ raws \subseteq raws' /\ norms \subseteq norms'
    /\ \A w \in raws' \ raws : w.by = r

LEMMA MoveTo ==
    ASSUME TypeOK, NEW r \in Syncs, NEW x \in RunStates, run' = [run EXCEPT ![r] = x],
           UNCHANGED <<adapter, posted, item, late>>
    PROVE  /\ run' \in [Syncs -> RunStates] /\ run'[r] = x
           /\ \A q \in Syncs \ {r} : run'[q] = run[q]
           /\ UNCHANGED <<feed, raws, norms>> => Moves(r)
BY DEF TypeOK, Moves

LEMMA OthersStage ==
    ASSUME NEW r \in Syncs, Moves(r), StageInv, Stage(r)'
    PROVE  StageInv'
<1>1. ASSUME NEW q \in Syncs \ {r} PROVE Stage(q)'
  <2>1. Stage(q)
    BY DEF StageInv
  <2>2. \A v : IsHead(q, v)' <=> IsHead(q, v)
    BY DEF Moves, IsHead, InThread
  <2> QED
    BY <2>1, <2>2 DEF Moves, Stage, At, Thread, Origin
<1> QED
  BY <1>1 DEF StageInv

LEMMA OthersRest ==
    ASSUME NEW r \in Syncs, Moves(r)
    PROVE  /\ OrphanInv /\ TypeOK /\ (\A w \in raws' : w.by = r => Accounted(w)') => OrphanInv'
           /\ PassedInv /\ Passed(r)' => PassedInv'
           /\ ListedInv /\ Listed(r)' => ListedInv'
           /\ HeardInv /\ Heard(r)' => HeardInv'
<1>1. ASSUME NEW q \in Syncs \ {r}
      PROVE  (Passed(q) => Passed(q)') /\ (Listed(q) => Listed(q)') /\ (Heard(q) => Heard(q)')
  <2>1. Passed(q) => Passed(q)'
    BY DEF Moves, Passed, At
  <2>2. Listed(q) => Listed(q)'
    BY DEF Moves, Listed, Thread, Origin
  <2>3. Heard(q) => Heard(q)'
    BY DEF Moves, Heard, Thread, At
  <2> QED
    BY <2>1, <2>2, <2>3
<1>2. ASSUME NEW w \in raws, w.by \in Syncs \ {r}, Accounted(w) PROVE Accounted(w)'
  <2>1. \A v : IsHead(w.by, v)' <=> IsHead(w.by, v)
    BY <1>2 DEF Moves, IsHead, InThread
  <2>2. HasRecord(w.v) => HasRecord(w.v)'
    BY DEF Moves, HasRecord
  <2> QED
    BY <1>2, <2>1, <2>2 DEF Moves, Accounted, RawOnly, At
<1>3. OrphanInv /\ TypeOK /\ (\A w \in raws' : w.by = r => Accounted(w)') => OrphanInv'
  <2>1. SUFFICES ASSUME OrphanInv, TypeOK, \A w \in raws' : w.by = r => Accounted(w)', NEW w \in raws'
                 PROVE  Accounted(w)'
    BY DEF OrphanInv
  <2>2. CASE w.by = r
    BY <2>1, <2>2
  <2>3. CASE w.by # r
    BY <1>2, <2>1, <2>3 DEF Moves, OrphanInv, TypeOK, Rows
  <2> QED
    BY <2>2, <2>3
<1> QED
  BY <1>1, <1>3 DEF PassedInv, ListedInv, HeardInv

\* The replies to what a sync has listed are listed too, or late.
Complete(r) ==
    \A i \in posted : Origin(i) \in IdsOf(run[r].page) => i \in IdsOf(run[r].page) \/ (Thread /\ i \in late)

\* What a sync tells of goes on to be covered, by itself or by the rows it has written.
LEMMA CoveredKept ==
    ASSUME NEW r \in Syncs, Moves(r), adapter \in Adapters, adapter.cursor, TypeOK', StageInv', OrphanInv',
           \/ /\ Told(r) => Told(r)'
              /\ IdsOf(run[r].page) \subseteq IdsOf(run'[r].page)
           \/ /\ \A v \in run[r].page : \E w \in raws' : w.v.id = v.id
              /\ Complete(r),
           run[r].cut => /\ run'[r].cut
                         /\ run'[r].page = run[r].page \/ 1 \in IdsOf(run[r].page),
           NEW i \in posted, Origin(i) \in Items, Covered(i)
    PROVE  Covered(i)'
<1>0. Origin(i)' = Origin(i) /\ Thread' = Thread
  BY DEF Origin, Moves, Thread
<1>1. ASSUME NEW w \in raws', w.v.id = i PROVE Covered(i)'
  <2>1. Accounted(w)' /\ ~RawOnly(w.v.id)' /\ w.by \in Syncs
    <3>1. \A k : ~RawOnly(k)
      BY CursorAdapters
    <3>2. ~RawOnly(w.v.id)'
      BY <3>1 DEF RawOnly, Moves
    <3> QED
      BY <3>2 DEF OrphanInv, TypeOK, Rows
  <2>2. HasRecord(w.v)' => \E v \in norms' : v.id = i
    BY <1>1 DEF HasRecord
  <2>3. run'[w.by].errs \/ At(w.by, "crashed")' \/ run'[w.by].at \in {"norm", "comments"} => Told(w.by)'
    BY DEF Told, At, InProgress
  <2>4. i \in IdsOf(run'[w.by].page) => Origin(i)' \in IdsOf(run'[w.by].page)
    BY <2>1 DEF StageInv, Stage, IdsOf
  <2> QED
    BY <1>1, <2>1, <2>2, <2>3, <2>4 DEF Accounted, Covered
<1>2. CASE \E v \in norms : v.id = i
  BY <1>2 DEF Moves, Covered
<1>3. ASSUME NEW q \in Syncs, Told(q), Origin(i) \in IdsOf(run[q].page) PROVE Covered(i)'
  <2>1. CASE Told(q)' /\ IdsOf(run[q].page) \subseteq IdsOf(run'[q].page)
    BY <1>0, <1>3, <2>1 DEF Covered
  <2>2. CASE (\A v \in run[q].page : \E w \in raws' : w.v.id = v.id) /\ Complete(q)
    <3>1. i \in IdsOf(run[q].page) \/ (Thread /\ i \in late)
      BY <1>3, <2>2 DEF Complete
    <3>2. CASE i \in IdsOf(run[q].page)
      BY <1>1, <2>2, <3>2 DEF IdsOf
    <3>3. CASE Thread /\ i \in late
      BY <1>0, <3>3 DEF Covered, Moves
    <3> QED
      BY <3>1, <3>2, <3>3
  <2>3. CASE q # r
    BY <1>0, <1>3, <2>3 DEF Covered, Moves, Told, InProgress
  <2> QED
    BY <1>3, <2>1, <2>2, <2>3
<1>4. ASSUME NEW q \in Syncs, run[q].cut, \A v \in run[q].page : Origin(i) < v.id PROVE Covered(i)'
  <2>1. CASE run'[q].cut /\ run'[q].page = run[q].page
    BY <1>0, <1>4, <2>1 DEF Covered
  <2>2. CASE 1 \in IdsOf(run[q].page)
    BY <1>4, <2>2, ItemsAssumption DEF IdsOf, Items
  <2>3. CASE q # r
    BY <1>4, <2>1, <2>3 DEF Moves
  <2> QED
    BY <1>4, <2>1, <2>2, <2>3
<1>5. CASE Thread /\ i \in late
  BY <1>0, <1>5 DEF Covered, Moves
<1> QED
  BY <1>2, <1>3, <1>4, <1>5 DEF Covered

\* All that a step of one sync has to show.
LEMMA MoveKeeps ==
    ASSUME FeedInv, NEW r \in Syncs, Moves(r),
           Stage(r)', Passed(r)', Listed(r)', Heard(r)', \A w \in raws' : w.by = r => Accounted(w)',
           feed'.cursor \in posted \cup {0}, run'[r].cursor \in posted \cup {0}, IdsOf(run'[r].page) \subseteq posted,
           adapter.cursor =>
              /\ \/ /\ Told(r) => Told(r)'
                    /\ IdsOf(run[r].page) \subseteq IdsOf(run'[r].page)
                 \/ /\ \A v \in run[r].page : \E w \in raws' : w.v.id = v.id
                    /\ Complete(r)
              /\ run[r].cut => /\ run'[r].cut
                               /\ run'[r].page = run[r].page \/ 1 \in IdsOf(run[r].page)
              /\ \A i \in posted : Origin(i) <= feed'.cursor \/ Origin(i) <= run'[r].cursor =>
                    \/ Origin(i) <= feed.cursor
                    \/ InProgress(r) /\ Origin(i) <= run[r].cursor
                    \/ Covered(i)
              /\ feed'.sync = "syncing" =>
                    \/ feed.sync = "syncing" /\ (Settles(r) => Settles(r)')
                    \/ Settles(r)'
    PROVE  FeedInv'
<1>1. TypeOK'
  BY DEF FeedInv, Moves, TypeOK
<1>2. StageInv' /\ PassedInv' /\ ListedInv' /\ HeardInv' /\ OrphanInv'
  BY OthersStage, OthersRest DEF FeedInv
<1>3. PostedInv'
  BY DEF FeedInv, PostedInv, Moves, Seen
<1>4. CoverInv'
  <2>1. SUFFICES ASSUME adapter.cursor, NEW i \in posted,
                        \/ Origin(i) <= feed'.cursor
                        \/ \E q \in Syncs : InProgress(q)' /\ Origin(i) <= run'[q].cursor
                 PROVE  Covered(i)'
    BY DEF CoverInv, Moves, Origin
  <2>2. Origin(i) \in Items
    BY <2>1, OriginPosted DEF FeedInv, TypeOK
  <2>3. Covered(i) => Covered(i)'
    BY <1>1, <1>2, <2>1, <2>2, CoveredKept DEF FeedInv
  <2>4. CASE Origin(i) <= feed'.cursor \/ Origin(i) <= run'[r].cursor
    BY <2>1, <2>3, <2>4 DEF FeedInv, CoverInv
  <2>5. CASE \E q \in Syncs \ {r} : InProgress(q)' /\ Origin(i) <= run'[q].cursor
    BY <2>1, <2>3, <2>5 DEF FeedInv, CoverInv, Moves, InProgress
  <2> QED
    BY <2>1, <2>4, <2>5
<1>5. SettleInv'
  <2>1. SUFFICES ASSUME adapter.cursor, feed'.sync = "syncing" PROVE \E q \in Syncs : Settles(q)'
    BY DEF SettleInv, Moves
  <2>2. CASE Settles(r)'
    BY <2>2
  <2>3. CASE feed.sync = "syncing" /\ (Settles(r) => Settles(r)')
    <3>1. PICK q \in Syncs : Settles(q)
      BY <2>1, <2>3 DEF FeedInv, SettleInv
    <3>2. q # r => Settles(q)'
      BY <3>1 DEF Moves, Settles, At, InProgress
    <3> QED
      BY <2>3, <3>1, <3>2
  <2> QED
    BY <2>1, <2>2, <2>3
<1> QED
  BY <1>1, <1>2, <1>3, <1>4, <1>5 DEF FeedInv, Moves

\* A step on the way: the sync keeps what it has listed, and where it writes a raw row it goes on
\* to the record of it, unless there is none to come.
LEMMA StayKeeps ==
    ASSUME FeedInv, NEW r \in Syncs, Moves(r),
           run'[r].page = run[r].page, run'[r].todo = run[r].todo, run'[r].cursor = run[r].cursor,
           run'[r].cut = run[r].cut, run'[r].replied = run[r].replied, run[r].errs => run'[r].errs,
           run[r].at \in Working \ {"thread", "save"}, run'[r].at \in Working \ {"thread"},
           run[r].at \in {"norm", "comments"} => run'[r].at \in {"norm", "comments"},
           run'[r].at \in {"norm", "comments"} => run[r].at \in Persisting /\ \E w \in raws' : IsHead(r, w.v),
           run'[r].at = "comments" => adapter.replies = "comments",
           run'[r].at = "raw" => run[r].at = "raw",
           run'[r].at = "save" => run[r].page # {} /\ (adapter.cursor => feed'.sync # "syncing"),
           run'[r].at \notin Persisting => run[r].at \notin Persisting,
           feed'.cursor = feed.cursor, feed'.sync = "syncing" => feed.sync = "syncing",
           UNCHANGED norms,
           \A w \in raws' \ raws : RawOnly(w.v.id) \/ (run'[r].at \in {"norm", "comments"} /\ IsHead(r, w.v))
    PROVE  FeedInv'
<1>1. \A v : IsHead(r, v)' <=> IsHead(r, v)
  BY DEF IsHead, InThread, Moves
<1>2. Stage(r)
  BY DEF FeedInv, StageInv
<1>3. Stage(r)'
  BY <1>1, <1>2 DEF Stage, At, Thread, Moves, Working, Persisting, Origin
<1>4. Passed(r)'
  BY DEF FeedInv, PassedInv, Passed, At, Moves, Working, Persisting
<1>5. Listed(r)'
  BY DEF FeedInv, ListedInv, Listed, Thread, Moves, Origin
<1>6. Heard(r)'
  BY DEF FeedInv, HeardInv, Heard, Thread, Moves, At
<1>7. InProgress(r)
  BY DEF InProgress, Working, Persisting
<1>8. ASSUME NEW w \in raws', w.by = r PROVE Accounted(w)'
  <2>1. RawOnly(w.v.id)' <=> RawOnly(w.v.id)
    BY DEF RawOnly, Moves
  <2>2. CASE w \in raws
    <3>1. Accounted(w)
      BY <2>2 DEF FeedInv, OrphanInv
    <3>2. HasRecord(w.v)' <=> HasRecord(w.v)
      BY DEF HasRecord
    <3>3. ~At(r, "crashed")
      BY DEF At, Working, Persisting
    <3> QED
      BY <1>1, <1>8, <2>1, <3>1, <3>2, <3>3 DEF Accounted, IdsOf
  <2>3. CASE w \notin raws
    <3>1. CASE RawOnly(w.v.id)
      BY <2>1, <3>1 DEF Accounted
    <3>2. CASE run'[r].at \in {"norm", "comments"} /\ IsHead(r, w.v)
      <4>1. w.v \in run'[r].page
        BY <1>2, <3>2, OneHead DEF FeedInv, Stage
      <4> QED
        BY <1>1, <1>8, <3>2, <4>1 DEF Accounted, IdsOf
    <3> QED
      BY <2>3, <3>1, <3>2
  <2> QED
    BY <2>2, <2>3
<1>9. feed'.cursor \in posted \cup {0} /\ run'[r].cursor \in posted \cup {0} /\ IdsOf(run'[r].page) \subseteq posted
  BY DEF FeedInv, PostedInv
<1>10. Told(r) /\ Told(r)'
  BY DEF Told, InProgress, Working, Persisting
<1>11. feed'.sync = "syncing" /\ adapter.cursor => Settles(r)'
  BY DEF Settles, At, InProgress, Working, Persisting
<1> QED
  BY <1>3, <1>4, <1>5, <1>8, <1>9, <1>10, <1>11, <1>6, <1>7, MoveKeeps

\* A sync is through with one version.
LEMMA ProceedKeeps ==
    ASSUME FeedInv, NEW r \in Syncs, run[r].at \in {"raw", "norm"},
           NEW v, IsHead(r, v), NEW errs \in BOOLEAN, NEW got \in BOOLEAN,
           Proceed(r, v, [run[r] EXCEPT !.errs = errs, !.got = got]), run[r].errs => errs,
           raws' \subseteq Rows, norms' \subseteq Versions, raws \subseteq raws', norms \subseteq norms',
           \A w \in raws' \ raws : w.by = r /\ w.v = v /\ RawOnly(v.id),
           At(r, "norm") => HasRecord(v)' \/ errs,
           errs \/ \E w \in raws' : w.v.id = v.id,
           UNCHANGED <<adapter, posted, item, feed, late>>
    PROVE  FeedInv'
<1>1. PICK a \in RunStates : a = run[r]
  BY DEF FeedInv, TypeOK
<1>2. PICK rest \in SUBSET Versions : rest = run[r].todo \ {v}
  BY <1>1 DEF RunStates
<1>3. PICK step \in {"thread", "finalize", "raw"} :
        /\ step = IF v.id = 1 /\ adapter.replies = "thread" /\ a.replied THEN "thread" ELSE Onward(rest)
        /\ step = "thread" => v.id = 1 /\ Thread
        /\ v.id = 1 /\ Thread /\ a.replied => step = "thread"
        /\ step = "finalize" => rest = {}
  BY DEF Thread, Onward
<1> DEFINE x == [a EXCEPT !.errs = errs, !.got = got, !.todo = rest, !.at = step]
<1>4. /\ x \in RunStates /\ x.at = step /\ x.todo = rest /\ x.page = a.page /\ x.cursor = a.cursor
      /\ x.cut = a.cut /\ x.errs = errs /\ x.replied = a.replied
  BY DEF RunStates, RunSteps, Persisting
<1>5. run' = [run EXCEPT ![r] = x]
  BY <1>1, <1>2, <1>3 DEF Proceed
<1> HIDE DEF x
<1>6. run' \in [Syncs -> RunStates] /\ run'[r] = x /\ \A q \in Syncs \ {r} : run'[q] = run[q]
  BY <1>4, <1>5, MoveTo DEF FeedInv
<1>7. Moves(r)
  BY <1>6 DEF Moves, FeedInv, TypeOK
<1>8. /\ run'[r].page = run[r].page /\ run'[r].todo = run[r].todo \ {v} /\ run'[r].cursor = run[r].cursor
      /\ run'[r].cut = run[r].cut /\ run'[r].errs = errs /\ run'[r].at = step
      /\ run'[r].replied = run[r].replied
  BY <1>1, <1>2, <1>4, <1>6
<1> HIDE DEF x
<1>9. Stage(r) /\ v \in run[r].todo /\ v \in run[r].page
  BY OneHead DEF FeedInv, StageInv, Stage
<1>10. Stage(r)'
  <2>1. step = "thread" => 1 \in IdsOf(run[r].page) /\ \A w \in run[r].todo : w.id \notin Replies
    BY <1>3, <1>9, OneHead DEF IdsOf, FeedInv
  <2> QED
    BY <1>2, <1>3, <1>7, <1>8, <1>9, <2>1 DEF Stage, At, Thread, Moves, Persisting, Origin
<1>11. Passed(r)'
  BY <1>8 DEF FeedInv, PassedInv, Passed, At, Moves
<1>12. Listed(r)'
  BY <1>7, <1>8 DEF FeedInv, ListedInv, Listed, Thread, Moves, Working, Persisting, Origin
<1>13. Heard(r)'
  <2>1. SUFFICES ASSUME Thread, 1 \in IdsOf(run[r].page), NEW i \in posted \cap Replies,
                        ~(i \in late \cup IdsOf(run[r].page)), ~errs
                 PROVE  run[r].replied /\ (step = "thread" \/ 1 \in IdsOf(run[r].todo \ {v}))
    BY <1>7, <1>8 DEF Heard, Thread, Moves, At
  <2>2. Heard(r) /\ run[r].at \in Working /\ ~At(r, "thread")
    BY DEF FeedInv, HeardInv, Working, Persisting, At
  <2>3. run[r].replied /\ 1 \in IdsOf(run[r].todo)
    BY <2>1, <2>2 DEF Heard
  <2>4. CASE v.id = 1
    BY <1>1, <1>3, <2>1, <2>3, <2>4
  <2>5. CASE v.id # 1
    BY <2>3, <2>5 DEF IdsOf
  <2> QED
    BY <2>4, <2>5
<1>14. InProgress(r)
  BY DEF InProgress
<1>15. ASSUME NEW w \in raws', w.by = r PROVE Accounted(w)'
  <2>1. RawOnly(w.v.id)' <=> RawOnly(w.v.id)
    BY DEF RawOnly
  <2>2. CASE w \in raws
    <3>1. Accounted(w)
      BY <2>2 DEF FeedInv, OrphanInv
    <3>2. HasRecord(w.v) => HasRecord(w.v)'
      BY DEF HasRecord
    <3>3. IsHead(r, w.v) => w.v = v
      BY <1>9, OneHead DEF FeedInv
    <3>4. ~At(r, "crashed") /\ ~At(r, "comments")
      BY DEF At
    <3> QED
      BY <1>8, <1>15, <2>1, <3>1, <3>2, <3>3, <3>4 DEF Accounted, IdsOf, At
  <2>3. CASE w \notin raws
    BY <2>1, <2>3 DEF Accounted
  <2> QED
    BY <2>2, <2>3
<1>16. feed'.cursor \in posted \cup {0} /\ run'[r].cursor \in posted \cup {0} /\ IdsOf(run'[r].page) \subseteq posted
  BY <1>8 DEF FeedInv, PostedInv
<1>17. Told(r)' /\ Settles(r)'
  BY <1>8 DEF Told, Settles, At, InProgress
<1> QED
  BY <1>7, <1>8, <1>10, <1>11, <1>12, <1>15, <1>16, <1>17, <1>13, <1>14, MoveKeeps

-----------------------------------------------------------------------------
(* FeedSync: the steps of a sync.                                           *)

LEMMA InsertRawKept ==
    ASSUME FeedInv, NEW r \in Syncs, NEW v \in run[r].todo, insertRawArtifactRow(r, v)
    PROVE  FeedInv'
<1>1. PICK a \in RunStates : a = run[r]
  BY DEF FeedInv, TypeOK
<1>2. a.at = "raw" /\ IsHead(r, v) /\ UNCHANGED <<adapter, posted, item, feed, norms, late>> /\ v \in Versions
  BY <1>1 DEF insertRawArtifactRow, At, RunStates
<1>3. run[r] = [run[r] EXCEPT !.errs = a.errs, !.got = a.got] /\ a.errs \in BOOLEAN /\ a.got \in BOOLEAN
  BY <1>1 DEF RunStates
<1>4. ASSUME Proceed(r, v, run[r]), raws' = raws \/ (raws' = raws \cup {[v |-> v, by |-> r]} /\ RawOnly(v.id)),
             \E w \in raws' : w.v.id = v.id
      PROVE  FeedInv'
  <2>1. /\ raws' \subseteq Rows /\ raws \subseteq raws'
        /\ \A w \in raws' \ raws : w.by = r /\ w.v = v /\ RawOnly(v.id)
    BY <1>2, <1>4 DEF FeedInv, TypeOK, Rows
  <2>2. run[r].errs => a.errs
    BY <1>1
  <2>3. Proceed(r, v, [run[r] EXCEPT !.errs = a.errs, !.got = a.got])
    BY <1>3, <1>4
  <2> QED
    BY <1>1, <1>2, <1>3, <1>4, <2>1, <2>2, <2>3, ProceedKeeps DEF FeedInv, TypeOK, At
<1>5. CASE RawKnown(v) /\ Proceed(r, v, run[r]) /\ UNCHANGED raws
  <2>1. PICK w \in raws : KeyOf(w.v, adapter.rawStamp) = KeyOf(v, adapter.rawStamp)
    BY <1>5 DEF RawKnown
  <2>2. w.v \in Versions
    BY DEF FeedInv, TypeOK, Rows
  <2>3. w.v.id = v.id
    BY <1>2, <2>1, <2>2 DEF KeyOf, Versions
  <2> QED
    BY <1>4, <1>5, <2>3
<1>6. CASE /\ ~RawKnown(v) /\ raws' = raws \cup {[v |-> v, by |-> r]}
           /\ RawOnly(v.id) /\ Proceed(r, v, run[r])
  <2>1. [v |-> v, by |-> r] \in raws' /\ [v |-> v, by |-> r].v.id = v.id
    BY <1>6
  <2> QED
    BY <1>4, <1>6, <2>1
<1>7. CASE /\ raws' = raws \cup {[v |-> v, by |-> r]}
           /\ Go(r, IF adapter.replies = "comments" /\ v.id = 1 THEN "comments" ELSE "norm")
  <2>1. PICK step \in {"comments", "norm"} :
            /\ Go(r, step)
            /\ step = "comments" => adapter.replies = "comments"
    BY <1>7
  <2> DEFINE x == [a EXCEPT !.at = step]
  <2>2. /\ x \in RunStates /\ x.at = step /\ x.page = a.page /\ x.todo = a.todo /\ x.cursor = a.cursor
        /\ x.cut = a.cut /\ x.errs = a.errs /\ x.replied = a.replied
    BY DEF RunStates, RunSteps, Persisting
  <2>3. run' = [run EXCEPT ![r] = x]
    BY <1>1, <2>1 DEF Go
  <2> HIDE DEF x
  <2>4. run' \in [Syncs -> RunStates] /\ run'[r] = x /\ \A q \in Syncs \ {r} : run'[q] = run[q]
    BY <2>2, <2>3, MoveTo, <1>2 DEF FeedInv
  <2>5. Moves(r)
    BY <1>2, <1>7, <2>4 DEF Moves, FeedInv, TypeOK, Rows
  <2>6. [v |-> v, by |-> r] \in raws' /\ [v |-> v, by |-> r].v = v /\ \A w \in raws' \ raws : w.v = v
    BY <1>7
  <2> QED
    BY <1>1, <1>2, <2>1, <2>2, <2>4, <2>5, <2>6, StayKeeps DEF Working, Persisting
<1> QED
  BY <1>5, <1>6, <1>7 DEF insertRawArtifactRow

LEMMA FailedKept ==
    ASSUME FeedInv, NEW r \in Syncs, NEW v \in run[r].todo, run[r].at \in {"raw", "norm"}, IsHead(r, v),
           Proceed(r, v, Failed(run[r])),
           UNCHANGED <<adapter, posted, item, feed, raws, norms, late>>
    PROVE  FeedInv'
<1>1. PICK a \in RunStates : a = run[r]
  BY DEF FeedInv, TypeOK
<1>2. Failed(run[r]) = [run[r] EXCEPT !.errs = TRUE, !.got = a.got] /\ a.got \in BOOLEAN
  BY <1>1 DEF Failed, RunStates
<1>3. Proceed(r, v, [run[r] EXCEPT !.errs = TRUE, !.got = a.got])
  BY <1>2
<1> QED
  BY <1>2, <1>3, ProceedKeeps DEF FeedInv, TypeOK

LEMMA InsertNormalizedKept ==
    ASSUME FeedInv, NEW r \in Syncs, NEW v \in run[r].todo, InsertNormalized(r, v)
    PROVE  FeedInv'
<1>1. PICK a \in RunStates : a = run[r]
  BY DEF FeedInv, TypeOK
<1>2. /\ a.at = "norm" /\ IsHead(r, v) /\ UNCHANGED <<adapter, posted, item, feed, raws, late>>
      /\ v \in Versions /\ norms' = norms \cup {w \in {v} : ~NormKnown(v)}
  BY <1>1 DEF InsertNormalized, At, RunStates
<1>3. PICK got \in BOOLEAN : got = (a.got \/ ~NormKnown(v))
  BY <1>1 DEF RunStates
<1>4. /\ [run[r] EXCEPT !.got = @ \/ ~NormKnown(v)] = [run[r] EXCEPT !.errs = a.errs, !.got = got]
      /\ a.errs \in BOOLEAN
  BY <1>1, <1>3 DEF RunStates
<1>5. HasRecord(v)'
  <2>1. CASE NormKnown(v)
    <3>1. PICK w \in norms : KeyOf(w, adapter.normStamp) = KeyOf(v, adapter.normStamp)
      BY <2>1 DEF NormKnown
    <3>2. w \in Versions
      BY DEF FeedInv, TypeOK
    <3> QED
      BY <1>2, <3>1, <3>2 DEF HasRecord, KeyOf, Versions
  <2>2. CASE ~NormKnown(v)
    BY <1>2, <2>2 DEF HasRecord
  <2> QED
    BY <2>1, <2>2
<1>6. \E w \in raws' : w.v.id = v.id
  <2>1. PICK w \in raws : IsHead(r, w.v)
    BY <1>1, <1>2 DEF FeedInv, StageInv, Stage
  <2>2. w.v = v
    BY <1>2, <2>1, OneHead DEF FeedInv, StageInv
  <2> QED
    BY <1>2, <2>2
<1>7. Proceed(r, v, [run[r] EXCEPT !.errs = a.errs, !.got = got])
  BY <1>4 DEF InsertNormalized
<1>8. norms' \subseteq Versions /\ raws' \subseteq Rows /\ norms \subseteq norms' /\ (run[r].errs => a.errs)
  BY <1>1, <1>2 DEF FeedInv, TypeOK
<1> QED
  BY <1>1, <1>2, <1>4, <1>5, <1>6, <1>7, <1>8, ProceedKeeps

\* Comments are raw rows without a record.
LEMMA SyncCommentsKept ==
    ASSUME FeedInv, NEW r \in Syncs, SyncComments(r) \/ CommentsFail(r)
    PROVE  FeedInv'
<1>1. PICK a \in RunStates : a = run[r]
  BY DEF FeedInv, TypeOK
<1>2. PICK errs \in BOOLEAN : /\ errs = a.errs \/ errs = (a.errs \/ adapter.counted)
                              /\ run' = [run EXCEPT ![r].at = "norm", ![r].errs = errs]
  <2>1. CASE SyncComments(r)
    <3>1. run' = [run EXCEPT ![r].at = "norm", ![r].errs = a.errs] /\ a.errs \in BOOLEAN
      BY <1>1, <2>1 DEF SyncComments, Go, RunStates, FeedInv, TypeOK
    <3> QED
      BY <3>1
  <2>2. CASE CommentsFail(r)
    <3>1. PICK errs \in BOOLEAN : errs = (a.errs \/ adapter.counted)
      OBVIOUS
    <3>2. run' = [run EXCEPT ![r].at = "norm", ![r].errs = errs]
      BY <1>1, <2>2, <3>1 DEF CommentsFail
    <3> QED
      BY <3>1, <3>2
  <2> QED
    BY <2>1, <2>2
<1> DEFINE x == [a EXCEPT !.at = "norm", !.errs = errs]
<1>3. /\ x \in RunStates /\ x.at = "norm" /\ x.page = a.page /\ x.todo = a.todo /\ x.cursor = a.cursor
      /\ x.cut = a.cut /\ x.errs = errs /\ x.replied = a.replied
  BY DEF RunStates, RunSteps, Persisting
<1>4. run' = [run EXCEPT ![r] = x]
  BY <1>1, <1>2
<1> HIDE DEF x
<1>5. a.at = "comments" /\ adapter.replies = "comments" /\ UNCHANGED <<adapter, posted, item, feed, norms, late>>
  BY <1>1 DEF SyncComments, CommentsFail, At, FeedInv, StageInv, Stage
<1>6. raws \subseteq raws' /\ \A w \in raws' \ raws : w \in Rows /\ w.by = r /\ RawOnly(w.v.id)
  <2>1. CASE CommentsFail(r)
    BY <2>1 DEF CommentsFail
  <2>2. CASE SyncComments(r)
    <3>1. PICK kept \in SUBSET VersionsOf(posted \cap Replies) : raws' = raws \cup [v : kept, by : {r}]
      BY <2>2 DEF SyncComments
    <3>2. \A v \in kept : v \in Versions /\ v.id \in Replies
      BY DEF VersionsOf, Versions, FeedInv, TypeOK
    <3> QED
      BY <1>5, <3>1, <3>2 DEF Rows, RawOnly
  <2> QED
    BY <2>1, <2>2
<1>7. run' \in [Syncs -> RunStates] /\ run'[r] = x /\ \A q \in Syncs \ {r} : run'[q] = run[q]
  BY <1>3, <1>4, <1>5, MoveTo DEF FeedInv
<1>8. Moves(r)
  BY <1>5, <1>6, <1>7 DEF Moves, FeedInv, TypeOK
<1>9. \E w \in raws' : IsHead(r, w.v)
  BY <1>1, <1>5, <1>6 DEF FeedInv, StageInv, Stage
<1> QED
  BY <1>1, <1>2, <1>3, <1>5, <1>6, <1>7, <1>8, <1>9, StayKeeps DEF Working, Persisting

\* A later page does not come: the rest of the listing is given up.
LEMMA FetchFailsKept ==
    ASSUME FeedInv, NEW r \in Syncs, NEW v \in run[r].todo, FetchFails(r, v)
    PROVE  FeedInv'
<1>1. run[r].at = "raw" /\ IsHead(r, v) /\ UNCHANGED <<adapter, posted, item, feed, raws, norms, late>>
  BY DEF FetchFails, At
<1>2. CASE Proceed(r, v, Failed(run[r]))
  BY <1>1, <1>2, FailedKept
<1>3. CASE run' = [run EXCEPT ![r].todo = {}, ![r].at = "finalize", ![r].errs = TRUE]
  <2>1. PICK a \in RunStates : a = run[r]
    BY DEF FeedInv, TypeOK
  <2> DEFINE x == [a EXCEPT !.todo = {}, !.at = "finalize", !.errs = TRUE]
  <2>2. /\ x \in RunStates /\ x.at = "finalize" /\ x.page = a.page /\ x.todo = {} /\ x.cursor = a.cursor
        /\ x.cut = a.cut /\ x.errs
    BY DEF RunStates, RunSteps
  <2>3. run' = [run EXCEPT ![r] = x]
    BY <1>3, <2>1
  <2> HIDE DEF x
  <2>4. Moves(r) /\ run'[r] = x
    BY <1>1, <2>2, <2>3, MoveTo DEF FeedInv
  <2>5. Stage(r)' /\ Passed(r)' /\ Heard(r)'
    BY <2>1, <2>2, <2>4 DEF Stage, Passed, Heard, At, Persisting, FeedInv, StageInv, Moves, Origin
  <2>6. Listed(r)' /\ InProgress(r)
    BY <1>1, <2>1, <2>2, <2>4 DEF FeedInv, ListedInv, Listed, Thread, Moves, Working, Persisting, Origin, InProgress
  <2>7. ASSUME NEW w \in raws', w.by = r PROVE Accounted(w)'
    BY <1>1, <2>1, <2>2, <2>4, <2>7 DEF FeedInv, OrphanInv, Accounted, RawOnly
  <2>8. feed'.cursor \in posted \cup {0} /\ run'[r].cursor \in posted \cup {0} /\ IdsOf(run'[r].page) \subseteq posted
    BY <1>1, <2>1, <2>2, <2>4 DEF FeedInv, PostedInv
  <2>9. Told(r)' /\ Settles(r)'
    BY <2>2, <2>4 DEF Told, Settles, At, InProgress
  <2> QED
    BY <1>1, <2>1, <2>2, <2>4, <2>5, <2>6, <2>7, <2>8, <2>9, MoveKeeps
<1> QED
  BY <1>2, <1>3 DEF FetchFails

\* The versions of some items: one of each, of its type.
LEMMA VersionsTyped ==
    ASSUME TypeOK, NEW S \in SUBSET Items
    PROVE  /\ VersionsOf(S) \subseteq Versions /\ IdsOf(VersionsOf(S)) = S
           /\ \A v, w \in VersionsOf(S) : v.id = w.id => v = w
<1>1. \A i \in S : [id |-> i, content |-> item[i].content, stamp |-> item[i].stamp] \in Versions
  BY DEF TypeOK, Versions
<1>2. VersionsOf(S) \subseteq Versions
  BY <1>1 DEF VersionsOf
<1>3. \A v \in VersionsOf(S) : v.id \in S /\ v = [id |-> v.id, content |-> item[v.id].content, stamp |-> item[v.id].stamp]
  BY DEF VersionsOf
<1>4. ASSUME NEW i \in S PROVE \E v \in VersionsOf(S) : v.id = i
  <2> DEFINE u == [id |-> i, content |-> item[i].content, stamp |-> item[i].stamp]
  <2>1. u \in VersionsOf(S) /\ u.id = i
    BY DEF VersionsOf
  <2> QED
    BY <2>1
<1> QED
  BY <1>2, <1>3, <1>4 DEF IdsOf

\* The replies come after the messages: what was posted between is late.
LEMMA SyncRepliesKept ==
    ASSUME FeedInv, NEW r \in Syncs, SyncReplies(r)
    PROVE  FeedInv'
<1>1. PICK a \in RunStates : a = run[r]
  BY DEF FeedInv, TypeOK
<1>2. a.at = "thread" /\ UNCHANGED <<adapter, posted, item, feed, raws, norms, late>> /\ Thread
  BY <1>1 DEF SyncReplies, At, FeedInv, StageInv, Stage
<1>3. PICK found \in SUBSET Versions : found = VersionsOf(posted \cap Replies)
  BY VersionsTyped DEF FeedInv, TypeOK
<1>4. PICK more \in SUBSET Versions, step \in {"raw", "finalize"}, errs \in BOOLEAN :
        /\ run' = [run EXCEPT ![r].page = a.page \cup more, ![r].todo = a.todo \cup more, ![r].at = step, ![r].errs = errs]
        /\ more \in {{}, found} /\ (a.errs => errs) /\ (errs \/ more = found)
        /\ step = "finalize" => a.todo \cup more = {}
  <2>1. CASE run' = [run EXCEPT ![r].page = @ \cup found, ![r].todo = @ \cup found,
                                ![r].at = Onward(run[r].todo \cup found)]
    <3>1. PICK step \in {"raw", "finalize"} : /\ step = Onward(a.todo \cup found)
                                              /\ step = "finalize" => a.todo \cup found = {}
      BY DEF Onward
    <3>2. run' = [run EXCEPT ![r].page = a.page \cup found, ![r].todo = a.todo \cup found, ![r].at = step, ![r].errs = a.errs]
      <4>1. run' = [run EXCEPT ![r] = [a EXCEPT !.page = a.page \cup found, !.todo = a.todo \cup found, !.at = step]]
        BY <1>1, <2>1, <3>1
      <4>2. [a EXCEPT !.page = a.page \cup found, !.todo = a.todo \cup found, !.at = step]
              = [a EXCEPT !.page = a.page \cup found, !.todo = a.todo \cup found, !.at = step, !.errs = a.errs]
        BY DEF RunStates
      <4> QED
        BY <1>1, <4>1, <4>2
    <3>3. a.errs \in BOOLEAN
      BY DEF RunStates
    <3> QED
      BY <3>1, <3>2, <3>3
  <2>2. CASE run' = [run EXCEPT ![r].errs = TRUE, ![r].at = Onward(run[r].todo)]
    <3>1. PICK step \in {"raw", "finalize"} : /\ step = Onward(a.todo)
                                              /\ step = "finalize" => a.todo = {}
      BY DEF Onward
    <3>2. run' = [run EXCEPT ![r].page = a.page \cup {}, ![r].todo = a.todo \cup {}, ![r].at = step, ![r].errs = TRUE]
      <4>1. a.page \cup {} = a.page /\ a.todo \cup {} = a.todo
        OBVIOUS
      <4>2. run' = [run EXCEPT ![r].page = a.page, ![r].todo = a.todo, ![r].at = step, ![r].errs = TRUE]
        <5>1. run' = [run EXCEPT ![r] = [a EXCEPT !.errs = TRUE, !.at = step]]
          BY <1>1, <2>2, <3>1
        <5>2. [a EXCEPT !.errs = TRUE, !.at = step] = [a EXCEPT !.page = a.page, !.todo = a.todo, !.at = step, !.errs = TRUE]
          BY DEF RunStates
        <5> QED
          BY <1>1, <5>1, <5>2
      <4> QED
        BY <4>1, <4>2
    <3>3. {} \in SUBSET Versions /\ TRUE \in BOOLEAN
      OBVIOUS
    <3> QED
      BY <3>1, <3>2, <3>3
  <2> QED
    BY <1>3, <2>1, <2>2 DEF SyncReplies
<1> DEFINE x == [a EXCEPT !.page = a.page \cup more, !.todo = a.todo \cup more, !.at = step, !.errs = errs]
<1>5. /\ x \in RunStates /\ x.at = step /\ x.page = a.page \cup more /\ x.todo = a.todo \cup more
      /\ x.cursor = a.cursor /\ x.cut = a.cut /\ x.errs = errs
  BY DEF RunStates, RunSteps, Persisting
<1>6. run' = [run EXCEPT ![r] = x]
  BY <1>1, <1>4
<1> HIDE DEF x
<1>7. Moves(r) /\ run'[r] = x
  BY <1>2, <1>5, <1>6, MoveTo DEF FeedInv
<1>8. \A v \in more : v \in found /\ v.id \in posted \cap Replies
  BY <1>3, <1>4 DEF VersionsOf
<1>9. \A v, w \in found : v.id = w.id => v = w
  BY <1>3 DEF VersionsOf
<1>10. /\ Stage(r) /\ 1 \in IdsOf(a.page) /\ \A v \in a.todo : v.id \notin Replies
  BY <1>1, <1>2 DEF FeedInv, StageInv, Stage, At
<1>11. Stage(r)'
  <2>1. \A v, w \in x.todo : v.id = w.id => v = w
    <3>1. \A v, w \in a.todo : v.id = w.id => v = w
      BY <1>1, <1>10 DEF Stage
    <3> QED
      BY <1>5, <1>8, <1>9, <1>10, <3>1
  <2>2. x.todo \subseteq x.page
    BY <1>1, <1>5, <1>10 DEF Stage
  <2>3. \A v \in x.page : Origin(v.id)' \in IdsOf(x.page)
    BY <1>1, <1>2, <1>5, <1>8, <1>10 DEF Stage, Origin, Thread, IdsOf
  <2> QED
    BY <1>4, <1>5, <1>7, <2>1, <2>2, <2>3 DEF Stage, At, Persisting
<1>12. Passed(r)'
  BY <1>1, <1>2, <1>4, <1>5, <1>7 DEF FeedInv, PassedInv, Passed, At
<1>13. Listed(r)'
  <2>1. SUFFICES ASSUME adapter.cursor, NEW i \in posted
                 PROVE  Origin(i) \in IdsOf(x.page) \/ Origin(i) <= x.cursor \/ i \in late
    BY <1>2, <1>7 DEF Listed, Thread, Moves, Origin
  <2>2. PICK v \in a.page : v.id = 1
    BY <1>10 DEF IdsOf
  <2>3. Listed(r) /\ a.page # {}
    BY <2>2 DEF FeedInv, ListedInv
  <2>4. CASE Origin(i) \in IdsOf(a.page)
    BY <1>5, <2>4 DEF IdsOf
  <2>5. CASE \A w \in a.page : Origin(i) < w.id
    <3>1. Origin(i) \in Items
      BY <2>1, OriginPosted DEF FeedInv, TypeOK
    <3> QED
      BY <2>2, <2>5, <3>1, ItemsAssumption DEF Items
  <2> QED
    BY <1>1, <1>2, <1>5, <2>1, <2>3, <2>4, <2>5 DEF Listed, Working, Persisting
<1>14. Heard(r)'
  <2>1. ASSUME NEW i \in posted \cap Replies, ~errs PROVE i \in IdsOf(x.page)
    <3>1. i \in IdsOf(found)
      BY <1>3, VersionsTyped DEF FeedInv, TypeOK
    <3> QED
      BY <1>4, <1>5, <2>1, <3>1 DEF IdsOf
  <2> QED
    BY <1>5, <1>7, <2>1 DEF Heard, Moves
<1>15. InProgress(r)
  BY <1>1, <1>2 DEF InProgress
<1>16. ASSUME NEW w \in raws', w.by = r PROVE Accounted(w)'
  <2>1. Accounted(w)
    BY <1>2 DEF FeedInv, OrphanInv
  <2>2. w.v.id \in IdsOf(a.page) => w.v.id \in IdsOf(x.page)
    BY <1>5 DEF IdsOf
  <2>3. HasRecord(w.v)' <=> HasRecord(w.v)
    BY <1>2 DEF HasRecord
  <2> QED
    BY <1>1, <1>2, <1>4, <1>5, <1>7, <1>16, <2>1, <2>2, <2>3 DEF Accounted, RawOnly, At
<1>17. feed'.cursor \in posted \cup {0} /\ run'[r].cursor \in posted \cup {0} /\ IdsOf(run'[r].page) \subseteq posted
  BY <1>1, <1>2, <1>5, <1>7, <1>8 DEF FeedInv, PostedInv, IdsOf
<1>18. Told(r)' /\ Settles(r)'
  BY <1>4, <1>5, <1>7 DEF Told, Settles, At, InProgress
<1>19. IdsOf(run[r].page) \subseteq IdsOf(run'[r].page)
  BY <1>1, <1>5, <1>7 DEF IdsOf
<1> QED
  BY <1>1, <1>2, <1>5, <1>7, <1>10, <1>11, <1>12, <1>13, <1>16, <1>17, <1>18, <1>19, <1>14, <1>15, MoveKeeps

\* The copy of the feed that the sync works with.
LEMMA StartSyncKept ==
    ASSUME FeedInv, NEW r \in Syncs, startIngestionRun(r)
    PROVE  FeedInv'
<1>1. PICK a \in RunStates : a = run[r]
  BY DEF FeedInv, TypeOK
<1>2. PICK f \in FeedStates : f = feed
  BY DEF FeedInv, TypeOK
<1>3. /\ a.at = "idle" /\ UNCHANGED <<adapter, posted, item, raws, norms, late>>
      /\ feed' = [f EXCEPT !.sync = "syncing"]
  BY <1>1, <1>2 DEF startIngestionRun, At
<1> DEFINE x == [a EXCEPT !.at = "list", !.row = "running", !.cursor = f.cursor]
<1>4. /\ x \in RunStates /\ x.at = "list" /\ x.page = a.page /\ x.todo = a.todo /\ x.cursor = f.cursor
      /\ x.cut = a.cut /\ x.errs = a.errs
  BY DEF RunStates, RunSteps, RunRows, FeedStates
<1>5. run' = [run EXCEPT ![r] = x]
  BY <1>1, <1>2 DEF startIngestionRun
<1> HIDE DEF x
<1>6. run' \in [Syncs -> RunStates] /\ run'[r] = x /\ \A q \in Syncs \ {r} : run'[q] = run[q]
  BY <1>3, <1>4, <1>5, MoveTo DEF FeedInv
<1>7. feed' \in FeedStates /\ feed'.cursor = f.cursor
  BY <1>3 DEF FeedStates
<1>8. Moves(r)
  BY <1>3, <1>6, <1>7 DEF Moves, FeedInv, TypeOK
<1>9. Stage(r) /\ a.page = {} /\ ~a.errs /\ ~a.cut /\ a.todo = {}
  BY <1>1, <1>3 DEF FeedInv, StageInv, Stage, Persisting
<1>10. Stage(r)' /\ Passed(r)' /\ Listed(r)' /\ Heard(r)'
  BY <1>4, <1>6, <1>9 DEF Stage, Passed, Listed, Heard, At, Working, Persisting, IdsOf
<1>11. ASSUME NEW w \in raws', w.by = r PROVE Accounted(w)'
  BY <1>1, <1>3, <1>4, <1>6, <1>9, <1>11 DEF FeedInv, OrphanInv, Accounted, RawOnly, HasRecord, At
<1>12. feed'.cursor \in posted \cup {0} /\ run'[r].cursor \in posted \cup {0} /\ IdsOf(run'[r].page) \subseteq posted
  BY <1>2, <1>4, <1>6, <1>7, <1>9 DEF FeedInv, PostedInv, IdsOf
<1>13. Told(r)' /\ Settles(r)'
  BY <1>4, <1>6 DEF Told, Settles, At, InProgress
<1> QED
  BY <1>1, <1>2, <1>4, <1>6, <1>7, <1>8, <1>9, <1>10, <1>11, <1>12, <1>13, MoveKeeps

\* A listing that fails, or is never made, leaves nothing listed.
LEMMA UnlistedKept ==
    ASSUME FeedInv, NEW r \in Syncs, ListFails(r) \/ LeaveRunning(r)
    PROVE  FeedInv'
<1>1. PICK a \in RunStates : a = run[r]
  BY DEF FeedInv, TypeOK
<1>2. a.at = "list" /\ UNCHANGED <<adapter, posted, item, feed, raws, norms, late>>
  BY <1>1 DEF ListFails, LeaveRunning, At
<1>3. PICK step \in {"finalize", "left"}, errs \in BOOLEAN :
        /\ run' = [run EXCEPT ![r].at = step, ![r].errs = errs]
        /\ step = "finalize" => errs
        /\ step = "left" => adapter.leaks /\ errs = a.errs
  <2>1. CASE ListFails(r)
    BY <2>1 DEF ListFails
  <2>2. CASE LeaveRunning(r)
    <3>1. run' = [run EXCEPT ![r].at = "left", ![r].errs = a.errs] /\ adapter.leaks /\ a.errs \in BOOLEAN
      BY <1>1, <2>2 DEF LeaveRunning, Go, FeedInv, TypeOK, RunStates
    <3> QED
      BY <3>1
  <2> QED
    BY <2>1, <2>2
<1> DEFINE x == [a EXCEPT !.at = step, !.errs = errs]
<1>4. /\ x \in RunStates /\ x.at = step /\ x.page = a.page /\ x.todo = a.todo /\ x.cursor = a.cursor
      /\ x.cut = a.cut /\ x.errs = errs
  BY DEF RunStates, RunSteps
<1>5. run' = [run EXCEPT ![r] = x]
  BY <1>1, <1>3
<1> HIDE DEF x
<1>6. Moves(r) /\ run'[r] = x
  BY <1>2, <1>4, <1>5, MoveTo DEF FeedInv
<1>7. Stage(r) /\ a.page = {} /\ ~a.errs /\ ~a.cut /\ a.todo = {}
  BY <1>1, <1>2 DEF FeedInv, StageInv, Stage, Persisting
<1>8. Stage(r)' /\ Passed(r)' /\ Listed(r)' /\ Heard(r)'
  BY <1>3, <1>4, <1>6, <1>7 DEF Stage, Passed, Listed, Heard, At, Working, Persisting, IdsOf
<1>9. InProgress(r)
  BY <1>1, <1>2 DEF InProgress
<1>10. ASSUME NEW w \in raws', w.by = r PROVE Accounted(w)'
  BY <1>1, <1>2, <1>3, <1>4, <1>6, <1>7, <1>10 DEF FeedInv, OrphanInv, Accounted, RawOnly, HasRecord, At
<1>11. feed'.cursor \in posted \cup {0} /\ run'[r].cursor \in posted \cup {0} /\ IdsOf(run'[r].page) \subseteq posted
  BY <1>1, <1>2, <1>4, <1>6, <1>7 DEF FeedInv, PostedInv, IdsOf
<1>12. adapter.cursor => step = "finalize"
  BY <1>3, CursorAdapters DEF FeedInv
<1>13. Told(r) /\ IdsOf(run[r].page) = {}
  BY <1>1, <1>7, <1>9 DEF IdsOf, Told
<1>14. adapter.cursor => Told(r)'
  BY <1>3, <1>4, <1>6, <1>12 DEF Told
<1>15. step = "finalize" => Settles(r)'
  BY <1>4, <1>6 DEF Settles, At, InProgress
<1> QED
  BY <1>1, <1>2, <1>3, <1>4, <1>6, <1>7, <1>8, <1>10, <1>11, <1>15, <1>12, <1>9, <1>13, <1>14, MoveKeeps

\* What a listing is cut at lies on one side of all it returns.
LEMMA CutAtOneSide ==
    ASSUME NEW S \in SUBSET Items, NEW i \in S \ FirstOf(S), NEW j \in FirstOf(S)
    PROVE  IF adapter.oldest THEN j < i ELSE i < j
<1> DEFINE B(k) == {m \in S : IF adapter.oldest THEN m < k ELSE m > k}
<1>1. Limit \in Nat
  BY BoundsAssumption DEF Limit
<1>2. Items \subseteq Nat /\ IsFiniteSet(Items)
  BY ItemsAssumption, FS_Interval DEF Items
<1>3. \A k : IsFiniteSet(B(k)) /\ Cardinality(B(k)) \in Nat
  <2>1. ASSUME NEW k PROVE IsFiniteSet(B(k)) /\ Cardinality(B(k)) \in Nat
    <3>1. B(k) \in SUBSET Items
      OBVIOUS
    <3> HIDE DEF B
    <3> QED
      BY <1>2, <3>1, FS_Subset, FS_CardinalityType
  <2> QED
    BY <2>1
<1>4. ~(Cardinality(B(i)) < Limit) /\ Cardinality(B(j)) < Limit /\ i \in Nat /\ j \in Nat
  BY <1>2 DEF FirstOf
<1>5. ASSUME B(i) \subseteq B(j) PROVE FALSE
  <2>1. Cardinality(B(i)) <= Cardinality(B(j))
    <3> HIDE DEF B
    <3> QED
      BY <1>3, <1>5, FS_Subset
  <2> HIDE DEF B
  <2> QED
    BY <1>1, <1>3, <1>4, <2>1
<1>6. CASE adapter.oldest
  <2>1. i <= j => B(i) \subseteq B(j)
    <3>1. SUFFICES ASSUME i <= j, NEW m \in B(i) PROVE m \in B(j)
      OBVIOUS
    <3>2. m \in S /\ m \in Nat /\ m < i
      BY <1>2, <1>6
    <3>3. m < j
      BY <1>4, <3>1, <3>2
    <3> QED
      BY <1>6, <3>2, <3>3
  <2> QED
    BY <1>4, <1>5, <1>6, <2>1
<1>7. CASE ~adapter.oldest
  <2>1. j <= i => B(i) \subseteq B(j)
    <3>1. SUFFICES ASSUME j <= i, NEW m \in B(i) PROVE m \in B(j)
      OBVIOUS
    <3>2. m \in S /\ m \in Nat /\ m > i
      BY <1>2, <1>7
    <3>3. m > j
      BY <1>4, <3>1, <3>2
    <3> QED
      BY <1>7, <3>2, <3>3
  <2> QED
    BY <1>4, <1>5, <1>7, <2>1
<1> QED
  BY <1>6, <1>7

LEMMA ListKept ==
    ASSUME FeedInv, NEW r \in Syncs, List(r)
    PROVE  FeedInv'
<1>1. PICK a \in RunStates : a = run[r]
  BY DEF FeedInv, TypeOK
<1>2. a.at = "list" /\ UNCHANGED <<adapter, posted, item, feed, raws, norms, late>>
  BY <1>1 DEF List, At
<1> DEFINE F == FirstOf(After(r))
<1>3. After(r) \in SUBSET Items /\ F \in SUBSET Items /\ F \subseteq After(r) /\ F \subseteq posted
  BY DEF FirstOf, After, Listable, FeedInv, TypeOK
<1>4. PICK page \in SUBSET Versions : page = VersionsOf(F) /\ IdsOf(page) = F /\ \A v, w \in page : v.id = w.id => v = w
  <2> HIDE DEF F
  <2> QED
    BY <1>3, VersionsTyped DEF FeedInv
<1>5. PICK step \in {"finalize", "raw"} : step = (IF page = {} THEN "finalize" ELSE "raw") /\ (step = "finalize" => page = {})
  OBVIOUS
<1>6. PICK cut \in BOOLEAN : cut = (~adapter.oldest /\ F # After(r))
  OBVIOUS
<1>7. PICK replied \in BOOLEAN : replied = (posted \cap Replies # {})
  OBVIOUS
<1> DEFINE x == [a EXCEPT !.page = page, !.todo = page, !.at = step, !.replied = replied, !.cut = cut]
<1>8. /\ x \in RunStates /\ x.at = step /\ x.page = page /\ x.todo = page /\ x.cursor = a.cursor
      /\ x.cut = cut /\ x.errs = a.errs /\ x.replied = replied
  BY DEF RunStates, RunSteps, Persisting
<1>9. run' = [run EXCEPT ![r] = x]
  BY <1>1, <1>4, <1>5, <1>6, <1>7 DEF List
<1> HIDE DEF x
<1>10. Moves(r) /\ run'[r] = x
  BY <1>2, <1>8, <1>9, MoveTo DEF FeedInv
<1>11. Stage(r) /\ a.page = {} /\ ~a.errs /\ ~a.cut /\ a.todo = {}
  BY <1>1, <1>2 DEF FeedInv, StageInv, Stage, Persisting
<1>12. \A v \in page : Origin(v.id)' \in IdsOf(page)
  BY <1>2, <1>3, <1>4 DEF Origin, After, Listable, IdsOf
<1>13. Stage(r)' /\ Passed(r)'
  BY <1>4, <1>5, <1>8, <1>10, <1>12 DEF Stage, Passed, At, Persisting
<1>14. Listed(r)'
  <2>1. SUFFICES ASSUME adapter.cursor, page # {}, NEW i \in posted, Thread \/ \E v \in page : i <= v.id
                 PROVE  Origin(i) \in F \/ Origin(i) <= a.cursor \/ (cut /\ \A v \in page : Origin(i) < v.id)
    BY <1>2, <1>4, <1>8, <1>10 DEF Listed, Thread, Moves, Origin
  <2>2. PICK o \in posted \ Replies : o = Origin(i) /\ o \in Nat /\ (~Thread => o = i)
    BY <2>1, OriginPosted DEF FeedInv
  <2>3. SUFFICES ASSUME o \notin F, ~(o <= a.cursor) PROVE cut /\ \A v \in page : o < v.id
    BY <2>2
  <2>4. o \in After(r)
    BY <1>1, <2>1, <2>2, <2>3, ItemsAssumption DEF After, Listable, FeedInv, TypeOK, Items, RunStates
  <2>5. \A v \in page : v.id \in F
    BY <1>4 DEF IdsOf
  <2>6. \A v \in page : IF adapter.oldest THEN v.id < o ELSE o < v.id
    BY <1>3, <2>3, <2>4, <2>5, CutAtOneSide
  <2>7. CASE adapter.oldest
    <3>1. PICK v \in page : o <= v.id
      BY <2>1, <2>2, <2>7, CursorAdapters DEF FeedInv
    <3>2. v.id < o /\ v.id \in Nat
      BY <1>3, <2>5, <2>6, <2>7, ItemsAssumption DEF Items
    <3> QED
      BY <2>2, <3>1, <3>2
  <2>8. CASE ~adapter.oldest
    BY <1>6, <2>3, <2>4, <2>6, <2>8
  <2> QED
    BY <2>7, <2>8
<1>15. Heard(r)'
  BY <1>2, <1>8, <1>10, <1>7 DEF Heard, Moves
<1>16. InProgress(r)
  BY <1>1, <1>2 DEF InProgress
<1>17. ASSUME NEW w \in raws', w.by = r PROVE Accounted(w)'
  BY <1>1, <1>2, <1>8, <1>10, <1>11, <1>17 DEF FeedInv, OrphanInv, Accounted, RawOnly, HasRecord, At, IdsOf
<1>18. feed'.cursor \in posted \cup {0} /\ run'[r].cursor \in posted \cup {0} /\ IdsOf(run'[r].page) \subseteq posted
  BY <1>1, <1>2, <1>3, <1>4, <1>8, <1>10 DEF FeedInv, PostedInv
<1>19. Told(r)' /\ Settles(r)'
  BY <1>8, <1>10 DEF Told, Settles, At, InProgress
<1>20. IdsOf(run[r].page) = {}
  BY <1>1, <1>11 DEF IdsOf
<1> QED
  BY <1>1, <1>2, <1>8, <1>10, <1>11, <1>13, <1>14, <1>17, <1>18, <1>19, <1>20, <1>15, <1>16, MoveKeeps

LEMMA FinalizeKept ==
    ASSUME FeedInv, NEW r \in Syncs, finalizeIngestionRun(r)
    PROVE  FeedInv'
<1>1. PICK a \in RunStates : a = run[r]
  BY DEF FeedInv, TypeOK
<1>2. a.at = "finalize" /\ UNCHANGED <<adapter, posted, item, feed, raws, norms, late>>
  BY <1>1 DEF finalizeIngestionRun, At
<1>3. PICK ended \in RunRows : ended = syncRunStatusFromCounts(r)
  BY DEF syncRunStatusFromCounts, RunRows
<1> DEFINE x == [a EXCEPT !.row = ended, !.at = "settle"]
<1>4. /\ x \in RunStates /\ x.at = "settle" /\ x.page = a.page /\ x.todo = a.todo /\ x.cursor = a.cursor
      /\ x.cut = a.cut /\ x.errs = a.errs /\ x.replied = a.replied
  BY DEF RunStates, RunSteps
<1>5. run' = [run EXCEPT ![r] = x]
  BY <1>1, <1>3 DEF finalizeIngestionRun
<1> HIDE DEF x
<1>6. Moves(r) /\ run'[r] = x
  BY <1>2, <1>4, <1>5, MoveTo DEF FeedInv
<1> QED
  BY <1>1, <1>2, <1>4, <1>6, StayKeeps DEF Working, Persisting

\* The last steps: sync_status, then the cursor, if anything was listed.
LEMMA EndsKept ==
    ASSUME FeedInv, NEW r \in Syncs, completeSourceFeedSync(r) \/ SaveCursor(r)
    PROVE  FeedInv'
<1>1. PICK a \in RunStates : a = run[r]
  BY DEF FeedInv, TypeOK
<1>2. PICK f \in FeedStates : f = feed
  BY DEF FeedInv, TypeOK
<1>3. PICK step \in {"save", "done"} : /\ Go(r, step)
                                       /\ step = "save" => a.page # {} /\ a.at = "settle"
                                       /\ a.at = "settle" /\ adapter.cursor /\ step = "done" => a.page = {}
  BY <1>1 DEF completeSourceFeedSync, SaveCursor, At
<1>4. UNCHANGED <<adapter, posted, item, raws, norms, late>> /\ a.at \in {"settle", "save"}
      /\ (completeSourceFeedSync(r) <=> a.at = "settle") /\ (SaveCursor(r) <=> a.at = "save")
  BY <1>1 DEF completeSourceFeedSync, SaveCursor, At
<1>5. /\ feed' \in FeedStates
      /\ completeSourceFeedSync(r) =>
            feed'.cursor = f.cursor /\ (adapter.cursor => feed'.sync # "syncing") /\ (feed'.sync = "syncing" => f.sync = "syncing")
      /\ SaveCursor(r) => feed'.cursor = Newest(r) /\ feed'.sync = f.sync
  <2>1. CASE completeSourceFeedSync(r)
    <3>1. PICK sync \in {"idle", "syncing", "error"} :
              feed' = [f EXCEPT !.sync = sync] /\ (adapter.cursor => sync # "syncing") /\ (~adapter.cursor => sync = f.sync)
      <4>1. PICK sync \in {"idle", "syncing", "error"} :
              sync = IF ~adapter.cursor THEN f.sync ELSE IF run[r].errs THEN "error" ELSE "idle"
        BY DEF FeedStates
      <4>2. feed' = [f EXCEPT !.sync = sync]
        BY <1>2, <2>1, <4>1 DEF completeSourceFeedSync
      <4> QED
        BY <4>1, <4>2
    <3> QED
      BY <1>4, <2>1, <3>1 DEF FeedStates
  <2>2. CASE SaveCursor(r)
    <3>1. PICK newest \in 0..MaxItems : newest = Newest(r)
      <4>1. IdsOf(run[r].page) \subseteq 0..MaxItems
        BY ItemsAssumption DEF IdsOf, FeedInv, TypeOK, RunStates, Versions, Items
      <4> QED
        BY <4>1, NewestIsGreatest, ItemsAssumption DEF FeedInv
    <3>2. feed' = [f EXCEPT !.cursor = newest]
      BY <1>2, <2>2, <3>1 DEF SaveCursor
    <3> QED
      BY <1>4, <2>2, <3>1, <3>2 DEF FeedStates
  <2> QED
    BY <1>4, <2>1, <2>2
<1> DEFINE x == [a EXCEPT !.at = step]
<1>6. /\ x \in RunStates /\ x.at = step /\ x.page = a.page /\ x.todo = a.todo /\ x.cursor = a.cursor
      /\ x.cut = a.cut /\ x.errs = a.errs /\ x.replied = a.replied
  BY DEF RunStates, RunSteps
<1>7. run' = [run EXCEPT ![r] = x]
  BY <1>1, <1>3 DEF Go
<1> HIDE DEF x
<1>8. run' \in [Syncs -> RunStates] /\ run'[r] = x /\ \A q \in Syncs \ {r} : run'[q] = run[q]
  BY <1>4, <1>6, <1>7, MoveTo DEF FeedInv
<1>9. Moves(r)
  BY <1>4, <1>5, <1>8 DEF Moves, FeedInv, TypeOK
<1>10. CASE step = "save"
  BY <1>1, <1>2, <1>3, <1>4, <1>5, <1>6, <1>8, <1>9, <1>10, StayKeeps DEF Working, Persisting
<1>11. CASE step = "done"
  <2>1. Stage(r) /\ a.todo = {}
    BY <1>1, <1>4 DEF FeedInv, StageInv, Stage, Persisting
  <2>2. Stage(r)' /\ Listed(r)' /\ Heard(r)'
    BY <1>1, <1>4, <1>6, <1>8, <1>11, <2>1 DEF Stage, Listed, Heard, At, Working, Persisting, Origin
  <2>3. Passed(r)'
    BY <1>1, <1>4, <1>6, <1>8, <2>1 DEF FeedInv, PassedInv, Passed, At
  <2>4. ASSUME NEW w \in raws', w.by = r PROVE Accounted(w)'
    BY <1>1, <1>4, <1>6, <1>8, <2>4 DEF FeedInv, OrphanInv, Accounted, RawOnly, HasRecord, At
  <2>5. run'[r].cursor \in posted \cup {0} /\ IdsOf(run'[r].page) \subseteq posted
    BY <1>1, <1>6, <1>8 DEF FeedInv, PostedInv
  <2>6. feed'.cursor \in posted \cup {0}
    BY <1>2, <1>4, <1>5, NewestIsGreatest DEF FeedInv, PostedInv
  <2>7. a.errs \/ \A v \in a.page : \E w \in raws' : w.v.id = v.id
    BY <1>1, <1>4, <2>1 DEF FeedInv, PassedInv, Passed, At
  <2>8. a.errs => Told(r)'
    BY <1>6, <1>8 DEF Told
  <2>9. InProgress(r) /\ Told(r)
    BY <1>1, <1>4 DEF Told, InProgress
  <2>10. ASSUME adapter.cursor, NEW i \in posted, Origin(i) <= feed'.cursor \/ Origin(i) <= run'[r].cursor
        PROVE  Origin(i) <= feed.cursor \/ Origin(i) <= run[r].cursor \/ Covered(i)
    <3>1. CASE Origin(i) <= run'[r].cursor
      BY <1>1, <1>6, <1>8, <3>1
    <3>2. CASE completeSourceFeedSync(r)
      BY <1>1, <1>2, <1>5, <1>6, <1>8, <2>10, <3>2
    <3>3. CASE SaveCursor(r) /\ Origin(i) <= Newest(r)
      <4>1. Origin(i) \in posted /\ (~Thread => Origin(i) = i)
        BY <2>10, OriginPosted DEF FeedInv
      <4>2. Origin(i) \in Nat /\ Origin(i) # 0
        <5>1. Origin(i) \in Items
          BY <4>1 DEF FeedInv, TypeOK
        <5>2. \A k \in Items : k \in Nat /\ k # 0
          BY DEF Items
        <5> QED
          BY <5>1, <5>2
      <4>3. \E v \in a.page : Origin(i) <= v.id
        BY <1>1, <3>3, <4>2, NewestIsGreatest DEF FeedInv, IdsOf
      <4>4. Listed(r) /\ a.page # {} /\ a.at \in Working
        BY <1>4, <4>3 DEF FeedInv, ListedInv, Working
      <4> QED
        BY <1>1, <2>10, <2>9, <4>1, <4>3, <4>4 DEF Listed, Covered
    <3> QED
      BY <1>4, <1>5, <2>10, <3>1, <3>2, <3>3
  <2>11. adapter.cursor /\ feed'.sync = "syncing" => feed.sync = "syncing" /\ ~Settles(r)
    BY <1>1, <1>2, <1>4, <1>5 DEF Settles, At
  <2>12. adapter.cursor /\ ~a.errs => Complete(r)
    <3>1. SUFFICES ASSUME adapter.cursor, ~a.errs, NEW i \in posted, Origin(i) \in IdsOf(run[r].page)
                   PROVE  i \in IdsOf(run[r].page) \/ (Thread /\ i \in late)
      BY DEF Complete
    <3>2. CASE i \notin Replies
      BY <3>1, <3>2, OriginPosted DEF FeedInv
    <3>3. CASE i \in Replies
      <4>1. Thread /\ 1 \in IdsOf(run[r].page)
        BY <3>1, <3>3, OriginPosted DEF FeedInv
      <4>2. IdsOf(a.todo) = {} /\ ~At(r, "thread") /\ a.at \in Working
        BY <1>1, <1>4, <2>1 DEF IdsOf, At, Working
      <4>3. Heard(r)
        BY DEF FeedInv, HeardInv
      <4> QED
        BY <1>1, <3>1, <3>3, <4>1, <4>2, <4>3 DEF Heard
    <3> QED
      BY <3>2, <3>3
  <2> QED
    BY <1>1, <1>6, <1>8, <1>9, <2>2, <2>3, <2>4, <2>5, <2>6, <2>7, <2>8, <2>10, <2>11, <2>9, <2>12, MoveKeeps
<1> QED
  BY <1>10, <1>11

LEMMA SyncCrashKept ==
    ASSUME FeedInv, NEW r \in Syncs, Crash(r)
    PROVE  FeedInv'
<1>1. PICK a \in RunStates : a = run[r]
  BY DEF FeedInv, TypeOK
<1>2. UNCHANGED <<adapter, posted, item, feed, raws, norms, late>>
  BY DEF Crash
<1> DEFINE x == [a EXCEPT !.at = "crashed", !.todo = {}, !.got = FALSE, !.errs = FALSE]
<1>3. /\ x \in RunStates /\ x.at = "crashed" /\ x.page = a.page /\ x.todo = {} /\ x.cursor = a.cursor /\ x.cut = a.cut
  BY DEF RunStates, RunSteps
<1>4. run' = [run EXCEPT ![r] = x]
  BY <1>1 DEF Crash
<1> HIDE DEF x
<1>5. Moves(r) /\ run'[r] = x
  BY <1>2, <1>3, <1>4, MoveTo DEF FeedInv
<1>6. Stage(r)' /\ Passed(r)' /\ Listed(r)' /\ Heard(r)'
  BY <1>1, <1>2, <1>3, <1>5 DEF Stage, Passed, Listed, Heard, At, Working, Persisting, FeedInv, StageInv, Origin
<1>7. InProgress(r)
  BY DEF Crash
<1>8. ASSUME NEW w \in raws', w.by = r PROVE Accounted(w)'
  BY <1>1, <1>2, <1>3, <1>5, <1>8 DEF FeedInv, OrphanInv, Accounted, RawOnly, At
<1>9. feed'.cursor \in posted \cup {0} /\ run'[r].cursor \in posted \cup {0} /\ IdsOf(run'[r].page) \subseteq posted
  BY <1>1, <1>2, <1>3, <1>5 DEF FeedInv, PostedInv
<1>10. Told(r)' /\ Settles(r)'
  BY <1>3, <1>5 DEF Told, Settles, At, InProgress
<1> QED
  BY <1>1, <1>2, <1>3, <1>5, <1>6, <1>8, <1>9, <1>10, <1>7, MoveKeeps

\* A new item is behind all that a sync has listed, and behind every cursor.
LEMMA PostKept ==
    ASSUME FeedInv, Post
    PROVE  FeedInv'
<1>1. PICK i \in Seen \ posted :
          /\ \A j \in Seen \ posted : i <= j
          /\ \A p \in Touched(i) : item[p].stamp < MaxStamp
          /\ posted' = posted \cup {i}
          /\ item' = [p \in Items |-> IF p \in Touched(i)
                                      THEN [item[p] EXCEPT !.stamp = @ + 1] ELSE item[p]]
          /\ late' = late \cup {j \in {i} : Origin(i) <= feed.cursor \/ \E r \in Syncs : InProgress(r)}
          /\ UNCHANGED <<adapter, feed, raws, norms, run>>
  BY DEF Post
<1>2. i \in Items /\ Seen \subseteq Items /\ Items \subseteq Nat
  BY ItemsAssumption DEF Seen, Items
<1>3. \A j \in posted : j < i /\ j \in Nat
  BY <1>1, <1>2 DEF FeedInv, PostedInv
<1>4. TypeOK'
  <2>1. \A p \in Items : item'[p] \in [content : Contents, stamp : 0..MaxStamp]
    <3>1. SUFFICES ASSUME NEW p \in Items PROVE item'[p] \in [content : Contents, stamp : 0..MaxStamp]
      OBVIOUS
    <3>2. item[p] \in [content : Contents, stamp : 0..MaxStamp]
      BY DEF FeedInv, TypeOK
    <3>3. CASE p \in Touched(i)
      <4>1. item[p].stamp < MaxStamp /\ item'[p] = [item[p] EXCEPT !.stamp = @ + 1]
        BY <1>1, <3>3
      <4>2. item[p].stamp + 1 \in 0..MaxStamp
        BY <3>2, <4>1, BoundsAssumption
      <4> QED
        BY <3>2, <4>1, <4>2
    <3>4. CASE p \notin Touched(i)
      BY <1>1, <3>2, <3>4
    <3> QED
      BY <3>3, <3>4
  <2>2. item' \in [Items -> [content : Contents, stamp : 0..MaxStamp]]
    BY <1>1, <2>1
  <2> QED
    BY <1>1, <1>2, <2>2 DEF FeedInv, TypeOK
<1>5. StageInv' /\ OrphanInv' /\ PassedInv' /\ SettleInv'
  BY <1>1 DEF FeedInv, StageInv, Stage, OrphanInv, Accounted, PassedInv, Passed, SettleInv, Settles, At, InProgress,
              IsHead, InThread, Thread, Origin, HasRecord, RawOnly
<1>6. PostedInv'
  <2>1. posted' \subseteq Seen /\ Seen' = Seen
    BY <1>1 DEF FeedInv, PostedInv, Seen
  <2>2. \A j \in posted' : \A k \in Seen \ posted' : j < k
    BY <1>1, <1>2 DEF FeedInv, PostedInv
  <2> QED
    BY <1>1, <2>1, <2>2 DEF FeedInv, PostedInv
<1>7. ListedInv'
  <2>1. SUFFICES ASSUME NEW r \in Syncs, adapter.cursor, run[r].at \in Working, run[r].page # {}, NEW j \in posted',
                        Thread \/ \E v \in run[r].page : j <= v.id
                 PROVE  \/ Origin(j) \in IdsOf(run[r].page)
                        \/ Origin(j) <= run[r].cursor
                        \/ run[r].cut /\ \A v \in run[r].page : Origin(j) < v.id
                        \/ Thread /\ j \in late'
    BY <1>1 DEF ListedInv, Listed, Thread, Origin
  <2>2. CASE j \in posted
    BY <1>1, <2>1, <2>2 DEF FeedInv, ListedInv, Listed
  <2>3. CASE j = i /\ Thread
    <3>1. InProgress(r)
      BY <2>1 DEF InProgress, Working, Persisting
    <3> QED
      BY <1>1, <2>3, <3>1
  <2>4. CASE j = i /\ ~Thread
    <3>1. \A v \in run[r].page : v.id < i /\ v.id \in Nat
      BY <1>3 DEF FeedInv, PostedInv, IdsOf
    <3> QED
      BY <1>2, <2>1, <2>4, <3>1
  <2> QED
    BY <1>1, <2>2, <2>3, <2>4
<1>8. HeardInv'
  <2>1. SUFFICES ASSUME NEW r \in Syncs, Thread, run[r].at \in Working, 1 \in IdsOf(run[r].page),
                        NEW j \in posted' \cap Replies
                 PROVE  \/ j \in late' \cup IdsOf(run[r].page) \/ run[r].errs
                        \/ run[r].replied /\ (At(r, "thread") \/ 1 \in IdsOf(run[r].todo))
    BY <1>1 DEF HeardInv, Heard, Thread, At
  <2>2. CASE j \in posted
    BY <1>1, <2>1, <2>2 DEF FeedInv, HeardInv, Heard
  <2>3. CASE j = i
    <3>1. InProgress(r)
      BY <2>1 DEF InProgress, Working, Persisting
    <3> QED
      BY <1>1, <2>3, <3>1
  <2> QED
    BY <1>1, <2>2, <2>3
<1>9. CoverInv'
  <2>1. SUFFICES ASSUME adapter.cursor, NEW j \in posted',
                        Origin(j) <= feed.cursor \/ \E r \in Syncs : InProgress(r) /\ Origin(j) <= run[r].cursor
                 PROVE  Covered(j)'
    BY <1>1 DEF CoverInv, Origin, InProgress
  <2>2. CASE j \in posted
    <3>1. Covered(j)
      BY <2>1, <2>2 DEF FeedInv, CoverInv
    <3> QED
      BY <1>1, <3>1 DEF Covered, Told, InProgress, Thread, Origin
  <2>3. CASE j = i /\ Thread
    BY <1>1, <2>1, <2>3 DEF Covered, Thread
  <2>4. CASE j = i /\ ~Thread
    <3>0. Origin(j) = i
      BY <2>4 DEF Origin, Thread
    <3>1. i # 0
      BY <1>2, ItemsAssumption DEF Items
    <3>2. \A k \in posted \cup {0} : k < i /\ k \in Nat
      BY <1>2, <1>3, <3>1
    <3>3. feed.cursor \in posted \cup {0} /\ \A r \in Syncs : run[r].cursor \in posted \cup {0}
      BY DEF FeedInv, PostedInv
    <3>4. ~(i <= feed.cursor) /\ \A r \in Syncs : ~(i <= run[r].cursor)
      BY <1>2, <3>2, <3>3
    <3> QED
      BY <2>1, <2>4, <3>0, <3>4
  <2> QED
    BY <1>1, <2>2, <2>4, <2>3
<1> QED
  BY <1>1, <1>4, <1>5, <1>6, <1>7, <1>9, <1>8 DEF FeedInv

\* Nothing that a sync holds depends on what an item says at the vendor by now.
LEMMA EditKept ==
    ASSUME FeedInv, NEW i \in Items, EditItem(i)
    PROVE  FeedInv'
<1>1. UNCHANGED <<adapter, posted, feed, raws, norms, run, late>>
  BY DEF EditItem
<1>2. PICK c \in Contents : item' = [item EXCEPT ![i] = [content |-> c, stamp |-> @.stamp + 1]]
  BY DEF EditItem
<1>3. item[i].stamp + 1 \in 0..MaxStamp
  BY BoundsAssumption DEF EditItem, FeedInv, TypeOK
<1>4. TypeOK'
  BY <1>1, <1>2, <1>3 DEF FeedInv, TypeOK
<1> QED
  BY <1>1, <1>4 DEF FeedInv, StageInv, Stage, PostedInv, Seen, OrphanInv, Accounted, PassedInv, Passed, ListedInv, Listed,
                    HeardInv, Heard, Origin, CoverInv, Covered, SettleInv, Settles, At, Told, InProgress, IsHead, InThread, Thread, HasRecord, RawOnly

\* The administrator's changes leave sync_status alone, and a cursor that goes back asks less.
LEMMA AdministeredKept ==
    ASSUME FeedInv, PatchSourceFeed \/ \E active \in BOOLEAN : SetFeedStatus(active)
    PROVE  FeedInv'
<1>1. PICK f \in FeedStates : f = feed
  BY DEF FeedInv, TypeOK
<1>2. UNCHANGED <<adapter, posted, item, raws, norms, run, late>>
  BY DEF PatchSourceFeed, SetFeedStatus
<1>3. feed' \in FeedStates /\ feed'.sync = feed.sync /\ feed'.cursor \in {feed.cursor, 0}
  <2>1. CASE PatchSourceFeed
    <3>1. feed' = [f EXCEPT !.cursor = 0]
      BY <1>1, <2>1 DEF PatchSourceFeed
    <3> QED
      BY <1>1, <3>1, ItemsAssumption DEF FeedStates
  <2>2. ASSUME NEW active \in BOOLEAN, SetFeedStatus(active)
        PROVE  feed' \in FeedStates /\ feed'.sync = feed.sync /\ feed'.cursor \in {feed.cursor, 0}
    <3>1. feed' = [f EXCEPT !.active = active]
      BY <1>1, <2>2 DEF SetFeedStatus
    <3> QED
      BY <1>1, <3>1 DEF FeedStates
  <2> QED
    BY <2>1, <2>2
<1>4. TypeOK'
  BY <1>2, <1>3 DEF FeedInv, TypeOK
<1>5. StageInv' /\ OrphanInv' /\ PassedInv' /\ ListedInv' /\ HeardInv' /\ SettleInv'
  BY <1>2, <1>3 DEF FeedInv, StageInv, Stage, OrphanInv, Accounted, PassedInv, Passed, ListedInv, Listed, SettleInv, Settles,
                    HeardInv, Heard, Origin,
                    At, InProgress, IsHead, InThread, Thread, HasRecord, RawOnly
<1>6. PostedInv'
  BY <1>2, <1>3 DEF FeedInv, PostedInv, Seen
<1>7. CoverInv'
  <2>1. SUFFICES ASSUME adapter.cursor, NEW i \in posted,
                        Origin(i) <= feed'.cursor \/ \E r \in Syncs : InProgress(r) /\ Origin(i) <= run[r].cursor
                 PROVE  Covered(i)'
    BY <1>2 DEF CoverInv, Origin, InProgress
  <2>2. Origin(i) \in Nat /\ Origin(i) # 0
    <3>1. Origin(i) \in posted /\ posted \subseteq Items
      BY <2>1, OriginPosted DEF FeedInv, TypeOK
    <3>2. \A k \in Items : k \in Nat /\ k # 0
      BY DEF Items
    <3> QED
      BY <3>1, <3>2
  <2>3. Covered(i)
    BY <1>3, <2>1, <2>2 DEF FeedInv, CoverInv
  <2> QED
    BY <1>2, <2>3 DEF Covered, Told, InProgress, Thread, Origin
<1> QED
  BY <1>2, <1>4, <1>5, <1>6, <1>7 DEF FeedInv

LEMMA FeedInitInv == SyncInit => FeedInv
<1> SUFFICES ASSUME SyncInit PROVE FeedInv
  OBVIOUS
<1>1. NotRequested \in RunStates /\ \A r \in Syncs : run[r] = NotRequested
  BY ItemsAssumption DEF SyncInit, NotRequested, RunStates, RunSteps, RunRows, Persisting
<1>2. TypeOK
  <2>1. adapter \in Traits
    BY AdaptersSound DEF SyncInit, Sound
  <2>2. item \in [Items -> [content : Contents, stamp : 0..MaxStamp]]
    BY BoundsAssumption DEF SyncInit, Contents
  <2>3. feed \in FeedStates
    BY ItemsAssumption DEF SyncInit, FeedStates
  <2>4. run \in [Syncs -> RunStates]
    BY <1>1 DEF SyncInit
  <2> QED
    BY <2>1, <2>2, <2>3, <2>4 DEF SyncInit, TypeOK
<1>3. StageInv /\ PassedInv /\ ListedInv /\ HeardInv
  BY <1>1 DEF StageInv, Stage, PassedInv, Passed, ListedInv, Listed, HeardInv, Heard, At, NotRequested, Persisting, Working
<1>4. PostedInv
  BY <1>1 DEF SyncInit, PostedInv, NotRequested, IdsOf
<1>5. OrphanInv /\ CoverInv /\ SettleInv
  BY DEF SyncInit, OrphanInv, CoverInv, SettleInv
<1> QED
  BY <1>2, <1>3, <1>4, <1>5 DEF SyncInit, FeedInv

LEMMA FeedStep == FeedInv /\ [SyncNext]_svars => FeedInv'
<1> SUFFICES ASSUME FeedInv, [SyncNext]_svars PROVE FeedInv'
  OBVIOUS
<1>1. CASE Post
  BY <1>1, PostKept
<1>2. ASSUME NEW i \in Items, EditItem(i) PROVE FeedInv'
  BY <1>2, EditKept
<1>3. CASE PatchSourceFeed \/ \E active \in BOOLEAN : SetFeedStatus(active)
  BY <1>3, AdministeredKept
<1>4. ASSUME NEW r \in Syncs, startIngestionRun(r) \/ SyncStep(r) \/ Crash(r) PROVE FeedInv'
  <2>1. CASE startIngestionRun(r)
    BY <2>1, StartSyncKept
  <2>2. CASE List(r)
    BY <2>2, ListKept
  <2>3. CASE ListFails(r) \/ LeaveRunning(r)
    BY <2>3, UnlistedKept
  <2>4. ASSUME NEW v \in run[r].todo,
               FetchFails(r, v) \/ insertRawArtifactRow(r, v) \/ InsertFails(r, v) \/ InsertNormalized(r, v)
        PROVE  FeedInv'
    <3>1. CASE InsertFails(r, v)
      BY <3>1, FailedKept DEF InsertFails, At
    <3> QED
      BY <2>4, <3>1, FetchFailsKept, InsertRawKept, InsertNormalizedKept
  <2>5. CASE SyncComments(r) \/ CommentsFail(r)
    BY <2>5, SyncCommentsKept
  <2>6. CASE SyncReplies(r)
    BY <2>6, SyncRepliesKept
  <2>7. CASE finalizeIngestionRun(r)
    BY <2>7, FinalizeKept
  <2>8. CASE completeSourceFeedSync(r) \/ SaveCursor(r)
    BY <2>8, EndsKept
  <2>9. CASE Crash(r)
    BY <2>9, SyncCrashKept
  <2> QED
    BY <1>4, <2>1, <2>2, <2>3, <2>4, <2>5, <2>6, <2>7, <2>8, <2>9 DEF SyncStep, Persist
<1>5. CASE UNCHANGED svars
  BY <1>5 DEF svars, FeedInv, TypeOK, StageInv, Stage, PostedInv, Seen, OrphanInv, Accounted, PassedInv, Passed, ListedInv,
              Listed, HeardInv, Heard, Origin, CoverInv, Covered, SettleInv, Settles, At, Told, InProgress, IsHead, InThread, Thread, HasRecord, RawOnly
<1> QED
  BY <1>1, <1>2, <1>3, <1>4, <1>5 DEF SyncNext

LEMMA FeedHolds == SyncSpec => []FeedInv
BY FeedInitInv, FeedStep, PTL DEF SyncSpec

\* What the rows, the cursor and the state of every sync may be.
THEOREM FeedTypesHold == SyncSpec => []TypeOK
<1>1. FeedInv => TypeOK
  BY DEF FeedInv
<1> QED
  BY <1>1, FeedHolds, PTL

\* insertRawArtifactRow skips a row that exists, so a raw row without its record is never taken
\* up again: with every adapter, the run that wrote it is at work, was stopped or has counted an
\* error.
THEOREM OrphansHold == SyncSpec => []OrphansAreReported
<1>1. FeedInv => OrphansAreReported
  <2>1. SUFFICES ASSUME FeedInv, NEW w \in raws PROVE HasRecord(w.v) \/ RawOnly(w.v.id) \/ Told(w.by)
    BY DEF OrphansAreReported
  <2>2. Accounted(w)
    BY <2>1 DEF FeedInv, OrphanInv
  <2> QED
    BY <2>2 DEF Accounted, Told, InProgress, At
<1> QED
  BY <1>1, FeedHolds, PTL

\* The saved cursor passes over an item only if the item was normalized, if a run that had listed
\* it tells of a failure, if a listing was cut above it, or if it came into a thread between a
\* listing and the replies: whatever requests for one feed run side by side, and whatever a PATCH
\* does to the cursor between them.
THEOREM CursorHolds == SyncSpec => []CursorCovers
<1>1. FeedInv => CursorCovers
  BY DEF FeedInv, CoverInv, Covered, CursorCovers, IdsOf, Thread
<1> QED
  BY <1>1, FeedHolds, PTL

\* completeSourceFeedSync of the last sync to end leaves no "syncing" behind, though each of them
\* writes it without a look at the others.
THEOREM SyncStatusHolds == SyncSpec => []SyncStatusSettles
<1>1. FeedInv => SyncStatusSettles
  BY DEF FeedInv, SettleInv, Settles, SyncStatusSettles, At
<1> QED
  BY <1>1, FeedHolds, PTL
=============================================================================
