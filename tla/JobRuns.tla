------------------------------ MODULE JobRuns ------------------------------
(***************************************************************************)
(* The life of a knowledge-job run: the row in job_runs, the goroutine     *)
(* that inserts and enqueues it (JobService.Run, tryEnqueueScheduledRun),  *)
(* the asynq task in Redis, and the workers of cmd/jobworker that execute  *)
(* it (JobService.ProcessQueuedRun).  One action is one database statement *)
(* or one call to Redis: that is where the processes interleave and where  *)
(* they can stop.                                                          *)
(*                                                                         *)
(* An error returned for a statement that did take effect leaves the same  *)
(* state as a stop right after it, and is not modelled a second time.      *)
(***************************************************************************)
EXTENDS Naturals

CONSTANTS
    Runs,        \* run ids (uuid.New(): one per call, never reused)
    InlineRuns,  \* the runs of a process whose publisher is disabled
    Workers,     \* goroutines of the asynq servers
    NoRun,       \* "no run in hand"
    MaxRetry,    \* asynq.MaxRetry of EnqueueKnowledgeJobRun
    MaxFaults    \* bound: stops, lost writes and failed statements in a behaviour

ASSUME RunsAssumption == InlineRuns \subseteq Runs /\ NoRun \notin Runs
ASSUME BoundsAssumption == MaxRetry \in Nat /\ MaxFaults \in Nat

VARIABLES
    status,      \* status[r]: job_runs.status, "absent" before the INSERT
    caller,      \* caller[r]: where the goroutine that creates r stands
    task,        \* task[r]: the asynq task of r
    retried,     \* retried[r]: deliveries asynq has charged to the task
    at,          \* at[w]: the next statement of worker w
    on,          \* on[w]: the run in w's hands
    executions,  \* history: executions[r] counts the entries into executeRun
    succeeded,   \* history: runs one of whose executions returned nil
    stranded,    \* history: runs whose next status write was lost to a fault
    faults       \* number of faults so far

rowVars    == <<status, caller>>
queueVars  == <<task, retried>>
workerVars == <<at, on>>
histVars   == <<executions, succeeded>>
faultVars  == <<stranded, faults>>
vars == <<status, caller, task, retried, at, on, executions, succeeded, stranded, faults>>

Terminal    == {"completed", "failed"}
Statuses    == {"absent", "queued", "running"} \cup Terminal
CallerSteps == {"idle", "enqueue", "reject", "execute", "complete", "fail"}
CallerEnds  == {"returned", "rejected", "gone"}
TaskStates  == {"none", "pending", "active", "done", "archived"}
\* Past the claim a worker, and nobody else, is expected to write the row.
PastClaim   == {"start", "executing", "complete", "fail"}
WorkerSteps == {"idle", "load", "claim", "ack", "nack"} \cup PastClaim

TypeOK ==
    /\ status \in [Runs -> Statuses]
    /\ caller \in [Runs -> CallerSteps \cup CallerEnds]
    /\ task \in [Runs -> TaskStates]
    /\ retried \in [Runs -> 0..MaxRetry]
    /\ at \in [Workers -> WorkerSteps]
    /\ on \in [Workers -> Runs \cup {NoRun}]
    /\ \A w \in Workers : at[w] = "idle" <=> on[w] = NoRun
    /\ executions \in [Runs -> Nat]
    /\ succeeded \in SUBSET Runs
    /\ stranded \in SUBSET Runs
    /\ faults \in 0..MaxFaults

Init ==
    /\ status = [r \in Runs |-> "absent"]
    /\ caller = [r \in Runs |-> "idle"]
    /\ task = [r \in Runs |-> "none"]
    /\ retried = [r \in Runs |-> 0]
    /\ at = [w \in Workers |-> "idle"]
    /\ on = [w \in Workers |-> NoRun]
    /\ executions = [r \in Runs |-> 0]
    /\ succeeded = {}
    /\ stranded = {}
    /\ faults = 0

-----------------------------------------------------------------------------
(* The caller: JobService.Run and the tail of tryEnqueueScheduledRun.       *)

CallerStep(r, from, to) ==
    /\ caller[r] = from
    /\ caller' = [caller EXCEPT ![r] = to]

SetStatus(r, s) == status' = [status EXCEPT ![r] = s]

\* INSERT INTO job_runs: queued behind an enabled publisher, else running.
InsertRun(r) ==
    /\ CallerStep(r, "idle", IF r \in InlineRuns THEN "execute" ELSE "enqueue")
    /\ SetStatus(r, IF r \in InlineRuns THEN "running" ELSE "queued")
    /\ UNCHANGED <<queueVars, workerVars, histVars, faultVars>>

\* EnqueueKnowledgeJobRun reaches Redis.  The reply may be lost: the client
\* then returns an error for a task that is in the queue.
Enqueue(r) ==
    /\ \E end \in {"returned", "reject"} : CallerStep(r, "enqueue", end)
    /\ task' = [task EXCEPT ![r] = "pending"]
    /\ UNCHANGED <<status, retried, workerVars, histVars, faultVars>>

\* Redis never got the task.
EnqueueRefused(r) ==
    /\ CallerStep(r, "enqueue", "reject")
    /\ UNCHANGED <<status, queueVars, workerVars, histVars, faultVars>>

\* Mutant: the error path returns without the update.
RejectRunSilently(r) ==
    /\ CallerStep(r, "reject", "rejected")
    /\ UNCHANGED <<status, queueVars, workerVars, histVars, faultVars>>

\* The error path: UPDATE job_runs SET status='failed' WHERE id, whatever the status.
RejectRun(r) ==
    /\ CallerStep(r, "reject", "rejected")
    /\ SetStatus(r, "failed")
    /\ UNCHANGED <<queueVars, workerVars, histVars, faultVars>>

\* No queue: executeRun in the caller.  A tick reads the job first and may fail there.
ExecuteInline(r) ==
    /\ \/ /\ CallerStep(r, "execute", "complete")
          /\ executions' = [executions EXCEPT ![r] = @ + 1]
          /\ succeeded' = succeeded \cup {r}
       \/ /\ CallerStep(r, "execute", "fail")
          /\ \E n \in {0, 1} : executions' = [executions EXCEPT ![r] = @ + n]
          /\ UNCHANGED succeeded
    /\ UNCHANGED <<status, queueVars, workerVars, faultVars>>

FinishInline(r) ==
    /\ \/ CallerStep(r, "complete", "returned") /\ SetStatus(r, "completed")
       \/ CallerStep(r, "fail", "returned") /\ SetStatus(r, "failed")
    /\ UNCHANGED <<queueVars, workerVars, histVars, faultVars>>

CallerNext(r) ==
    \/ Enqueue(r) \/ EnqueueRefused(r) \/ RejectRun(r)
    \/ ExecuteInline(r) \/ FinishInline(r)

-----------------------------------------------------------------------------
(* The queue (asynq, external) and the worker: JobService.ProcessQueuedRun. *)

\* Mutant: failed deliveries are not charged.
RedeliverUncharged(r) ==
    /\ task' = [task EXCEPT ![r] = "pending"]
    /\ UNCHANGED retried

\* asynq charges a failed delivery and archives the task when none is left.
Redeliver(r) ==
    IF retried[r] < MaxRetry
    THEN /\ task' = [task EXCEPT ![r] = "pending"]
         /\ retried' = [retried EXCEPT ![r] = @ + 1]
    ELSE task' = [task EXCEPT ![r] = "archived"] /\ UNCHANGED retried

WorkerStep(w, from, to) ==
    /\ at[w] = from
    /\ at' = [at EXCEPT ![w] = to]

Release(w) ==
    /\ at' = [at EXCEPT ![w] = "idle"]
    /\ on' = [on EXCEPT ![w] = NoRun]

Deliver(w, r) ==
    /\ task[r] = "pending"
    /\ task' = [task EXCEPT ![r] = "active"]
    /\ WorkerStep(w, "idle", "load")
    /\ on' = [on EXCEPT ![w] = r]
    /\ UNCHANGED <<rowVars, retried, histVars, faultVars>>

\* Mutant: the early return is taken for queued runs.
LoadInverted(w) ==
    /\ WorkerStep(w, "load", IF status[on[w]] = "queued" THEN "ack" ELSE "claim")
    /\ UNCHANGED <<rowVars, queueVars, on, histVars, faultVars>>

\* SELECT ... status: a run that is not queued is somebody else's, return nil.
Load(w) ==
    /\ WorkerStep(w, "load", IF status[on[w]] = "queued" THEN "claim" ELSE "ack")
    /\ UNCHANGED <<rowVars, queueVars, on, histVars, faultVars>>

\* Mutant: the claim without AND status='queued', trusting the SELECT before it.
ClaimWithoutStatus(w) ==
    /\ WorkerStep(w, "claim", "start")
    /\ SetStatus(on[w], "running")
    /\ UNCHANGED <<caller, queueVars, on, histVars, faultVars>>

\* UPDATE ... SET status='running' WHERE id AND status='queued'; no row, return nil.
Claim(w) ==
    /\ \/ /\ WorkerStep(w, "claim", "start")
          /\ status[on[w]] = "queued"
          /\ SetStatus(on[w], "running")
       \/ /\ WorkerStep(w, "claim", "ack")
          /\ status[on[w]] # "queued"
          /\ UNCHANGED status
    /\ UNCHANGED <<caller, queueVars, on, histVars, faultVars>>

\* Get(jobID) fails: on to the 'failed' update without executing.
JobUnreadable(w) ==
    /\ WorkerStep(w, "start", "fail")
    /\ UNCHANGED <<rowVars, queueVars, on, histVars, faultVars>>

BeginExecution(w) ==
    /\ WorkerStep(w, "start", "executing")
    /\ executions' = [executions EXCEPT ![on[w]] = @ + 1]
    /\ UNCHANGED <<rowVars, queueVars, on, succeeded, faultVars>>

EndExecution(w) ==
    /\ \/ WorkerStep(w, "executing", "complete") /\ succeeded' = succeeded \cup {on[w]}
       \/ WorkerStep(w, "executing", "fail") /\ UNCHANGED succeeded
    /\ UNCHANGED <<rowVars, queueVars, on, executions, faultVars>>

\* Mutant: a failed run is queued again, so that asynq's retry can claim it.
FinishRunRequeues(w) ==
    /\ \/ WorkerStep(w, "complete", "ack") /\ SetStatus(on[w], "completed")
       \/ WorkerStep(w, "fail", "nack") /\ SetStatus(on[w], "queued")
    /\ UNCHANGED <<caller, queueVars, on, histVars, faultVars>>

\* The last UPDATE has no guard on the status.  'failed' returns the error to
\* asynq, which will redeliver; 'completed' returns nil.
FinishRun(w) ==
    /\ \/ WorkerStep(w, "complete", "ack") /\ SetStatus(on[w], "completed")
       \/ WorkerStep(w, "fail", "nack") /\ SetStatus(on[w], "failed")
    /\ UNCHANGED <<caller, queueVars, on, histVars, faultVars>>

\* nil: asynq drops the task if it is still active (its lease may have expired).
Ack(w) ==
    /\ at[w] = "ack"
    /\ Release(w)
    /\ task' = IF task[on[w]] = "active" THEN [task EXCEPT ![on[w]] = "done"] ELSE task
    /\ UNCHANGED <<rowVars, retried, histVars, faultVars>>

Nack(w) ==
    /\ at[w] = "nack"
    /\ Release(w)
    /\ IF task[on[w]] = "active" THEN Redeliver(on[w]) ELSE UNCHANGED queueVars
    /\ UNCHANGED <<rowVars, histVars, faultVars>>

WorkerNext(w) ==
    \/ Load(w) \/ Claim(w) \/ JobUnreadable(w) \/ BeginExecution(w)
    \/ EndExecution(w) \/ FinishRun(w) \/ Ack(w) \/ Nack(w)

\* asynq's recoverer takes back a task whose lease was not extended in time.
\* The worker that holds it may be dead, or alive and merely slow.
LeaseExpires(r) ==
    /\ task[r] = "active"
    /\ Redeliver(r)
    /\ UNCHANGED <<rowVars, workerVars, histVars, faultVars>>

Abandoned(r) == \A w \in Workers : on[w] # r

-----------------------------------------------------------------------------
(* Faults.                                                                  *)

Fault(lost) ==
    /\ faults < MaxFaults
    /\ faults' = faults + 1
    /\ stranded' = stranded \cup lost

\* The API or tick process stops, or its INSERT's reply is lost.
CallerStops(r) ==
    /\ caller[r] \in CallerSteps \ {"idle"}
    /\ caller' = [caller EXCEPT ![r] = "gone"]
    /\ Fault({r})
    /\ UNCHANGED <<status, queueVars, workerVars, histVars>>

\* _, _ = pool.Exec(UPDATE ...): the error of a closing update is dropped.
CallerWriteLost(r) ==
    /\ \/ CallerStep(r, "reject", "rejected")
       \/ CallerStep(r, "complete", "returned")
       \/ CallerStep(r, "fail", "returned")
    /\ Fault({r})
    /\ UNCHANGED <<status, queueVars, workerVars, histVars>>

\* A worker process is killed; asynq keeps the task active until the lease expires.
WorkerStops(w) ==
    /\ at[w] # "idle"
    /\ Release(w)
    /\ Fault(IF at[w] \in PastClaim THEN {on[w]} ELSE {})
    /\ UNCHANGED <<rowVars, queueVars, histVars>>

\* srv.Shutdown: asynq puts unfinished tasks back without charging a delivery.
WorkerShutdown(w) ==
    /\ at[w] # "idle"
    /\ Release(w)
    /\ task' = IF task[on[w]] = "active" THEN [task EXCEPT ![on[w]] = "pending"] ELSE task
    /\ Fault(IF at[w] \in PastClaim THEN {on[w]} ELSE {})
    /\ UNCHANGED <<rowVars, retried, histVars>>

\* The SELECT or the claiming UPDATE fails: return err before anything changed.
StatementFails(w) ==
    /\ \/ WorkerStep(w, "load", "nack")
       \/ WorkerStep(w, "claim", "nack")
    /\ Fault({})
    /\ UNCHANGED <<rowVars, queueVars, on, histVars>>

WorkerWriteLost(w) ==
    /\ \/ WorkerStep(w, "complete", "ack")
       \/ WorkerStep(w, "fail", "nack")
    /\ Fault({on[w]})
    /\ UNCHANGED <<rowVars, queueVars, on, histVars>>

-----------------------------------------------------------------------------
RunNext(r) ==
    \/ InsertRun(r) \/ CallerNext(r) \/ LeaseExpires(r)
    \/ CallerStops(r) \/ CallerWriteLost(r)

ServerNext(w) ==
    \/ \E r \in Runs : Deliver(w, r)
    \/ WorkerNext(w)
    \/ WorkerStops(w) \/ WorkerShutdown(w) \/ StatementFails(w) \/ WorkerWriteLost(w)

Next == (\E r \in Runs : RunNext(r)) \/ (\E w \in Workers : ServerNext(w))

Spec == Init /\ [][Next]_vars

\* What keeps running: a goroutine that has started, the asynq dispatcher, the
\* recoverer on tasks nobody holds.  Users, faults and spurious expiries are free.
Fairness ==
    /\ \A r \in Runs : /\ WF_vars(CallerNext(r))
                       /\ WF_vars(\E w \in Workers : Deliver(w, r))
                       /\ WF_vars(Abandoned(r) /\ LeaseExpires(r))
    /\ \A w \in Workers : WF_vars(WorkerNext(w))

FairSpec == Spec /\ Fairness

-----------------------------------------------------------------------------
(* Properties.                                                              *)

\* The caller got an error for a task Redis holds, and writes, or wrote, 'failed'.
Disputed(r) == caller[r] \in {"reject", "rejected"} /\ task[r] # "none"

\* However often asynq redelivers the task of a run, and whatever stops in
\* between, the body of the run (executeRun) is entered at most once.
ExecutedAtMostOnce == \A r \in Runs : executions[r] <= 1

\* A run shown as completed has had an execution that returned nil.
CompletedMeansSucceeded == \A r \in Runs : status[r] = "completed" => r \in succeeded

\* An open run is in somebody's hands: its caller's, the queue's or a worker's.
\* The exceptions are the runs a fault stranded and tasks asynq gave up on.
NoSilentLoss == \A r \in Runs :
    \/ status[r] \in {"absent"} \cup Terminal
    \/ r \in stranded
    \/ caller[r] \in CallerSteps
    \/ status[r] = "queued" /\ task[r] \in {"pending", "active", "archived"}
    \/ status[r] = "running" /\ \E w \in Workers : on[w] = r /\ at[w] \in PastClaim

\* A terminal status changes only for a run whose enqueue failed ambiguously:
\* redelivery, slow workers and restarts never rewrite a result.
ResultIsStable ==
    [][\A r \in Runs : status[r] \in Terminal /\ status'[r] # status[r] => Disputed(r)]_vars

\* asynq gets rid of every task, processed or archived, although no worker
\* survives all faults: a run never circulates in the queue for ever.
TaskLeavesQueue == \A r \in Runs : task[r] = "pending" ~> task[r] \in {"done", "archived"}

\* A run whose task is in the queue ends, unless a fault hit it between the
\* claim and the closing update (no code recovers those) or asynq gave up.
RunSettles == \A r \in Runs :
    task[r] = "pending" ~> (status[r] \in Terminal \/ r \in stranded \/ task[r] = "archived")

\* Why the properties above hold, as an inductive invariant.
\* The caller's stage, the row and the task agree.
CallerInv == \A r \in Runs :
    /\ caller[r] = "idle" <=> status[r] = "absent"
    /\ r \in InlineRuns => task[r] = "none" /\ status[r] # "queued" /\ caller[r] \notin {"enqueue", "reject", "rejected"}
    /\ caller[r] \in {"idle", "enqueue"} => task[r] = "none"
    /\ caller[r] \in {"execute", "complete", "fail"} => r \in InlineRuns /\ status[r] = "running"
    /\ caller[r] \in {"enqueue", "reject"} /\ task[r] = "none" => status[r] = "queued"
    /\ caller[r] = "execute" => executions[r] = 0
    /\ caller[r] = "complete" => r \in succeeded

\* A busy worker holds the run of a task, and what it is about to write is true.
WorkerInv == \A w \in Workers :
    /\ at[w] # "idle" => task[on[w]] # "none"
    /\ at[w] \in PastClaim => status[on[w]] = "running" \/ caller[on[w]] = "rejected"
    /\ at[w] \in PastClaim => status[on[w]] \in {"running", "failed"}
    /\ at[w] = "start" => executions[on[w]] = 0
    /\ at[w] = "complete" => on[w] \in succeeded

\* The claim is exclusive, and a run nobody claimed has not been executed.
ClaimInv ==
    /\ \A w, v \in Workers : at[w] \in PastClaim /\ at[v] \in PastClaim /\ on[w] = on[v] => w = v
    /\ \A r \in Runs : status[r] \in {"absent", "queued"} => executions[r] = 0

\* Who is answerable for an open run that no fault stranded.
LossInv ==
    /\ \A r \in Runs :
        /\ caller[r] = "gone" => r \in stranded
        /\ caller[r] = "returned" /\ r \notin InlineRuns => task[r] # "none"
        /\ caller[r] = "returned" /\ r \in InlineRuns => r \in stranded \/ status[r] \in Terminal
        /\ caller[r] = "rejected" => r \in stranded \/ status[r] \in Terminal
        /\ status[r] = "queued" => task[r] # "done"
        /\ status[r] = "running" /\ r \notin InlineRuns /\ r \notin stranded =>
              \E w \in Workers : on[w] = r /\ at[w] \in PastClaim
    /\ \A w \in Workers : at[w] = "ack" => status[on[w]] # "queued"

IInv == CallerInv /\ WorkerInv /\ ClaimInv /\ ExecutedAtMostOnce /\ CompletedMeansSucceeded

Abstract == INSTANCE RunStatus
    WITH status <- status, disputed <- {r \in Runs : Disputed(r)}

\* The polled status column behaves as RunStatus says: in particular a run that
\* ended is never queued or running again.
ImplementsRunStatus == Abstract!Spec
=============================================================================
