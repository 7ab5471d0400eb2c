--------------------------- MODULE JobRunsProofs ---------------------------
(***************************************************************************)
(* Proofs about JobRuns, for any number of runs and workers, any number of *)
(* faults and any MaxRetry.                                                *)
(***************************************************************************)
EXTENDS JobRuns, TLAPS

\* Type correctness of every step of a caller, of the queue and of a worker.
THEOREM TypeCorrect == Spec => []TypeOK
<1>1. Init => TypeOK
  BY BoundsAssumption DEF Init, TypeOK, Statuses, CallerSteps, TaskStates, WorkerSteps
<1>2. TypeOK /\ [Next]_vars => TypeOK'
  <2> SUFFICES ASSUME TypeOK, [Next]_vars PROVE TypeOK'
    OBVIOUS
  <2> USE RunsAssumption, BoundsAssumption
  <2> USE DEF TypeOK, Statuses, Terminal, CallerSteps, CallerEnds, TaskStates, WorkerSteps,
          PastClaim, rowVars, queueVars, workerVars, histVars, faultVars
  <2>1. ASSUME NEW r \in Runs, InsertRun(r) PROVE TypeOK'
    BY <2>1 DEF InsertRun, CallerStep, SetStatus
  <2>2. ASSUME NEW r \in Runs, CallerNext(r) PROVE TypeOK'
    <3>1. CASE Enqueue(r)
      BY <3>1 DEF Enqueue, CallerStep
    <3>2. CASE EnqueueRefused(r)
      BY <3>2 DEF EnqueueRefused, CallerStep
    <3>3. CASE RejectRun(r)
      BY <3>3 DEF RejectRun, CallerStep, SetStatus
    <3>4. CASE ExecuteInline(r)
      BY <3>4 DEF ExecuteInline, CallerStep
    <3>5. CASE FinishInline(r)
      BY <3>5 DEF FinishInline, CallerStep, SetStatus
    <3>6. QED
      BY <2>2, <3>1, <3>2, <3>3, <3>4, <3>5 DEF CallerNext
  <2>3. ASSUME NEW r \in Runs, LeaseExpires(r) PROVE TypeOK'
    BY <2>3 DEF LeaseExpires, Redeliver
  <2>4. ASSUME NEW r \in Runs, CallerStops(r) PROVE TypeOK'
    BY <2>4 DEF CallerStops, Fault
  <2>5. ASSUME NEW r \in Runs, CallerWriteLost(r) PROVE TypeOK'
    BY <2>5 DEF CallerWriteLost, CallerStep, Fault
  <2>6. ASSUME NEW w \in Workers, NEW r \in Runs, Deliver(w, r) PROVE TypeOK'
    BY <2>6 DEF Deliver, WorkerStep
  <2>7. ASSUME NEW w \in Workers, WorkerNext(w) PROVE TypeOK'
    <3>1. CASE Load(w)
      BY <3>1 DEF Load, WorkerStep
    <3>2. CASE Claim(w)
      BY <3>2 DEF Claim, WorkerStep, SetStatus
    <3>3. CASE JobUnreadable(w)
      BY <3>3 DEF JobUnreadable, WorkerStep
    <3>4. CASE BeginExecution(w)
      BY <3>4 DEF BeginExecution, WorkerStep
    <3>5. CASE EndExecution(w)
      BY <3>5 DEF EndExecution, WorkerStep
    <3>6. CASE FinishRun(w)
      BY <3>6 DEF FinishRun, WorkerStep, SetStatus
    <3>7. CASE Ack(w)
      BY <3>7 DEF Ack, Release
    <3>8. CASE Nack(w)
      BY <3>8 DEF Nack, Release, Redeliver
    <3>9. QED
      BY <2>7, <3>1, <3>2, <3>3, <3>4, <3>5, <3>6, <3>7, <3>8 DEF WorkerNext
  <2>8. ASSUME NEW w \in Workers, WorkerStops(w) PROVE TypeOK'
    BY <2>8 DEF WorkerStops, Release, Fault
  <2>9. ASSUME NEW w \in Workers, WorkerShutdown(w) PROVE TypeOK'
    BY <2>9 DEF WorkerShutdown, Release, Fault
  <2>10. ASSUME NEW w \in Workers, StatementFails(w) PROVE TypeOK'
    BY <2>10 DEF StatementFails, WorkerStep, Fault
  <2>11. ASSUME NEW w \in Workers, WorkerWriteLost(w) PROVE TypeOK'
    BY <2>11 DEF WorkerWriteLost, WorkerStep, Fault
  <2>12. CASE UNCHANGED vars
    BY <2>12 DEF vars
  <2>13. QED
    BY <2>1, <2>2, <2>3, <2>4, <2>5, <2>6, <2>7, <2>8, <2>9, <2>10, <2>11, <2>12
    DEF Next, RunNext, ServerNext
<1>3. QED
  BY <1>1, <1>2, PTL DEF Spec

-----------------------------------------------------------------------------
(* The safety of a run rests on IInv: a claim is exclusive because it needs  *)
(* the status queued, and no statement ever writes queued a second time.     *)

\* One step of the system preserves IInv.
LEMMA IInvStep == TypeOK /\ TypeOK' /\ IInv /\ [Next]_vars => IInv'
<1> SUFFICES ASSUME TypeOK, TypeOK', IInv, [Next]_vars PROVE IInv'
  OBVIOUS
<1> USE RunsAssumption
<1> USE DEF TypeOK, IInv, CallerInv, WorkerInv, ClaimInv, ExecutedAtMostOnce,
        CompletedMeansSucceeded, Terminal, CallerSteps, PastClaim,
        rowVars, queueVars, workerVars, histVars, faultVars
<1>1. ASSUME NEW r \in Runs, InsertRun(r) PROVE IInv'
  BY <1>1 DEF InsertRun, CallerStep, SetStatus
<1>2. ASSUME NEW r \in Runs, Enqueue(r) PROVE IInv'
  BY <1>2 DEF Enqueue, CallerStep
<1>3. ASSUME NEW r \in Runs, EnqueueRefused(r) PROVE IInv'
  BY <1>3 DEF EnqueueRefused, CallerStep
<1>4. ASSUME NEW r \in Runs, RejectRun(r) PROVE IInv'
  BY <1>4 DEF RejectRun, CallerStep, SetStatus
<1>5. ASSUME NEW r \in Runs, ExecuteInline(r) PROVE IInv'
  BY <1>5 DEF ExecuteInline, CallerStep
<1>6. ASSUME NEW r \in Runs, FinishInline(r) PROVE IInv'
  BY <1>6 DEF FinishInline, CallerStep, SetStatus
<1>7. ASSUME NEW r \in Runs, LeaseExpires(r) PROVE IInv'
  BY <1>7 DEF LeaseExpires, Redeliver
<1>8. ASSUME NEW r \in Runs, CallerStops(r) PROVE IInv'
  BY <1>8 DEF CallerStops, Fault
<1>9. ASSUME NEW r \in Runs, CallerWriteLost(r) PROVE IInv'
  BY <1>9 DEF CallerWriteLost, CallerStep, Fault
<1>10. ASSUME NEW w \in Workers, NEW r \in Runs, Deliver(w, r) PROVE IInv'
  BY <1>10 DEF Deliver, WorkerStep
<1>11. ASSUME NEW w \in Workers, Load(w) PROVE IInv'
  BY <1>11 DEF Load, WorkerStep
<1>12. ASSUME NEW w \in Workers, Claim(w) PROVE IInv'
  BY <1>12 DEF Claim, WorkerStep, SetStatus
<1>13. ASSUME NEW w \in Workers, JobUnreadable(w) PROVE IInv'
  BY <1>13 DEF JobUnreadable, WorkerStep
<1>14. ASSUME NEW w \in Workers, BeginExecution(w) PROVE IInv'
  BY <1>14 DEF BeginExecution, WorkerStep
<1>15. ASSUME NEW w \in Workers, EndExecution(w) PROVE IInv'
  BY <1>15 DEF EndExecution, WorkerStep
<1>16. ASSUME NEW w \in Workers, FinishRun(w) PROVE IInv'
  BY <1>16 DEF FinishRun, WorkerStep, SetStatus
<1>17. ASSUME NEW w \in Workers, Ack(w) PROVE IInv'
  BY <1>17 DEF Ack, Release
<1>18. ASSUME NEW w \in Workers, Nack(w) PROVE IInv'
  BY <1>18 DEF Nack, Release, Redeliver
<1>19. ASSUME NEW w \in Workers, WorkerStops(w) PROVE IInv'
  BY <1>19 DEF WorkerStops, Release, Fault
<1>20. ASSUME NEW w \in Workers, WorkerShutdown(w) PROVE IInv'
  BY <1>20 DEF WorkerShutdown, Release, Fault
<1>21. ASSUME NEW w \in Workers, StatementFails(w) PROVE IInv'
  BY <1>21 DEF StatementFails, WorkerStep, Fault
<1>22. ASSUME NEW w \in Workers, WorkerWriteLost(w) PROVE IInv'
  BY <1>22 DEF WorkerWriteLost, WorkerStep, Fault
<1>23. CASE UNCHANGED vars
  BY <1>23 DEF vars
<1>24. QED
  BY <1>1, <1>2, <1>3, <1>4, <1>5, <1>6, <1>7, <1>8, <1>9, <1>10, <1>11, <1>12, <1>13, <1>14, <1>15, <1>16, <1>17, <1>18, <1>19, <1>20, <1>21, <1>22, <1>23
  DEF Next, RunNext, CallerNext, ServerNext, WorkerNext

\* IInv, with type correctness, holds throughout.
THEOREM Safety == Spec => [](TypeOK /\ IInv)
<1>1. Init => IInv
  BY DEF Init, IInv, CallerInv, WorkerInv, ClaimInv, ExecutedAtMostOnce,
         CompletedMeansSucceeded, PastClaim
<1>2. QED
  BY <1>1, TypeCorrect, IInvStep, PTL DEF Spec

\* However often a task is redelivered, a run is executed at most once.
THEOREM AtMostOnce == Spec => []ExecutedAtMostOnce
BY Safety, PTL DEF IInv

\* A completed run has an execution that succeeded.
THEOREM Completed == Spec => []CompletedMeansSucceeded
BY Safety, PTL DEF IInv

-----------------------------------------------------------------------------
(* What may happen to the status column in one step.                         *)

\* A terminal status changes only for a disputed run.
LEMMA StableStep ==
    TypeOK /\ IInv /\ [Next]_vars =>
        \A r \in Runs : status[r] \in Terminal /\ status'[r] # status[r] => Disputed(r)
<1> DEFINE Stable == \A q \in Runs :
        status[q] \in Terminal /\ status'[q] # status[q] => Disputed(q)
<1> SUFFICES ASSUME TypeOK, IInv, [Next]_vars PROVE Stable
  OBVIOUS
<1> USE RunsAssumption
<1> USE DEF TypeOK, IInv, CallerInv, WorkerInv, ClaimInv, Disputed, Terminal, PastClaim,
        rowVars, queueVars, workerVars, histVars, faultVars
<1>1. ASSUME NEW r \in Runs, InsertRun(r) PROVE Stable
  BY <1>1 DEF InsertRun, CallerStep, SetStatus
<1>2. ASSUME NEW r \in Runs, Enqueue(r) PROVE Stable
  BY <1>2 DEF Enqueue, CallerStep
<1>3. ASSUME NEW r \in Runs, EnqueueRefused(r) PROVE Stable
  BY <1>3 DEF EnqueueRefused, CallerStep
<1>4. ASSUME NEW r \in Runs, RejectRun(r) PROVE Stable
  BY <1>4 DEF RejectRun, CallerStep, SetStatus
<1>5. ASSUME NEW r \in Runs, ExecuteInline(r) PROVE Stable
  BY <1>5 DEF ExecuteInline, CallerStep
<1>6. ASSUME NEW r \in Runs, FinishInline(r) PROVE Stable
  BY <1>6 DEF FinishInline, CallerStep, SetStatus
<1>7. ASSUME NEW r \in Runs, LeaseExpires(r) PROVE Stable
  BY <1>7 DEF LeaseExpires, Redeliver
<1>8. ASSUME NEW r \in Runs, CallerStops(r) PROVE Stable
  BY <1>8 DEF CallerStops, Fault
<1>9. ASSUME NEW r \in Runs, CallerWriteLost(r) PROVE Stable
  BY <1>9 DEF CallerWriteLost, CallerStep, Fault
<1>10. ASSUME NEW w \in Workers, NEW r \in Runs, Deliver(w, r) PROVE Stable
  BY <1>10 DEF Deliver, WorkerStep
<1>11. ASSUME NEW w \in Workers, Load(w) PROVE Stable
  BY <1>11 DEF Load, WorkerStep
<1>12. ASSUME NEW w \in Workers, Claim(w) PROVE Stable
  BY <1>12 DEF Claim, WorkerStep, SetStatus
<1>13. ASSUME NEW w \in Workers, JobUnreadable(w) PROVE Stable
  BY <1>13 DEF JobUnreadable, WorkerStep
<1>14. ASSUME NEW w \in Workers, BeginExecution(w) PROVE Stable
  BY <1>14 DEF BeginExecution, WorkerStep
<1>15. ASSUME NEW w \in Workers, EndExecution(w) PROVE Stable
  BY <1>15 DEF EndExecution, WorkerStep
<1>16. ASSUME NEW w \in Workers, FinishRun(w) PROVE Stable
  BY <1>16 DEF FinishRun, WorkerStep, SetStatus
<1>17. ASSUME NEW w \in Workers, Ack(w) PROVE Stable
  BY <1>17 DEF Ack, Release
<1>18. ASSUME NEW w \in Workers, Nack(w) PROVE Stable
  BY <1>18 DEF Nack, Release, Redeliver
<1>19. ASSUME NEW w \in Workers, WorkerStops(w) PROVE Stable
  BY <1>19 DEF WorkerStops, Release, Fault
<1>20. ASSUME NEW w \in Workers, WorkerShutdown(w) PROVE Stable
  BY <1>20 DEF WorkerShutdown, Release, Fault
<1>21. ASSUME NEW w \in Workers, StatementFails(w) PROVE Stable
  BY <1>21 DEF StatementFails, WorkerStep, Fault
<1>22. ASSUME NEW w \in Workers, WorkerWriteLost(w) PROVE Stable
  BY <1>22 DEF WorkerWriteLost, WorkerStep, Fault
<1>23. CASE UNCHANGED vars
  BY <1>23 DEF vars
<1>24. QED
  BY <1>1, <1>2, <1>3, <1>4, <1>5, <1>6, <1>7, <1>8, <1>9, <1>10, <1>11, <1>12, <1>13, <1>14, <1>15, <1>16, <1>17, <1>18, <1>19, <1>20, <1>21, <1>22, <1>23
  DEF Next, RunNext, CallerNext, ServerNext, WorkerNext

\* Redelivery, slow workers and restarts never rewrite a result.
THEOREM Stability == Spec => ResultIsStable
<1>1. TypeOK /\ IInv /\ [Next]_vars =>
        [\A r \in Runs : status[r] \in Terminal /\ status'[r] # status[r] => Disputed(r)]_vars
  BY StableStep
<1>2. QED
  BY <1>1, Safety, PTL DEF Spec, ResultIsStable

-----------------------------------------------------------------------------
(* Nothing is lost silently: somebody is answerable for every open run.      *)

\* One step of the system preserves LossInv.
LEMMA LossInvStep == TypeOK /\ TypeOK' /\ IInv /\ LossInv /\ [Next]_vars => LossInv'
<1> SUFFICES ASSUME TypeOK, TypeOK', IInv, LossInv, [Next]_vars PROVE LossInv'
  OBVIOUS
<1> USE RunsAssumption
<1> USE DEF TypeOK, IInv, CallerInv, WorkerInv, ClaimInv, LossInv, Statuses, Terminal, CallerSteps,
        PastClaim, rowVars, queueVars, workerVars, histVars, faultVars
<1>1. ASSUME NEW r \in Runs, InsertRun(r) PROVE LossInv'
  BY <1>1 DEF InsertRun, CallerStep, SetStatus
<1>2. ASSUME NEW r \in Runs, Enqueue(r) PROVE LossInv'
  BY <1>2 DEF Enqueue, CallerStep
<1>3. ASSUME NEW r \in Runs, EnqueueRefused(r) PROVE LossInv'
  BY <1>3 DEF EnqueueRefused, CallerStep
<1>4. ASSUME NEW r \in Runs, RejectRun(r) PROVE LossInv'
  BY <1>4 DEF RejectRun, CallerStep, SetStatus
<1>5. ASSUME NEW r \in Runs, ExecuteInline(r) PROVE LossInv'
  BY <1>5 DEF ExecuteInline, CallerStep
<1>6. ASSUME NEW r \in Runs, FinishInline(r) PROVE LossInv'
  BY <1>6 DEF FinishInline, CallerStep, SetStatus
<1>7. ASSUME NEW r \in Runs, LeaseExpires(r) PROVE LossInv'
  BY <1>7 DEF LeaseExpires, Redeliver
<1>8. ASSUME NEW r \in Runs, CallerStops(r) PROVE LossInv'
  BY <1>8 DEF CallerStops, Fault
<1>9. ASSUME NEW r \in Runs, CallerWriteLost(r) PROVE LossInv'
  BY <1>9 DEF CallerWriteLost, CallerStep, Fault
<1>10. ASSUME NEW w \in Workers, NEW r \in Runs, Deliver(w, r) PROVE LossInv'
  BY <1>10 DEF Deliver, WorkerStep
<1>11. ASSUME NEW w \in Workers, Load(w) PROVE LossInv'
  BY <1>11 DEF Load, WorkerStep
<1>12. ASSUME NEW w \in Workers, Claim(w) PROVE LossInv'
  BY <1>12 DEF Claim, WorkerStep, SetStatus
<1>13. ASSUME NEW w \in Workers, JobUnreadable(w) PROVE LossInv'
  BY <1>13 DEF JobUnreadable, WorkerStep
<1>14. ASSUME NEW w \in Workers, BeginExecution(w) PROVE LossInv'
  BY <1>14 DEF BeginExecution, WorkerStep
<1>15. ASSUME NEW w \in Workers, EndExecution(w) PROVE LossInv'
  BY <1>15 DEF EndExecution, WorkerStep
<1>16. ASSUME NEW w \in Workers, FinishRun(w) PROVE LossInv'
  BY <1>16 DEF FinishRun, WorkerStep, SetStatus
<1>17. ASSUME NEW w \in Workers, Ack(w) PROVE LossInv'
  BY <1>17 DEF Ack, Release
<1>18. ASSUME NEW w \in Workers, Nack(w) PROVE LossInv'
  BY <1>18 DEF Nack, Release, Redeliver
<1>19. ASSUME NEW w \in Workers, WorkerStops(w) PROVE LossInv'
  BY <1>19 DEF WorkerStops, Release, Fault
<1>20. ASSUME NEW w \in Workers, WorkerShutdown(w) PROVE LossInv'
  BY <1>20 DEF WorkerShutdown, Release, Fault
<1>21. ASSUME NEW w \in Workers, StatementFails(w) PROVE LossInv'
  BY <1>21 DEF StatementFails, WorkerStep, Fault
<1>22. ASSUME NEW w \in Workers, WorkerWriteLost(w) PROVE LossInv'
  BY <1>22 DEF WorkerWriteLost, WorkerStep, Fault
<1>23. CASE UNCHANGED vars
  BY <1>23 DEF vars
<1>24. QED
  BY <1>1, <1>2, <1>3, <1>4, <1>5, <1>6, <1>7, <1>8, <1>9, <1>10, <1>11, <1>12, <1>13, <1>14, <1>15, <1>16, <1>17, <1>18, <1>19, <1>20, <1>21, <1>22, <1>23
  DEF Next, RunNext, CallerNext, ServerNext, WorkerNext

\* An open run is in the hands of its caller, the queue or a worker, unless a
\* fault stranded it or asynq archived its task.
THEOREM NothingLost == Spec => []NoSilentLoss
<1>1. Init => LossInv
  BY DEF Init, LossInv
<1>2. TypeOK /\ IInv /\ LossInv => NoSilentLoss
  BY DEF TypeOK, IInv, CallerInv, LossInv, NoSilentLoss, Statuses, Terminal, CallerSteps,
         CallerEnds, TaskStates
<1>3. QED
  BY <1>1, <1>2, Safety, LossInvStep, PTL DEF Spec

-----------------------------------------------------------------------------
(* Refinement: the system implements what a polling client may observe.      *)

\* Every step changes at most one status, in a way RunStatus allows, or changes
\* whether one run is disputed, or neither.
LEMMA AbstractStep == TypeOK /\ TypeOK' /\ IInv /\ [Next]_vars => [Abstract!Next]_Abstract!vars
<1> SUFFICES ASSUME TypeOK, TypeOK', IInv, [Next]_vars PROVE [Abstract!Next]_Abstract!vars
  OBVIOUS
<1> DEFINE disp == {r \in Runs : Disputed(r)}
<1> DEFINE Same == status' = status /\ disp' = disp
           Moved(r, from, to) == /\ status[r] \in from
                                 /\ status' = [status EXCEPT ![r] = to]
                                 /\ disp' = disp
           Marked(r) == /\ status[r] # "absent"
                        /\ status' = status
                        /\ disp' \in {disp \cup {r}, disp \ {r}}
<1> USE RunsAssumption
<1>1. ASSUME Same PROVE [Abstract!Next]_Abstract!vars
  BY <1>1 DEF Abstract!vars
<1>2. ASSUME NEW r \in Runs, Marked(r) PROVE Abstract!Next
  BY <1>2 DEF Abstract!Next, Abstract!Dispute
<1>3. ASSUME NEW r \in Runs,
             \/ Moved(r, {"absent"}, "queued") \/ Moved(r, {"absent"}, "running")
             \/ Moved(r, {"queued"}, "running") \/ Moved(r, {"queued"}, "failed")
             \/ Moved(r, {"running"}, "completed") \/ Moved(r, {"running"}, "failed")
      PROVE Abstract!Next
  BY <1>3 DEF Abstract!Next, Abstract!Insert, Abstract!Claim, Abstract!Settle, Abstract!Move,
              Abstract!Terminal
<1>4. ASSUME NEW r \in Runs, r \in disp, NEW s \in Terminal, Moved(r, Terminal, s)
      PROVE Abstract!Next
  BY <1>4 DEF Abstract!Next, Abstract!Overwrite, Abstract!Move, Abstract!Terminal, Terminal
<1> DEFINE Mapped == \/ Same
                     \/ \E r \in Runs : Marked(r)
                     \/ \E r \in Runs :
                          \/ Moved(r, {"absent"}, "queued") \/ Moved(r, {"absent"}, "running")
                          \/ Moved(r, {"queued"}, "running") \/ Moved(r, {"queued"}, "failed")
                          \/ Moved(r, {"running"}, "completed") \/ Moved(r, {"running"}, "failed")
                     \/ \E r \in disp, s \in Terminal : Moved(r, Terminal, s)
<1>5. Mapped
  <2> USE DEF TypeOK, IInv, CallerInv, WorkerInv, ClaimInv, Disputed, Terminal, Statuses, CallerSteps,
          CallerEnds, TaskStates, PastClaim, rowVars, queueVars, workerVars, histVars, faultVars
  <2>1. ASSUME NEW r \in Runs, InsertRun(r) PROVE Mapped
    <3>1. disp' = disp /\ status[r] = "absent"
      BY <2>1 DEF InsertRun, CallerStep
    <3>2. \/ status' = [status EXCEPT ![r] = "queued"]
          \/ status' = [status EXCEPT ![r] = "running"]
      BY <2>1 DEF InsertRun, SetStatus
    <3>3. QED
      BY <3>1, <3>2
  <2>2. ASSUME NEW r \in Runs, Enqueue(r) PROVE Mapped
    BY <2>2 DEF Enqueue, CallerStep
  <2>3. ASSUME NEW r \in Runs, EnqueueRefused(r) PROVE Mapped
    BY <2>3 DEF EnqueueRefused, CallerStep
  <2>4. ASSUME NEW r \in Runs, RejectRun(r) PROVE Mapped
    <3>1. disp' = disp /\ status' = [status EXCEPT ![r] = "failed"]
      BY <2>4 DEF RejectRun, CallerStep, SetStatus
    <3>2. status[r] \in {"queued", "running"} \/ (status[r] \in Terminal /\ r \in disp)
      BY <2>4 DEF RejectRun, CallerStep
    <3>3. QED
      BY <3>1, <3>2
  <2>5. ASSUME NEW r \in Runs, ExecuteInline(r) PROVE Mapped
    BY <2>5 DEF ExecuteInline, CallerStep
  <2>6. ASSUME NEW r \in Runs, FinishInline(r) PROVE Mapped
    BY <2>6 DEF FinishInline, CallerStep, SetStatus
  <2>7. ASSUME NEW r \in Runs, LeaseExpires(r) PROVE Mapped
    BY <2>7 DEF LeaseExpires, Redeliver
  <2>8. ASSUME NEW r \in Runs, CallerStops(r) PROVE Mapped
    BY <2>8 DEF CallerStops, Fault
  <2>9. ASSUME NEW r \in Runs, CallerWriteLost(r) PROVE Mapped
    BY <2>9 DEF CallerWriteLost, CallerStep, Fault
  <2>10. ASSUME NEW w \in Workers, NEW r \in Runs, Deliver(w, r) PROVE Mapped
    BY <2>10 DEF Deliver, WorkerStep
  <2>11. ASSUME NEW w \in Workers, Load(w) PROVE Mapped
    BY <2>11 DEF Load, WorkerStep
  <2>12. ASSUME NEW w \in Workers, Claim(w) PROVE Mapped
    BY <2>12 DEF Claim, WorkerStep, SetStatus
  <2>13. ASSUME NEW w \in Workers, JobUnreadable(w) PROVE Mapped
    BY <2>13 DEF JobUnreadable, WorkerStep
  <2>14. ASSUME NEW w \in Workers, BeginExecution(w) PROVE Mapped
    BY <2>14 DEF BeginExecution, WorkerStep
  <2>15. ASSUME NEW w \in Workers, EndExecution(w) PROVE Mapped
    BY <2>15 DEF EndExecution, WorkerStep
  <2>16. ASSUME NEW w \in Workers, FinishRun(w) PROVE Mapped
    BY <2>16 DEF FinishRun, WorkerStep, SetStatus
  <2>17. ASSUME NEW w \in Workers, Ack(w) PROVE Mapped
    BY <2>17 DEF Ack, Release
  <2>18. ASSUME NEW w \in Workers, Nack(w) PROVE Mapped
    BY <2>18 DEF Nack, Release, Redeliver
  <2>19. ASSUME NEW w \in Workers, WorkerStops(w) PROVE Mapped
    BY <2>19 DEF WorkerStops, Release, Fault
  <2>20. ASSUME NEW w \in Workers, WorkerShutdown(w) PROVE Mapped
    BY <2>20 DEF WorkerShutdown, Release, Fault
  <2>21. ASSUME NEW w \in Workers, StatementFails(w) PROVE Mapped
    BY <2>21 DEF StatementFails, WorkerStep, Fault
  <2>22. ASSUME NEW w \in Workers, WorkerWriteLost(w) PROVE Mapped
    BY <2>22 DEF WorkerWriteLost, WorkerStep, Fault
  <2>23. CASE UNCHANGED vars
    BY <2>23 DEF vars
  <2>24. QED
    BY <2>1, <2>2, <2>3, <2>4, <2>5, <2>6, <2>7, <2>8, <2>9, <2>10, <2>11, <2>12, <2>13, <2>14, <2>15, <2>16, <2>17, <2>18, <2>19, <2>20, <2>21, <2>22, <2>23
    DEF Next, RunNext, CallerNext, ServerNext, WorkerNext
<1>6. QED
  BY <1>1, <1>2, <1>3, <1>4, <1>5

\* The status column behaves as RunStatus says, whatever is hidden behind it.
THEOREM Refinement == Spec => ImplementsRunStatus
<1>1. Init => Abstract!Init
  BY DEF Init, Abstract!Init, Disputed
<1>2. QED
  BY <1>1, Safety, TypeCorrect, AbstractStep, PTL DEF Spec, ImplementsRunStatus, Abstract!Spec
=============================================================================
