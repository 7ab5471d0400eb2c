----------------------------- MODULE RunStatus -----------------------------
(***************************************************************************)
(* What a client that polls GET /job-runs/:id may observe of job_runs:     *)
(* the status column alone, with every goroutine, queue and crash hidden.  *)
(* JobRuns implements this specification.                                  *)
(***************************************************************************)
CONSTANT Runs

VARIABLES
    status,     \* status[r]: the column job_runs.status, "absent" before the INSERT
    disputed    \* runs reported failed to their caller although Redis took the task

vars == <<status, disputed>>

Terminal == {"completed", "failed"}
Statuses == {"absent", "queued", "running"} \cup Terminal

Init ==
    /\ status = [r \in Runs |-> "absent"]
    /\ disputed = {}

Move(r, from, to) ==
    /\ status[r] \in from
    /\ status' = [status EXCEPT ![r] = to]
    /\ UNCHANGED disputed

\* A row is inserted queued, or running when the process has no queue.
Insert(r) == \E s \in {"queued", "running"} : Move(r, {"absent"}, s)

\* A worker wins the row.
Claim(r) == Move(r, {"queued"}, "running")

\* The run ends, or it is refused before any worker had it.
Settle(r) == \/ \E s \in Terminal : Move(r, {"running"}, s)
             \/ Move(r, {"queued"}, "failed")

\* The caller's enqueue returned an error for a task that Redis had taken; or
\* that caller stops before it says so.
Dispute(r) ==
    /\ status[r] # "absent"
    /\ disputed' \in {disputed \cup {r}, disputed \ {r}}
    /\ UNCHANGED status

\* Two writers settle a disputed run, and the second overwrites the first.
Overwrite(r) == r \in disputed /\ \E s \in Terminal : Move(r, Terminal, s)

Next == \E r \in Runs :
    Insert(r) \/ Claim(r) \/ Settle(r) \/ Dispute(r) \/ Overwrite(r)

Spec == Init /\ [][Next]_vars
=============================================================================
