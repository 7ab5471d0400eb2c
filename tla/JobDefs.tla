-------------------------------- MODULE JobDefs --------------------------------
(***************************************************************************)
(* Knowledge jobs from their definition to what a run leaves behind: the   *)
(* rows of knowledge_jobs and knowledge_job_sources, the requests that     *)
(* create, update and clone a job, and the processors, which test that the *)
(* job may read its feed, read it, and write an entity, its provenance, a  *)
(* review task and a job_outputs row.  None of these is a transaction but  *)
(* the clone, which always fails, and the creation of the entity: every    *)
(* stage below is a statement or transaction of its own.                   *)
(*                                                                         *)
(* Which worker executes a run, and what becomes of its status when the    *)
(* closing update is lost, is JobRuns.  Names, texts and the parts of a    *)
(* definition that no run looks at are left out, and so are operators and  *)
(* scenario bindings; what a processor finds in the records it reads is    *)
(* data.                                                                   *)
(***************************************************************************)
EXTENDS Naturals, FiniteSets

CONSTANTS
    Jobs,       \* ids of knowledge_jobs rows
    Feeds,      \* source feeds
    Requests,   \* requests of administrators, each connection one at a time
    Runs,       \* executions of runs
    Creations,  \* definitions a POST may ask for
    Patches,    \* what a PATCH may ask for
    MaxWrites,  \* bound: definitions and triggers written
    None        \* no row, no feed, field not given

Modes == {"draft_only", "reviewed_publish", "auto_publish"}
\* A job of a kind that reads no feed (stale_scan) has feed None.
Definitions == [feed : Feeds \cup {None}, mode : Modes, review : BOOLEAN, trigger : {"manual", "scheduled"}]

ASSUME NoneAssumption ==
    None \notin Jobs \cup Feeds /\ None \notin Modes /\ None \notin BOOLEAN /\ None \notin Definitions
ASSUME CreationsAssumption == Creations \subseteq Definitions
ASSUME PatchesAssumption ==
    Patches \subseteq [feed : Feeds \cup {None}, mode : Modes \cup {None},
                       review : BOOLEAN \cup {None}, trigger : {"manual", "scheduled", None}]
ASSUME WritesAssumption == MaxWrites \in Nat

VARIABLES
    job,        \* knowledge_jobs
    sources,    \* sources[j]: feeds that knowledge_job_sources has for the job
    firing,     \* jobs with an active scheduled row of job_triggers
    req,        \* req[q]: a request in progress
    run,        \* run[r]: an execution
    output,     \* output[r]: what it wrote
    writes,     \* definitions and triggers written so far
    torn,       \* history: jobs whose sources two requests wrote at once, or one left half written
    untimed,    \* history: jobs created as scheduled, or that lost their trigger while they were
                \* scheduled or about to be, and had none since
    declared,   \* history: declared[r]: its job could read its feed at some moment since it loaded it
    shifts      \* history: shifts[r]: its tests between whose statements the definition was written

vars == <<job, sources, firing, req, run, output, writes, torn, untimed, declared, shifts>>
definitions == <<job, sources, firing, req, writes, torn, untimed>>

\* alone: no other request wrote the sources since this one wrote the definition.
Requested == [at : {"idle", "list", "write", "clear", "insert"}, of : Jobs \cup {None},
              row : Definitions \cup {None}, alone : BOOLEAN]
NotRequested == [at |-> "idle", of |-> None, row |-> None, alone |-> TRUE]
\* Split: between the two statements of a test.
Split == {"resolve row", "check row"}
Checking == {"resolve", "check"} \cup Split
Writing == {"entity", "provenance", "task", "output", "metrics", "close"}
\* job: the copy it works with; counted: whether the job had sources when it counted them.
Executions == [at : {"idle", "read", "ended"} \cup Checking \cup Writing, of : Jobs \cup {None},
               job : Definitions \cup {None}, counted : BOOLEAN, read : Feeds \cup {None},
               status : {"none", "running", "completed", "failed"}]
NotExecuted == [at |-> "idle", of |-> None, job |-> None, counted |-> FALSE, read |-> None, status |-> "none"]
Outputs == [entity : {"none", "draft", "pending_review", "published"}, provenance : BOOLEAN,
            task : BOOLEAN, row : Modes \cup {"none", "pending_review", "published"}]
NoOutput == [entity |-> "none", provenance |-> FALSE, task |-> FALSE, row |-> "none"]

TypeOK ==
    /\ job \in [Jobs -> Definitions \cup {None}]
    /\ sources \in [Jobs -> SUBSET Feeds]
    /\ firing \subseteq Jobs
    /\ \A j \in Jobs : job[j] = None => sources[j] = {} /\ j \notin firing
    /\ req \in [Requests -> Requested]
    /\ run \in [Runs -> Executions]
    /\ output \in [Runs -> Outputs]
    /\ writes \in 0..MaxWrites
    /\ torn \subseteq Jobs /\ untimed \subseteq Jobs
    /\ declared \in [Runs -> BOOLEAN]
    /\ shifts \in [Runs -> SUBSET Split]

Init ==
    /\ job = [j \in Jobs |-> None]
    /\ sources = [j \in Jobs |-> {}]
    /\ firing = {}
    /\ req = [q \in Requests |-> NotRequested]
    /\ run = [r \in Runs |-> NotExecuted]
    /\ output = [r \in Runs |-> NoOutput]
    /\ writes = 0
    /\ torn = {} /\ untimed = {}
    /\ declared = [r \in Runs |-> FALSE]
    /\ shifts = [r \in Runs |-> {}]

-----------------------------------------------------------------------------
(* Definitions.                                                             *)

At(q, stage) == req[q].at = stage
Answer(q) == req' = [req EXCEPT ![q] = NotRequested]
Write == writes < MaxWrites /\ writes' = writes + 1

\* validateJobDefinitionInput, the rule on two fields.
Valid(row) == ~(row.review /\ row.mode = "auto_publish")

\* mergePatchKnowledgeJob: a field not given is the one that was read.
Merged(row, p) == [f \in {"feed", "mode", "review", "trigger"} |-> IF p[f] = None THEN row[f] ELSE p[f]]

\* Requests past their look at the triggers that are about to store j as scheduled.
Timing(j) == {q \in Requests : /\ req[q].of = j /\ req[q].at = "write"
                               /\ req[q].row.trigger = "scheduled"}

\* Requests that write the sources of j now: the writes of each fall between those of the other.
Settling(j) == {q \in Requests : req[q].of = j /\ req[q].at \in {"clear", "insert"}}
Joined(j) == [q \in Requests |-> [req[q] EXCEPT !.alone = @ /\ q \notin Settling(j)]]

\* What the executions under way could have seen: JobAllowsSourceFeed at one moment.
Allows(j, f) == IF sources[j] # {} THEN f \in sources[j] ELSE job[j] # None /\ job[j].feed = f
Seen == declared' = [r \in Runs |-> declared[r] \/ (run[r].job # None /\ Allows(run[r].of, run[r].job.feed)')]

\* JobService.Create, after ApplyJobTemplate and validation: it does not look at triggers.
Create(q, j, row) ==
    /\ At(q, "idle") /\ job[j] = None
    /\ Valid(row) /\ Write
    /\ job' = [job EXCEPT ![j] = row]
    /\ req' = [req EXCEPT ![q] = [at |-> "insert", of |-> j, row |-> row, alone |-> TRUE]]
    /\ untimed' = IF row.trigger = "scheduled" THEN untimed \cup {j} ELSE untimed
    /\ UNCHANGED <<sources, firing, run, output, torn, shifts>>
    /\ Seen

\* JobService.Update: reads the row, merges and validates it.
ReadJob(q, j, p) ==
    /\ At(q, "idle") /\ job[j] # None
    /\ (p.feed # None => job[j].feed # None)
    /\ LET row == Merged(job[j], p) IN
         Valid(row) /\ req' = [req EXCEPT ![q] = [at |-> "list", of |-> j, row |-> row, alone |-> TRUE]]
    /\ UNCHANGED <<job, sources, firing, run, output, writes, torn, untimed, declared, shifts>>

\* Mutant: the triggers are not looked at.
ListNoTriggers(q) ==
    /\ At(q, "list")
    /\ req' = [req EXCEPT ![q].at = "write"]
    /\ UNCHANGED <<job, sources, firing, run, output, writes, torn, untimed, declared, shifts>>

\* ListTriggers and ValidateTriggerRowsForPrimaryType.
ListTriggers(q) ==
    /\ At(q, "list")
    /\ IF req[q].row.trigger = "scheduled" /\ req[q].of \notin firing
       THEN Answer(q)
       ELSE req' = [req EXCEPT ![q].at = "write"]
    /\ UNCHANGED <<job, sources, firing, run, output, writes, torn, untimed, declared, shifts>>

\* Every column is written.
WriteJob(q) ==
    LET j == req[q].of IN
    /\ At(q, "write") /\ Write
    /\ job' = [job EXCEPT ![j] = req[q].row]
    /\ req' = [Joined(j) EXCEPT ![q].at = "clear", ![q].alone = Settling(j) = {}]
    /\ torn' = IF Settling(j) = {} THEN torn ELSE torn \cup {j}
    /\ shifts' = [r \in Runs |-> shifts[r] \cup (IF run[r].of = j THEN {run[r].at} \cap Split ELSE {})]
    /\ UNCHANGED <<sources, firing, run, output, untimed>>
    /\ Seen

\* Mutant: rows are only added.
KeepSources(q) ==
    /\ At(q, "clear")
    /\ req' = [req EXCEPT ![q].at = "insert"]
    /\ UNCHANGED <<job, sources, firing, run, output, writes, torn, untimed, declared, shifts>>

\* resyncJobSources and syncJobSourcesFromScope.
ClearSources(q) ==
    /\ At(q, "clear")
    /\ sources' = [sources EXCEPT ![req[q].of] = {}]
    /\ req' = [req EXCEPT ![q].at = "insert"]
    /\ UNCHANGED <<job, firing, run, output, writes, torn, untimed, shifts>>
    /\ Seen

InsertSource(q) ==
    LET j == req[q].of IN
    /\ At(q, "insert")
    /\ sources' = [sources EXCEPT ![j] = @ \cup ({req[q].row.feed} \ {None})]
    /\ torn' = IF req[q].alone THEN torn \ {j} ELSE torn \cup {j}
    /\ Answer(q)
    /\ UNCHANGED <<job, firing, run, output, writes, untimed, shifts>>
    /\ Seen

\* The clone is one transaction, and its first INSERT names 26 columns and gives 28 values, up to
\* $24 of 22 arguments: the database refuses it and nothing is written.
Clone(q, j) ==
    /\ At(q, "idle") /\ job[j] # None
    /\ UNCHANGED vars

\* A statement fails or the process stops.
BreakOff(q) ==
    LET j == req[q].of IN
    /\ ~At(q, "idle")
    /\ torn' = IF At(q, "clear") \/ (q \in Settling(j) /\ ~req[q].alone) THEN torn \cup {j} ELSE torn
    /\ Answer(q)
    /\ UNCHANGED <<job, sources, firing, run, output, writes, untimed, declared, shifts>>

\* CreateTrigger; PatchTrigger and DeleteTrigger, which do not look at the job.
CreateTrigger(j) ==
    /\ job[j] # None /\ j \notin firing /\ Write
    /\ firing' = firing \cup {j}
    /\ untimed' = untimed \ {j}
    /\ UNCHANGED <<job, sources, req, run, output, torn, declared, shifts>>

DropTrigger(j) ==
    /\ j \in firing /\ Write
    /\ firing' = firing \ {j}
    /\ untimed' = IF job[j].trigger = "scheduled" \/ Timing(j) # {} THEN untimed \cup {j} ELSE untimed
    /\ UNCHANGED <<job, sources, req, run, output, torn, declared, shifts>>

Define(q) ==
    \/ \E j \in Jobs, row \in Creations : Create(q, j, row)
    \/ \E j \in Jobs, p \in Patches : ReadJob(q, j, p)
    \/ \E j \in Jobs : Clone(q, j)
    \/ ListTriggers(q) \/ WriteJob(q) \/ ClearSources(q) \/ InsertSource(q) \/ BreakOff(q)

-----------------------------------------------------------------------------
(* Executions.                                                              *)

Doing(r, stage) == run[r].at = stage
Turn(r, stage) == run' = [run EXCEPT ![r].at = stage]
\* The error comes back to ProcessQueuedRun, which writes "failed".
Failed(r) == run' = [run EXCEPT ![r].at = "ended", ![r].status = "failed"]

\* ProcessQueuedRun, or Run without a queue: the definition is read, and executeRun begins.
Execute(r, j) ==
    /\ Doing(r, "idle") /\ job[j] # None
    /\ run' = [run EXCEPT ![r] = [NotExecuted EXCEPT !.of = j, !.job = job[j], !.status = "running",
                !.at = IF job[j].feed = None THEN "read" ELSE "resolve"]]
    /\ declared' = [declared EXCEPT ![r] = Allows(j, job[j].feed)]
    /\ UNCHANGED <<definitions, output, shifts>>

\* JobAllowsSourceFeed, asked by the orchestrator and again by the processor: the count, then
\* the row of the feed or, without sources, the scope in the present definition.
CountSources(r) ==
    /\ \/ Doing(r, "resolve") /\ run' = [run EXCEPT ![r].at = "resolve row", ![r].counted = sources[run[r].of] # {}]
       \/ Doing(r, "check") /\ run' = [run EXCEPT ![r].at = "check row", ![r].counted = sources[run[r].of] # {}]
    /\ UNCHANGED <<definitions, output, declared, shifts>>

\* Mutant: the scope only.
PermittedByScope(r) == job[run[r].of].feed = run[r].job.feed

Permitted(r) ==
    LET j == run[r].of
        f == run[r].job.feed
    IN IF run[r].counted THEN f \in sources[j] ELSE job[j].feed = f

\* resolveSources of the orchestrator, and the same test in the processor.
ResolveSources(r) ==
    /\ Doing(r, "resolve row")
    /\ IF Permitted(r) THEN Turn(r, "check") ELSE Failed(r)
    /\ UNCHANGED <<definitions, output, declared, shifts>>

CheckSources(r) ==
    /\ Doing(r, "check row")
    /\ IF Permitted(r) THEN Turn(r, "read") ELSE Failed(r)
    /\ UNCHANGED <<definitions, output, declared, shifts>>

\* Reads the records of the feed, or, for a scan, the entities of the domain.
ReadRecords(r) ==
    /\ Doing(r, "read") /\ run[r].job.feed # None
    /\ run' = [run EXCEPT ![r].at = "entity", ![r].read = run[r].job.feed]
    /\ UNCHANGED <<definitions, output, declared, shifts>>

ScanEntities(r) ==
    /\ Doing(r, "read") /\ run[r].job.feed = None
    /\ Turn(r, "entity")
    /\ UNCHANGED <<definitions, output, declared, shifts>>

\* PlanWeeklyDigestOutput
Lifecycle(mode) == CASE mode = "draft_only" -> "draft" [] mode = "auto_publish" -> "published"
                     [] OTHER -> "pending_review"
Publication(mode) == CASE mode = "draft_only" -> "draft_only" [] mode = "auto_publish" -> "published"
                       [] OTHER -> "pending_review"

CreateEntity(r) ==
    /\ Doing(r, "entity")
    /\ output' = [output EXCEPT ![r].entity = Lifecycle(run[r].job.mode)]
    /\ Turn(r, "provenance")
    /\ UNCHANGED <<definitions, declared, shifts>>

\* Mutant: no review task.
AttachOnly(r) ==
    /\ Doing(r, "provenance")
    /\ output' = [output EXCEPT ![r].provenance = TRUE]
    /\ Turn(r, "output")
    /\ UNCHANGED <<definitions, declared, shifts>>

AttachProvenance(r) ==
    /\ Doing(r, "provenance")
    /\ output' = [output EXCEPT ![r].provenance = TRUE]
    /\ Turn(r, IF Lifecycle(run[r].job.mode) = "pending_review" THEN "task" ELSE "output")
    /\ UNCHANGED <<definitions, declared, shifts>>

CreateReviewTask(r) ==
    /\ Doing(r, "task")
    /\ output' = [output EXCEPT ![r].task = TRUE]
    /\ Turn(r, "output")
    /\ UNCHANGED <<definitions, declared, shifts>>

InsertOutput(r) ==
    /\ Doing(r, "output")
    /\ output' = [output EXCEPT ![r].row = Publication(run[r].job.mode)]
    /\ Turn(r, "metrics")
    /\ UNCHANGED <<definitions, declared, shifts>>

\* mergeRunMetrics, then the closing update.
MergeMetrics(r) == Doing(r, "metrics") /\ Turn(r, "close") /\ UNCHANGED <<definitions, output, declared, shifts>>

Close(r) ==
    /\ Doing(r, "close")
    /\ run' = [run EXCEPT ![r].at = "ended", ![r].status = "completed"]
    /\ UNCHANGED <<definitions, output, declared, shifts>>

\* Any statement but the closing update may fail; what was written stays.
Fails(r) ==
    /\ run[r].at \in ({"read"} \cup Checking \cup Writing) \ {"close"}
    /\ Failed(r)
    /\ UNCHANGED <<definitions, output, declared, shifts>>

\* The worker stops: the run stays running.
Stops(r) ==
    /\ run[r].at \in {"read"} \cup Checking \cup Writing
    /\ Turn(r, "ended")
    /\ UNCHANGED <<definitions, output, declared, shifts>>

Process(r) ==
    \/ \E j \in Jobs : Execute(r, j)
    \/ CountSources(r) \/ ResolveSources(r) \/ CheckSources(r) \/ ReadRecords(r)
    \/ ScanEntities(r) \/ CreateEntity(r) \/ AttachProvenance(r) \/ CreateReviewTask(r)
    \/ InsertOutput(r) \/ MergeMetrics(r) \/ Close(r) \/ Fails(r) \/ Stops(r)

Next ==
    \/ \E q \in Requests : Define(q)
    \/ \E j \in Jobs : CreateTrigger(j) \/ DropTrigger(j)
    \/ \E r \in Runs : Process(r)

Spec == Init /\ [][Next]_vars

-----------------------------------------------------------------------------
\* The rules a definition is validated by hold of the rows, however requests overlap: none
\* that requires review is published at once, and a scheduled one has an active trigger, unless
\* none was made since it was created as scheduled or since its trigger was paused or deleted,
\* which happened while it was scheduled or an update to scheduled had looked at the triggers.
StoredDefinitionsAreValid ==
    \A j \in Jobs : job[j] # None =>
        /\ Valid(job[j])
        /\ job[j].trigger = "scheduled" => j \in firing \cup untimed

\* Between requests the sources of a job do not contradict its scope, so that its runs may read
\* the feed they are for, unless requests overlapped or one broke off before it cleared them.
SourcesFollowScope ==
    \A j \in Jobs : job[j] # None /\ Settling(j) = {} /\ j \notin torn => sources[j] \subseteq {job[j].feed}

\* A run works with a copy of the definition and tests it against the present one, in two
\* statements, twice: it reads no feed that the job did not declare at some moment since it took
\* the copy, unless both tests were split by a request that wrote the definition.
ReadsWereDeclared == \A r \in Runs : run[r].read # None => declared[r] \/ shifts[r] = Split

\* A completed run has its entity, with provenance, a task if it awaits review and a job_outputs
\* row that agrees; an entity that awaits review without a task has a run that says failed, or
\* whose worker is at work or stopped.
OutputsAreAccounted ==
    \A r \in Runs : LET o == output[r] IN
        /\ run[r].status = "completed" =>
             /\ o.entity # "none" /\ o.provenance
             /\ o.task <=> o.entity = "pending_review"
             /\ o.row = IF o.entity = "draft" THEN "draft_only" ELSE o.entity
        /\ o.entity = "pending_review" /\ ~o.task => run[r].status \in {"running", "failed"}
=============================================================================
