----------------------------- MODULE JobDefsProofs -----------------------------
(***************************************************************************)
(* What JobDefs promises of the stored definitions, of the sources beside  *)
(* them, of what a run may read and of what it leaves behind, for any      *)
(* jobs, feeds, requests and runs.                                         *)
(*                                                                         *)
(* A request that is alone is the only one that writes the sources of its  *)
(* job, and the row is still the one it wrote (SourceInv): what it inserts *)
(* is the scope.  A test that passes saw its feed at the moment of its     *)
(* second statement or, when the row was not written in between, of its    *)
(* first (TestInv).  The rest goes by the stages of a request and of a     *)
(* run.                                                                    *)
(***************************************************************************)
EXTENDS JobDefs, TLAPS

\* A request in progress is of a job, with a definition that was validated; one that has looked at
\* the triggers has seen an active one, or the job has lost it since.
RequestInv ==
    \A q \in Requests :
        /\ req[q].at = "idle" <=> req[q].of = None
        /\ req[q].at # "idle" =>
             /\ req[q].of \in Jobs /\ job[req[q].of] # None
             /\ req[q].row \in Definitions /\ Valid(req[q].row)
        /\ req[q].at = "write" /\ req[q].row.trigger = "scheduled" => req[q].of \in firing \cup untimed

\* Of the requests that write the sources of a job one that is alone has no other beside it, the
\* row is what it wrote, and once it has cleared the sources they are of its scope.
SourceInv ==
    \A j \in Jobs :
        /\ \A q \in Settling(j) : req[q].alone =>
             /\ Settling(j) = {q}
             /\ job[j] = req[q].row
             /\ req[q].at = "insert" => sources[j] \subseteq {req[q].row.feed}
        /\ job[j] # None /\ Settling(j) = {} /\ j \notin torn => sources[j] \subseteq {job[j].feed}

\* What a run could see now it has been recorded to have seen; what its tests have shown so far.
TestInv ==
    \A r \in Runs :
        /\ run[r].at = "idle" <=> run[r].of = None
        /\ run[r].at # "idle" => run[r].of \in Jobs /\ job[run[r].of] # None /\ run[r].job \in Definitions
        /\ run[r].job # None => run[r].of # None
        /\ run[r].job # None /\ Allows(run[r].of, run[r].job.feed) => declared[r]
        /\ run[r].at \in Split /\ run[r].at \notin shifts[r] /\ ~run[r].counted =>
             declared[r] \/ job[run[r].of].feed # run[r].job.feed
        /\ run[r].at \in {"check", "check row"} => declared[r] \/ "resolve row" \in shifts[r]
        /\ run[r].at = "read" /\ run[r].job.feed # None => declared[r] \/ shifts[r] = Split
        /\ run[r].read # None => declared[r] \/ shifts[r] = Split

\* What a run has written when it is at a stage, by the mode of its copy of the definition.
Begun == {"idle", "read", "entity"} \cup Checking
OutputInv ==
    \A r \in Runs :
        /\ run[r].at = "idle" => run[r].status = "none"
        /\ run[r].at \notin {"idle", "ended"} => run[r].status = "running"
        /\ run[r].at = "ended" => run[r].status \in {"running", "failed", "completed"}
        /\ run[r].at \in Begun => output[r] = NoOutput
        /\ run[r].at \in Writing \ {"entity"} => output[r].entity = Lifecycle(run[r].job.mode)
        /\ run[r].at = "provenance" => ~output[r].task
        /\ run[r].at = "task" => output[r].provenance /\ output[r].entity = "pending_review"
        /\ run[r].at \in {"output", "metrics", "close"} =>
             /\ output[r].provenance
             /\ output[r].task <=> output[r].entity = "pending_review"
        /\ run[r].at \in {"metrics", "close"} => output[r].row = Publication(run[r].job.mode)
        /\ run[r].status = "completed" =>
             /\ output[r].entity = Lifecycle(run[r].job.mode) /\ output[r].provenance
             /\ output[r].task <=> output[r].entity = "pending_review"
             /\ output[r].row = Publication(run[r].job.mode)

JobDefsInv ==
    TypeOK /\ RequestInv /\ StoredDefinitionsAreValid /\ SourceInv /\ TestInv /\ OutputInv

-----------------------------------------------------------------------------
(* Operators.                                                               *)

\* A PATCH of a definition is a definition.
LEMMA MergedIsDefinition ==
    ASSUME NEW row \in Definitions, NEW p \in Patches
    PROVE  Merged(row, p) \in Definitions
  <1>1. /\ p.feed \in Feeds \cup {None} /\ p.mode \in Modes \cup {None}
        /\ p.review \in BOOLEAN \cup {None} /\ p.trigger \in {"manual", "scheduled", None}
    BY PatchesAssumption
  <1>2. /\ row.feed \in Feeds \cup {None} /\ row.mode \in Modes
        /\ row.review \in BOOLEAN /\ row.trigger \in {"manual", "scheduled"}
    BY DEF Definitions
  <1>3. /\ Merged(row, p).feed = IF p.feed = None THEN row.feed ELSE p.feed
        /\ Merged(row, p).mode = IF p.mode = None THEN row.mode ELSE p.mode
        /\ Merged(row, p).review = IF p.review = None THEN row.review ELSE p.review
        /\ Merged(row, p).trigger = IF p.trigger = None THEN row.trigger ELSE p.trigger
    BY DEF Merged
  <1>4. Merged(row, p) = [feed |-> Merged(row, p).feed, mode |-> Merged(row, p).mode,
                          review |-> Merged(row, p).review, trigger |-> Merged(row, p).trigger]
    BY DEF Merged
  <1>5. Merged(row, p).feed \in Feeds \cup {None} /\ Merged(row, p).mode \in Modes
    BY <1>1, <1>2, <1>3
  <1>6. Merged(row, p).review \in BOOLEAN /\ Merged(row, p).trigger \in {"manual", "scheduled"}
    BY <1>1, <1>2, <1>3
  <1> QED BY <1>4, <1>5, <1>6 DEF Definitions

LEMMA AllowsIsTest == ASSUME NEW j, NEW f PROVE Allows(j, f) \in BOOLEAN
  <1>1. \/ Allows(j, f) = (f \in sources[j])
        \/ Allows(j, f) = (job[j] # None /\ job[j].feed = f)
    BY DEF Allows
  <1>2. (f \in sources[j]) \in BOOLEAN
    OBVIOUS
  <1>3. (job[j] # None /\ job[j].feed = f) \in BOOLEAN
    BY Zenon
  <1> QED BY <1>1, <1>2, <1>3, Zenon

\* What is written is recorded for the runs that could see it, and what they saw stays recorded.
LEMMA SeenRecords ==
    ASSUME TypeOK, Seen
    PROVE  /\ declared' \in [Runs -> BOOLEAN]
           /\ \A r \in Runs : declared[r] => declared'[r]
           /\ \A r \in Runs : run[r].job # None /\ Allows(run[r].of, run[r].job.feed)' => declared'[r]
  <1>1. declared' = [r \in Runs |-> declared[r] \/ (run[r].job # None /\ Allows(run[r].of, run[r].job.feed)')]
    BY Zenon DEF Seen
  <1>2. \A r \in Runs : declared'[r] = (declared[r] \/ (run[r].job # None /\ Allows(run[r].of, run[r].job.feed)'))
    BY <1>1, Zenon
  <1>3. \A r \in Runs : (declared[r] \/ (run[r].job # None /\ Allows(run[r].of, run[r].job.feed)')) \in BOOLEAN
    BY Zenon
  <1>4. declared' \in [Runs -> BOOLEAN]
    BY <1>1, <1>3, Zenon
  <1> QED BY <1>2, <1>4, Zenon

\* The requests after one has written a definition: it is alone unless others write the sources,
\* and none of these is alone any more.
LEMMA Joining ==
    ASSUME TypeOK, NEW q \in Requests, WriteJob(q)
    PROVE  /\ req' \in [Requests -> Requested]
           /\ req'[q].at = "clear" /\ req'[q].of = req[q].of /\ req'[q].row = req[q].row
           /\ req'[q].alone <=> Settling(req[q].of) = {}
           /\ \A p \in Requests \ {q} :
                /\ req'[p].at = req[p].at /\ req'[p].of = req[p].of /\ req'[p].row = req[p].row
                /\ req'[p].alone <=> req[p].alone /\ p \notin Settling(req[q].of)
  <1> DEFINE J == Joined(req[q].of)
  <1>0. req \in [Requests -> Requested]
    BY DEF TypeOK
  <1>1. J = [p \in Requests |-> [req[p] EXCEPT !.alone = req[p].alone /\ p \notin Settling(req[q].of)]]
    BY Zenon DEF Joined
  <1>2. ASSUME NEW p \in Requests
        PROVE  /\ J[p] \in Requested
               /\ J[p].at = req[p].at /\ J[p].of = req[p].of /\ J[p].row = req[p].row
               /\ J[p].alone <=> req[p].alone /\ p \notin Settling(req[q].of)
    <2>1. PICK b \in BOOLEAN : b = (req[p].alone /\ p \notin Settling(req[q].of))
      BY Zenon
    <2>2. J[p] = [req[p] EXCEPT !.alone = b]
      BY <1>1, <2>1, Zenon
    <2>3. /\ J[p] \in Requested /\ J[p].at = req[p].at /\ J[p].of = req[p].of /\ J[p].row = req[p].row
          /\ J[p].alone = b
      BY <1>0, <2>2 DEF Requested
    <2> QED BY <2>1, <2>3, Zenon
  <1>3. J \in [Requests -> Requested]
    BY <1>1, <1>2, Zenon
  <1>4. PICK b \in BOOLEAN : b = (Settling(req[q].of) = {})
    BY Zenon
  <1>5. req' = [J EXCEPT ![q].at = "clear", ![q].alone = Settling(req[q].of) = {}]
    BY Zenon DEF WriteJob
  <1>6. req' = [J EXCEPT ![q].at = "clear", ![q].alone = b]
    BY <1>4, <1>5, Zenon
  <1> HIDE DEF J
  <1>7. /\ req' \in [Requests -> Requested]
        /\ req'[q].at = "clear" /\ req'[q].of = J[q].of /\ req'[q].row = J[q].row /\ req'[q].alone = b
        /\ \A p \in Requests \ {q} : req'[p] = J[p]
    BY <1>3, <1>6 DEF Requested
  <1>8. /\ req'[q].at = "clear" /\ req'[q].of = req[q].of /\ req'[q].row = req[q].row
    BY <1>2, <1>7, Zenon
  <1>9. req'[q].alone <=> Settling(req[q].of) = {}
    BY <1>4, <1>7, Zenon
  <1>10. ASSUME NEW p \in Requests \ {q}
         PROVE  /\ req'[p].at = req[p].at /\ req'[p].of = req[p].of /\ req'[p].row = req[p].row
                /\ req'[p].alone <=> req[p].alone /\ p \notin Settling(req[q].of)
    <2>1. req'[p] = J[p]
      BY <1>7, Zenon
    <2> QED BY <1>2, <2>1, Zenon
  <1> QED BY <1>7, <1>8, <1>9, <1>10, Zenon

-----------------------------------------------------------------------------
(* Requests.                                                                *)

\* What a request leaves alone: the runs and their outputs, and the rows that are there.
LEMMA DefineFrame ==
    ASSUME TypeOK, RequestInv, NEW q \in Requests, Define(q)
    PROVE  run' = run /\ output' = output
  BY DEF Define, Create, ReadJob, Clone, vars, ListTriggers, WriteJob, ClearSources, InsertSource, BreakOff

\* The rows keep their types, and none that is there goes away.
LEMMA DefineTypes ==
    ASSUME TypeOK, RequestInv, NEW q \in Requests, Define(q)
    PROVE  TypeOK' /\ \A j \in Jobs : job[j] # None => job'[j] # None
  <1>0. /\ job \in [Jobs -> Definitions \cup {None}] /\ sources \in [Jobs -> SUBSET Feeds]
        /\ firing \subseteq Jobs /\ req \in [Requests -> Requested] /\ req[q] \in Requested
        /\ writes \in 0..MaxWrites /\ torn \subseteq Jobs /\ untimed \subseteq Jobs
        /\ declared \in [Runs -> BOOLEAN] /\ shifts \in [Runs -> SUBSET Split]
        /\ \A j \in Jobs : job[j] = None => sources[j] = {} /\ j \notin firing
    BY DEF TypeOK
  <1>1. run' = run /\ output' = output
    BY DefineFrame
  <1>2. NotRequested \in Requested /\ None \notin Definitions
    BY NoneAssumption DEF NotRequested, Requested
  <1>3. Write => writes' \in 0..MaxWrites
    BY <1>0, WritesAssumption DEF Write
  <1>4. Seen => declared' \in [Runs -> BOOLEAN]
    BY SeenRecords
  <1>5. ~At(q, "idle") => /\ req[q].of \in Jobs /\ job[req[q].of] # None /\ req[q].row \in Definitions
    BY DEF RequestInv, At
  <1>6. CASE \E j \in Jobs, row \in Creations : Create(q, j, row)
    <2>1. PICK j \in Jobs, row \in Creations : Create(q, j, row)
      BY <1>6
    <2>2. row \in Definitions
      BY CreationsAssumption
    <2>3. [at |-> "insert", of |-> j, row |-> row, alone |-> TRUE] \in Requested
      BY <2>2 DEF Requested
    <2>4. /\ job' = [job EXCEPT ![j] = row] /\ sources' = sources /\ firing' = firing /\ torn' = torn
          /\ req' = [req EXCEPT ![q] = [at |-> "insert", of |-> j, row |-> row, alone |-> TRUE]]
          /\ shifts' = shifts /\ untimed' \subseteq Jobs
      BY <1>0, <2>1 DEF Create
    <2>5. Write /\ Seen
      BY <2>1 DEF Create
    <2> QED BY <1>0, <1>1, <1>2, <1>3, <1>4, <2>2, <2>3, <2>4, <2>5 DEF TypeOK
  <1>7. CASE \E j \in Jobs, p \in Patches : ReadJob(q, j, p)
    <2>1. PICK j \in Jobs, p \in Patches : ReadJob(q, j, p)
      BY <1>7
    <2>2. job[j] \in Definitions
      BY <1>0, <2>1 DEF ReadJob
    <2>3. Merged(job[j], p) \in Definitions
      BY <2>2, MergedIsDefinition
    <2>4. /\ req' = [req EXCEPT ![q] = [at |-> "list", of |-> j, row |-> Merged(job[j], p), alone |-> TRUE]]
          /\ UNCHANGED <<job, sources, firing, run, output, writes, torn, untimed, declared, shifts>>
      BY <2>1 DEF ReadJob
    <2>5. [at |-> "list", of |-> j, row |-> Merged(job[j], p), alone |-> TRUE] \in Requested
      BY <2>3 DEF Requested
    <2>6. req' \in [Requests -> Requested]
      BY <1>0, <2>4, <2>5
    <2> QED BY <2>4, <2>6 DEF TypeOK
  <1>8. CASE \E j \in Jobs : Clone(q, j)
    BY <1>8 DEF Clone, vars, TypeOK
  <1>9. CASE ListTriggers(q)
    <2>1. [req[q] EXCEPT !.at = "write"] \in Requested
      BY <1>0 DEF Requested
    <2>2. req' \in [Requests -> Requested]
      BY <1>0, <1>2, <1>9, <2>1 DEF ListTriggers, Answer
    <2> QED BY <1>9, <2>2 DEF ListTriggers, TypeOK
  <1>10. CASE WriteJob(q)
    <2>1. req' \in [Requests -> Requested]
      BY <1>10, Joining
    <2>2. /\ Write /\ Seen /\ job' = [job EXCEPT ![req[q].of] = req[q].row]
          /\ sources' = sources /\ firing' = firing /\ untimed' = untimed
          /\ req[q].of \in Jobs /\ req[q].row \in Definitions
      BY <1>5, <1>10 DEF WriteJob, At
    <2>3. torn' \subseteq Jobs
      BY <1>0, <1>10, <2>2 DEF WriteJob
    <2>4. shifts' \in [Runs -> SUBSET Split]
      BY <1>0, <1>10 DEF WriteJob
    <2>5. /\ job' \in [Jobs -> Definitions \cup {None}]
          /\ \A j \in Jobs : job[j] # None => job'[j] # None
      BY <1>0, <1>2, <2>2
    <2>6. declared' \in [Runs -> BOOLEAN] /\ writes' \in 0..MaxWrites
      BY <1>3, <1>4, <2>2
    <2>7. \A j \in Jobs : job'[j] = None => sources'[j] = {} /\ j \notin firing'
      BY <1>0, <2>2, <2>5
    <2> QED BY <1>0, <1>1, <2>1, <2>2, <2>3, <2>4, <2>5, <2>6, <2>7 DEF TypeOK
  <1>11. CASE ClearSources(q)
    <2>1. [req[q] EXCEPT !.at = "insert"] \in Requested
      BY <1>0 DEF Requested
    <2>2. req' \in [Requests -> Requested]
      BY <1>0, <1>11, <2>1 DEF ClearSources
    <2>3. /\ Seen /\ UNCHANGED <<job, firing, run, output, writes, torn, untimed, shifts>>
          /\ sources' = [sources EXCEPT ![req[q].of] = {}]
      BY <1>11 DEF ClearSources
    <2> QED BY <1>0, <1>1, <1>4, <2>2, <2>3 DEF TypeOK
  <1>12. CASE InsertSource(q)
    <2>1. req[q].of \in Jobs /\ job[req[q].of] # None /\ req[q].row.feed \in Feeds \cup {None}
      BY <1>5, <1>12 DEF InsertSource, At, Definitions
    <2>2. req' \in [Requests -> Requested]
      BY <1>0, <1>2, <1>12 DEF InsertSource, Answer
    <2>3. /\ Seen /\ UNCHANGED <<job, firing, run, output, writes, untimed, shifts>>
          /\ sources' = [sources EXCEPT ![req[q].of] = sources[req[q].of] \cup ({req[q].row.feed} \ {None})]
      BY <1>0, <1>12, <2>1 DEF InsertSource
    <2>4. torn' \subseteq Jobs
      BY <1>0, <1>12, <2>1 DEF InsertSource
    <2>5. sources' \in [Jobs -> SUBSET Feeds] /\ \A j \in Jobs : j # req[q].of => sources'[j] = sources[j]
      BY <1>0, <2>1, <2>3
    <2> QED BY <1>0, <1>1, <1>4, <2>1, <2>2, <2>3, <2>4, <2>5 DEF TypeOK
  <1>13. CASE BreakOff(q)
    <2>1. req[q].of \in Jobs
      BY <1>5, <1>13 DEF BreakOff
    <2>2. torn' \subseteq Jobs /\ req' \in [Requests -> Requested]
      BY <1>0, <1>2, <1>13, <2>1 DEF BreakOff, Answer
    <2> QED BY <1>13, <2>2 DEF BreakOff, TypeOK
  <1> QED BY <1>6, <1>7, <1>8, <1>9, <1>10, <1>11, <1>12, <1>13 DEF Define

\* What is written was validated, and what the triggers were looked at for still has one, unless it
\* was dropped since.
LEMMA DefineKeeps ==
    ASSUME TypeOK, RequestInv, StoredDefinitionsAreValid, NEW q \in Requests, Define(q)
    PROVE  RequestInv' /\ StoredDefinitionsAreValid'
  <1>0. /\ job \in [Jobs -> Definitions \cup {None}] /\ req \in [Requests -> Requested] /\ req[q] \in Requested
        /\ None \notin Definitions /\ None \notin Jobs
    BY NoneAssumption DEF TypeOK
  <1>1. \A j \in Jobs : job[j] # None => job'[j] # None
    BY DefineTypes
  <1>2. NotRequested.at = "idle" /\ NotRequested.of = None
    BY DEF NotRequested
  <1>3. CASE \E j \in Jobs, row \in Creations : Create(q, j, row)
    <2>1. PICK j \in Jobs, row \in Creations : Create(q, j, row)
      BY <1>3
    <2>2. /\ job' = [job EXCEPT ![j] = row] /\ firing' = firing /\ job[j] = None /\ Valid(row)
          /\ req' = [req EXCEPT ![q] = [at |-> "insert", of |-> j, row |-> row, alone |-> TRUE]]
          /\ untimed \subseteq untimed' /\ (row.trigger = "scheduled" => j \in untimed')
          /\ row \in Definitions
      BY <2>1, CreationsAssumption DEF Create
    <2>3. RequestInv'
      BY <1>0, <1>1, <2>2 DEF RequestInv
    <2>4. StoredDefinitionsAreValid'
      BY <1>0, <2>2 DEF StoredDefinitionsAreValid
    <2> QED BY <2>3, <2>4
  <1>4. CASE \E j \in Jobs, p \in Patches : ReadJob(q, j, p)
    <2>1. PICK j \in Jobs, p \in Patches : ReadJob(q, j, p)
      BY <1>4
    <2>2. /\ req' = [req EXCEPT ![q] = [at |-> "list", of |-> j, row |-> Merged(job[j], p), alone |-> TRUE]]
          /\ job' = job /\ firing' = firing /\ untimed' = untimed /\ job[j] # None /\ Valid(Merged(job[j], p))
      BY <2>1 DEF ReadJob
    <2>3. Merged(job[j], p) \in Definitions
      BY <1>0, <2>2, MergedIsDefinition
    <2>4. RequestInv'
      BY <1>0, <2>2, <2>3 DEF RequestInv
    <2> QED BY <2>2, <2>4 DEF StoredDefinitionsAreValid
  <1>5. CASE \E j \in Jobs : Clone(q, j)
    BY <1>5 DEF Clone, vars, RequestInv, StoredDefinitionsAreValid
  <1>6. CASE ListTriggers(q)
    <2>1. /\ req[q].at = "list" /\ job' = job /\ firing' = firing /\ untimed' = untimed
          /\ \/ req' = [req EXCEPT ![q] = NotRequested]
             \/ /\ req' = [req EXCEPT ![q].at = "write"]
                /\ req[q].row.trigger = "scheduled" => req[q].of \in firing
      BY <1>6 DEF ListTriggers, Answer, At
    <2>2. RequestInv'
      BY <1>0, <1>2, <2>1 DEF RequestInv, Requested
    <2> QED BY <2>1, <2>2 DEF StoredDefinitionsAreValid
  <1>7. CASE WriteJob(q)
    <2>1. /\ job' = [job EXCEPT ![req[q].of] = req[q].row] /\ firing' = firing /\ untimed' = untimed
          /\ req[q].at = "write"
      BY <1>7 DEF WriteJob, At
    <2>2. /\ req[q].of \in Jobs /\ req[q].row \in Definitions /\ Valid(req[q].row)
          /\ req[q].row.trigger = "scheduled" => req[q].of \in firing \cup untimed
      BY <2>1 DEF RequestInv
    <2>3. RequestInv'
      BY <1>1, <1>7, <2>1, Joining DEF RequestInv
    <2>4. StoredDefinitionsAreValid'
      BY <1>0, <2>1, <2>2 DEF StoredDefinitionsAreValid
    <2> QED BY <2>3, <2>4
  <1>8. CASE ClearSources(q)
    <2>1. /\ req[q].at = "clear" /\ req' = [req EXCEPT ![q].at = "insert"]
          /\ job' = job /\ firing' = firing /\ untimed' = untimed
      BY <1>8 DEF ClearSources, At
    <2>2. RequestInv'
      BY <1>0, <2>1 DEF RequestInv, Requested
    <2> QED BY <2>1, <2>2 DEF StoredDefinitionsAreValid
  <1>9. CASE InsertSource(q) \/ BreakOff(q)
    <2>1. /\ req' = [req EXCEPT ![q] = NotRequested]
          /\ job' = job /\ firing' = firing /\ untimed' = untimed
      BY <1>9 DEF InsertSource, BreakOff, Answer
    <2>2. RequestInv'
      BY <1>0, <1>2, <2>1 DEF RequestInv
    <2> QED BY <2>1, <2>2 DEF StoredDefinitionsAreValid
  <1> QED BY <1>3, <1>4, <1>5, <1>6, <1>7, <1>8, <1>9 DEF Define

\* Sources are settled by one request alone, or the job counts as torn.
LEMMA SourcesKept ==
    ASSUME TypeOK, RequestInv, SourceInv, NEW q \in Requests, Define(q)
    PROVE  SourceInv'
  <1>0. /\ job \in [Jobs -> Definitions \cup {None}] /\ sources \in [Jobs -> SUBSET Feeds]
        /\ req \in [Requests -> Requested] /\ req[q] \in Requested
        /\ \A j \in Jobs : job[j] = None => sources[j] = {}
        /\ None \notin Definitions /\ None \notin Jobs /\ None \notin Feeds
    BY NoneAssumption DEF TypeOK
  <1>1. NotRequested.at = "idle" /\ NotRequested.of = None
    BY DEF NotRequested
  <1>2. ~At(q, "idle") => /\ req[q].of \in Jobs /\ job[req[q].of] # None /\ req[q].row \in Definitions
    BY DEF RequestInv, At
  <1>3. CASE \E j \in Jobs, row \in Creations : Create(q, j, row)
    <2>1. PICK j \in Jobs, row \in Creations : Create(q, j, row)
      BY <1>3
    <2>2. /\ job' = [job EXCEPT ![j] = row] /\ sources' = sources /\ job[j] = None /\ torn' = torn
          /\ req' = [req EXCEPT ![q] = [at |-> "insert", of |-> j, row |-> row, alone |-> TRUE]]
          /\ req[q].at = "idle"
      BY <2>1 DEF Create, At
    <2>3. Settling(j) = {} /\ Settling(j)' = {q}
      BY <1>0, <2>2 DEF Settling, RequestInv
    <2>4. \A k \in Jobs \ {j} : Settling(k)' = Settling(k)
      BY <1>0, <2>2 DEF Settling, RequestInv
    <2>5. q \notin UNION {Settling(k) : k \in Jobs}
      BY <1>0, <2>2 DEF Settling
    <2> QED BY <1>0, <2>2, <2>3, <2>4, <2>5 DEF SourceInv
  <1>4. CASE (\E j \in Jobs, p \in Patches : ReadJob(q, j, p)) \/ ListTriggers(q)
    <2>1. /\ job' = job /\ sources' = sources /\ torn' = torn
          /\ \A p \in Requests : p # q => req'[p] = req[p]
          /\ req[q].at \notin {"clear", "insert"} /\ req'[q].at \notin {"clear", "insert"}
      <3>1. CASE ListTriggers(q)
        BY <1>0, <1>1, <3>1 DEF ListTriggers, Answer, At, Requested
      <3>2. CASE \E j \in Jobs, p \in Patches : ReadJob(q, j, p)
        <4>1. PICK j \in Jobs, p \in Patches : ReadJob(q, j, p)
          BY <3>2
        <4>2. /\ req' = [req EXCEPT ![q] = [at |-> "list", of |-> j, row |-> Merged(job[j], p), alone |-> TRUE]]
              /\ job' = job /\ sources' = sources /\ torn' = torn /\ req[q].at = "idle"
          BY <4>1 DEF ReadJob, At
        <4> QED BY <1>0, <4>2
      <3> QED BY <1>4, <3>1, <3>2
    <2>2. \A k \in Jobs : Settling(k)' = Settling(k) /\ q \notin Settling(k)
      BY <2>1 DEF Settling
    <2>3. \A k \in Jobs : \A p \in Settling(k) : req'[p] = req[p]
      BY <2>1, <2>2 DEF Settling
    <2> QED BY <2>1, <2>2, <2>3 DEF SourceInv
  <1>5. CASE \E j \in Jobs : Clone(q, j)
    BY <1>5 DEF Clone, vars, SourceInv, Settling
  <1>6. CASE WriteJob(q)
    <2>0. PICK j \in Jobs : j = req[q].of
      BY <1>2, <1>6 DEF WriteJob, At
    <2>1. /\ job' = [job EXCEPT ![j] = req[q].row] /\ sources' = sources /\ req[q].at = "write" /\ j \in Jobs
          /\ torn' = IF Settling(j) = {} THEN torn ELSE torn \cup {j}
      BY <1>2, <2>0, <1>6 DEF WriteJob, At
    <2>2. /\ req'[q].at = "clear" /\ req'[q].of = j /\ req'[q].row = req[q].row
          /\ req'[q].alone <=> Settling(j) = {}
          /\ \A p \in Requests \ {q} :
               /\ req'[p].at = req[p].at /\ req'[p].of = req[p].of /\ req'[p].row = req[p].row
               /\ req'[p].alone <=> req[p].alone /\ p \notin Settling(j)
      BY <1>6, <2>0, Joining
    <2>3. Settling(j)' = Settling(j) \cup {q}
      BY <2>1, <2>2 DEF Settling
    <2>4. \A k \in Jobs \ {j} : Settling(k)' = Settling(k)
      BY <2>1, <2>2 DEF Settling
    <2>5. \A k \in Jobs : q \notin Settling(k) /\ Settling(k) \subseteq Requests
      BY <2>1 DEF Settling
    <2>6. ASSUME NEW k \in Jobs \ {j}
          PROVE  /\ \A p \in Settling(k)' : req'[p].alone =>
                      /\ Settling(k)' = {p}
                      /\ job'[k] = req'[p].row
                      /\ req'[p].at = "insert" => sources'[k] \subseteq {req'[p].row.feed}
                 /\ job'[k] # None /\ Settling(k)' = {} /\ k \notin torn' => sources'[k] \subseteq {job'[k].feed}
      <3>1. job'[k] = job[k] /\ sources'[k] = sources[k] /\ (k \notin torn' => k \notin torn)
        BY <1>0, <2>1
      <3>2. \A p \in Settling(k) : /\ req'[p].at = req[p].at /\ req'[p].row = req[p].row
                                   /\ req'[p].alone => req[p].alone
        BY <2>2, <2>5
      <3> QED BY <2>4, <3>1, <3>2 DEF SourceInv
    <2>7. \A p \in Settling(j)' : req'[p].alone =>
            /\ Settling(j)' = {p}
            /\ job'[j] = req'[p].row
            /\ req'[p].at = "insert" => sources'[j] \subseteq {req'[p].row.feed}
      <3>1. ASSUME NEW p \in Settling(j)', req'[p].alone PROVE p = q /\ Settling(j) = {}
        BY <2>2, <2>3, <2>5, <3>1
      <3> QED BY <1>0, <2>1, <2>2, <2>3, <3>1
    <2>8. Settling(j)' # {}
      BY <2>3
    <2> QED BY <2>1, <2>6, <2>7, <2>8 DEF SourceInv
  <1>7. CASE ClearSources(q)
    <2>0. PICK j \in Jobs : j = req[q].of
      BY <1>2, <1>7 DEF ClearSources, At
    <2>1. /\ job' = job /\ torn' = torn /\ req[q].at = "clear" /\ j \in Jobs
          /\ sources' = [sources EXCEPT ![j] = {}]
          /\ req' = [req EXCEPT ![q].at = "insert"]
      BY <1>2, <2>0, <1>7 DEF ClearSources, At
    <2>2. /\ \A p \in Requests : /\ req'[p].of = req[p].of /\ req'[p].row = req[p].row
                                 /\ req'[p].alone = req[p].alone
          /\ \A p \in Requests \ {q} : req'[p].at = req[p].at
          /\ req'[q].at = "insert"
      BY <1>0, <2>1 DEF Requested
    <2>3. \A k \in Jobs : Settling(k)' = Settling(k) /\ Settling(k) \subseteq Requests
      BY <2>1, <2>2 DEF Settling
    <2>4. q \in Settling(j) /\ \A k \in Jobs \ {j} : q \notin Settling(k)
      BY <2>0, <2>1 DEF Settling
    <2>5. sources'[j] = {} /\ \A k \in Jobs \ {j} : sources'[k] = sources[k]
      BY <1>0, <2>1
    <2> QED BY <2>1, <2>2, <2>3, <2>4, <2>5 DEF SourceInv
  <1>8. CASE InsertSource(q) \/ BreakOff(q)
    <2>0. PICK j \in Jobs : j = req[q].of
      BY <1>2, <1>8 DEF InsertSource, BreakOff, At
    <2>1. /\ job' = job /\ req[q].at # "idle" /\ j \in Jobs /\ job[j] # None /\ req[q].row \in Definitions
          /\ req' = [req EXCEPT ![q] = NotRequested]
      BY <1>2, <2>0, <1>8 DEF InsertSource, BreakOff, Answer, At
    <2>2. /\ req'[q].at = "idle" /\ req'[q].of = None /\ \A p \in Requests \ {q} : req'[p] = req[p]
      BY <1>0, <1>1, <2>1
    <2>3. /\ \A k \in Jobs : Settling(k)' = Settling(k) \ {q}
          /\ \A k \in Jobs \ {j} : q \notin Settling(k)
      BY <1>0, <2>0, <2>1, <2>2 DEF Settling
    <2>4. \A k \in Jobs : \A p \in Settling(k)' : req'[p] = req[p] /\ p \in Settling(k) /\ p # q
      BY <2>2, <2>3 DEF Settling
    <2>5. \A k \in Jobs \ {j} : sources'[k] = sources[k] /\ (k \notin torn' => k \notin torn)
      BY <1>0, <1>8, <2>0, <2>1 DEF InsertSource, BreakOff
    <2>6. \A k \in Jobs \ {j} : Settling(k)' = Settling(k)
      BY <2>3
    <2>7. \A p \in Settling(j)' : ~req'[p].alone \/ sources'[j] = sources[j]
      <3>1. CASE BreakOff(q)
        BY <3>1 DEF BreakOff
      <3>2. CASE InsertSource(q)
        <4>1. q \in Settling(j)
          BY <2>0, <3>2 DEF InsertSource, At, Settling
        <4> QED BY <2>1, <2>4, <4>1 DEF SourceInv
      <3> QED BY <1>8, <3>1, <3>2
    <2>8. Settling(j)' = {} /\ j \notin torn' => sources'[j] \subseteq {job[j].feed}
      <3>1. CASE BreakOff(q)
        <4>1. /\ sources' = sources
              /\ torn' = IF At(q, "clear") \/ (q \in Settling(j) /\ ~req[q].alone) THEN torn \cup {j} ELSE torn
          BY <2>0, <3>1 DEF BreakOff
        <4>2. CASE q \in Settling(j)
          <5>1. j \notin torn' => req[q].alone /\ req[q].at = "insert"
            BY <4>1, <4>2 DEF At, Settling
          <5> QED BY <2>1, <4>1, <4>2, <5>1 DEF SourceInv
        <4>3. CASE q \notin Settling(j)
          <5>1. Settling(j)' = Settling(j) /\ (j \notin torn' => j \notin torn)
            BY <2>1, <2>3, <4>1, <4>3
          <5> QED BY <2>1, <4>1, <5>1 DEF SourceInv
        <4> QED BY <4>2, <4>3
      <3>2. CASE InsertSource(q)
        <4>1. /\ q \in Settling(j) /\ req[q].at = "insert"
              /\ sources'[j] = sources[j] \cup ({req[q].row.feed} \ {None})
              /\ j \notin torn' => req[q].alone
          BY <1>0, <2>0, <2>1, <3>2 DEF InsertSource, At, Settling
        <4> QED BY <2>1, <4>1 DEF SourceInv
      <3> QED BY <1>8, <3>1, <3>2
    <2>9. ASSUME NEW k \in Jobs \ {j}
          PROVE  /\ \A p \in Settling(k)' : req'[p].alone =>
                      /\ Settling(k)' = {p}
                      /\ job'[k] = req'[p].row
                      /\ req'[p].at = "insert" => sources'[k] \subseteq {req'[p].row.feed}
                 /\ job'[k] # None /\ Settling(k)' = {} /\ k \notin torn' => sources'[k] \subseteq {job'[k].feed}
      BY <2>1, <2>4, <2>5, <2>6 DEF SourceInv
    <2>10. \A p \in Settling(j)' : req'[p].alone =>
             /\ Settling(j)' = {p}
             /\ job'[j] = req'[p].row
             /\ req'[p].at = "insert" => sources'[j] \subseteq {req'[p].row.feed}
      BY <2>1, <2>3, <2>4, <2>7 DEF SourceInv
    <2> QED BY <2>1, <2>8, <2>9, <2>10 DEF SourceInv
  <1> QED BY <1>3, <1>4, <1>5, <1>6, <1>7, <1>8 DEF Define

\* Requests go on while a run tests what it may read: what it could see is recorded, and a row that
\* is written between the two statements of a test is as well.
LEMMA DefineKeepsTests ==
    ASSUME TypeOK, RequestInv, TestInv, NEW q \in Requests, Define(q)
    PROVE  TestInv'
  <1>0. /\ run' = run
        /\ \A j \in Jobs : job[j] # None => job'[j] # None
        /\ None \notin Definitions /\ declared \in [Runs -> BOOLEAN] /\ shifts \in [Runs -> SUBSET Split]
        /\ declared' \in [Runs -> BOOLEAN] /\ shifts' \in [Runs -> SUBSET Split]
    BY DefineFrame, DefineTypes, NoneAssumption DEF TypeOK
  <1>1. \A r \in Runs : /\ shifts[r] \subseteq shifts'[r]
                        /\ declared[r] => declared'[r]
                        /\ run[r].job # None /\ Allows(run[r].of, run[r].job.feed)' => declared'[r]
    <2>1. CASE Seen
      <3>1. \A r \in Runs : shifts[r] \subseteq shifts'[r]
        BY <1>0, <2>1 DEF Define, Create, ReadJob, Clone, vars, ListTriggers, WriteJob, ClearSources, InsertSource, BreakOff
      <3> QED BY <2>1, <3>1, SeenRecords
    <2>2. CASE ~Seen
      <3>1. job' = job /\ sources' = sources /\ declared' = declared /\ shifts' = shifts
        BY <2>2 DEF Define, Create, ReadJob, Clone, vars, ListTriggers, WriteJob, ClearSources, InsertSource, BreakOff
      <3> QED BY <1>0, <3>1 DEF TestInv, Allows
    <2> QED BY <2>1, <2>2
  <1>2. \A r \in Runs : run[r].at \in Split /\ run[r].at \notin shifts'[r] =>
           job'[run[r].of] = job[run[r].of] /\ run[r].at \notin shifts[r]
    <2> SUFFICES ASSUME NEW r \in Runs, run[r].at \in Split, run[r].at \notin shifts'[r]
                 PROVE  job'[run[r].of] = job[run[r].of]
      BY <1>1
    <2>1. run[r].of \in Jobs /\ job[run[r].of] # None
      BY DEF TestInv, Split
    <2>2. CASE WriteJob(q)
      <3>1. run[r].of # req[q].of
        BY <2>2 DEF WriteJob
      <3>2. job' = [job EXCEPT ![req[q].of] = req[q].row]
        BY <2>2 DEF WriteJob
      <3> QED BY <2>1, <3>1, <3>2 DEF TypeOK
    <2>3. CASE ~WriteJob(q)
      <3>1. \A j \in Jobs : job[j] # None => job'[j] = job[j]
        BY <2>3 DEF TypeOK, Define, Create, ReadJob, Clone, vars, ListTriggers, ClearSources, InsertSource, BreakOff
      <3> QED BY <2>1, <3>1
    <2> QED BY <2>2, <2>3
  <1>3. ASSUME NEW r \in Runs
        PROVE  /\ run'[r].at = "idle" <=> run'[r].of = None
               /\ run'[r].at # "idle" => run'[r].of \in Jobs /\ job'[run'[r].of] # None /\ run'[r].job \in Definitions
               /\ run'[r].job # None => run'[r].of # None
               /\ run'[r].at \in Split /\ run'[r].at \notin shifts'[r] /\ ~run'[r].counted =>
                    declared'[r] \/ job'[run'[r].of].feed # run'[r].job.feed
    BY <1>0, <1>1, <1>2 DEF TestInv
  <1>4. ASSUME NEW r \in Runs, shifts[r] = Split PROVE shifts'[r] = Split
    BY <1>0, <1>1, <1>4
  <1>5. ASSUME NEW r \in Runs
        PROVE  /\ run'[r].at \in {"check", "check row"} => declared'[r] \/ "resolve row" \in shifts'[r]
               /\ run'[r].at = "read" /\ run'[r].job.feed # None => declared'[r] \/ shifts'[r] = Split
               /\ run'[r].read # None => declared'[r] \/ shifts'[r] = Split
    BY <1>0, <1>1, <1>4 DEF TestInv
  <1>6. \A r \in Runs : (run[r].job # None /\ Allows(run[r].of, run[r].job.feed))' => declared'[r]
    BY <1>0, <1>1
  <1> QED BY <1>3, <1>5, <1>6 DEF TestInv

\* A trigger comes or goes: a job that loses the one it is, or is about to be, scheduled by is
\* remembered as untimed.
LEMMA TriggersKeep ==
    ASSUME JobDefsInv, NEW j \in Jobs, CreateTrigger(j) \/ DropTrigger(j)
    PROVE  JobDefsInv'
  <1>1. /\ UNCHANGED <<job, sources, req, run, output, torn, declared, shifts>>
        /\ firing' \subseteq Jobs /\ untimed' \subseteq Jobs
        /\ \A k \in firing \cup untimed : k \notin firing' \cup untimed' =>
              k = j /\ job[j].trigger # "scheduled" /\ Timing(j) = {}
        /\ job[j] # None \/ firing' \subseteq firing
        /\ firing' \subseteq firing \cup {j}
    BY DEF JobDefsInv, TypeOK, CreateTrigger, DropTrigger
  <1>2. writes' \in 0..MaxWrites
    BY WritesAssumption DEF JobDefsInv, TypeOK, CreateTrigger, DropTrigger, Write
  <1>3. TypeOK'
    BY <1>1, <1>2 DEF JobDefsInv, TypeOK
  <1>4. RequestInv'
    BY <1>1 DEF JobDefsInv, RequestInv, Timing
  <1>5. StoredDefinitionsAreValid'
    BY <1>1 DEF JobDefsInv, StoredDefinitionsAreValid
  <1>6. SourceInv'
    BY <1>1 DEF JobDefsInv, SourceInv, Settling
  <1>7. TestInv'
    BY <1>1 DEF JobDefsInv, TestInv, Allows
  <1>8. OutputInv'
    BY <1>1 DEF JobDefsInv, OutputInv
  <1> QED BY <1>3, <1>4, <1>5, <1>6, <1>7, <1>8 DEF JobDefsInv

-----------------------------------------------------------------------------
(* Executions.                                                              *)

\* A step of a run concerns that run alone, and no definition.
LEMMA ProcessFrame ==
    ASSUME TypeOK, NEW r \in Runs, Process(r)
    PROVE  /\ UNCHANGED definitions /\ shifts' = shifts
           /\ \A s \in Runs : s # r => run'[s] = run[s] /\ output'[s] = output[s] /\ declared'[s] = declared[s]
  BY DEF TypeOK, Process, Execute, CountSources, ResolveSources, CheckSources, ReadRecords, ScanEntities,
         CreateEntity, AttachProvenance, CreateReviewTask, InsertOutput, MergeMetrics, Close, Fails, Stops,
         Turn, Failed

\* A step of a run by what it does to the run: it begins, counts, passes a test, reads, fails, stops
\* or ends, or goes to the next stage of its output.
LEMMA ProcessTypes ==
    ASSUME TypeOK, TestInv, NEW r \in Runs, Process(r)
    PROVE  TypeOK'
  <1>0. /\ run \in [Runs -> Executions] /\ output \in [Runs -> Outputs] /\ declared \in [Runs -> BOOLEAN]
        /\ run[r] \in Executions /\ output[r] \in Outputs
        /\ job \in [Jobs -> Definitions \cup {None}]
    BY DEF TypeOK
  <1>1. \A stage \in {"idle", "read", "ended"} \cup Checking \cup Writing :
           [run[r] EXCEPT !.at = stage] \in Executions
    BY <1>0 DEF Executions
  <1>2. [run[r] EXCEPT !.at = "ended", !.status = "failed"] \in Executions
    BY <1>0 DEF Executions
  <1>3. Failed(r) => run' \in [Runs -> Executions]
    BY <1>0, <1>2 DEF Failed
  <1>4. \A stage \in {"idle", "read", "ended"} \cup Checking \cup Writing :
           Turn(r, stage) => run' \in [Runs -> Executions]
    BY <1>0, <1>1 DEF Turn
  <1>5. \A mode : Lifecycle(mode) \in {"draft", "pending_review", "published"}
                    /\ Publication(mode) \in Modes \cup {"pending_review", "published"}
    BY DEF Lifecycle, Publication, Modes
  <1>6. /\ run' \in [Runs -> Executions] /\ output' \in [Runs -> Outputs] /\ declared' \in [Runs -> BOOLEAN]
    <2>1. CASE \E j \in Jobs : Execute(r, j)
      <3>1. PICK j \in Jobs : Execute(r, j)
        BY <2>1
      <3>2. job[j] \in Definitions
        BY <1>0, <3>1 DEF Execute
      <3>3. PICK stage \in {"read", "resolve"} : stage = IF job[j].feed = None THEN "read" ELSE "resolve"
        OBVIOUS
      <3>4. [NotExecuted EXCEPT !.of = j, !.job = job[j], !.status = "running", !.at = stage] \in Executions
        BY <3>2 DEF NotExecuted, Executions, Checking
      <3>5. run' = [run EXCEPT ![r] = [NotExecuted EXCEPT !.of = j, !.job = job[j], !.status = "running", !.at = stage]]
        BY <3>1, <3>3 DEF Execute
      <3>6. Allows(j, job[j].feed) \in BOOLEAN
        BY AllowsIsTest
      <3> QED BY <1>0, <3>1, <3>4, <3>5, <3>6 DEF Execute
    <2>2. CASE CountSources(r)
      <3>1. PICK b \in BOOLEAN : b = (sources[run[r].of] # {})
        BY Zenon
      <3>2. output' = output /\ declared' = declared
        BY <2>2 DEF CountSources
      <3>3. PICK stage \in Split : run' = [run EXCEPT ![r].at = stage, ![r].counted = b]
        BY <2>2, <3>1 DEF CountSources, Split
      <3>4. [run[r] EXCEPT !.at = stage, !.counted = b] \in Executions
        BY <1>0 DEF Executions, Checking
      <3>5. run' = [run EXCEPT ![r] = [run[r] EXCEPT !.at = stage, !.counted = b]]
        BY <1>0, <3>3
      <3> QED BY <1>0, <3>2, <3>4, <3>5
    <2>3. CASE ResolveSources(r)
      BY <1>0, <1>3, <1>4, <2>3 DEF ResolveSources, Checking
    <2>4. CASE CheckSources(r)
      BY <1>0, <1>3, <1>4, <2>4 DEF CheckSources
    <2>5. CASE ReadRecords(r)
      <3>1. run[r].job \in Definitions
        BY <2>5 DEF ReadRecords, Doing, TestInv
      <3>2. run[r].job.feed \in Feeds \cup {None}
        BY <3>1 DEF Definitions
      <3>3. [run[r] EXCEPT !.at = "entity", !.read = run[r].job.feed] \in Executions
        BY <1>0, <3>2 DEF Executions, Writing
      <3>4. run' = [run EXCEPT ![r] = [run[r] EXCEPT !.at = "entity", !.read = run[r].job.feed]]
        BY <1>0, <2>5 DEF ReadRecords
      <3> QED BY <1>0, <2>5, <3>3, <3>4 DEF ReadRecords
    <2>6. CASE ScanEntities(r)
      BY <1>0, <1>4, <2>6 DEF ScanEntities, Writing
    <2>7. CASE CreateEntity(r)
      <3>1. [output[r] EXCEPT !.entity = Lifecycle(run[r].job.mode)] \in Outputs
        BY <1>0, <1>5 DEF Outputs
      <3> QED BY <1>0, <1>4, <2>7, <3>1 DEF CreateEntity, Writing
    <2>8. CASE AttachProvenance(r)
      <3>1. [output[r] EXCEPT !.provenance = TRUE] \in Outputs
        BY <1>0 DEF Outputs
      <3> QED BY <1>0, <1>4, <2>8, <3>1 DEF AttachProvenance, Writing
    <2>9. CASE CreateReviewTask(r)
      <3>1. [output[r] EXCEPT !.task = TRUE] \in Outputs
        BY <1>0 DEF Outputs
      <3> QED BY <1>0, <1>4, <2>9, <3>1 DEF CreateReviewTask, Writing
    <2>10. CASE InsertOutput(r)
      <3>1. [output[r] EXCEPT !.row = Publication(run[r].job.mode)] \in Outputs
        BY <1>0, <1>5 DEF Outputs
      <3> QED BY <1>0, <1>4, <2>10, <3>1 DEF InsertOutput, Writing
    <2>11. CASE MergeMetrics(r)
      BY <1>0, <1>4, <2>11 DEF MergeMetrics, Writing
    <2>12. CASE Close(r)
      <3>1. [run[r] EXCEPT !.at = "ended", !.status = "completed"] \in Executions
        BY <1>0 DEF Executions
      <3> QED BY <1>0, <2>12, <3>1 DEF Close
    <2>13. CASE Fails(r)
      BY <1>0, <1>3, <2>13 DEF Fails
    <2>14. CASE Stops(r)
      BY <1>0, <1>4, <2>14 DEF Stops
    <2> QED BY <2>1, <2>2, <2>3, <2>4, <2>5, <2>6, <2>7, <2>8, <2>9, <2>10, <2>11, <2>12, <2>13, <2>14 DEF Process
  <1> QED BY <1>6, ProcessFrame DEF TypeOK, definitions

\* A test that passes shows that the job declared the feed, or that its row was written between
\* the two statements.
LEMMA PassedTest ==
    ASSUME TypeOK, TestInv, NEW r \in Runs, run[r].at \in Split, Permitted(r), run[r].at \notin shifts[r]
    PROVE  declared[r]
  <1>0. /\ run[r].of \in Jobs /\ job[run[r].of] # None /\ run[r].job \in Definitions /\ run[r].job # None
    BY NoneAssumption DEF TestInv, Split
  <1>1. CASE run[r].counted
    <2>1. run[r].job.feed \in sources[run[r].of]
      BY <1>1 DEF Permitted
    <2>2. Allows(run[r].of, run[r].job.feed)
      BY <2>1 DEF Allows
    <2> QED BY <1>0, <2>2 DEF TestInv
  <1>2. CASE ~run[r].counted
    <2>1. job[run[r].of].feed = run[r].job.feed
      BY <1>2 DEF Permitted
    <2> QED BY <1>2, <2>1 DEF TestInv
  <1> QED BY <1>1, <1>2

\* A run reads only after both tests, and each has shown that it may, or was split.
LEMMA ProcessKeepsTests ==
    ASSUME TypeOK, TestInv, NEW r \in Runs, Process(r)
    PROVE  TestInv'
  <1>0. /\ run \in [Runs -> Executions] /\ run[r] \in Executions /\ declared \in [Runs -> BOOLEAN]
        /\ job \in [Jobs -> Definitions \cup {None}] /\ None \notin Definitions /\ None \notin Jobs
        /\ shifts[r] \subseteq Split
    BY NoneAssumption DEF TypeOK
  <1>1. /\ job' = job /\ sources' = sources /\ shifts' = shifts
        /\ \A s \in Runs : s # r => run'[s] = run[s] /\ declared'[s] = declared[s]
    BY ProcessFrame DEF definitions
  <1>2. /\ run'[r].at = "idle" <=> run'[r].of = None
        /\ run'[r].at # "idle" => run'[r].of \in Jobs /\ job[run'[r].of] # None /\ run'[r].job \in Definitions
        /\ run'[r].job # None => run'[r].of # None
        /\ run'[r].job # None /\ Allows(run'[r].of, run'[r].job.feed) => declared'[r]
        /\ run'[r].at \in Split /\ run'[r].at \notin shifts[r] /\ ~run'[r].counted =>
             declared'[r] \/ job[run'[r].of].feed # run'[r].job.feed
        /\ run'[r].at \in {"check", "check row"} => declared'[r] \/ "resolve row" \in shifts[r]
        /\ run'[r].at = "read" /\ run'[r].job.feed # None => declared'[r] \/ shifts[r] = Split
        /\ run'[r].read # None => declared'[r] \/ shifts[r] = Split
    <2>1. CASE \E j \in Jobs : Execute(r, j)
      <3>1. PICK j \in Jobs : Execute(r, j)
        BY <2>1
      <3>2. job[j] \in Definitions /\ job[j] # None
        BY <1>0, <3>1 DEF Execute
      <3>3. PICK stage \in {"read", "resolve"} : stage = IF job[j].feed = None THEN "read" ELSE "resolve"
        OBVIOUS
      <3>4. run'[r] = [NotExecuted EXCEPT !.of = j, !.job = job[j], !.status = "running", !.at = stage]
        BY <1>0, <3>1, <3>3 DEF Execute
      <3>5. /\ run'[r].of = j /\ run'[r].job = job[j] /\ run'[r].at = stage /\ run'[r].read = None
        BY <3>4 DEF NotExecuted
      <3>6. declared'[r] = Allows(j, job[j].feed)
        BY <1>0, <3>1, Zenon DEF Execute
      <3>7. stage = "read" => job[j].feed = None
        BY <3>3
      <3> QED BY <1>0, <3>2, <3>3, <3>5, <3>6, <3>7 DEF Split
    <2>2. CASE CountSources(r)
      <3>1. PICK b \in BOOLEAN : b = (sources[run[r].of] # {})
        BY Zenon
      <3>2. declared' = declared
        BY <2>2 DEF CountSources
      <3>3. PICK stage : /\ run' = [run EXCEPT ![r].at = stage, ![r].counted = b]
                         /\ \/ run[r].at = "resolve" /\ stage = "resolve row"
                            \/ run[r].at = "check" /\ stage = "check row"
        BY <2>2, <3>1 DEF CountSources, Doing
      <3>4. /\ run'[r].of = run[r].of /\ run'[r].job = run[r].job /\ run'[r].read = run[r].read /\ run'[r].counted = b
            /\ \/ run[r].at = "resolve" /\ run'[r].at = "resolve row"
               \/ run[r].at = "check" /\ run'[r].at = "check row"
        BY <1>0, <3>3 DEF Executions
      <3>5. run[r].of \in Jobs /\ job[run[r].of] # None /\ run[r].job \in Definitions /\ run[r].job # None
        BY <1>0, <3>4 DEF TestInv
      <3>6. ~b /\ job[run[r].of].feed = run[r].job.feed => declared[r]
        <4> SUFFICES ASSUME ~b, job[run[r].of].feed = run[r].job.feed PROVE declared[r]
          OBVIOUS
        <4>1. sources[run[r].of] = {}
          BY <3>1
        <4>2. Allows(run[r].of, run[r].job.feed)
          BY <3>5, <4>1 DEF Allows
        <4> QED BY <3>5, <4>2 DEF TestInv
      <3>7. run[r].of # None
        BY <1>0, <3>5
      <3> QED BY <3>2, <3>4, <3>5, <3>6, <3>7 DEF TestInv
    <2>3. CASE ResolveSources(r)
      <3>1. /\ run[r].at = "resolve row" /\ declared' = declared
            /\ Turn(r, "check") \/ Failed(r)
            /\ Permitted(r) \/ Failed(r)
        BY <2>3 DEF ResolveSources, Doing
      <3>2. /\ run'[r].of = run[r].of /\ run'[r].job = run[r].job /\ run'[r].read = run[r].read
            /\ run'[r].at = "ended" \/ (run'[r].at = "check" /\ Permitted(r))
        <4>1. CASE Failed(r)
          BY <1>0, <4>1 DEF Failed, Executions
        <4>2. CASE Turn(r, "check") /\ Permitted(r)
          BY <1>0, <4>2 DEF Turn, Executions
        <4> QED BY <3>1, <4>1, <4>2
      <3>3. Permitted(r) => declared[r] \/ "resolve row" \in shifts[r]
        BY <3>1, PassedTest DEF Split
      <3> QED BY <3>1, <3>2, <3>3 DEF TestInv, Split
    <2>4. CASE CheckSources(r)
      <3>1. /\ run[r].at = "check row" /\ declared' = declared
            /\ Turn(r, "read") \/ Failed(r)
            /\ Permitted(r) \/ Failed(r)
        BY <2>4 DEF CheckSources, Doing
      <3>2. /\ run'[r].of = run[r].of /\ run'[r].job = run[r].job /\ run'[r].read = run[r].read
            /\ run'[r].at = "ended" \/ (run'[r].at = "read" /\ Permitted(r))
        <4>1. CASE Failed(r)
          BY <1>0, <4>1 DEF Failed, Executions
        <4>2. CASE Turn(r, "read") /\ Permitted(r)
          BY <1>0, <4>2 DEF Turn, Executions
        <4> QED BY <3>1, <4>1, <4>2
      <3>3. Permitted(r) => declared[r] \/ "check row" \in shifts[r]
        BY <3>1, PassedTest DEF Split
      <3>4. declared[r] \/ "resolve row" \in shifts[r]
        BY <3>1 DEF TestInv
      <3>5. Permitted(r) => declared[r] \/ shifts[r] = Split
        BY <1>0, <3>3, <3>4 DEF Split
      <3> QED BY <3>1, <3>2, <3>5 DEF TestInv, Split
    <2>5. CASE ReadRecords(r)
      <3>1. /\ run[r].at = "read" /\ run[r].job.feed # None /\ declared' = declared
            /\ run' = [run EXCEPT ![r].at = "entity", ![r].read = run[r].job.feed]
        BY <2>5 DEF ReadRecords, Doing
      <3>2. run'[r].of = run[r].of /\ run'[r].job = run[r].job /\ run'[r].at = "entity"
        BY <1>0, <3>1 DEF Executions
      <3> QED BY <3>1, <3>2 DEF TestInv, Split
    <2>6. CASE \/ ScanEntities(r) \/ CreateEntity(r) \/ AttachProvenance(r) \/ CreateReviewTask(r)
               \/ InsertOutput(r) \/ MergeMetrics(r) \/ Close(r) \/ Fails(r) \/ Stops(r)
      <3>1. declared' = declared
        BY <2>6 DEF ScanEntities, CreateEntity, AttachProvenance, CreateReviewTask, InsertOutput,
                    MergeMetrics, Close, Fails, Stops
      <3>2. \E stage \in Writing \cup {"ended"}, status \in {"running", "failed", "completed", run[r].status} :
               run' = [run EXCEPT ![r].at = stage, ![r].status = status]
        <4>1. \A stage \in Writing \cup {"ended"} : Turn(r, stage) =>
                 run' = [run EXCEPT ![r].at = stage, ![r].status = run[r].status]
          BY <1>0 DEF Turn, Executions
        <4>2. ScanEntities(r) => Turn(r, "entity")
          BY DEF ScanEntities
        <4>3. CreateEntity(r) => Turn(r, "provenance")
          BY DEF CreateEntity
        <4>4. AttachProvenance(r) => Turn(r, "task") \/ Turn(r, "output")
          BY DEF AttachProvenance
        <4>5. CreateReviewTask(r) => Turn(r, "output")
          BY DEF CreateReviewTask
        <4>6. InsertOutput(r) => Turn(r, "metrics")
          BY DEF InsertOutput
        <4>7. MergeMetrics(r) => Turn(r, "close")
          BY DEF MergeMetrics
        <4>8. Stops(r) => Turn(r, "ended")
          BY DEF Stops
        <4>9. Close(r) \/ Fails(r) =>
                \E status \in {"failed", "completed"} : run' = [run EXCEPT ![r].at = "ended", ![r].status = status]
          BY DEF Close, Fails, Failed
        <4> QED BY <2>6, <4>1, <4>2, <4>3, <4>4, <4>5, <4>6, <4>7, <4>8, <4>9 DEF Writing
      <3>3. run'[r].of = run[r].of /\ run'[r].job = run[r].job /\ run'[r].read = run[r].read
              /\ run'[r].at \in Writing \cup {"ended"}
        BY <1>0, <3>2 DEF Executions
      <3>4. run[r].at # "idle"
        BY <2>6 DEF ScanEntities, CreateEntity, AttachProvenance, CreateReviewTask, InsertOutput,
                    MergeMetrics, Close, Fails, Stops, Doing, Checking, Split, Writing
      <3> QED BY <1>0, <3>1, <3>3, <3>4 DEF TestInv, Split, Writing
    <2> QED BY <2>1, <2>2, <2>3, <2>4, <2>5, <2>6 DEF Process
  <1>3. \A s \in Runs : Allows(run[s].of, run[s].job.feed)' <=> Allows(run'[s].of, run'[s].job.feed)
    BY <1>1 DEF Allows
  <1>4. \A s \in Runs : s # r => ((run[s].job # None /\ Allows(run[s].of, run[s].job.feed))' => declared'[s])
    BY <1>1, <1>3 DEF TestInv
  <1>5. (run[r].job # None /\ Allows(run[r].of, run[r].job.feed))' => declared'[r]
    BY <1>2, <1>3
  <1>6. \A s \in Runs : (run[s].job # None /\ Allows(run[s].of, run[s].job.feed))' => declared'[s]
    BY <1>4, <1>5
  <1>7. ASSUME NEW s \in Runs, s # r
        PROVE  /\ run'[s].at = "idle" <=> run'[s].of = None
               /\ run'[s].at # "idle" => run'[s].of \in Jobs /\ job[run'[s].of] # None /\ run'[s].job \in Definitions
               /\ run'[s].job # None => run'[s].of # None
               /\ run'[s].at \in Split /\ run'[s].at \notin shifts[s] /\ ~run'[s].counted =>
                    declared'[s] \/ job[run'[s].of].feed # run'[s].job.feed
               /\ run'[s].at \in {"check", "check row"} => declared'[s] \/ "resolve row" \in shifts[s]
               /\ run'[s].at = "read" /\ run'[s].job.feed # None => declared'[s] \/ shifts[s] = Split
               /\ run'[s].read # None => declared'[s] \/ shifts[s] = Split
    BY <1>1, <1>7 DEF TestInv
  <1>8. ASSUME NEW s \in Runs
        PROVE  /\ run'[s].at = "idle" <=> run'[s].of = None
               /\ run'[s].at # "idle" => run'[s].of \in Jobs /\ job'[run'[s].of] # None /\ run'[s].job \in Definitions
               /\ run'[s].job # None => run'[s].of # None
               /\ run'[s].at \in Split /\ run'[s].at \notin shifts'[s] /\ ~run'[s].counted =>
                    declared'[s] \/ job'[run'[s].of].feed # run'[s].job.feed
               /\ run'[s].at \in {"check", "check row"} => declared'[s] \/ "resolve row" \in shifts'[s]
               /\ run'[s].at = "read" /\ run'[s].job.feed # None => declared'[s] \/ shifts'[s] = Split
               /\ run'[s].read # None => declared'[s] \/ shifts'[s] = Split
    BY <1>1, <1>2, <1>7
  <1> QED BY <1>6, <1>8 DEF TestInv

\* What a stage writes it writes by the mode of the copy, and what was written stays.
LEMMA ProcessKeepsOutputs ==
    ASSUME TypeOK, TestInv, OutputInv, NEW r \in Runs, Process(r)
    PROVE  OutputInv'
  <1>0. /\ run \in [Runs -> Executions] /\ run[r] \in Executions
        /\ output \in [Runs -> Outputs] /\ output[r] \in Outputs
    BY DEF TypeOK
  <1>1. \A s \in Runs : s # r => run'[s] = run[s] /\ output'[s] = output[s]
    BY ProcessFrame
  <1> DEFINE Kept(w, o) ==
        /\ w.at = "idle" => w.status = "none"
        /\ w.at \notin {"idle", "ended"} => w.status = "running"
        /\ w.at = "ended" => w.status \in {"running", "failed", "completed"}
        /\ w.at \in Begun => o = NoOutput
        /\ w.at \in Writing \ {"entity"} => o.entity = Lifecycle(w.job.mode)
        /\ w.at = "provenance" => ~o.task
        /\ w.at = "task" => o.provenance /\ o.entity = "pending_review"
        /\ w.at \in {"output", "metrics", "close"} =>
             /\ o.provenance
             /\ o.task <=> o.entity = "pending_review"
        /\ w.at \in {"metrics", "close"} => o.row = Publication(w.job.mode)
        /\ w.status = "completed" =>
             /\ o.entity = Lifecycle(w.job.mode) /\ o.provenance
             /\ o.task <=> o.entity = "pending_review"
             /\ o.row = Publication(w.job.mode)
  <1>2. \A s \in Runs : Kept(run[s], output[s])
    BY DEF OutputInv
  <1>3. Kept(run'[r], output'[r])
    <2>0. Kept(run[r], output[r])
      BY <1>2
    <2> USE DEF Begun, Writing, Checking, Split
    <2>1. CASE \E j \in Jobs : Execute(r, j)
      <3>1. PICK j \in Jobs : Execute(r, j)
        BY <2>1
      <3>2. PICK stage \in {"read", "resolve"} : stage = IF job[j].feed = None THEN "read" ELSE "resolve"
        OBVIOUS
      <3>3. run'[r] = [NotExecuted EXCEPT !.of = j, !.job = job[j], !.status = "running", !.at = stage]
        BY <1>0, <3>1, <3>2 DEF Execute
      <3>4. run'[r].at = stage /\ run'[r].status = "running"
        BY <3>3 DEF NotExecuted
      <3>5. output' = output /\ run[r].at = "idle"
        BY <3>1 DEF Execute, Doing
      <3> QED BY <2>0, <3>2, <3>4, <3>5
    <2>2. CASE CountSources(r)
      <3>1. PICK b \in BOOLEAN, stage \in Split : run' = [run EXCEPT ![r].at = stage, ![r].counted = b]
        <4>1. PICK b \in BOOLEAN : b = (sources[run[r].of] # {})
          BY Zenon
        <4>2. \E stage \in Split : run' = [run EXCEPT ![r].at = stage, ![r].counted = b]
          BY <2>2, <4>1 DEF CountSources
        <4> QED BY <4>2
      <3>2. run'[r].at = stage /\ run'[r].status = run[r].status
        BY <1>0, <3>1 DEF Executions
      <3>3. output' = output /\ run[r].at \in {"resolve", "check"}
        BY <2>2 DEF CountSources, Doing
      <3> QED BY <2>0, <3>1, <3>2, <3>3
    <2>3. \A stage : Turn(r, stage) =>
             run'[r].at = stage /\ run'[r].status = run[r].status /\ run'[r].job = run[r].job
      BY <1>0 DEF Turn, Executions
    <2>4. ASSUME Failed(r), run[r].at \notin {"idle", "ended"}, output' = output PROVE Kept(run'[r], output'[r])
      <3>1. run'[r].at = "ended" /\ run'[r].status = "failed"
        BY <1>0, <2>4 DEF Failed, Executions
      <3> QED BY <2>4, <3>1
    <2>5. CASE ResolveSources(r) \/ CheckSources(r)
      <3>1. /\ run[r].at \in Split /\ output' = output
            /\ Failed(r) \/ \E stage \in {"check", "read"} : Turn(r, stage)
        BY <2>5 DEF ResolveSources, CheckSources, Doing
      <3> QED BY <2>0, <2>3, <2>4, <3>1
    <2>6. CASE ReadRecords(r)
      <3>1. /\ run[r].at = "read" /\ output' = output
            /\ run' = [run EXCEPT ![r].at = "entity", ![r].read = run[r].job.feed]
        BY <2>6 DEF ReadRecords, Doing
      <3>2. run'[r].at = "entity" /\ run'[r].status = run[r].status
        BY <1>0, <3>1 DEF Executions
      <3> QED BY <2>0, <3>1, <3>2
    <2>7. CASE ScanEntities(r)
      <3>1. run[r].at = "read" /\ output' = output /\ Turn(r, "entity")
        BY <2>7 DEF ScanEntities, Doing
      <3>2. run'[r].at = "entity" /\ run'[r].status = run[r].status /\ run'[r].job = run[r].job
        BY <2>3, <3>1
      <3> QED BY <2>0, <3>1, <3>2
    <2>8. CASE CreateEntity(r)
      <3>1. output'[r].entity = Lifecycle(run[r].job.mode) /\ output'[r].task = output[r].task
        BY <1>0, <2>8 DEF CreateEntity, Outputs
      <3>2. run[r].at = "entity" /\ Turn(r, "provenance")
        BY <2>8 DEF CreateEntity, Doing
      <3>3. run'[r].at = "provenance" /\ run'[r].status = run[r].status /\ run'[r].job = run[r].job
        BY <2>3, <3>2
      <3> QED BY <2>0, <3>1, <3>2, <3>3 DEF NoOutput
    <2>9. CASE AttachProvenance(r)
      <3>1. output'[r].entity = output[r].entity /\ output'[r].task = output[r].task /\ output'[r].provenance
        BY <1>0, <2>9 DEF AttachProvenance, Outputs
      <3>2. /\ run[r].at = "provenance"
            /\ \/ Turn(r, "task") /\ Lifecycle(run[r].job.mode) = "pending_review"
               \/ Turn(r, "output") /\ Lifecycle(run[r].job.mode) # "pending_review"
        BY <2>9 DEF AttachProvenance, Doing
      <3>3. /\ run'[r].at \in {"task", "output"} /\ run'[r].status = run[r].status /\ run'[r].job = run[r].job
            /\ run'[r].at = "task" <=> Lifecycle(run[r].job.mode) = "pending_review"
        BY <2>3, <3>2
      <3> QED BY <2>0, <3>1, <3>2, <3>3
    <2>10. CASE CreateReviewTask(r)
      <3>1. output'[r].entity = output[r].entity /\ output'[r].task /\ output'[r].provenance = output[r].provenance
        BY <1>0, <2>10 DEF CreateReviewTask, Outputs
      <3>2. run[r].at = "task" /\ Turn(r, "output")
        BY <2>10 DEF CreateReviewTask, Doing
      <3>3. run'[r].at = "output" /\ run'[r].status = run[r].status /\ run'[r].job = run[r].job
        BY <2>3, <3>2
      <3> QED BY <2>0, <3>1, <3>2, <3>3
    <2>11. CASE InsertOutput(r)
      <3>1. /\ output'[r].entity = output[r].entity /\ output'[r].task = output[r].task
            /\ output'[r].provenance = output[r].provenance /\ output'[r].row = Publication(run[r].job.mode)
        BY <1>0, <2>11 DEF InsertOutput, Outputs
      <3>2. run[r].at = "output" /\ Turn(r, "metrics")
        BY <2>11 DEF InsertOutput, Doing
      <3>3. run'[r].at = "metrics" /\ run'[r].status = run[r].status /\ run'[r].job = run[r].job
        BY <2>3, <3>2
      <3> QED BY <2>0, <3>1, <3>2, <3>3
    <2>12. CASE MergeMetrics(r)
      <3>1. run[r].at = "metrics" /\ output' = output /\ Turn(r, "close")
        BY <2>12 DEF MergeMetrics, Doing
      <3>2. run'[r].at = "close" /\ run'[r].status = run[r].status /\ run'[r].job = run[r].job
        BY <2>3, <3>1
      <3> QED BY <2>0, <3>1, <3>2
    <2>13. CASE Close(r)
      <3>1. run[r].at = "close" /\ output' = output
        BY <2>13 DEF Close, Doing
      <3>2. run'[r].at = "ended" /\ run'[r].status = "completed" /\ run'[r].job = run[r].job
        BY <1>0, <2>13 DEF Close, Executions
      <3> QED BY <2>0, <3>1, <3>2
    <2>14. CASE Fails(r)
      BY <2>4, <2>14 DEF Fails
    <2>15. CASE Stops(r)
      <3>1. run[r].at \notin {"idle", "ended"} /\ output' = output /\ Turn(r, "ended")
        BY <2>15 DEF Stops
      <3>2. run'[r].at = "ended" /\ run'[r].status = run[r].status /\ run'[r].job = run[r].job
        BY <2>3, <3>1
      <3> QED BY <2>0, <3>1, <3>2
    <2> QED BY <2>1, <2>2, <2>5, <2>6, <2>7, <2>8, <2>9, <2>10, <2>11, <2>12, <2>13, <2>14, <2>15 DEF Process
  <1>4. \A s \in Runs : Kept(run'[s], output'[s])
    BY <1>1, <1>2, <1>3
  <1> QED BY <1>4 DEF OutputInv

-----------------------------------------------------------------------------
(* The invariant and what follows from it.                                  *)

LEMMA JobDefsInit == Init => JobDefsInv
<1> SUFFICES ASSUME Init PROVE JobDefsInv
  OBVIOUS
<1>1. TypeOK
  <2>1. NotRequested \in Requested /\ NotExecuted \in Executions /\ NoOutput \in Outputs
    BY DEF NotRequested, Requested, NotExecuted, Executions, NoOutput, Outputs
  <2> QED BY <2>1, WritesAssumption DEF Init, TypeOK
<1>2. RequestInv /\ StoredDefinitionsAreValid
  BY DEF Init, RequestInv, StoredDefinitionsAreValid, NotRequested
<1>3. SourceInv
  BY DEF Init, SourceInv, Settling, NotRequested
<1>4. TestInv
  BY DEF Init, TestInv, NotExecuted, Split
<1>5. OutputInv
  BY DEF Init, OutputInv, NotExecuted, Writing
<1> QED BY <1>1, <1>2, <1>3, <1>4, <1>5 DEF JobDefsInv

LEMMA JobDefsStep == JobDefsInv /\ [Next]_vars => JobDefsInv'
<1> SUFFICES ASSUME JobDefsInv, [Next]_vars PROVE JobDefsInv'
  OBVIOUS
<1>0. TypeOK /\ RequestInv /\ StoredDefinitionsAreValid /\ SourceInv /\ TestInv /\ OutputInv
  BY DEF JobDefsInv
<1>1. ASSUME NEW q \in Requests, Define(q) PROVE JobDefsInv'
  <2>1. OutputInv'
    BY <1>0, <1>1, DefineFrame DEF OutputInv
  <2> QED BY <1>0, <1>1, <2>1, DefineTypes, DefineKeeps, SourcesKept, DefineKeepsTests DEF JobDefsInv
<1>2. ASSUME NEW j \in Jobs, CreateTrigger(j) \/ DropTrigger(j) PROVE JobDefsInv'
  BY <1>2, TriggersKeep
<1>3. ASSUME NEW r \in Runs, Process(r) PROVE JobDefsInv'
  <2>1. UNCHANGED definitions
    BY <1>0, <1>3, ProcessFrame
  <2>2. RequestInv' /\ StoredDefinitionsAreValid'
    BY <1>0, <2>1 DEF definitions, RequestInv, StoredDefinitionsAreValid
  <2>3. SourceInv'
    BY <1>0, <2>1 DEF definitions, SourceInv, Settling
  <2> QED BY <1>0, <1>3, <2>2, <2>3, ProcessTypes, ProcessKeepsTests, ProcessKeepsOutputs DEF JobDefsInv
<1>4. CASE UNCHANGED vars
  <2>1. TypeOK' /\ RequestInv' /\ StoredDefinitionsAreValid'
    BY <1>0, <1>4 DEF vars, TypeOK, RequestInv, StoredDefinitionsAreValid
  <2>2. SourceInv' /\ OutputInv'
    BY <1>0, <1>4 DEF vars, SourceInv, Settling, OutputInv
  <2>3. TestInv'
    BY <1>0, <1>4 DEF vars, TestInv, Allows
  <2> QED BY <2>1, <2>2, <2>3 DEF JobDefsInv
<1> QED BY <1>1, <1>2, <1>3, <1>4 DEF Next

LEMMA JobDefsInvariant == Spec => []JobDefsInv
<1> QED BY JobDefsInit, JobDefsStep, PTL DEF Spec

\* Types of the definitions, the requests, the runs and their outputs.
THEOREM JobDefsTypes == Spec => []TypeOK
<1>1. JobDefsInv => TypeOK
  BY DEF JobDefsInv
<1> QED BY <1>1, JobDefsInvariant, PTL

\* However requests overlap or break off, every stored definition passes the validation, and a
\* scheduled one has a trigger unless it was created without, or lost it while it was scheduled or
\* an update to scheduled was past its look, and got none since (JobService.Create and Update, the
\* handlers of triggers).
THEOREM DefinitionsStayValid == Spec => []StoredDefinitionsAreValid
<1>1. JobDefsInv => StoredDefinitionsAreValid
  BY DEF JobDefsInv
<1> QED BY <1>1, JobDefsInvariant, PTL

\* The rows of knowledge_job_sources do not contradict the scope between requests, unless requests
\* overlapped or one broke off (resyncJobSources).
THEOREM SourcesKeepToScope == Spec => []SourcesFollowScope
<1>1. JobDefsInv => SourcesFollowScope
  BY DEF JobDefsInv, SourceInv, SourcesFollowScope
<1> QED BY <1>1, JobDefsInvariant, PTL

\* No run reads a feed that its job never declared while it ran, unless the definition was written
\* inside both of its tests (JobAllowsSourceFeed, asked twice).
THEOREM ReadsAreDeclared == Spec => []ReadsWereDeclared
<1>1. JobDefsInv => ReadsWereDeclared
  BY DEF JobDefsInv, TestInv, ReadsWereDeclared
<1> QED BY <1>1, JobDefsInvariant, PTL

\* A completed run left everything its mode calls for, and an entity that awaits review without a
\* task has a run that says so (the processors and ProcessQueuedRun).
THEOREM OutputsAreExplained == Spec => []OutputsAreAccounted
<1>1. ASSUME JobDefsInv, NEW r \in Runs
      PROVE  /\ run[r].status = "completed" =>
                  /\ output[r].entity # "none" /\ output[r].provenance
                  /\ output[r].task <=> output[r].entity = "pending_review"
                  /\ output[r].row = IF output[r].entity = "draft" THEN "draft_only" ELSE output[r].entity
             /\ output[r].entity = "pending_review" /\ ~output[r].task => run[r].status \in {"running", "failed"}
  <2>1. OutputInv /\ TestInv /\ run[r] \in Executions
    BY <1>1 DEF JobDefsInv, TypeOK
  <2>2. \A mode : /\ Lifecycle(mode) \in {"draft", "pending_review", "published"}
                  /\ Publication(mode) = IF Lifecycle(mode) = "draft" THEN "draft_only" ELSE Lifecycle(mode)
    BY DEF Lifecycle, Publication
  <2>3. run[r].at = "idle" => output[r].entity = "none"
    BY <2>1 DEF OutputInv, Begun, NoOutput
  <2>4. run[r].at # "idle" => run[r].status \in {"running", "failed", "completed"}
    BY <2>1 DEF OutputInv
  <2>5. run[r].status = "completed" => output[r].task <=> output[r].entity = "pending_review"
    BY <2>1 DEF OutputInv
  <2>6. run[r].status = "completed" =>
          /\ output[r].entity = Lifecycle(run[r].job.mode) /\ output[r].provenance
          /\ output[r].row = Publication(run[r].job.mode)
    BY <2>1 DEF OutputInv
  <2> QED BY <2>2, <2>3, <2>4, <2>5, <2>6
<1>2. JobDefsInv => OutputsAreAccounted
  BY <1>1 DEF OutputsAreAccounted
<1> QED BY <1>2, JobDefsInvariant, PTL
=============================================================================
