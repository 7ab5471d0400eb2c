# Knowledge Layer in TLA+

Knowledge Layer is a self-hosted organizational memory: a Go API
(`src/apps/api`), two asynq worker processes, Postgres for everything durable,
Redis for the task queue, a Next.js front end.  This directory holds TLA+ models
of the parts where several goroutines, processes and statements meet, TLC
configurations that check them on small instances, and TLAPS proofs for every
instance.

`PROJECT.json` is the machine-readable side: components, runs, the source lines
behind every definition, the mutants each property was seen to catch, hazards and
theorems.

## 1. Inventory

Paths are relative to `src/apps/api`.

| component | state it keeps | operations | what is hard | what makes it correct |
|---|---|---|---|---|
| knowledge job runs (`internal/knowledge_jobs/jobs.go`) | `job_runs.status`, `started_at` | `Run`, `ProcessQueuedRun`, `GetRun`, CRUD of jobs | insert, enqueue and claim are separate steps; redelivery; lost closing updates | executed at most once; a result is true and stable; no open run is forgotten |
| scheduled activations (`scheduled_tick.go`) | row lock of the job, `started_at` window | `ProcessScheduledTick` | ticks overlap; the window is compared with a stamp that moves | one run per job and minute; no activation skipped |
| orchestrator and processors (`orchestrator.go`, `digest.go`, ...) | output entities, run metrics | `executeRun` | outputs are written before the run is closed | a failed run leaves outputs it did not report |
| task queue (`internal/platform/queue`, asynq) | tasks, retries | `Enqueue...` | replies lost, at-least-once delivery | every task leaves the queue |
| jobworker (`cmd/jobworker`) | none | handlers of `job_run`, `scheduled_tick` | kill, shutdown, slow workers | see job runs |
| entity repository (`internal/knowledge_core/entity_repo.go`) | `entities`, `entity_versions`, `entity_search_projection` | `Create`, `Patch`, `Publish`, `PromoteDerivedToCanonicalPlatform` | rows are read outside the transaction that writes from them | row, history and projection agree; publication only through `Publish` |
| reviews (`internal/review`, review routes) | `review_tasks` | claim, approve, reject, list | approval and publication are separate; updates unconditional | an approved task's entity is published |
| chunks and embeddings (`internal/chunks`, `internal/embeddings`) | `chunks`, `embeddings`, `chunks_rebuilt_at` | rebuild of an entity or record, embedding task | rebuilds overlap; hook, backfill and CLI race; old text | one set of chunks per source, of its present text, each with an embedding |
| connectorworker (`cmd/connectorworker`) | none | source sync, artifact, embedding and GraphRAG tasks, backfill loop | see chunks, ingestion | see chunks, ingestion |
| polled ingestion (`internal/ingestion_connectors/sync_pipeline.go`, `service.go`) | feed status, `sync_status`, cursor in the feed's config, `ingestion_runs`, `raw_artifacts`, `normalized_records` | activate, pause, resume, archive, patch, sync | no statement of a sync is in a transaction with another; syncs of one feed overlap; cursors are written from a copy | a lost item is never silent; what the cursor passed is stored or told of |
| pushed ingestion (`manual.go`, `webhook_ingest.go`, `artifact_worker.go`) | `raw_artifacts`, `normalized_records`, `ingestion_runs` | upload, delete, renormalize, webhook delivery | artifact and record are written apart; two requests for one artifact | every artifact has one record, or somebody was told |
| vendor adapters (`*_sync.go`, `adapters/*`) | none | fetch, map, insert; webhooks | deduplication by hash | a record is inserted once |
| job definitions (`jobs_builder.go`, `sources.go`, `definition_validator.go`) | `knowledge_jobs`, `knowledge_job_sources`, `job_triggers` | create, update, triggers; clone, which the database refuses | row, sources and triggers are written and tested in separate statements | a run reads what its definition declared |
| access evaluation (`internal/identity_access`) | grants, role assignments, ACL, exceptions | `Evaluate` | ten questions in ten statements while the tables change | the answer is that of a state; a ground that stands denies |
| roles, users, invitations (`identity_admin.go`, `auth_routes.go`) | `users`, `domain_grants`, `user_role_bindings`, `user_invitations` | grant, patch, assign, accept, import | an accept is several statements; PATCH writes what it read | what was accepted is there; the last word stands |
| governance queues (`internal/governance`) | approval, exception and feedback rows | decide, revoke, list | see access evaluation | decisions are final |
| response cache (`internal/cache`) | in-process entries, a mirror of their keys | read-through, invalidate | fill races invalidation; two maps; key prefixes | no stale entry outlives an invalidation |
| OAuth proxy (`internal/oauth_proxy`) | clients, codes, signed state | authorize, callback, token | codes used once, expiry | one token per code |
| privacy gateway (`internal/ai/privacy`) | rules, vault | sanitize, call, put values back | spans overlap, types share tags, strings are replaced in strings | what was found is not sent; an echo is faithful |
| sessions, providers, storage | little | | | |
| search index (`internal/search`, `internal/opensearch`) | documents | `ReindexEntity`, query | unordered upserts, errors dropped | the index follows the row |
| retrieval and answers (`internal/retrieval`, `internal/qa`, `internal/retrieval_intelligence`) | append-only traces | ask an entity, ask globally, ask over context | rows and grants change between retrieval and answer | only evidence that was let in is sent and cited |
| surfacing, MCP, home, content pages | read models | queries | | permission filters |
| GraphRAG, second brain, meeting tasks | rows derived by a model | extract, deliver | retries | |
| builders (`internal/scenario_builder`, `internal/role_builder`) | scenario definitions and bindings, roles and their governance, `role_scenario_bindings` | create, patch, replace bindings, clone, delete | one table with two writers, keyed by a code that can be renamed; several transactions per request; validation of a stale copy | a key shows exactly the roles that see its scenario; overrides stay global |
| onboarding, presets (`internal/onboarding`, `internal/presetcatalog`) | setup sessions, selections, drafts, launch logs | edit, preview, launch | nothing is in a transaction; launches overlap | objects are made once, and the log says which |
| operations, schema, CLI, wiring, web | | | | |

How they interact.  HTTP routes call services in the API process.  Services share
Postgres rows and nothing else; a service asks for work by inserting a row and then
enqueuing an asynq task that names it.  Workers load the row by id.  Two callbacks cross
packages: the persisted hooks installed by `internal/app/deps.go`, which make
every write of an entity or normalized record rebuild its chunks.  A job
run's `started_at` is written by the tick, the API and the worker, and read by the
next tick.  A review writes its task and then calls the publication of the entity it is about.
`role_scenario_bindings` is written by both builders.

The hazards this leads to are listed, each at its line, in `PROJECT.json`, with the
properties that watch them.

## 2. Modules

| module | what it models | composes |
|---|---|---|
| `RunStatus` | abstract specification: what a client polling a run may see of its status | |
| `JobRuns` | one run from insertion to result: caller, row, asynq task, workers, faults | implements `RunStatus` |
| `ScheduledRuns` | overlapping ticks, row lock, window check, `started_at` | extends `RunStatus` |
| `EntityLifecycle` | one entity under concurrent PATCH, publish and promote | |
| `ReviewFlow` | review tasks of that entity, their decisions, the publication an approval calls for | extends and implements `EntityLifecycle` |
| `ChunkIndex` | rebuilds of the chunks of entities and records, the backfill, embedding tasks | |
| `FeedSync` | sync requests of one feed, for each of 23 vendor adapters | |
| `Intake` | uploads and webhook deliveries, from the request to the normalized record | |
| `Builders` | Scenario Builder and Role Builder over their common table | |
| `Grants` | one person's grant and roles in one domain: invitations, imports, administrators | |
| `Access` | evaluations of access while the tables they read are written | extends `Grants` |
| `JobDefs` | definitions of jobs, and what an execution reads and writes | |
| `Onboarding` | edits and launches of one setup session | |
| `ResponseCache` | cached answers over the search index and the grants | |
| `Placeholders` | the privacy gateway as functions: rules, spans, tokens, values put back | |
| `GovernedAsk` | a question from retrieval to the answer, through the gateway | extends `Placeholders` |
| `*Proofs` | theorems about the modules they extend: `JobRunsProofs`, `JobDefsProofs`, `IntakeProofs`, `AccessProofs` about one system each, `PollingProofs`, `SearchProofs`, `SetupProofs`, `GovernanceProofs` about two that belong together | |
| `MC*` | values of constants and symmetry sets for TLC | |

### JobRuns and RunStatus

`caller[r]` is the goroutine in `JobService.Run` or the tail of
`tryEnqueueScheduledRun`; `at[w]`, `on[w]` are a worker in `ProcessQueuedRun`.  One
action is one SQL statement or one call to Redis: `InsertRun`, `Enqueue`,
`EnqueueRefused`, `RejectRun`, `ExecuteInline`, `FinishInline` for the caller;
`Load`, `Claim`, `JobUnreadable`, `BeginExecution`, `EndExecution`, `FinishRun`
for the worker; `Deliver`, `Ack`, `Nack`, `LeaseExpires` for asynq, which is
external and modelled from the options `publisher.go` passes and from how the
handlers return errors.  Faults are actions of their own: a process is killed or shut
down at any step, a closing UPDATE is lost (its error is discarded in the code), a
claiming statement fails.  An error returned by a statement that took effect leaves
the same state as a stop right after it and is not modelled twice.

The claim of a queued run (`WHERE status='queued'`) carries the whole protocol, and
the properties ask whether it carries enough: `ExecutedAtMostOnce` under any
redelivery; `NoSilentLoss`, that an open run is always in
the hands of its caller, its task or a worker past the claim, or belongs to a fault
no code recovers from; `TaskLeavesQueue` and `RunSettles`.  That a completed run succeeded
(`CompletedMeansSucceeded`) and that a terminal status changes only for a run whose
enqueue failed ambiguously (`ResultIsStable`) are proved.  `RunStatus` says what
is left when all of that is hidden, and `ImplementsRunStatus` checks it with the
refinement mapping `disputed <- {r : Disputed(r)}`.

### ScheduledRuns

A tick fixes its minute (`window`), goes through the jobs whose trigger fires, takes the job's row
lock (`SELECT ... FOR UPDATE`), looks for a scheduled run with `started_at` in the
window, inserts and commits, then enqueues.  What happens to the run afterwards is a
step of `RunStatus`; only the claim matters, because it sets `started_at` again
(`ClaimRestamps`).  `begun` is SQL's `now()`, the time the transaction began.  Jobs fire
every minute: cron parsing belongs to the cron library.  Postgres and the
worker are assumed to share one clock.

### EntityLifecycle

A request reads the row outside a transaction, keeps `copy`, and later writes from it
in a transaction that begins with the row's lock and so is one step.  `versions` is
`entity_versions` in order, `projection` the search projection.  `EntityRepo.Create` is the
initial state only.  Title, summary and body are abstracted: PATCH treats them as the two
columns kept.  `archived_at` is never set by any code and is left out.

### ChunkIndex

`build[b]` is a call of `RebuildEntityChunks` or `RebuildNormalizedRecordChunks` with
the hook function around it.  `ReadText` is the SELECT outside the transaction;
`DeleteSnapshot` fixes the rows the DELETE sees (READ COMMITTED: those committed when
it starts); `DeleteLocks` waits for rebuilds that hold one of them and skips rows gone
meanwhile; `Commit` is the INSERTs and COMMIT with the ON DELETE CASCADE to
`embeddings`; then `Mark` (`chunks_rebuilt_at`) and one `Enqueue` per chunk.  `Abort`
and `CutShort` are errors and stops before and after the commit, at any step.
`EmbedStores` and `EmbedFails` are the embedding task; asynq's retries leave it
pending and are not counted, as nothing else depends on their number.  A chunk is the
pair of the rebuild that wrote it and its ordinal, which identifies its text.
`overlapped` is a history variable that only `QuietSourcesAreExact` reads.

### ReviewFlow

The module adds `task` (the status column) to `EntityLifecycle` and lets a request of that module
work for a reviewer: `approving[c]` is the task it has approved.  `Approve` is the unconditional UPDATE of
`Review.Approve`; `PublishApproved` is the call of `Entities.Publish` that the route makes afterwards, up to
its transaction; `Write` is any transaction of `EntityLifecycle`, a direct one or the approval's;
`PublicationFails` is the error that the route only logs, or a stop.  `Decide` is each of the
other routes, from any status.  `honoured` is a history variable for `ApprovalPublishes`.  That reviews add
nothing to what the entity may do is `LifecycleIsKept`, which is `EntityLifecycle!Spec` itself: the variables
have the same names and the mapping is the identity.

### FeedSync

The adapters (`*_sync.go`) repeat one procedure with variations.  The module has the procedure once
and the variations as a record of traits per adapter: whether it keeps a cursor, whether a listing
is cut at its old or new end, how failures to fetch end a listing, what its two hashes
cover, how replies and comments are fetched, whether their failures count.  `SyncInit` chooses the adapter,
so a run checks all of them; adapters that only page or batch through different API calls have equal
records.  One action is one SQL statement or one call of the vendor: `startIngestionRun`, `List`,
then per item `FetchFails`, `insertRawArtifactRow`, `InsertFails`, `InsertNormalized`, `SyncComments`,
`SyncReplies`; and at the end `finalizeIngestionRun`, `completeSourceFeedSync`, `SaveCursor`.  The vendor is external: items
are posted and edited at any time, and a listing returns what is there.  `Crash` stops the request
anywhere.  Slack asks for the replies of a message only if it was listed with some (`replied`, the `reply_count` of the
listing).  An empty list of replies, or a failed request for it, ends nothing: the sync goes on with the items left or to its
end (`Onward`).  The replies of a thread are one page.  Slack turns each page around, oldest first; the model goes through it
newest first, which no property tells apart, since each says what is left when a run has ended or where it tells of a
failure.  `Origin` is where an item is found: a reply in its thread, any other item in the listing itself.  `late` is a
history variable for `CursorCovers`: what was posted while a sync was in progress, or into a thread that the cursor had
passed.

A raw row whose record failed is a duplicate to every later run and never becomes a
record; `OrphansAreReported` says that a run with such
an orphan never ends as "completed".  `CursorCovers` says the same of what the cursor leaves behind, replies with the
parent of their thread, with the two losses the code does have: a listing cut at its old end, and what Slack shows in no
listing, because it was posted between a listing and its replies, or to a parent that is not listed again.

### Intake

A request is an upload (`IngestManual` for text, `IngestManualPage` for a URL, `IngestManualFile`), a deletion, a
renormalization or a delivery of Slack or Mattermost (`SlackWebhook`, `MattermostWebhook`), which may hold nothing.  The raw
row, the run's closing, the read back and the record are separate steps, as in the code, with `Fails`
between any two.  A file with a blob store gets a hash no other upload has (`shared = FALSE`), because its
fresh `storage_uri` is hashed.  `records[a]` counts the records of an artifact.
`ProcessQueuedRawArtifact` fails for every delivery: a normalizer looks for `MessageKey`, and `DeliveryKeys` has
no such key (section 4).
`broken` and `overlapped` are history variables that name the two excuses the properties allow:
a normalization that broke off or failed, and two at once.

### Builders

`mirror` is `role_scenario_bindings`: pairs of a role and a scenario *code*.  A request of Scenario Builder goes through
the code's transactions: read the code, remove the mirror of the old one, read and write the
row, read the code again, delete and insert the mirror.  A DELETE fixes the rows it sees
(`rows`, `taken`) and removes them at its commit, after others' locks.  A request of Role Builder validates
a copy, then copies the row again and writes every column of it.  `foul` and `loose` are history variables: the codes
and roles for which the code makes no promise, because requests met, broke off or checked another
scope than they stored.  `MirrorIsExact` and `OverrideIsConfined` are about all the others.  A preset only
fills in fields that do not count here, or has its role cloned (`CreateFromPreset`, `CloneRole`).

### Grants and Access

`Grants` has the rows of one e-mail address in one domain.  An accept (`req[q]`) looks up the invitation and the
user, creates the user, upserts the grant, assigns the role and marks the invitation, each a statement; a line of an
import does the same without the mark.  `patch[e]` is a PATCH that has read its row.  `Outdate` and `Orphan` are what
a write means to a PATCH in progress.  Expiry is an action.

`Access` lets an evaluation ask its questions one after the other (`AskDenials` to `AskRole`, named for what they
read) while administrators write.  Who may do what is left to constants (`Does`, `TypesOf`); what no code of the
repository writes is chosen at the start from `Settings`.  `held[c]` and `clear[c]` compare the evaluation with the
answer a single state would give, `Grounds`, which is stated from the documented order and not from the steps.
The evaluation denies by any deny exception that has not expired (`DenyOverride`), reviewed, revoked or not.  As a ground
an exception counts only while it is in force, reviewed and not revoked (`DenyInForce`), which is what the governance
routes and their test say of it (section 4); so `StandingGroundsDeny` asks nothing of the others, and an answer
"deny" that only such an exception gave is neither demanded nor excluded.
A behaviour either evaluates (`checking`) or accepts and imports: the two kinds of behaviour are checked in one run,
each with the rows that `Reach` gives it.  Accepts write the rows that administrators write, in the same statements,
so an evaluation that met one would see nothing it does not see anyway.

### JobDefs

A request validates the row it read, lists triggers, writes the row, deletes the sources and inserts the new one:
five steps.  An execution tests its feed twice, by the orchestrator and by the processor, each time by a count and a
row (`CountSources`, then `Permitted`), reads the records, and writes entity, provenance, review task, output and
metrics, each of which may fail.  `Clone` leaves everything as it is: its first INSERT cannot be executed (section 4), and
its transaction is rolled back.  `torn`, `untimed`, `declared` and `shifts` are history variables: requests that
met, jobs created as scheduled, which Create does not test for a trigger, or that lost their trigger while they were
scheduled or a request past its look at the triggers was about to make them so (`Timing`), and what the job declared
while the run was under way.

### Onboarding

PATCH and select-template are edits, one part after the other; replacing the selections is one transaction, whose
DELETE and INSERT see different rows.  A launch reads the status, previews (row, presets, assignment), inserts its log
row, loads the session again, makes an object per preset, finishes the log and marks the session.  Making a job is
several transactions and may be left half done (`half`).  `earlier` orders launches for `RepeatsHaveACause`.

### ResponseCache

`store` and `mirror` are the two maps of the backend.  A GET misses, computes in the steps of its service, sets
the entry and mirrors the key; a writer writes the row, reads it again for the index, upserts the document, and drops a
prefix key by key, as `sync.Map.Range` does: a key put in during the walk may be visited or not.  An answer is what it
saw: how many publications, or changes of grants, so that old is less than new.  `told[k]` is the last
change whose drop is over.  `escaped` names the keys whose entry a drop may miss, and `astray` that
the index is behind for good.

### Placeholders and GovernedAsk

`Placeholders` is pure.  `Resolve` ranks the rules and, where two tie, gives every order the database may
return; `Pieces` cuts a text where spans overlap; `Mappings` numbers values by tag; `Sanitize` is what is sent; `Rehydrate`
replaces one value after the other, in what the ones before have left, digits included.  Numbers are written in `Base` digits, so
that a second digit is in reach.

`GovernedAsk` is a request: retrieval returns viewable rows in any order, as entities or, for a question over context,
as pieces by `mode`, to which `Expand` adds chunks, of entities found or of others, if some piece has a chunk; each entity
is read and asked about once; linked ones follow; then
policy, vault, model, answer.  By chunks alone (`semantic_only`) an entity comes as often as it has chunks near the question
(`Hits`), up to `MaxPieces` of them; otherwise `Fused` has one piece of it.  The chunks of an entity all have the same text here, as
a piece matters by the entity it is of and by what a text has in it.  The model is external and says back what it was sent,
or one placeholder.  An answer of which nothing is left after removal is an error of the two questions that ask for JSON, as
in `synthesize.go`.
`vouched` has the entities that an evaluation of this request allowed; an evaluation is atomic here.
Rows and grants change until the evidence is complete.

## 3. Runs

| run | module | checks | instance | what it shows |
|---|---|---|---|---|
| `job_runs` | `JobRuns` | `ExecutedAtMostOnce`, `NoSilentLoss`, `ImplementsRunStatus`, `TaskLeavesQueue`, `RunSettles` | a queued and an inline run, 2 workers, MaxRetry 2, 2 faults, under `FairSpec` | safety of a run, the refinement, and liveness |
| `scheduled_runs` | `ScheduledRuns` | `DuplicateOnlyIfMoved`, `ActivationRunsOrIsShadowed` | one job, 2 ticks, 2 runs, 3 minutes | what lock and window do guarantee |
| `entity_lifecycle` | `ReviewFlow` | `ProjectionLifecycleAgrees`, `ApprovalPublishes`, `LifecycleIsKept` | 2 requests in flight, each again and again, one task, 4 versions | what survives stale copies, and what an approval is worth |
| `chunk_index` | `ChunkIndex` | `QuietSourcesAreExact`, `EmbeddingAccounted`, `NeverLeavesRetrieval` | an entity with 2 texts, a record, a record without extractor, 3 rebuilds of 2 pieces | what READ COMMITTED leaves of a rebuild |
| `feed_sync` | `FeedSync` | `OrphansAreReported`, `CursorCovers`, `SyncStatusSettles` | every adapter; 2 syncs, 3 items of which one is a reply and one can be edited or is a folder, windows of one item, 2 pages | what a sync without transactions leaves |
| `intake` | `Intake` | `NoSilentRecordLoss`, `AnswersAreKept` | 2 callers, 2 contents, 2 artifacts, 3 records, with faults | uploads and deliveries that meet, fail, are deleted and rebuilt |
| `builders` | `Builders` | `MirrorIsExact`, `OverrideIsConfined` | 2 callers; either 2 scenarios, 2 codes, one role and edits of up to one key, or 2 roles, 2 scopes and no scenarios | the mirror through renames, deletions and reused codes; validation against copies |
| `access` | `Access` | `StandingGroundsDeny`, `AllowedWasAllowable`, `AcceptedUnlessWithdrawn`, `OneAcceptUnlessUnbound`, `LastWordHolds` | one evaluation of 4 questions and 2 edits, or 2 requests on one invitation and one line, one PATCH and 2 edits | what an answer is worth while the tables change; what an accept gives and how often |
| `job_defs` | `JobDefs` | `StoredDefinitionsAreValid`, `SourcesFollowScope`, `ReadsWereDeclared`, `OutputsAreAccounted` | 2 requests, 2 jobs, 2 feeds, one execution, 3 writes | definitions that are edited while they run |
| `onboarding` | `Onboarding` | `LogTellsTheTruth`, `LaunchedAsPreviewed`, `RepeatsHaveACause`, `AssignmentIsKept` | 2 launches, 2 edits, a role and a job to choose from | what a launch without transactions makes and says |
| `response_cache` | `ResponseCache` | `DroppedIsGone`, `EntriesAreMirrored`, `IndexFollowsRow` | 2 GETs, 2 writes, four plans of up to two keys | fills against drops; reindexing out of order |
| `governed_ask` | `GovernedAsk` | `AnswersKeepToEvidence`, `NothingFoundIsSentAsIs`, `EchoIsFaithful`, `VaultHoldsWhatIsSent` | ten plans over 3 entities, texts of up to 5 letters, one change | which texts leave the system, and what comes back |

Type invariants are proved for every module (section 5), so no run lists them.

Why the bounds are enough.  Two workers are what it takes to race for a claim, and
two faults to lose a worker and then a second; a third of either repeats a situation.
`MaxRetry` 2 has a first, a middle and a last redelivery (the code passes more, which
only lengthens the middle).  Three minutes let a run be inserted in one, claimed in the
next and tested in the third.  Two ticks and two runs of one job are the
smallest duplicate; jobs do not interact but for the loop over them, and the proof
covers several.  Two requests and four versions are enough for a read, a write by the
other, a write back, and one more; review tasks of one entity do not read each other, so one is
enough, and the proofs have any number.  Three rebuilds let one hold rows another waits
for while a third takes its snapshot; two pieces tell a partial set from a whole one.
Two syncs let one finish what the other listed; a window of one item makes every
listing a cut one, and two pages still leave a third item out.  Two contents in two artifacts
are a duplicate and a row beside it; three records count past the two that
`OneRecordPerArtifact` is about.  Two scenarios and two codes let a code be given up and
taken over; each key concerns one role at a time, so a plan of `MCBuilders` has one role with keys or two without.
An evaluation's answer is lost to two writes, so `Access` has two edits; a patch, an accept and an import are
three writers of one grant.  Three writes of `JobDefs` are a creation and two edits.  Two launches are
what `RepeatsHaveACause` compares; a role is made in one transaction and a job in several, so one preset of each.
A GET meets a drop, or another GET: two of each; `Plans` keeps apart keys and calls that do not
meet.  `GovernedAsk` shrinks `MaxEvidence` from 8 to 2, `MaxPieces` from 12 to 3 and `Base` from 10 to 3, so that the cuts and the second
digit are in reach; the texts of its plans were chosen for the cases named beside them.
Bounds in guards are `MaxFaults`, `MaxMinute`, `MaxVersions`, `MaxText`, `MaxStamp`, `MaxRecords`, `MaxEdits`, `MaxWrites`,
`MaxChanges`, `MaxEvidence`, `MaxPieces`, the sets `Plans`, `Reach`, `Patches`, `Creations` of what a behaviour may ask for, and
the finite sets of requests; the proofs hold for all their values.  Runs whose behaviours end at a bound have
`CHECK_DEADLOCK FALSE`: in them the system stops when every run, rebuild, sync or caller is
spent, an artifact has its last record, or every id is in use.  So that this hides no request that is stuck, the
invariant "a request in progress has a step other than a failure or a stop" was checked with each of these modules: it
holds but where an id, an edit or a row lock held by another request is waited for.  The entity run checks deadlock, since
a failed transaction always leaves another request possible.

What the excuses of the properties leave out.  Several hazards harm the data whatever happens next, and a property that
is true beside them has to name them, often by a history variable: `stranded` (runs no code comes back to), `late`,
`honoured` with a failed publication, `foul` and `loose` (builders), `torn` and `untimed` (job definitions), `escaped` and
`astray` (cache and index), an expired grant, a text outside `plainly`.  The property does not report the named harm; it says
that there is no other, that it befalls only what the history variable marks, and it fails when a change of the code
makes the loss wider.

Fairness (`JobRuns!Fairness`) is weak and is assumed of what the code keeps running: a
goroutine that has begun its steps (`executeRun` is assumed to return), asynq's
dispatcher for a pending task, and its recoverer for a task whose worker is gone.
Nothing is assumed of users, of faults, or of a lease that expires under a living
worker.  The fault bound makes a behaviour have finitely many faults, which is what
liveness under faults has to assume anyway.  The other modules promise nothing that must happen: a
request may be abandoned at any step, and no code comes back to what it left.

## 4. Where the code and what is said of it part

No run is there to be violated: what follows was met while modelling, is part of the models, and the properties say
what remains true beside it.

* The comment on `ProcessScheduledTick` promises one run per job and UTC minute.  The test looks at the tick's
  minute, but `started_at` is the transaction's time and then the claim's: near a minute boundary a second tick
  does not see the first one's run (`DuplicateOnlyIfMoved`), and a stamp moved into the next minute makes that
  minute's activation look done (`ActivationRunsOrIsShadowed`).
* `Publish` is said to be the only path to `published`.  A PATCH that read the entity published writes that back after
  another PATCH made it a draft (`PublishedWasPublishedBefore` is proved).
* "Replaces all chunks" does not hold for overlapping rebuilds of one source: the second DELETE does not see the
  first's uncommitted rows (`QuietSourcesAreExact`, `NeverLeavesRetrieval`).
* A webhook delivery is meant to be normalized at once (`webhook_ingest.go:62-69`).  Its normalizer reads a metadata
  key, `slack_message` or `mattermost_post` (`artifact_worker.go:175`, `204`), that only the polled path writes, so it fails every
  time, the error is dropped, and nothing tries again (`Intake!MessageKey`).
* Two concurrent `Publish` calls both report the publication (`EntityLifecycle`).
* A feed whose adapter has no cursor stays `syncing` after its syncs ended (`FeedSync`; `SyncStatusSettles` is
  about the adapters that settle it).
* A PATCH that renames a scenario removes the mirror before the rename can be refused
  (`definition_service.go:50`), so after a refusal the roles lack the key that
  `docs/scenario-builder.md:55` says follows the bindings (`Builders`, `foul`).
* With a blob store the same file uploaded twice is two artifacts, against
  `docs/operations/manual-upload.md:169` (`Intake`, `shared`).
* `EntityRepo.Create` passes thirteen arguments to an INSERT with twelve placeholders
  (`entity_repo.go:279-289`).  `EntityLifecycle` therefore starts from what Create is written to leave,
  not from a call of it.
* Every clone of a job fails: its INSERT (`jobs_builder.go:160-172`) names 26 columns, gives 28 values and numbers
  placeholders up to `$24` of 22 arguments, against `docs/job-builder.md:26`, "New job id; copies triggers, operators, sources"
  (`JobDefs!Clone`).
* A deny exception denies from its creation until it expires, before its review and after its revocation: `loadOverrides`
  (`access.go:352-355`) selects by `expires_at` and does not look at the status.  The lifecycle test says "Review activates" and
  "Revoke disables" (`policy_exception_lifecycle_test.go:80`, `93`) and asserts only the routes' answers;
  `effectiveExceptionStatus` (`policy_exceptions.go:40-48`) shows such an exception as pending or revoked
  (`Access!DenyOverride`, `DenyInForce`).
* An invitation accepted over an expired grant gives nothing: the upsert keeps `expires_at` (`Grants`).  An accept broken
  off between the assignment and the mark can never be repeated.
* A launch repeats what an earlier one made if that one failed part way or its mark was lost, although the answer
  promises 409 for a launched session (`RepeatsHaveACause`).
* A role grant never drops the cached domain list: the prefix it drops ends in a colon and `DomainsKey` has none
  (`keys.go:75`); an administrator's view of a user's access is not dropped with the user's own; the routes that
  assign roles announce nothing (`ResponseCache!Matches`, `ChangeQuietly`).
* Of overlapping spans the earlier start wins, not the higher priority (`patterns.go:110`); with the seeded rules the
  effective cap is `none`, so nothing is ever put back; a value found as two types gets two placeholders, against
  `docs/AI_SANITIZATION_LAYER.md:17`; replacing `EMAIL_1` also replaces the head of `EMAIL_10`; a value
  with a quote breaks the JSON answer; the rules of the first entity's domain stand for all (`Placeholders`, `GovernedAsk`).
* `entity_summarize` calls the gateway without a correlation id, so with a vault every row with something to tokenize
  fails, against `docs/AI_PRIVACY_FLOW.md:27` (`GovernedAsk`, kind `"backfill"`).

## 5. Proofs

Every invariant and every action property that a run checks, and the refinement of `RunStatus`, is a theorem, for every
value of the constants that satisfies the named assumptions.  Liveness alone is only model-checked.

| run | proved as |
|---|---|
| `job_runs` | `AtMostOnce`, `NothingLost`, `Refinement`; also `Completed`, `Stability` |
| `scheduled_runs` | `SchedNoPlainDuplicate`, `SchedActivation` |
| `entity_lifecycle` | `SearchShowsLifecycle`, `ApprovalsAreHonoured`, `ReviewImplementsLifecycle`; also `HistoryIsCurrent`, `PublicationOnRecord`, `SearchTruthAgrees` |
| `chunk_index` | `QuietAreExact`, `EmbeddingsAccounted`, `StaysInRetrieval`; also `ReadersSeeWholeRebuilds`, `MarkedRecordsChunked` |
| `feed_sync` | `OrphansHold`, `CursorHolds`, `SyncStatusHolds` |
| `builders` | `MirrorHolds`, `OverridesHold` |
| `intake` | `RecordsAccountedFor`, `AnswersHold`; also `SingleRecord` |
| `access` | `StandingGroundsHold`, `AllowedIsExplained`, `AcceptanceGives`, `AcceptanceIsOnce`, `LastWordIsKept` |
| `job_defs` | `DefinitionsStayValid`, `SourcesKeepToScope`, `ReadsAreDeclared`, `OutputsAreExplained` |
| `onboarding` | `LogIsTrue`, `LaunchedIsPreviewed`, `RepeatsAreExplained`, `AssignmentKept` |
| `response_cache` | `DropsHold`, `MirrorsHold`, `IndexIsCurrent` |
| `governed_ask` | `AnswersHold`, `FoundIsNotSent`, `EchoHolds`, `VaultHolds` |

The assumptions are on constants only, stand beside their declarations, and are evaluated by the runs: "none" values are
distinct from what they stand beside, bounds are natural numbers (positive where a thing has at least one part),
`Opaque \subseteq Records`, the vocabulary that the code names is there, requests of `Grants` and entities of
`GovernedAsk` are finitely many, `Grants` has no offer that is both invitation and import, `Access` has settings to
choose from, `ResponseCache` has keys, entities have distinct ranks of trust, a text has finitely many spans, letters are
no placeholders, and the rules of a plan have the actions and modes of `policy.go`.

The arguments:

* `JobRunsProofs`.  `TypeCorrect`, then `Safety`: `IInv` is inductive.  At-most-once is not
  inductive by itself: a worker about to start must know that nobody executed before, so
  `IInv` adds that the claim is exclusive and that a queued run was never executed
  (`ClaimInv`), what a busy worker may assume of the row (`WorkerInv`) and how caller, row
  and task go together (`CallerInv`).  `AtMostOnce` and `Completed` follow;
  `NothingLost` needs `LossInv`, which names who answers for an open run;
  `Stability` and `Refinement` are proved action by action from the same invariant.
* `JobDefsProofs`.  A request in progress is of a validated definition, and one about to store a job as scheduled has seen an active trigger,
  which is there or was lost since (`RequestInv`).  A request that is alone is the only one that writes the sources of its job, and the row is what
  it wrote (`SourceInv`).  A test that passes saw its feed at its second statement, or at its first if the row was not
  written in between (`TestInv`): only a write between both statements of both tests lets an undeclared read through.
  `OutputInv` goes by the stages of a run.
* `IntakeProofs`.  What a request holds follows from its stage (`CallInv`).  An artifact outside `overlapped` has
  at most one request that will write a record of it, and no record unless that one clears first
  (`RebuildInv`); a delivery that was not refused is in the table from its INSERT on
  (`DeliveryInv`).  `RecordsAccountedFor`, `SingleRecord` and `AnswersHold` follow.
* `AccessProofs`.  `Grants` first: every accept uses up a request that began before the invitation was accepted
  (`BudgetInv`, which counts), a request past the grant or the role has given it (`OfferInv`), the unique index lets one
  request alone give a role (`AcceptInv`), and a PATCH nobody overlapped knows the row it writes (`PatchInv`).  `Access`
  next: what stood all along an evaluation belongs to gates that are still ahead (`EvalInv`, `Ahead`); and while at most
  one thing was written there is such a ground, or a role gate ahead that denies (`WhyInv`), so that an answer "allow"
  needs two writes in between or one between the two questions about roles.  What an acceptance gives is kept by
  `GivenInv` and `ExpiryInv` in the behaviours without evaluations (`ModeInv`).
* `PollingProofs`, ticks.  `SchedInv` is inductive: from the check to the INSERT the tick
  holds the row lock (`LockInv`), and `started_at` never goes back (`TimeInv`), so
  what the check excluded stays excluded.
* `PollingProofs`, syncs.  `FeedInv` follows a request from its listing: what it holds (`StageInv`), that cursors and pages know
  posted items only and items are posted in order (`PostedInv`), that a raw row without a record is the one its run is at, or
  its run tells (`OrphanInv`), that a quiet run left a raw row for all it is done with (`PassedInv`), and what a run with a
  cursor may have missed below its newest item (`ListedInv`), replies in a thread by what it was listed with (`HeardInv`).  `CursorCovers` is not inductive: a run that read
  an old cursor writes a new one later, so `CoverInv` says the same of the cursors that runs have read.
* `SearchProofs`, chunks.  Rebuilds may overlap in any way, so `ChunkInv` follows what a DELETE
  has in its hands: whole rebuilds of its own source (`DoomedInv`), nobody else's once it
  has the locks (`LockInv`).  A commit then replaces whole rebuilds by a whole one
  (`CommitRows`), and `ReadersSeeWholeRebuilds`, `MarkedRecordsChunked`, `EmbeddingsAccounted` and the
  action property `StaysInRetrieval` follow.  `QuietAreExact` needs `QuietInv` besides: where rebuilds never
  met, the one at work has read the present text, and its DELETE holds all chunks of the source.
* `SearchProofs`, cache.  A drop that has visited a key answers for every older answer under it, kept or still in the hands of a
  GET (`CoverInv`); what is announced has happened (`NewsInv`); a copy of the row that no reindex met is the only
  one, and present unless a write has yet to read (`IndexInv`); GETs ask for keys of the plan (`AskedInv`).
* `SetupProofs`, onboarding.  A launch is a straight line with exits, so the invariant goes by its stages: what is made and
  logged (`LaunchInv`, `OutcomeInv`), what was shown and loaded and whether selections still are what was shown (`PreviewInv`),
  who marked the session (`MarkInv`), what a launch found that began when another was over (`EarlierInv`), and
  that an edit about to write is stale or holds the present draft (`EditorInv`).
* `SetupProofs`, builders.  `MirrorIsExact` speaks of moments when nobody works on a code; the invariant has to say what holds in
  between.  A request either is `Clean`, alone on its scenario and right about its code, or `Tainted`, with every
  code it may write in `foul`.  Between two of its transactions a clean request leaves its code without keys (`Disturbs`), every
  other key is as the bindings say (`KeyInv`), and what it will delete at its commit is all there is (`RowsInv`).
  A patch of a role outside `loose` works on it alone, and what it was checked with still is what the role has (`Confines`).
* `GovernanceProofs`, entities and reviews.  The agreements of row, projection and newest version are
  inductive with types; the publication property needs in addition that every published row,
  and every published copy a request still holds, is on record in the versions.
  `ReviewImplementsLifecycle` shows that every step of `ReviewFlow` is a step
  of `EntityLifecycle` or leaves the entity alone, so `EntitySafety` and `PublicationOnRecord` carry over to the
  composition (`ReviewSafety`, `ReviewPublicationOnRecord`).  `ApprovalsAreHonoured` needs in addition that all
  approvals are honoured while the entity is published (`ReviewInv`): otherwise an approval that finds the entity
  published, and publishes nothing, would have no publication to show.
* `GovernanceProofs`, questions.  Most of it is about `Placeholders`, whose operators are data: `InOrder` lists a finite set
  without repetition (by pigeonhole), the pieces of a text partition it and each letter of a piece has the piece's
  owner (`OwnerCovers`, `PiecesEnd`), joined they are the text (`PiecesJoin`), mappings have distinct holders and
  give every tokenized piece one (`MappingsStand`), and a prompt that is said back is what was put in (`EchoReturns`), because replacing
  is a homomorphism of sequences (`Puts...`) and a holder below `Base` is found in no other one.
  `FlattenSeq` and `Rehydrate` are recursive functions, about which
  the induction theorems of the library cannot be used; a table of their values is shown to exist by looking at the least
  number for which it would not (`Least`).  The request then needs that its prompt stands on the evidence and on the
  policy (`PromptInv`), that what is let in was asked about (`EvidenceInv`), that the vault has a first part of what was issued
  (`VaultInv`), and that the answer is what was said with values put back (`AnswerInv`): together `AskInv`.

Only model-checked: `TaskLeavesQueue` and `RunSettles`, which are liveness under fairness and outside what the prover does.

## 6. Not modelled, and the plan

Left out for good: vendor clients and their payload mapping, ranking arithmetic and
read-only queries, prompts and model output, sessions (stateless), CRUD of one
statement, the web application.

Left out of modelled components:

* jobs: operators, scenario bindings, agent policies; what processors find in what they read.
* entities: links, evidence, list queries.
* reviews: permission checks, notes, `completed_at`, the lists; tasks exist from the start, because
  a job processor creates one right after its entity.
* polled ingestion: `health_status` and warnings, the checks of Activate, token refresh, an edit of
  other config fields that the cursor's write-back undoes, the Fathom and the generic adapters.
* pushed ingestion: extraction, signatures, the bytes in the blob store, `sync_status`, edits of a
  collection, the artifact task of connectorworker (nothing enqueues it), one message arriving both by poll and by push.
* builders: the active flag, bindings other than visibility, previews, system roles.
* identity: passwords, names, the administration of teams, roles and domains.
* onboarding: profile, connectors, feed drafts, steps and slots.
* answers: scores, images, templates, the saved trace; the patterns, and encryption and expiry of the vault.
* search: ranking, snippets, `EnsureIndex`.
* connectorworker: the tasks that are not embedding.

OAuth proxy and sessions are stateless but for one-time codes in memory; second brain and meeting tasks, the MCP server,
home and content pages are single statements over rows of other components.
