----------------------------- MODULE ChunkIndex -----------------------------
(***************************************************************************)
(* The chunk surface of retrieval: rebuilds of the chunks of an entity or  *)
(* of a normalized record (chunks.Service), started by the hook of a write,*)
(* by the backfill loop of cmd/connectorworker or by kltools, and the      *)
(* embedding tasks they enqueue.  A rebuild reads the text, then replaces  *)
(* the chunks in a READ COMMITTED transaction: its DELETE sees the chunks  *)
(* committed when the statement starts, and waits for the rows another     *)
(* rebuild is deleting.                                                    *)
(*                                                                         *)
(* A text is its version, a chunk is the build that wrote it and its       *)
(* ordinal.  Texts are not blank: the chunks of an entity whose text is    *)
(* patched to nothing go, and that is meant.  The list of pending records  *)
(* that the backfill read may be old when it comes to a record, so a       *)
(* record is rebuilt at any time once it exists.                           *)
(***************************************************************************)
EXTENDS Naturals

CONSTANTS
    Entities,   \* entities: their text is patched
    Records,    \* normalized_records: inserted once, never updated
    Opaque,     \* records whose type has no text extractor
    Builds,     \* calls of a rebuild
    NoSource,   \* the source of a call not yet made
    Pieces,     \* number of chunks a text is split into
    MaxText     \* bound on the number of versions of an entity's text

ASSUME SourcesAssumption ==
    /\ Opaque \subseteq Records
    /\ Entities \cap Records = {}
    /\ NoSource \notin Entities \cup Records
ASSUME SizesAssumption == Pieces \in Nat \ {0} /\ MaxText \in Nat \ {0}

VARIABLES
    text,       \* text[s]: version of the source's text, 0 before it exists
    marked,     \* records with chunks_rebuilt_at set
    chunks,     \* committed rows of chunks
    embedded,   \* chunks with a row in embeddings
    build,      \* build[b]: local state of the call
    task,       \* task[c]: the embedding task of chunk c
    overlapped  \* history: sources two of whose rebuilds ran at once

vars == <<text, marked, chunks, embedded, build, task, overlapped>>

Sources == Entities \cup Records
Ordinals == 1..Pieces
Chunks == Builds \X Ordinals
Replacing == {"read", "delete", "wait", "write"}   \* before the commit
BuildSteps == {"idle", "mark", "enqueue", "done", "aborted", "cut"} \cup Replacing
BuildStates == [at : BuildSteps, src : Sources \cup {NoSource}, text : 0..MaxText,
                doomed : SUBSET Chunks, todo : SUBSET Ordinals]
NotCalled == [at |-> "idle", src |-> NoSource, text |-> 0, doomed |-> {}, todo |-> {}]

TypeOK ==
    /\ text \in [Sources -> 0..MaxText]
    /\ marked \subseteq Records
    /\ chunks \subseteq Chunks
    /\ embedded \subseteq chunks
    /\ build \in [Builds -> BuildStates]
    /\ task \in [Chunks -> {"none", "pending", "done", "archived"}]
    /\ overlapped \subseteq Sources

ChunksOf(s) == {c \in chunks : build[c[1]].src = s}
ChunksBy(b) == {b} \X Ordinals

Init ==
    /\ text = [s \in Sources |-> 0]
    /\ marked = {}
    /\ chunks = {}
    /\ embedded = {}
    /\ build = [b \in Builds |-> NotCalled]
    /\ task = [c \in Chunks |-> "none"]
    /\ overlapped = {}

-----------------------------------------------------------------------------
(* Writes to the sources, and what starts a rebuild.                        *)

Call(b, s) ==
    /\ build[b].at = "idle"
    /\ build' = [build EXCEPT ![b].at = "read", ![b].src = s]
    /\ overlapped' = overlapped \cup
          {t \in {s} : \E o \in Builds : build[o].src = s /\ build[o].at \in Replacing}

NewText(s) ==
    /\ text[s] < (IF s \in Records THEN 1 ELSE MaxText)
    /\ text' = [text EXCEPT ![s] = @ + 1]

\* EntityRepo.Create and Patch, PersistNormalizedRecord: commit, then the hook.
WriteWithHook(b, s) ==
    /\ NewText(s)
    /\ Call(b, s)
    /\ UNCHANGED <<marked, chunks, embedded, task>>

\* The adapters that insert into normalized_records themselves.
InsertWithoutHook(r) ==
    /\ NewText(r)
    /\ UNCHANGED <<marked, chunks, embedded, build, task, overlapped>>

\* The backfill loop or kltools reindex.
Reindex(b, s) ==
    /\ text[s] > 0
    /\ Call(b, s)
    /\ UNCHANGED <<text, marked, chunks, embedded, task>>

-----------------------------------------------------------------------------
(* One rebuild: RebuildEntityChunks, RebuildNormalizedRecordChunks and what *)
(* OnEntityPersisted and OnNormalizedRecordPersisted do after them.         *)

At(b, step) == build[b].at = step
After(b) == IF build[b].src \in Records THEN "mark" ELSE "enqueue"

\* SELECT of the text, outside the transaction.  A record without an extractor
\* keeps the chunks it has and is marked.
ReadText(b) ==
    /\ At(b, "read")
    /\ build' = [build EXCEPT ![b].text = text[build[b].src],
                              ![b].at = IF build[b].src \in Opaque THEN "mark" ELSE "delete"]
    /\ UNCHANGED <<text, marked, chunks, embedded, task, overlapped>>

\* Mutant: the DELETE compares the record's column for entities too.
DeleteByRecordOnly(b) ==
    /\ At(b, "delete")
    /\ build' = [build EXCEPT ![b].at = "wait",
          ![b].doomed = {c \in ChunksOf(build[b].src) : build[b].src \in Records}]
    /\ UNCHANGED <<text, marked, chunks, embedded, task, overlapped>>

\* DELETE FROM chunks: the statement's snapshot.
DeleteSnapshot(b) ==
    /\ At(b, "delete")
    /\ build' = [build EXCEPT ![b].at = "wait", ![b].doomed = ChunksOf(build[b].src)]
    /\ UNCHANGED <<text, marked, chunks, embedded, task, overlapped>>

Unlocked(b) == \A o \in Builds \ {b} :
    At(o, "write") => build[o].doomed \cap build[b].doomed = {}

\* Mutant: the DELETE is committed by itself.
DeleteCommits(b) ==
    /\ At(b, "wait") /\ Unlocked(b)
    /\ build' = [build EXCEPT ![b].at = "write"]
    /\ chunks' = chunks \ build[b].doomed
    /\ embedded' = embedded \ build[b].doomed
    /\ UNCHANGED <<text, marked, task, overlapped>>

\* The DELETE holds the row locks; rows that were deleted meanwhile are skipped.
DeleteLocks(b) ==
    /\ At(b, "wait") /\ Unlocked(b)
    /\ build' = [build EXCEPT ![b].at = "write", ![b].doomed = @ \cap chunks]
    /\ UNCHANGED <<text, marked, chunks, embedded, task, overlapped>>

\* The INSERTs and COMMIT: the old chunks go, with their embeddings (ON DELETE
\* CASCADE), and the new ones appear.
Commit(b) ==
    /\ At(b, "write")
    /\ chunks' = (chunks \ build[b].doomed) \cup ChunksBy(b)
    /\ embedded' = embedded \ build[b].doomed
    /\ build' = [build EXCEPT ![b].at = After(b), ![b].todo = Ordinals, ![b].doomed = {}]
    /\ UNCHANGED <<text, marked, task, overlapped>>

\* UPDATE normalized_records SET chunks_rebuilt_at, before anything is enqueued.
Mark(b) ==
    /\ At(b, "mark")
    /\ marked' = marked \cup {build[b].src}
    /\ build' = [build EXCEPT ![b].at = IF build[b].todo = {} THEN "done" ELSE "enqueue"]
    /\ UNCHANGED <<text, chunks, embedded, task, overlapped>>

\* One embedding task per chunk, in the order of the ordinals.
Enqueue(b) ==
    /\ At(b, "enqueue")
    /\ \E p \in build[b].todo :
         /\ \A q \in build[b].todo : p <= q
         /\ task' = [task EXCEPT ![<<b, p>>] = "pending"]
         /\ build' = [build EXCEPT ![b].todo = @ \ {p},
                                   ![b].at = IF build[b].todo = {p} THEN "done" ELSE "enqueue"]
    /\ UNCHANGED <<text, marked, chunks, embedded, overlapped>>

\* A statement fails or the process stops before the commit: rollback, and the
\* hook's error is dropped by the writer.
Abort(b) ==
    /\ build[b].at \in Replacing
    /\ build' = [build EXCEPT ![b].at = "aborted", ![b].doomed = {}]
    /\ UNCHANGED <<text, marked, chunks, embedded, task, overlapped>>

\* It fails or stops after the commit, there is no queue, or kltools wanted the
\* chunks only: the rest of the chunks get no embedding task.
CutShort(b) ==
    /\ build[b].at \in {"mark", "enqueue"}
    /\ build' = [build EXCEPT ![b].at = "cut"]
    /\ UNCHANGED <<text, marked, chunks, embedded, task, overlapped>>

BuildNext(b) ==
    \/ \E s \in Sources : WriteWithHook(b, s) \/ Reindex(b, s)
    \/ ReadText(b) \/ DeleteSnapshot(b) \/ DeleteLocks(b) \/ Commit(b)
    \/ Mark(b) \/ Enqueue(b) \/ Abort(b) \/ CutShort(b)

-----------------------------------------------------------------------------
(* The embedding task of cmd/connectorworker.                               *)

\* Chunks.Get, the call to the model and Embeddings.Upsert.  A chunk that goes in
\* between is refused by the foreign key, as it is by Get when it is gone before.
EmbedStores(c) ==
    /\ task[c] = "pending"
    /\ c \in chunks
    /\ task' = [task EXCEPT ![c] = "done"]
    /\ embedded' = embedded \cup {c}
    /\ UNCHANGED <<text, marked, chunks, build, overlapped>>

\* Mutant: the error is logged and the task completed.
EmbedFailsQuietly(c) ==
    /\ task[c] = "pending"
    /\ task' = [task EXCEPT ![c] = "done"]
    /\ UNCHANGED <<text, marked, chunks, embedded, build, overlapped>>

\* The chunk, the model or the database is missing, or the worker stops.  asynq
\* tries again, which leaves the task pending, and archives it after MaxRetry.
EmbedFails(c) ==
    /\ task[c] = "pending"
    /\ task' = [task EXCEPT ![c] = "archived"]
    /\ UNCHANGED <<text, marked, chunks, embedded, build, overlapped>>

Next ==
    \/ \E r \in Records : InsertWithoutHook(r)
    \/ \E b \in Builds : BuildNext(b)
    \/ \E c \in Chunks : EmbedStores(c) \/ EmbedFails(c)

Spec == Init /\ [][Next]_vars

-----------------------------------------------------------------------------
(* Properties.                                                              *)

\* Readers see whole rebuilds only: all the pieces of a text or none.
WholeRebuilds == \A c \in chunks : ChunksBy(c[1]) \subseteq chunks

\* A source never leaves retrieval: however rebuilds overlap and break off, one
\* that has had chunks has some in every later state.
NeverLeavesRetrieval ==
    [][\A s \in Sources : ChunksOf(s) # {} => ChunksOf(s)' # {}]_vars

\* A record the backfill will not look at again has its chunks.
MarkedRecordsAreChunked == \A r \in marked \ Opaque : ChunksOf(r) # {}

\* When no two rebuilds of a source ran at once and none was aborted, its
\* chunks are exactly those of one rebuild, of its present text.
QuietSourcesAreExact == \A s \in Sources \ (Opaque \cup overlapped) :
    (/\ \E b \in Builds : build[b].src = s
     /\ \A b \in Builds : build[b].src = s => build[b].at \notin Replacing \cup {"aborted"})
    => \E b \in Builds : ChunksOf(s) = ChunksBy(b) /\ build[b].text = text[s]

\* A chunk has its embedding, or a task that will try for it, or its rebuild
\* has yet to enqueue it.  The exceptions are rebuilds cut short after their
\* commit and tasks asynq gave up on: nothing comes back to those.
EmbeddingAccounted == \A c \in chunks :
    \/ c \in embedded
    \/ task[c] \in {"pending", "archived"}
    \/ build[c[1]].at \in {"mark", "enqueue"} /\ c[2] \in build[c[1]].todo
    \/ build[c[1]].at = "cut"

\* Why: only committed rebuilds have chunks, and all of them.
Committed == {"mark", "enqueue", "done", "cut"}
RowsInv == \A c \in chunks :
    /\ ChunksBy(c[1]) \subseteq chunks
    /\ build[c[1]].at \in Committed

\* A call has a source, and a committed one left it in retrieval.
CallInv == \A b \in Builds :
    /\ build[b].at = "idle" <=> build[b].src = NoSource
    /\ build[b].at = "mark" => build[b].src \in Records
    /\ build[b].at \in Committed /\ build[b].src \notin Opaque => ChunksOf(build[b].src) # {}

\* A DELETE takes whole rebuilds of its own source.
DoomedInv == \A b \in Builds : \A c \in build[b].doomed :
    /\ ChunksBy(c[1]) \subseteq build[b].doomed
    /\ build[c[1]].at \in Committed
    /\ build[c[1]].src = build[b].src

\* Once it holds the row locks, nobody else deletes them.
LockInv == \A b \in Builds : build[b].at = "write" =>
    /\ build[b].doomed \subseteq chunks
    /\ \A o \in Builds \ {b} :
          build[o].at = "write" => build[o].doomed \cap build[b].doomed = {}

ChunkInv == RowsInv /\ CallInv /\ DoomedInv /\ LockInv /\ MarkedRecordsAreChunked /\ EmbeddingAccounted
=============================================================================
