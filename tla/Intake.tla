------------------------------- MODULE Intake -------------------------------
(***************************************************************************)
(* The pushed side of ingestion: uploads into a manual collection and      *)
(* webhook deliveries to a chat feed.  Both write raw_artifacts in one     *)
(* statement and normalized_records in a later one, within the request and *)
(* without a transaction; an upload can also be deleted or normalized      *)
(* again.  The polled side is FeedSync.                                    *)
(*                                                                         *)
(* A content stands for all that the content hash of an upload covers      *)
(* (title, text, uploader and the policy of the feed) or for the body of a *)
(* delivery.  Extraction, signatures and the bytes in the blob store are   *)
(* left out: they come before the first write.  The queue of the           *)
(* connectorworker has a handler that normalizes an artifact, but nothing  *)
(* enqueues its task.                                                      *)
(***************************************************************************)
EXTENDS Naturals, FiniteSets

CONSTANTS
    Requests,   \* HTTP requests, one after the other on each connection
    Contents,   \* what is uploaded or delivered
    Artifacts,  \* ids of raw_artifacts rows; none is given out twice while in use
    MaxRecords, \* bound on the records of one artifact
    Faults,     \* whether statements fail and the process stops
    None        \* no artifact, no content, no row

ASSUME NoneAssumption == None \notin Artifacts \cup Contents \cup [content : Contents, shared : BOOLEAN]
ASSUME FaultsAssumption == Faults \in BOOLEAN
ASSUME MaxRecordsAssumption == MaxRecords \in Nat \ {0}

VARIABLES
    feed,       \* the feed: its kind, whether it is archived, whether files get a storage_uri
    raw,        \* raw_artifacts: the content, and whether its hash is that of the content alone
    records,    \* normalized_records: how many an artifact has
    req,        \* req[q]: the request, or the answer it gave
    broken,     \* history: artifacts whose normalization was cut off or answered with an error
    overlapped  \* history: artifacts that two requests normalized at once, since rebuilt by one

vars == <<feed, raw, records, req, broken, overlapped>>

Feeds == [kind : {"manual", "slack", "mattermost"}, archived : BOOLEAN, blobs : BOOLEAN]
RawRows == [content : Contents, shared : BOOLEAN]
Answers == {"answered", "deduped", "accepted"}    \* "answered": in any other way, or not at all
Stages == {"insert", "settle", "fetch", "find", "normalize", "process", "clear", "rebuild"}
RunRows == {"none", "running", "completed", "failed"}
Called == [at : Answers \cup Stages, content : Contents \cup {None}, shared : BOOLEAN,
           art : Artifacts \cup {None}, errs : BOOLEAN, run : RunRows]
NotCalled == [at |-> "answered", content |-> None, shared |-> TRUE, art |-> None,
              errs |-> FALSE, run |-> "none"]

TypeOK ==
    /\ feed \in Feeds
    /\ raw \in [Artifacts -> RawRows \cup {None}]
    /\ records \in [Artifacts -> 0..MaxRecords]
    /\ \A a \in Artifacts : raw[a] = None => records[a] = 0
    /\ req \in [Requests -> Called]
    /\ broken \subseteq Artifacts
    /\ overlapped \subseteq Artifacts

Init ==
    /\ feed \in {f \in Feeds : ~f.archived /\ (f.kind # "manual" => ~f.blobs)}
    /\ raw = [a \in Artifacts |-> None]
    /\ records = [a \in Artifacts |-> 0]
    /\ req = [q \in Requests |-> NotCalled]
    /\ broken = {}
    /\ overlapped = {}

At(q, stage) == req[q].at = stage
Free(q) == req[q].at \in Answers
Manual == feed.kind = "manual"
\* Requests that have yet to write a record of a.
Normalizing(a) == {q \in Requests : req[q].art = a /\ ~Free(q)}
Answer(q) == req' = [req EXCEPT ![q] = NotCalled]
Go(q, stage) == req' = [req EXCEPT ![q].at = stage]
Exists(a) == raw[a] # None

-----------------------------------------------------------------------------
(* Uploads and deliveries.                                                  *)

\* ArchiveSourceFeed and Resume.
SetArchived ==
    /\ feed' = [feed EXCEPT !.archived = ~@]
    /\ UNCHANGED <<raw, records, req, broken, overlapped>>

Start(q, call) ==
    /\ Free(q)
    /\ req' = [req EXCEPT ![q] = call]
    /\ UNCHANGED <<feed, raw, records, broken, overlapped>>

\* IngestManualText, up to the start of the run.  shared: the hash is that of the content alone.
IngestManual(q, c, shared) ==
    /\ Manual /\ ~feed.archived
    /\ Start(q, [NotCalled EXCEPT !.at = "insert", !.content = c, !.run = "running", !.shared = shared])

\* The storage_uri of a file is a new one and part of what is hashed.
IngestManualFile(q, c) == IngestManual(q, c, ~feed.blobs)

\* IngestManualURL and IngestManualYouTube: what is fetched may differ from one time to the next.
IngestManualPage(q) == \E c \in Contents : IngestManual(q, c, TRUE)

\* A delivery is taken whatever the status of the feed; the sender repeats it at will.  One
\* that holds nothing to store still gets a run.
IngestWebhookResult(q, c) ==
    Start(q, [NotCalled EXCEPT !.at = IF c = None THEN "settle" ELSE "insert", !.content = c,
                               !.run = "running"])

\* The HandleWebhook of each adapter.  A signed body that is not an event is accepted and holds
\* nothing; the URL verification is answered without a run, and left out.
SlackWebhook(q) ==
    feed.kind = "slack" /\ \E c \in Contents \cup {None} : IngestWebhookResult(q, c)
MattermostWebhook(q) ==
    feed.kind = "mattermost" /\ \E c \in Contents : IngestWebhookResult(q, c)

SameHash(q) == {a \in Artifacts : Exists(a) /\ req[q].shared /\ raw[a].shared
                                  /\ raw[a].content = req[q].content}
\* An id that no request holds.
Fresh(a) == ~Exists(a) /\ \A q \in Requests : req[q].art # a

\* ON CONFLICT (source_feed_id, content_hash) DO NOTHING.
insertRawArtifactRow(q) ==
    /\ At(q, "insert")
    /\ IF SameHash(q) # {}
       THEN Go(q, "settle") /\ UNCHANGED <<raw, broken, overlapped>>
       ELSE \E a \in Artifacts :
              /\ Fresh(a)
              /\ raw' = [raw EXCEPT ![a] = [content |-> req[q].content, shared |-> req[q].shared]]
              /\ req' = [req EXCEPT ![q].at = "settle", ![q].art = a]
              /\ broken' = broken \ {a}
              /\ overlapped' = overlapped \ {a}
    /\ UNCHANGED <<feed, records>>

\* The metadata or the INSERT fails.
InsertFails(q) ==
    /\ Faults /\ At(q, "insert")
    /\ req' = [req EXCEPT ![q].at = "settle", ![q].errs = TRUE]
    /\ UNCHANGED <<feed, raw, records, broken, overlapped>>

\* Mutant: the run is completed whatever failed.
Mutant_FinalStatus(q) == "completed"
FinalStatus(q) == IF req[q].errs THEN "failed" ELSE "completed"

AfterRun(q) ==
    IF req[q].art # None THEN IF Manual THEN "fetch" ELSE "process"
    ELSE IF Manual THEN "find" ELSE "accepted"
\* finalizeIngestionRun, whose error is dropped, before anything is normalized.
finalizeIngestionRun(q) ==
    /\ At(q, "settle")
    /\ IF Manual /\ req[q].errs THEN Answer(q)
       ELSE \E status \in {FinalStatus(q)} \cup {s \in {"running"} : Faults} :
              req' = [req EXCEPT ![q].run = status, ![q].at = AfterRun(q)]
    /\ UNCHANGED <<feed, raw, records, broken, overlapped>>

\* findExistingRawArtifact, for a duplicate.
findExistingRawArtifact(q) ==
    /\ At(q, "find")
    /\ IF SameHash(q) = {} THEN Answer(q)
       ELSE \E a \in SameHash(q) : req' = [req EXCEPT ![q].at = "deduped", ![q].art = a]
    /\ UNCHANGED <<feed, raw, records, broken, overlapped>>

\* GetRawArtifact, for a new one.
GetRawArtifact(q) ==
    /\ At(q, "fetch")
    /\ IF Exists(req[q].art) THEN Go(q, "normalize") ELSE Answer(q)
    /\ UNCHANGED <<feed, raw, records, broken, overlapped>>

\* PersistNormalizedRecord.  The record of an upload holds the time of its normalization,
\* so that its hash never meets another; only a missing artifact refuses it.
PersistNormalizedRecord(q) ==
    LET a == req[q].art
    IN /\ Exists(a) => records[a] < MaxRecords
       /\ records' = IF Exists(a) THEN [records EXCEPT ![a] = @ + 1] ELSE records
       /\ Answer(q)
       /\ UNCHANGED <<feed, raw, broken, overlapped>>

normalizeManualToDocsPage(q) == At(q, "normalize") /\ PersistNormalizedRecord(q)

\* What the normalizer of each kind of message reads from metadata_json, and what that of a
\* delivery holds: the keys of the polled path are not among them.
MessageKey(kind) == IF kind = "slack" THEN "slack_message" ELSE "mattermost_post"
DeliveryKeys == {"connector", "artifact_type", "parsed", "transport", "ids of the delivery"}

\* ProcessQueuedRawArtifact of a delivery, whose error is dropped.
ProcessQueuedRawArtifact(q) ==
    LET a == req[q].art
        found == MessageKey(feed.kind) \in DeliveryKeys
    IN /\ At(q, "process")
       /\ records' = IF found THEN [records EXCEPT ![a] = 1] ELSE records
       /\ broken' = IF found THEN broken ELSE broken \cup {a}
       /\ req' = [req EXCEPT ![q].at = "accepted", ![q].art = None]
       /\ UNCHANGED <<feed, raw, overlapped>>

-----------------------------------------------------------------------------
(* Operations on an upload.                                                 *)

\* The records go by cascade.
DeleteManualArtifact(q, a) ==
    /\ Free(q) /\ Manual /\ ~feed.archived /\ Exists(a)
    /\ raw' = [raw EXCEPT ![a] = None]
    /\ records' = [records EXCEPT ![a] = 0]
    /\ Answer(q)
    /\ UNCHANGED <<feed, broken, overlapped>>

RenormalizeManualArtifact(q, a) ==
    /\ Free(q) /\ Manual /\ ~feed.archived /\ Exists(a)
    /\ req' = [req EXCEPT ![q] = [NotCalled EXCEPT !.at = "clear", !.art = a]]
    /\ overlapped' = overlapped \cup {i \in {a} : Normalizing(a) # {}}
    /\ UNCHANGED <<feed, raw, records, broken>>

\* DELETE FROM normalized_records; a rebuild that runs alone starts from nothing.
ClearRecords(q) ==
    LET a == req[q].art
    IN /\ At(q, "clear")
       /\ records' = [records EXCEPT ![a] = 0]
       /\ Go(q, "rebuild")
       /\ overlapped' = IF Normalizing(a) = {q} THEN overlapped \ {a} ELSE overlapped
       /\ UNCHANGED <<feed, raw, broken>>

\* Mutant: the records are cleared after the new one is written.
Mutant_RebuildThenClear(q) ==
    /\ At(q, "rebuild")
    /\ records' = [records EXCEPT ![req[q].art] = 0]
    /\ Answer(q)
    /\ UNCHANGED <<feed, raw, broken, overlapped>>
normalizeManualArtifactFromMeta(q) == At(q, "rebuild") /\ PersistNormalizedRecord(q)

-----------------------------------------------------------------------------
\* A statement fails and the caller gets an error, or the process stops.
Fails(q) ==
    /\ Faults /\ ~Free(q)
    /\ Answer(q)
    /\ broken' = broken \cup {a \in Artifacts : q \in Normalizing(a)}
    /\ UNCHANGED <<feed, raw, records, overlapped>>

Step(q) ==
    \/ insertRawArtifactRow(q) \/ InsertFails(q) \/ finalizeIngestionRun(q)
    \/ findExistingRawArtifact(q) \/ GetRawArtifact(q) \/ normalizeManualToDocsPage(q)
    \/ ProcessQueuedRawArtifact(q)
    \/ ClearRecords(q) \/ normalizeManualArtifactFromMeta(q)
    \/ Fails(q)

Uploads(q) ==
    \/ \E c \in Contents : IngestManual(q, c, TRUE) \/ IngestManualFile(q, c)
    \/ IngestManualPage(q)

Changes(q) == \E a \in Artifacts : DeleteManualArtifact(q, a) \/ RenormalizeManualArtifact(q, a)

Deliveries(q) == SlackWebhook(q) \/ MattermostWebhook(q)

Next ==
    \/ SetArchived
    \/ \E q \in Requests : Uploads(q) \/ Changes(q) \/ Deliveries(q) \/ Step(q)

Spec == Init /\ [][Next]_vars

-----------------------------------------------------------------------------
(* Properties.                                                              *)

\* However uploads, renormalizations and deletions of one artifact interleave, it has a
\* record, or a request that will write one is at work, or one broke off or failed to.
NoSilentRecordLoss ==
    \A a \in Artifacts : Exists(a) /\ records[a] = 0 => Normalizing(a) # {} \/ a \in broken

\* The comment on RenormalizeManualArtifact, as far as the code keeps it: an artifact has two
\* records only if two requests normalized it at once and none has rebuilt it alone since.
OneRecordPerArtifact == \A a \in Artifacts : records[a] > 1 => a \in overlapped

\* An upload answered as a duplicate was given the artifact that holds its content, unless
\* that one is deleted by now; a delivery that was answered 200 is in the table if it held anything, or its
\* run does not say completed.
AnswersAreKept ==
    \A q \in Requests :
        /\ At(q, "deduped") /\ Exists(req[q].art) => raw[req[q].art].content = req[q].content
        /\ At(q, "accepted") /\ req[q].content # None =>
             \/ \E a \in Artifacts : Exists(a) /\ raw[a].content = req[q].content
             \/ req[q].run # "completed"

=============================================================================
