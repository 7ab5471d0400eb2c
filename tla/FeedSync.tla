------------------------------ MODULE FeedSync ------------------------------
(***************************************************************************)
(* Polled ingestion: the Sync* adapters of ingestion_connectors.  A sync   *)
(* request runs the whole adapter inside the request; nothing keeps two    *)
(* requests for one feed apart, and a process that stops leaves the rows   *)
(* as they are.                                                            *)
(*                                                                         *)
(* One feed is modelled, and the adapter it uses is chosen in SyncInit:    *)
(* all adapters run the same steps and differ in the traits below, one     *)
(* record per adapter.  The vendor's items are numbered in the order they  *)
(* are posted; an edit gives an item a new stamp (modified_at,             *)
(* reply_count) and may change its content or bring an old content back.   *)
(* External: the vendor's API answers a listing with what is there at that *)
(* moment, after the cursor it is given.                                   *)
(***************************************************************************)
EXTENDS Naturals, FiniteSets

CONSTANTS
    MaxItems,   \* number of items the vendor's channel or project ever has
    Replies,    \* items that are later replies to, or comments on, item 1
    Edited,     \* items that are edited at the vendor
    Folders,    \* items that are folders where the adapter knows folders
    Syncs,      \* sync requests
    Window,     \* how many items one response lists
    MaxPages,   \* how many responses an adapter that pages asks for
    MaxStamp    \* bound on the edits of one item

Items == 1..MaxItems

ASSUME ItemsAssumption == /\ MaxItems \in Nat \ {0}
                          /\ Replies \subseteq 2..MaxItems
                          /\ Folders \subseteq Items /\ Edited \subseteq Items
ASSUME BoundsAssumption == Window \in Nat \ {0} /\ MaxPages \in Nat \ {0} /\ MaxStamp \in Nat

-----------------------------------------------------------------------------
(* What the adapters differ in.                                             *)
(*   cursor     lists what follows the saved cursor, saves the newest item  *)
(*              it saw and writes sync_status when it ends                  *)
(*   oldest     a listing is cut at the oldest items, not at the newest     *)
(*   fetch      "batch": one request; "page": a request per page, the first *)
(*              failure ends the listing; "item": a request per item        *)
(*   rawStamp, normStamp   the hash of the raw row, of the normalized       *)
(*              record, covers the stamp and not only the content           *)
(*   replies    "thread": messages fetched after each listed parent;        *)
(*              "comments": raw rows fetched for a new parent; "none":      *)
(*              listed with the items, or not at all                        *)
(*   counted    a failure to fetch comments counts as an error of the run   *)
(*   folders    folders get a raw row and no normalized record              *)
(*   leaks      a request that cannot be built returns without finalizing   *)
(*   editable   an item can be listed again with another content            *)

Traits == [cursor : BOOLEAN, oldest : BOOLEAN, fetch : {"batch", "page", "item"},
           rawStamp : BOOLEAN, normStamp : BOOLEAN,
           replies : {"thread", "comments", "none"}, counted : BOOLEAN,
           folders : BOOLEAN, leaks : BOOLEAN, editable : BOOLEAN]

Plain == [cursor |-> FALSE, oldest |-> FALSE, fetch |-> "batch", rawStamp |-> FALSE,
          normStamp |-> FALSE, replies |-> "none", counted |-> TRUE, folders |-> FALSE,
          leaks |-> FALSE, editable |-> TRUE]
Stamped == [Plain EXCEPT !.rawStamp = TRUE, !.normStamp = TRUE]

\* Chat: the three with a cursor, and Teams.
Telegram   == [Plain EXCEPT !.cursor = TRUE, !.oldest = TRUE, !.editable = FALSE]
Slack      == [Plain EXCEPT !.cursor = TRUE, !.fetch = "page", !.rawStamp = TRUE, !.replies = "thread"]
Mattermost == [Plain EXCEPT !.cursor = TRUE]
Teams      == Plain
\* Work management, support and CRM.
Jira       == [Plain EXCEPT !.leaks = TRUE]
Trello     == [Plain EXCEPT !.rawStamp = TRUE]
Linear     == [Stamped EXCEPT !.replies = "comments", !.counted = FALSE]
Asana      == [Stamped EXCEPT !.replies = "comments"]
Zendesk    == [Stamped EXCEPT !.replies = "comments", !.counted = FALSE, !.leaks = TRUE]
HubSpot    == Stamped
Intercom   == Stamped
\* Documents and files.
NotionPage      == [Plain EXCEPT !.normStamp = TRUE]
Notion          == [NotionPage EXCEPT !.fetch = "item"]
ConfluencePage  == Stamped
ConfluenceSpace == ConfluencePage
ConfluenceTree  == [ConfluencePage EXCEPT !.fetch = "item"]
DriveFile       == [Plain EXCEPT !.normStamp = TRUE]
GoogleDrive     == [DriveFile EXCEPT !.fetch = "item"]
OneDrive        == [Stamped EXCEPT !.folders = TRUE]
HTTPURL         == Plain
Filesystem      == Plain
\* Mail, calendars and meetings.
Gmail          == [Plain EXCEPT !.fetch = "item", !.rawStamp = TRUE]
Outlook        == Plain
GoogleCalendar == [Plain EXCEPT !.rawStamp = TRUE]
M365Calendar   == Plain
Fireflies      == Plain

Adapters == {Telegram, Slack, Mattermost, Teams, Jira, Trello, Linear, Asana, Zendesk, HubSpot,
             Intercom, Notion, ConfluenceSpace, ConfluenceTree, GoogleDrive, OneDrive, HTTPURL,
             Filesystem, Gmail, Outlook, GoogleCalendar, M365Calendar, Fireflies}

-----------------------------------------------------------------------------
VARIABLES
    adapter,    \* the traits of the feed's adapter
    posted,     \* items that exist at the vendor
    item,       \* item[i]: its content and stamp at the vendor
    feed,       \* the source_feeds row
    raws,       \* rows of raw_artifacts: the version and the run that wrote it
    norms,      \* versions with a row in normalized_records
    run,        \* run[r]: the ingestion_runs row and the adapter's local state
    late        \* history: items posted while a sync was in progress, or into a thread
                \* that the cursor had passed

svars == <<adapter, posted, item, feed, raws, norms, run, late>>

Contents == {0, 1}
Versions == [id : Items, content : Contents, stamp : 0..MaxStamp]
Rows == [v : Versions, by : Syncs]
FeedStates == [active : BOOLEAN, sync : {"idle", "syncing", "error"}, cursor : 0..MaxItems]
RunRows == {"none", "running", "completed", "completed_with_errors", "failed"}
Persisting == {"raw", "comments", "norm", "thread"}
RunSteps == {"idle", "list", "finalize", "settle", "save", "done", "left", "crashed"}
            \cup Persisting
RunStates == [at : RunSteps, row : RunRows, cursor : 0..MaxItems,
              page : SUBSET Versions, todo : SUBSET Versions,
              replied : BOOLEAN, got : BOOLEAN, errs : BOOLEAN, cut : BOOLEAN]
NotRequested == [at |-> "idle", row |-> "none", cursor |-> 0, page |-> {}, todo |-> {},
                 replied |-> FALSE, got |-> FALSE, errs |-> FALSE, cut |-> FALSE]

TypeOK ==
    /\ adapter \in Traits
    /\ posted \subseteq Items
    /\ item \in [Items -> [content : Contents, stamp : 0..MaxStamp]]
    /\ feed \in FeedStates
    /\ raws \subseteq Rows
    /\ norms \subseteq Versions
    /\ run \in [Syncs -> RunStates]
    /\ late \subseteq posted

SyncInit ==
    /\ adapter \in Adapters
    /\ posted = {}
    /\ item = [i \in Items |-> [content |-> 0, stamp |-> 0]]
    /\ feed = [active |-> FALSE, sync |-> "idle", cursor |-> 0]
    /\ raws = {}
    /\ norms = {}
    /\ run = [r \in Syncs |-> NotRequested]
    /\ late = {}

InProgress(r) == run[r].at \notin {"idle", "done", "left", "crashed"}

-----------------------------------------------------------------------------
(* The vendor, and the administrator of the feed.                           *)

\* Replies matter only to adapters that fetch them apart from the items.
Seen == IF adapter.replies = "none" THEN Items \ Replies ELSE Items
Touched(i) == IF i \in Replies THEN {1} ELSE {}

\* Where an item is found: a reply in the thread of its parent.
Origin(i) == IF i \in Replies /\ adapter.replies = "thread" THEN 1 ELSE i

\* A comment or a reply gives its parent a new stamp (modified_at, updated_at, reply_count).
Post ==
    \E i \in Seen \ posted :
        /\ \A j \in Seen \ posted : i <= j
        /\ \A p \in Touched(i) : item[p].stamp < MaxStamp
        /\ posted' = posted \cup {i}
        /\ item' = [p \in Items |-> IF p \in Touched(i)
                                    THEN [item[p] EXCEPT !.stamp = @ + 1] ELSE item[p]]
        /\ late' = late \cup {j \in {i} : Origin(i) <= feed.cursor \/ \E r \in Syncs : InProgress(r)}
        /\ UNCHANGED <<adapter, feed, raws, norms, run>>

EditItem(i) ==
    /\ adapter.editable
    /\ i \in posted \cap Edited
    /\ item[i].stamp < MaxStamp
    /\ \E c \in Contents : item' = [item EXCEPT ![i] = [content |-> c, stamp |-> @.stamp + 1]]
    /\ UNCHANGED <<adapter, posted, feed, raws, norms, run, late>>

\* Activate and Resume; Pause and ArchiveSourceFeed.  A sync reads the status only when
\* it starts: without a request to come, a change of it changes nothing (a bound).
SetFeedStatus(active) ==
    /\ \E r \in Syncs : run[r].at = "idle"
    /\ feed.active # active
    /\ feed' = [feed EXCEPT !.active = active]
    /\ UNCHANGED <<adapter, posted, item, raws, norms, run, late>>

\* PATCH replaces the whole config, and a client that does not send the sync state back
\* drops it.
PatchSourceFeed ==
    /\ feed' = [feed EXCEPT !.cursor = 0]
    /\ UNCHANGED <<adapter, posted, item, raws, norms, run, late>>

-----------------------------------------------------------------------------
(* One sync.  Everything a step needs of the feed it takes from the copy    *)
(* read in the first one.                                                   *)

At(r, step) == run[r].at = step
Go(r, step) == run' = [run EXCEPT ![r].at = step]

\* GetSourceFeed, the check of its status, startIngestionRun.  What other requests do
\* between the read and the insert they may as well do before or after both.
startIngestionRun(r) ==
    /\ At(r, "idle")
    /\ feed.active
    /\ run' = [run EXCEPT ![r].at = "list", ![r].row = "running", ![r].cursor = feed.cursor]
    /\ feed' = [feed EXCEPT !.sync = "syncing"]
    /\ UNCHANGED <<adapter, posted, item, raws, norms, late>>

\* What the vendor has for a listing: replies in a thread are not listed with
\* the messages, comments come with their parent.
Listable == posted \ Replies

After(r) == IF adapter.cursor THEN {i \in Listable : i > run[r].cursor} ELSE Listable

\* The part of S that a listing returns; of a message it also tells whether there are replies
\* (reply_count).
Limit == IF adapter.fetch = "page" THEN MaxPages * Window ELSE Window
FirstOf(S) == {i \in S : Cardinality({j \in S : IF adapter.oldest THEN j < i ELSE j > i}) < Limit}
VersionsOf(S) == {[id |-> i, content |-> item[i].content, stamp |-> item[i].stamp] : i \in S}

List(r) ==
    /\ At(r, "list")
    /\ LET page == VersionsOf(FirstOf(After(r)))
       IN run' = [run EXCEPT ![r].page = page, ![r].todo = page,
                             ![r].at = IF page = {} THEN "finalize" ELSE "raw",
                             ![r].replied = (posted \cap Replies # {}),
                             ![r].cut = ~adapter.oldest /\ FirstOf(After(r)) # After(r)]
    /\ UNCHANGED <<adapter, posted, item, feed, raws, norms, late>>

ListFails(r) ==
    /\ At(r, "list")
    /\ run' = [run EXCEPT ![r].at = "finalize", ![r].errs = TRUE]
    /\ UNCHANGED <<adapter, posted, item, feed, raws, norms, late>>

\* http.NewRequest refuses the configured URL: the adapter returns at once.
LeaveRunning(r) ==
    /\ adapter.leaks
    /\ At(r, "list")
    /\ Go(r, "left")
    /\ UNCHANGED <<adapter, posted, item, feed, raws, norms, late>>

\* The version the adapter is at: the replies of a thread first, then the listing
\* in its order.
InThread(r) == {v \in run[r].todo : adapter.replies = "thread" /\ v.id \in Replies}
IsHead(r, v) ==
    IF InThread(r) # {}
    THEN v \in InThread(r) /\ \A w \in InThread(r) : v.id <= w.id
    ELSE /\ v \in run[r].todo
         /\ \A w \in run[r].todo : IF adapter.oldest THEN v.id <= w.id ELSE v.id >= w.id

\* The adapter is through with v: on to the replies of its thread, if it was listed with
\* some, the next item or the end.
Onward(todo) == IF todo = {} THEN "finalize" ELSE "raw"
Proceed(r, v, local) ==
    LET rest == local.todo \ {v}
    IN run' = [run EXCEPT ![r] = [local EXCEPT !.todo = rest,
              !.at = IF v.id = 1 /\ adapter.replies = "thread" /\ local.replied
                     THEN "thread" ELSE Onward(rest)]]
Failed(local) == [local EXCEPT !.errs = TRUE]

\* The hashes behind UNIQUE (source_feed_id, content_hash) and (source_feed_id, record_hash).
KeyOf(v, stamped) == IF stamped THEN v ELSE [v EXCEPT !.stamp = 0]
RawKnown(v) == \E w \in raws : KeyOf(w.v, adapter.rawStamp) = KeyOf(v, adapter.rawStamp)
NormKnown(v) == \E w \in norms : KeyOf(w, adapter.normStamp) = KeyOf(v, adapter.normStamp)
RawOnly(i) == \/ adapter.folders /\ i \in Folders
              \/ adapter.replies = "comments" /\ i \in Replies

\* A request for one item, for a later page, fails.
FetchFails(r, v) ==
    /\ At(r, "raw") /\ IsHead(r, v)
    /\ \/ /\ adapter.fetch = "item"
          /\ Proceed(r, v, Failed(run[r]))
       \/ /\ adapter.fetch = "page" /\ InThread(r) = {} /\ run[r].todo # run[r].page
          /\ run' = [run EXCEPT ![r].todo = {}, ![r].at = "finalize", ![r].errs = TRUE]
    /\ UNCHANGED <<adapter, posted, item, feed, raws, norms, late>>

\* INSERT ... ON CONFLICT DO NOTHING: only a new row is normalized.
insertRawArtifactRow(r, v) ==
    /\ At(r, "raw") /\ IsHead(r, v)
    /\ \/ RawKnown(v) /\ Proceed(r, v, run[r]) /\ UNCHANGED raws
       \/ /\ ~RawKnown(v)
          /\ raws' = raws \cup {[v |-> v, by |-> r]}
          /\ \/ RawOnly(v.id) /\ Proceed(r, v, run[r])
             \/ ~RawOnly(v.id) /\ Go(r, IF adapter.replies = "comments" /\ v.id = 1
                                        THEN "comments" ELSE "norm")
    /\ UNCHANGED <<adapter, posted, item, feed, norms, late>>

\* Mutant: the error of the insert is dropped, as it is for comments.
Mutant_InsertFailsSilently(r, v) ==
    /\ \/ At(r, "raw")
       \/ At(r, "norm")
    /\ IsHead(r, v)
    /\ Proceed(r, v, run[r])
    /\ UNCHANGED <<adapter, posted, item, feed, raws, norms, late>>
InsertFails(r, v) ==
    /\ \/ At(r, "raw")
       \/ At(r, "norm")
    /\ IsHead(r, v)
    /\ Proceed(r, v, Failed(run[r]))
    /\ UNCHANGED <<adapter, posted, item, feed, raws, norms, late>>

\* syncAsanaStories, syncZendeskComments, the comments of a Linear issue: raw rows
\* only, the errors of their inserts are dropped.
SyncComments(r) ==
    /\ At(r, "comments")
    /\ \E kept \in SUBSET {v \in VersionsOf(posted \cap Replies) : ~RawKnown(v)} :
          raws' = raws \cup [v : kept, by : {r}]
    /\ Go(r, "norm")
    /\ UNCHANGED <<adapter, posted, item, feed, norms, late>>

CommentsFail(r) ==
    /\ At(r, "comments")
    /\ run' = [run EXCEPT ![r].at = "norm", ![r].errs = @ \/ adapter.counted]
    /\ UNCHANGED <<adapter, posted, item, feed, raws, norms, late>>

InsertNormalized(r, v) ==
    /\ At(r, "norm") /\ IsHead(r, v)
    /\ norms' = norms \cup {w \in {v} : ~NormKnown(v)}
    /\ Proceed(r, v, [run[r] EXCEPT !.got = @ \/ ~NormKnown(v)])
    /\ UNCHANGED <<adapter, posted, item, feed, raws, late>>

\* conversations.replies of a listed parent, however far the cursor is.  (It lists the
\* parent again, which seenTS leaves out.)
SyncReplies(r) ==
    /\ At(r, "thread")
    /\ LET found == VersionsOf(posted \cap Replies)
       IN \/ run' = [run EXCEPT ![r].page = @ \cup found, ![r].todo = @ \cup found,
                                ![r].at = Onward(run[r].todo \cup found)]
          \/ run' = [run EXCEPT ![r].errs = TRUE, ![r].at = Onward(run[r].todo)]
    /\ UNCHANGED <<adapter, posted, item, feed, raws, norms, late>>

-----------------------------------------------------------------------------
(* The end of a sync: three statements in this order, their errors dropped. *)

syncRunStatusFromCounts(r) ==
    IF ~run[r].errs THEN "completed"
    ELSE IF run[r].got THEN "completed_with_errors" ELSE "failed"

finalizeIngestionRun(r) ==
    /\ At(r, "finalize")
    /\ run' = [run EXCEPT ![r].row = syncRunStatusFromCounts(r), ![r].at = "settle"]
    /\ UNCHANGED <<adapter, posted, item, feed, raws, norms, late>>

\* Mutant: a failed sync leaves sync_status alone.
Mutant_SettleOnSuccess(r) ==
    /\ At(r, "settle")
    /\ Go(r, IF adapter.cursor /\ run[r].page # {} THEN "save" ELSE "done")
    /\ feed' = [feed EXCEPT !.sync = IF ~adapter.cursor \/ run[r].errs THEN @ ELSE "idle"]
    /\ UNCHANGED <<adapter, posted, item, raws, norms, late>>
\* Only the adapters with a cursor pass withTelegramSyncStatus.
completeSourceFeedSync(r) ==
    /\ At(r, "settle")
    /\ Go(r, IF adapter.cursor /\ run[r].page # {} THEN "save" ELSE "done")
    /\ feed' = [feed EXCEPT !.sync = IF ~adapter.cursor THEN @
                                     ELSE IF run[r].errs THEN "error" ELSE "idle"]
    /\ UNCHANGED <<adapter, posted, item, raws, norms, late>>

\* Mutant: the cursor is what the vendor has by now.
Mutant_NewestPosted(r) == Cardinality(posted)
Newest(r) == CHOOSE i \in {0} \cup {v.id : v \in run[r].page} : \A v \in run[r].page : v.id <= i
\* The copy of the config read at the start, with the newest item seen.
SaveCursor(r) ==
    /\ At(r, "save")
    /\ feed' = [feed EXCEPT !.cursor = Newest(r)]
    /\ Go(r, "done")
    /\ UNCHANGED <<adapter, posted, item, raws, norms, late>>

\* The API process stops in the middle of the request.
Crash(r) ==
    /\ InProgress(r)
    /\ run' = [run EXCEPT ![r].at = "crashed", ![r].todo = {}, ![r].got = FALSE, ![r].errs = FALSE]
    /\ UNCHANGED <<adapter, posted, item, feed, raws, norms, late>>

Persist(r) == \E v \in run[r].todo : FetchFails(r, v) \/ insertRawArtifactRow(r, v)
                                     \/ InsertFails(r, v) \/ InsertNormalized(r, v)
SyncStep(r) ==
    \/ List(r) \/ ListFails(r) \/ LeaveRunning(r)
    \/ Persist(r) \/ SyncComments(r) \/ CommentsFail(r) \/ SyncReplies(r)
    \/ finalizeIngestionRun(r) \/ completeSourceFeedSync(r) \/ SaveCursor(r)

SyncNext ==
    \/ Post \/ \E i \in Items : EditItem(i)
    \/ \E active \in BOOLEAN : SetFeedStatus(active)
    \/ PatchSourceFeed
    \/ \E r \in Syncs : startIngestionRun(r) \/ SyncStep(r) \/ Crash(r)

SyncSpec == SyncInit /\ [][SyncNext]_svars

-----------------------------------------------------------------------------
(* Properties.                                                              *)

HasRecord(v) == \E w \in norms : w.id = v.id /\ w.content = v.content
Told(r) == run[r].errs \/ InProgress(r) \/ run[r].at = "crashed"

\* A raw row whose item never became a normalized record is never silent: the run
\* that wrote it is still at work, stopped with its process or counted an error.
\* (insertRawArtifactRow skips the row in every later run.)
OrphansAreReported ==
    \A w \in raws : HasRecord(w.v) \/ RawOnly(w.v.id) \/ Told(w.by)

\* What the saved cursor has passed, a reply with the parent of its thread, was normalized,
\* or a run that listed it or its parent told of its failure, or a listing was cut above
\* it.  Slack also loses what is posted between a listing and the replies it fetches,
\* and a reply to a message that was listed or that the cursor had passed.
CursorCovers ==
    \A i \in posted : adapter.cursor /\ Origin(i) <= feed.cursor =>
        \/ \E v \in norms : v.id = i
        \/ \E r \in Syncs : Told(r) /\ Origin(i) \in {v.id : v \in run[r].page}
        \/ \E r \in Syncs : run[r].cut /\ \A v \in run[r].page : Origin(i) < v.id
        \/ adapter.replies = "thread" /\ i \in late

\* With an adapter that settles sync_status, a feed is not left "syncing" by runs that
\* came to their end.
SyncStatusSettles ==
    adapter.cursor /\ feed.sync = "syncing" =>
        \E r \in Syncs : InProgress(r) \/ run[r].at = "crashed"
=============================================================================
