--------------------------- MODULE ResponseCache ---------------------------
(***************************************************************************)
(* Answers kept in the process (cache.bigcacheBackend) over the search     *)
(* index and the grants.  A GET computes its answer on a miss and stores   *)
(* it; a write of an entity reindexes it, and a write that is announced    *)
(* drops the entries under a prefix.  BigCache cannot list its keys, so a  *)
(* second map mirrors them, and DeletePrefix goes by the mirror: an entry  *)
(* is a pair of states in two maps that no lock holds together.            *)
(*                                                                         *)
(* An answer is abstracted to what it saw: how many publications, for a    *)
(* search, or how many changes of the user's grants.  The entity's title   *)
(* and body are a counter of their revisions, and so is its document in    *)
(* OpenSearch.  The statements of an access evaluation are module Access;  *)
(* here an evaluation reads once.  Entries of the engine metadata never    *)
(* change and are left out, as is the log line of every search.            *)
(***************************************************************************)
EXTENDS Naturals, FiniteSets

CONSTANTS
    Users,      \* principals
    Keys,       \* cache keys that requests ask for
    Readers,    \* GET requests in flight
    Writers,    \* writing requests in flight
    Plans,      \* bound: the keys asked for and the calls made in one behaviour
    MaxWrites   \* bound on the changes of each kind

Namespaces == {"domains", "eff-access", "search-kw"}
Calls == {"patch", "publish", "grant"}
KeysNamed == [ns : Namespaces, asker : Users, target : Users]

ASSUME KeysAssumption ==
    /\ Keys # {} /\ Keys \subseteq {k \in KeysNamed : k.ns # "eff-access" => k.asker = k.target}
    /\ Plans \subseteq [keys : SUBSET Keys, calls : SUBSET (Calls \cup {"quiet"})]
    /\ MaxWrites \in Nat

VARIABLES
    plan,       \* what the requests of this behaviour ask for and do
    entity,     \* the row and its projection: text and life, and how often it was published
    doc,        \* the text the search index has of it
    grants,     \* grants[u]: domain_grants and bindings of u, and how often they changed
    store,      \* BigCache: store[k], the answer kept for k, if any
    mirror,     \* the keys bigcacheBackend.keys has
    reader,     \* reader[r]: its key, where it is, what it saw
    writer,     \* writer[w]: its call, where it is, what it holds
    told,       \* told[k]: the last change of what k answers whose drop is done
    escaped,    \* keys whose entry a drop may have missed: see DroppedIsGone
    astray      \* a reindex failed, or met another one, and none came after it

written == <<entity, doc, grants, writer, told, astray>>    \* what no GET changes
cvars == <<plan, entity, doc, grants, store, mirror, reader, writer, told, escaped, astray>>

NoAnswer == [saw |-> 0, hit |-> FALSE, kept |-> FALSE]
Answers == [saw : 0..MaxWrites, hit : BOOLEAN, kept : BOOLEAN]
Reading == {"idle", "missed", "compute", "index", "hydrate", "filter", "set", "mirror"}
Writing == {"idle", "write", "read", "upsert", "drop", "unmirror"}
AnyKey == CHOOSE k \in Keys : TRUE
AtRest == [at |-> "idle", call |-> "patch", user |-> CHOOSE u \in Users : TRUE, copy |-> 0,
           met |-> FALSE, news |-> 0, todo |-> {}, key |-> AnyKey]

CacheTypeOK ==
    /\ plan \in Plans
    /\ entity \in [text : 0..MaxWrites, life : {"draft", "published"}, pubs : 0..MaxWrites]
    /\ doc \in 0..MaxWrites
    /\ grants \in [Users -> [given : BOOLEAN, changes : 0..MaxWrites]]
    /\ store \in [Keys -> Answers]
    /\ mirror \subseteq Keys /\ escaped \subseteq Keys
    /\ reader \in [Readers -> [at : Reading, key : Keys, answer : Answers]]
    /\ writer \in [Writers -> [at : Writing, call : Calls, user : Users, copy : 0..MaxWrites,
                               met : BOOLEAN, news : 0..MaxWrites, todo : SUBSET Keys, key : Keys]]
    /\ told \in [Keys -> 0..MaxWrites]
    /\ astray \in BOOLEAN

CacheInit ==
    /\ plan \in Plans
    /\ entity = [text |-> 0, life |-> "draft", pubs |-> 0]
    /\ doc = 0
    /\ grants = [u \in Users |-> [given |-> TRUE, changes |-> 0]]
    /\ store = [k \in Keys |-> NoAnswer]
    /\ mirror = {} /\ escaped = {}
    /\ reader = [r \in Readers |-> [at |-> "idle", key |-> AnyKey, answer |-> NoAnswer]]
    /\ writer = [w \in Writers |-> AtRest]
    /\ told = [k \in Keys |-> 0]
    /\ astray = FALSE

---------------------------------------------------------------------------
(* GET /search, /domains and /users/:id/effective-access.                  *)

Read(r, at, answer) == reader' = [reader EXCEPT ![r].at = at, ![r].answer = answer]

\* bigcacheBackend.Get: an entry is the answer, and the request is over.
Get(r, k) ==
    /\ reader[r].at = "idle"
    /\ ~store[k].kept
    /\ reader' = [reader EXCEPT ![r] = [at |-> "missed", key |-> k, answer |-> NoAnswer]]
    /\ UNCHANGED <<written, store, mirror, escaped>>

\* A miss removes the key from the mirror, whatever was stored since the look.
GetTidies(r) ==
    LET k == reader[r].key IN
    /\ reader[r].at = "missed"
    /\ mirror' = mirror \ {k}
    /\ Read(r, "compute", NoAnswer)
    /\ UNCHANGED <<written, store, escaped>>

\* ListDomainsForUser, or Evaluate for the user asked about.
Compute(r) ==
    LET k == reader[r].key IN
    /\ reader[r].at = "compute" /\ k.ns # "search-kw"
    /\ Read(r, "set", [saw |-> grants[k.target].changes, hit |-> grants[k.target].given, kept |-> TRUE])
    /\ UNCHANGED <<written, store, mirror, escaped>>

\* Search: without a granted domain the answer is empty, and OpenSearch is not asked.
SearchDomains(r) ==
    LET k == reader[r].key IN
    /\ reader[r].at = "compute" /\ k.ns = "search-kw"
    /\ IF grants[k.asker].given
       THEN Read(r, "index", NoAnswer)
       ELSE Read(r, "set", [saw |-> entity.pubs, hit |-> FALSE, kept |-> TRUE])
    /\ UNCHANGED <<written, store, mirror, escaped>>

\* SearchEntityIDs: the words asked for are in the document's text, or are not.
SearchIndex(r) ==
    /\ reader[r].at = "index"
    /\ \E found \in BOOLEAN :
          IF found THEN Read(r, "hydrate", NoAnswer)
                   ELSE Read(r, "set", [saw |-> entity.pubs, hit |-> FALSE, kept |-> TRUE])
    /\ UNCHANGED <<written, store, mirror, escaped>>

\* hitsFromOrderedIDs reads the projection of what was found.
Hydrate(r) ==
    /\ reader[r].at = "hydrate"
    /\ Read(r, "filter", [saw |-> entity.pubs, hit |-> TRUE, kept |-> TRUE])
    /\ UNCHANGED <<written, store, mirror, escaped>>

\* Without OpenSearch the rows are asked for the words themselves.
SearchRows(r) ==
    /\ reader[r].at = "index"
    /\ \E found \in BOOLEAN :
          Read(r, IF found THEN "filter" ELSE "set", [saw |-> entity.pubs, hit |-> found, kept |-> TRUE])
    /\ UNCHANGED <<written, store, mirror, escaped>>

\* filterHitsByEntityView asks for the grant again.
FilterHits(r) ==
    /\ reader[r].at = "filter"
    /\ Read(r, "set", [reader[r].answer EXCEPT !.hit = grants[reader[r].key.asker].given])
    /\ UNCHANGED <<written, store, mirror, escaped>>

\* bigcacheBackend.Set: the entry first, then its key.
Set(r) ==
    LET k == reader[r].key IN
    /\ reader[r].at = "set"
    /\ store' = [store EXCEPT ![k] = reader[r].answer]
    /\ Read(r, "mirror", NoAnswer)
    /\ UNCHANGED <<written, mirror, escaped>>

\* Mutant: the key is not mirrored.
SetAlone(r) ==
    /\ reader[r].at = "mirror"
    /\ Read(r, "idle", NoAnswer)
    /\ UNCHANGED <<written, store, mirror, escaped>>

SetMirrors(r) ==
    /\ reader[r].at = "mirror"
    /\ mirror' = mirror \cup {reader[r].key}
    /\ Read(r, "idle", NoAnswer)
    /\ UNCHANGED <<written, store, escaped>>

\* A statement, OpenSearch or BigCache's Set fails: the answer is an error, or is not kept.
ReadFails(r) ==
    LET k == reader[r].key IN
    /\ reader[r].at \in {"compute", "index", "hydrate", "filter", "set"}
    /\ Read(r, "idle", NoAnswer)
    /\ escaped' = IF store[k].kept /\ k \notin mirror THEN escaped \cup {k} ELSE escaped
    /\ UNCHANGED <<written, store, mirror>>

\* BigCache evicts an entry past its TTL; the mirror keeps the key.
Expire(k) ==
    /\ store[k].kept
    /\ store' = [store EXCEPT ![k] = NoAnswer]
    /\ UNCHANGED <<written, mirror, reader, escaped>>

---------------------------------------------------------------------------
(* PATCH, publish and approve of the entity; grants and role bindings.     *)

Busy(k) == \E r \in Readers : reader[r].at # "idle" /\ reader[r].key = k

\* Mutant: the prefix of the other namespace alone.
MatchesDomainsOnly(call, u, k) ==
    \/ call = "publish" /\ k.ns = "search-kw"
    \/ call = "grant" /\ k.ns = "domains" /\ k.asker = u

\* Which entries deletePrefix finds for the prefixes of EntityPublished and RoleGranted.
\* The prefix of a user ends in a colon, DomainsKey does not have one.
Matches(call, u, k) ==
    \/ call = "publish" /\ k.ns = "search-kw"
    \/ call = "grant" /\ k.ns = "eff-access" /\ k.asker = u

Dropping(call, u, news) ==
    [AtRest EXCEPT !.at = "drop", !.call = call, !.user = u, !.news = news,
                   !.todo = {k \in plan.keys : Matches(call, u, k)}]

\* EntityRepo.Patch: the route reindexes and announces nothing.
Patch(w) ==
    /\ "patch" \in plan.calls
    /\ writer[w].at = "idle" /\ entity.text < MaxWrites
    /\ \E life \in {entity.life, "draft"} :
          entity' = [entity EXCEPT !.text = @ + 1, !.life = life]
    /\ writer' = [writer EXCEPT ![w].at = "read"]
    /\ UNCHANGED <<doc, grants, store, mirror, reader, told, escaped, astray>>

\* EntityRepo.Publish, called by the publish or by the approve route.
Publish(w) ==
    /\ "publish" \in plan.calls
    /\ writer[w].at = "idle" /\ entity.life = "draft" /\ entity.pubs < MaxWrites
    /\ entity' = [entity EXCEPT !.life = "published", !.pubs = @ + 1]
    /\ writer' = [writer EXCEPT ![w].at = "read", ![w].call = "publish", ![w].news = entity.pubs + 1]
    /\ UNCHANGED <<doc, grants, store, mirror, reader, told, escaped, astray>>

\* ReindexEntity: SELECT, then the PUT.  met: another reindex came in between, or failed.
Holding(w) == {v \in Writers \ {w} : writer[v].at = "upsert"}

\* The writer goes on as it, and the reindexes that hold a copy have met it.
Meeting(w, it) ==
    writer' = [v \in Writers |-> IF v = w THEN it
                                 ELSE IF v \in Holding(w) THEN [writer[v] EXCEPT !.met = TRUE] ELSE writer[v]]

\* Mutant: the text from before the write is indexed.
ReadIndexed(w) ==
    /\ writer[w].at = "read"
    /\ Meeting(w, [writer[w] EXCEPT !.at = "upsert", !.copy = doc, !.met = Holding(w) # {}])
    /\ UNCHANGED <<entity, doc, grants, store, mirror, reader, told, escaped, astray>>

ReadRow(w) ==
    /\ writer[w].at = "read"
    /\ Meeting(w, [writer[w] EXCEPT !.at = "upsert", !.copy = entity.text, !.met = Holding(w) # {}])
    /\ UNCHANGED <<entity, doc, grants, store, mirror, reader, told, escaped, astray>>

Reindexed(it) == IF it.call = "publish" THEN Dropping("publish", it.user, it.news) ELSE AtRest

Upsert(w) ==
    /\ writer[w].at = "upsert"
    /\ doc' = writer[w].copy
    /\ astray' = writer[w].met
    /\ writer' = [writer EXCEPT ![w] = Reindexed(@)]
    /\ UNCHANGED <<entity, grants, store, mirror, reader, told, escaped>>

\* Every caller discards the error.
ReindexFails(w) ==
    /\ writer[w].at \in {"read", "upsert"}
    /\ astray' = TRUE
    /\ Meeting(w, Reindexed(writer[w]))
    /\ UNCHANGED <<entity, doc, grants, store, mirror, reader, told, escaped>>

Changed(u, given) == grants' = [grants EXCEPT ![u] = [given |-> given, changes |-> @.changes + 1]]

\* POST, PATCH and DELETE of a domain grant, and Assign of a role, are announced.
ChangeGrant(w, u) ==
    /\ "grant" \in plan.calls
    /\ writer[w].at = "idle" /\ grants[u].changes < MaxWrites
    /\ \E given \in BOOLEAN : Changed(u, given)
    /\ writer' = [writer EXCEPT ![w] = Dropping("grant", u, grants[u].changes + 1)]
    /\ UNCHANGED <<entity, doc, store, mirror, reader, told, escaped, astray>>

\* The routes of role bindings, an accepted invitation and an import announce nothing.
ChangeQuietly(u) ==
    /\ "quiet" \in plan.calls
    /\ grants[u].changes < MaxWrites
    /\ \E given \in BOOLEAN : Changed(u, given)
    /\ UNCHANGED <<entity, doc, store, mirror, reader, writer, told, escaped, astray>>

\* DeletePrefix visits the mirror in any order, and one added meanwhile or not.
Visit(w, k) ==
    /\ writer[w].at = "drop" /\ k \in writer[w].todo
    /\ IF k \in mirror
       THEN /\ store' = [store EXCEPT ![k] = NoAnswer]
            /\ writer' = [writer EXCEPT ![w].at = "unmirror", ![w].key = k, ![w].todo = @ \ {k}]
       ELSE /\ writer' = [writer EXCEPT ![w].todo = @ \ {k}]
            /\ UNCHANGED store
    /\ escaped' = IF Busy(k) \/ (store[k].kept /\ k \notin mirror) THEN escaped \cup {k} ELSE escaped
    /\ UNCHANGED <<entity, doc, grants, mirror, reader, told, astray>>

Unmirror(w) ==
    LET k == writer[w].key IN
    /\ writer[w].at = "unmirror"
    /\ mirror' = mirror \ {k}
    /\ writer' = [writer EXCEPT ![w].at = "drop", ![w].key = AnyKey]
    /\ escaped' = IF Busy(k) \/ store[k].kept THEN escaped \cup {k} ELSE escaped \ {k}
    /\ UNCHANGED <<entity, doc, grants, store, reader, told, astray>>

\* What the comment on Invalidator says a drop is for: every search, and a user's own access.
\* It says the domains of the user as well, which no prefix matches.
Concerns(call, u, k) ==
    \/ call = "publish" /\ k.ns = "search-kw"
    \/ call = "grant" /\ k.ns = "eff-access" /\ k.asker = u /\ k.target = u

DropDone(w) ==
    LET it == writer[w]
        Later(a, b) == IF a > b THEN a ELSE b IN
    /\ it.at = "drop" /\ it.todo = {}
    /\ told' = [k \in Keys |-> IF Concerns(it.call, it.user, k) THEN Later(told[k], it.news) ELSE told[k]]
    /\ writer' = [writer EXCEPT ![w] = AtRest]
    /\ UNCHANGED <<entity, doc, grants, store, mirror, reader, escaped, astray>>

\* The process stops: the cache is gone, and what was under way is not taken up again.
Stop ==
    /\ store' = [k \in Keys |-> NoAnswer]
    /\ mirror' = {} /\ escaped' = {}
    /\ reader' = [r \in Readers |-> [at |-> "idle", key |-> AnyKey, answer |-> NoAnswer]]
    /\ writer' = [w \in Writers |-> AtRest]
    /\ astray' = (astray \/ \E w \in Writers : writer[w].at \in {"read", "upsert"})
    /\ UNCHANGED <<entity, doc, grants, told>>

Serve(r) ==
    \/ \E k \in plan.keys : Get(r, k)
    \/ GetTidies(r) \/ Compute(r)
    \/ SearchDomains(r) \/ SearchIndex(r) \/ Hydrate(r) \/ SearchRows(r) \/ FilterHits(r)
    \/ Set(r) \/ SetMirrors(r) \/ ReadFails(r)

Write(w) ==
    \/ Patch(w) \/ Publish(w) \/ ReadRow(w) \/ Upsert(w) \/ ReindexFails(w)
    \/ \E u \in Users : ChangeGrant(w, u)
    \/ \E k \in Keys : Visit(w, k)
    \/ Unmirror(w) \/ DropDone(w)

CacheNext ==
    /\ UNCHANGED plan
    /\ \/ \E r \in Readers : Serve(r)
       \/ \E w \in Writers : Write(w)
       \/ \E k \in Keys : Expire(k)
       \/ \E u \in Users : ChangeQuietly(u)
       \/ Stop

CacheSpec == CacheInit /\ [][CacheNext]_cvars

---------------------------------------------------------------------------
(* Properties.                                                             *)

\* Once a publication, or a change of a user's grants, has been announced, no answer from
\* before it is kept for a search, or for that user's own access, but under a key that escaped:
\* a request for it was under way during the drop, or its entry was not mirrored
\* (Invalidator.deletePrefix, bigcacheBackend.DeletePrefix).
DroppedIsGone ==
    \A k \in Keys : store[k].kept /\ store[k].saw < told[k] => k \in escaped

\* An entry whose key the mirror lacks, which no drop would find, is left only by a request
\* that failed after its miss tidied away the key another one had just mirrored, or by a drop
\* that met a Set (bigcacheBackend.Get, Set and DeletePrefix touch the two maps one by one).
EntriesAreMirrored ==
    \A k \in Keys : store[k].kept /\ k \notin mirror => Busy(k) \/ k \in escaped

\* When no request is between its write and its reindex, the search index has the present text,
\* unless the last reindex met another one, failed, or was broken off (Service.ReindexEntity,
\* whose error every route discards).
IndexFollowsRow ==
    (\A w \in Writers : writer[w].at \notin {"read", "upsert"}) => doc = entity.text \/ astray

=============================================================================
