-------------------------- MODULE EntityLifecycle --------------------------
(***************************************************************************)
(* One knowledge entity under concurrent PATCH, publish and promote        *)
(* requests (EntityRepo of knowledge_core).  Each request reads the row    *)
(* outside its transaction, keeps the copy, and later writes from it.      *)
(* The transaction is one step: its first statement locks the row, so the  *)
(* transactions of one entity run one after the other; the exception, a    *)
(* promotion whose UPDATE matches no row, either commits alone or fails on *)
(* UNIQUE (entity_id, version_number), which is TxFails.                   *)
(*                                                                         *)
(* Title, summary and body are left out: PATCH treats them as it treats    *)
(* the two columns kept here, and publish and promote do not write them.   *)
(* archived_at is NULL throughout: no code sets it.                        *)
(***************************************************************************)
EXTENDS Naturals, Sequences

CONSTANTS
    Requests,     \* HTTP requests in flight
    Lifecycles,   \* values of lifecycle_state
    TruthModes,   \* values of truth_mode
    MaxVersions   \* bound on the number of entity_versions rows

ASSUME VocabularyAssumption ==
    /\ {"draft", "published"} \subseteq Lifecycles
    /\ {"derived", "canonical_in_platform"} \subseteq TruthModes
    /\ MaxVersions \in Nat

VARIABLES
    row,        \* entities: lifecycle_state, truth_mode, approval_status
    versions,   \* entity_versions in the order of version_number
    projection, \* entity_search_projection: lifecycle_state, truth_mode
    request     \* request[c]: the call it makes, its stage and what it read

vars == <<row, versions, projection, request>>

Keep == "keep"    \* a field absent from the body of PATCH
Patches == [life : (Lifecycles \ {"published"}) \cup {Keep}, truth : TruthModes \cup {Keep}]
NoPatch == [life |-> Keep, truth |-> Keep]

Rows == [life : Lifecycles, truth : TruthModes, approval : {"none", "approved"}]
Changes == {"create", "patch", "publish", "promote"}
Versions == [change : Changes, life : Lifecycles, truth : TruthModes]
Views == [life : Lifecycles, truth : TruthModes]
Calls == {"none", "patch", "publish", "promote"}

TypeOK ==
    /\ row \in Rows
    /\ versions \in Seq(Versions)
    /\ projection \in Views
    /\ request \in [Requests -> [call : Calls, copy : Rows, patch : Patches]]

View(r) == [life |-> r.life, truth |-> r.truth]
Snapshot(change, r) == [change |-> change, life |-> r.life, truth |-> r.truth]
Idle == [call |-> "none", copy |-> [life |-> "draft", truth |-> "derived", approval |-> "none"],
         patch |-> NoPatch]

\* What EntityRepo.Create leaves: the row, version 1 and the projection agree.
Init ==
    /\ row \in {r \in Rows : r.approval = "none"}
    /\ versions = <<Snapshot("create", row)>>
    /\ projection = View(row)
    /\ request = [c \in Requests |-> Idle]

-----------------------------------------------------------------------------
\* Get, outside the transaction.
Read(c, call, patch) ==
    /\ request[c] = Idle
    /\ request' = [request EXCEPT ![c] = [call |-> call, copy |-> row, patch |-> patch]]
    /\ UNCHANGED <<row, versions, projection>>

\* Patch refuses lifecycle_state=published, and only that: Patches excludes it.
\* NoPatch is a PATCH of the title alone.
PatchReads(c) == \E p \in Patches : Read(c, "patch", p)

\* Publish returns the unchanged row when it reads an entity already published.
PublishReads(c) == row.life # "published" /\ Read(c, "publish", NoPatch)

\* Only an entity read as derived is promoted.
PromoteReads(c) == row.truth = "derived" /\ Read(c, "promote", NoPatch)

\* version_number = MAX + 1 within the transaction.
AddVersion(v) ==
    /\ Len(versions) < MaxVersions
    /\ versions' = Append(versions, v)

Finish(c) == request' = [request EXCEPT ![c] = Idle]

Patched(r, p) == [r EXCEPT !.life = IF p.life = Keep THEN @ ELSE p.life,
                           !.truth = IF p.truth = Keep THEN @ ELSE p.truth]

\* UPDATE of every patchable column from the copy, whatever the row holds now.
PatchWrites(c) ==
    /\ request[c].call = "patch"
    /\ LET e == Patched(request[c].copy, request[c].patch) IN
         /\ row' = [row EXCEPT !.life = e.life, !.truth = e.truth]
         /\ AddVersion(Snapshot("patch", e))
         /\ projection' = View(e)
    /\ Finish(c)

\* Mutant: search is not told of the publication.
PublishWithoutProjection(c) ==
    /\ request[c].call = "publish"
    /\ row' = [row EXCEPT !.life = "published", !.approval = "approved"]
    /\ AddVersion(Snapshot("publish", [request[c].copy EXCEPT !.life = "published"]))
    /\ UNCHANGED projection
    /\ Finish(c)

\* UPDATE ... lifecycle_state='published' without looking at the state it replaces.
PublishWrites(c) ==
    /\ request[c].call = "publish"
    /\ row' = [row EXCEPT !.life = "published", !.approval = "approved"]
    /\ AddVersion(Snapshot("publish", [request[c].copy EXCEPT !.life = "published"]))
    /\ projection' = [projection EXCEPT !.life = "published"]
    /\ Finish(c)

\* The UPDATE is guarded by truth_mode='derived'; the version and the projection
\* are written even when it matched no row.
PromoteWrites(c) ==
    /\ request[c].call = "promote"
    /\ row' = IF row.truth = "derived"
              THEN [row EXCEPT !.truth = "canonical_in_platform", !.approval = "approved"]
              ELSE row
    /\ AddVersion(Snapshot("promote", [request[c].copy EXCEPT !.truth = "canonical_in_platform"]))
    /\ projection' = [projection EXCEPT !.truth = "canonical_in_platform"]
    /\ Finish(c)

\* A statement fails, the request is cancelled or the process stops: rollback.
TxFails(c) ==
    /\ request[c] # Idle
    /\ Finish(c)
    /\ UNCHANGED <<row, versions, projection>>

Next == \E c \in Requests :
    \/ PatchReads(c) \/ PublishReads(c) \/ PromoteReads(c)
    \/ PatchWrites(c) \/ PublishWrites(c) \/ PromoteWrites(c) \/ TxFails(c)

Spec == Init /\ [][Next]_vars

-----------------------------------------------------------------------------
Latest == versions[Len(versions)]
Published(r) == r.life = "published"

\* Search never shows another lifecycle than the row's, in any order of commits.
ProjectionLifecycleAgrees == projection.life = row.life

\* The projection's truth mode differs from the row's only after a promotion
\* that lost its race: search then says canonical although the row is not.
ProjectionTruthAgrees ==
    projection.truth = row.truth \/ projection.truth = "canonical_in_platform"

\* The newest version tells what the row is, up to what a publication or a
\* promotion copied from its earlier read.
LatestVersionDescribesRow ==
    /\ Latest.change # "promote" => Latest.life = row.life
    /\ Latest.change \in {"create", "patch"} => Latest.truth = row.truth

\* Some version that a creation, a PATCH or a publication wrote is published.
OncePublished == \E i \in 1..Len(versions) : versions[i].change # "promote" /\ Published(versions[i])

\* An entity becomes published by Publish, or by a PATCH that had read it
\* published: a write-back of a state that was once reached, never a new one.
PublishedWasPublishedBefore ==
    [][~Published(row) /\ Published(row') => Latest'.change = "publish" \/ OncePublished]_vars

\* What makes these true: a published row, and a published copy that a request
\* still holds, are on record in the versions.
EntityInv ==
    /\ Len(versions) > 0
    /\ ProjectionLifecycleAgrees
    /\ ProjectionTruthAgrees
    /\ LatestVersionDescribesRow
    /\ Published(row) => OncePublished
    /\ \A c \in Requests : Published(request[c].copy) => OncePublished
=============================================================================
