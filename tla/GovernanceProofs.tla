-------------------------- MODULE GovernanceProofs --------------------------
(***************************************************************************)
(* Proofs about what has to be approved and what the model may be sent:    *)
(* EntityLifecycle and ReviewFlow, for any number of requests and tasks,   *)
(* lifecycles, truth modes and versions; Placeholders and GovernedAsk, for *)
(* any entities, texts, spans, rules and plans.                            *)
(*                                                                         *)
(* EntityLifecycle: the invariants about the row, its projection and its   *)
(* newest version are inductive together with TypeOK.  The action property *)
(* needs more: a PATCH can only write back 'published' if it read it, so   *)
(* the invariant follows what every request still holds (OncePublished).   *)
(* ReviewFlow: reviews do to the entity only what EntityLifecycle allows,  *)
(* so that all proved about it holds beside them, and an approval is       *)
(* honoured or its failure on record.                                      *)
(*                                                                         *)
(* Placeholders: what the spans cut a text into is the text again, each    *)
(* placeholder stands for one value, and what goes back is what was taken  *)
(* out.  FlattenSeq and Rehydrate are recursive functions: a table of      *)
(* their values is shown to exist, or to agree with what is claimed, by    *)
(* looking at the least number for which it would not (Least).             *)
(* GovernedAsk: the prompt stands on the evidence and on the policy        *)
(* (PromptInv), and every property of the request follows from it.         *)
(***************************************************************************)
EXTENDS ReviewFlow, GovernedAsk, FiniteSetTheorems, SequenceTheorems, WellFoundedInduction, TLAPS

Inv == TypeOK /\ EntityInv

-----------------------------------------------------------------------------
(* One more version: it is the latest, and the others stay on record.      *)

LEMMA Appended ==
    ASSUME NEW v \in Versions, versions \in Seq(Versions), AddVersion(v)
    PROVE  /\ versions' \in Seq(Versions)
           /\ Len(versions') > 0
           /\ Latest' = v
           /\ OncePublished => OncePublished'
           /\ v.change # "promote" /\ Published(v) => OncePublished'
<1>1. /\ versions' \in Seq(Versions) /\ Len(versions) \in Nat /\ Len(versions') = Len(versions) + 1
      /\ \A i \in 1..Len(versions) : versions'[i] = versions[i]
      /\ versions'[Len(versions) + 1] = v
  BY DEF AddVersion
<1> QED BY <1>1 DEF Latest, OncePublished, Published

\* The parts of a well-typed state.
LEMMA RowTypes ==
    ASSUME TypeOK, NEW c \in Requests
    PROVE  /\ request[c].call \in Calls
           /\ request[c].copy \in Rows
           /\ request[c].patch \in Patches
           /\ row.life \in Lifecycles /\ row.truth \in TruthModes
           /\ request[c].copy.life \in Lifecycles /\ request[c].copy.truth \in TruthModes
BY DEF TypeOK, Rows

LEMMA IdleType == Idle \in [call : Calls, copy : Rows, patch : Patches]
BY VocabularyAssumption DEF Idle, Calls, Rows, Patches, NoPatch, Keep

LEMMA InitInv == Init => Inv
<1> SUFFICES ASSUME Init PROVE Inv OBVIOUS
<1>1. row \in Rows /\ row.life \in Lifecycles /\ row.truth \in TruthModes
  BY DEF Init, Rows
<1>2. Snapshot("create", row) \in Versions /\ View(row) \in Views
  BY <1>1 DEF Snapshot, Versions, Changes, View, Views
<1>3. TypeOK
  BY <1>1, <1>2, IdleType DEF Init, TypeOK
<1>4. Len(versions) = 1 /\ versions[1] = Snapshot("create", row)
  BY DEF Init
<1>5. Latest = Snapshot("create", row) /\ (Published(row) => OncePublished)
  BY <1>4 DEF Latest, OncePublished, Published, Snapshot
<1>6. \A c \in Requests : ~Published(request[c].copy)
  BY DEF Init, Idle, Published
<1>7. ProjectionLifecycleAgrees /\ ProjectionTruthAgrees /\ LatestVersionDescribesRow
  BY <1>5 DEF Init, View, Snapshot, ProjectionLifecycleAgrees, ProjectionTruthAgrees, LatestVersionDescribesRow
<1> QED BY <1>3, <1>4, <1>5, <1>6, <1>7 DEF Inv, EntityInv

-----------------------------------------------------------------------------
\* A request that reads keeps a copy of the row as it is.
LEMMA ReadStep ==
    ASSUME Inv, NEW c \in Requests, PatchReads(c) \/ PublishReads(c) \/ PromoteReads(c)
    PROVE  Inv'
<1>1. PICK call \in Calls, p \in Patches : Read(c, call, p)
  <2>1. NoPatch \in Patches
    BY DEF NoPatch, Patches
  <2> QED BY <2>1 DEF PatchReads, PublishReads, PromoteReads, Calls
<1>2. TypeOK'
  <2>1. row \in Rows
    BY DEF Inv, TypeOK
  <2>2. [call |-> call, copy |-> row, patch |-> p] \in [call : Calls, copy : Rows, patch : Patches]
    BY <2>1
  <2> QED BY <1>1, <2>2 DEF Inv, TypeOK, Read
<1>3. \A d \in Requests : request'[d].copy = request[d].copy \/ request'[d].copy = row
  BY <1>1 DEF Inv, TypeOK, Read
<1>4. EntityInv'
  BY <1>1, <1>3 DEF Inv, EntityInv, Read, ProjectionLifecycleAgrees, ProjectionTruthAgrees,
     LatestVersionDescribesRow, Latest, OncePublished, Published
<1> QED BY <1>2, <1>4 DEF Inv

\* A request that is over holds no copy.
LEMMA Finished ==
    ASSUME TypeOK, NEW c \in Requests, Finish(c)
    PROVE  /\ request' \in [Requests -> [call : Calls, copy : Rows, patch : Patches]]
           /\ \A d \in Requests : Published(request'[d].copy) => Published(request[d].copy)
BY IdleType DEF TypeOK, Finish, Idle, Published

\* PATCH writes row, version and projection from one and the same value.
LEMMA PatchStep ==
    ASSUME Inv, NEW c \in Requests, PatchWrites(c)
    PROVE  Inv' /\ (Published(row') => OncePublished)
<1> DEFINE e == Patched(request[c].copy, request[c].patch)
<1>1. e.life \in Lifecycles /\ e.truth \in TruthModes
      /\ (Published(e) => Published(request[c].copy))
  <2>1. request[c].patch.life \in (Lifecycles \ {"published"}) \cup {Keep}
        /\ request[c].patch.truth \in TruthModes \cup {Keep}
    BY RowTypes DEF Inv, Patches
  <2>2. request[c].copy \in [life : Lifecycles, truth : TruthModes, approval : {"none", "approved"}]
    BY RowTypes DEF Inv, Rows
  <2> QED BY <2>1, <2>2 DEF Patched, Published
<1>2. Published(e) => OncePublished
  BY <1>1 DEF Inv, EntityInv
<1>3. Snapshot("patch", e) \in Versions /\ View(e) \in Views
  BY <1>1 DEF Snapshot, Versions, Changes, View, Views
<1>4. row' \in Rows /\ row'.life = e.life /\ row'.truth = e.truth
  BY <1>1 DEF Inv, TypeOK, Rows, PatchWrites
<1>5. AddVersion(Snapshot("patch", e)) /\ projection' = View(e) /\ Finish(c)
  BY DEF PatchWrites
<1>6. versions' \in Seq(Versions) /\ Len(versions') > 0 /\ Latest' = Snapshot("patch", e)
      /\ (OncePublished => OncePublished')
  BY <1>3, <1>5, Appended DEF Inv, TypeOK
<1>7. TypeOK'
  BY <1>3, <1>4, <1>5, <1>6, Finished DEF Inv, TypeOK
<1>8. EntityInv'
  BY <1>2, <1>4, <1>5, <1>6, Finished DEF Inv, EntityInv, ProjectionLifecycleAgrees, ProjectionTruthAgrees,
     LatestVersionDescribesRow, Published, View, Snapshot
<1> QED BY <1>2, <1>4, <1>7, <1>8 DEF Inv, Published

\* Publish and promote each write one column, in the row and in the projection.
LEMMA PublishStep ==
    ASSUME Inv, NEW c \in Requests, PublishWrites(c)
    PROVE  Inv' /\ Latest'.change = "publish"
<1> DEFINE v == Snapshot("publish", [request[c].copy EXCEPT !.life = "published"])
<1>1. v = [change |-> "publish", life |-> "published", truth |-> request[c].copy.truth] /\ v \in Versions
  BY RowTypes, VocabularyAssumption DEF Inv, Snapshot, Versions, Changes, Rows
<1>2. row' \in Rows /\ row'.life = "published" /\ row'.truth = row.truth
  BY VocabularyAssumption DEF Inv, TypeOK, Rows, PublishWrites
<1>3. projection' \in Views /\ projection'.life = "published" /\ projection'.truth = projection.truth
  BY VocabularyAssumption DEF Inv, TypeOK, Views, PublishWrites
<1>4. versions' \in Seq(Versions) /\ Len(versions') > 0 /\ Latest' = v /\ OncePublished'
  BY <1>1, Appended DEF Inv, TypeOK, PublishWrites, Published
<1>5. TypeOK'
  BY <1>2, <1>3, <1>4, Finished DEF Inv, TypeOK, PublishWrites
<1>6. EntityInv'
  BY <1>1, <1>2, <1>3, <1>4 DEF Inv, EntityInv, ProjectionLifecycleAgrees, ProjectionTruthAgrees,
     LatestVersionDescribesRow
<1> QED BY <1>1, <1>4, <1>5, <1>6 DEF Inv

LEMMA PromoteStep ==
    ASSUME Inv, NEW c \in Requests, PromoteWrites(c)
    PROVE  Inv' /\ row'.life = row.life
<1> DEFINE v == Snapshot("promote", [request[c].copy EXCEPT !.truth = "canonical_in_platform"])
<1>1. v = [change |-> "promote", life |-> request[c].copy.life, truth |-> "canonical_in_platform"]
      /\ v \in Versions
  BY RowTypes, VocabularyAssumption DEF Inv, Snapshot, Versions, Changes, Rows
<1>2. row' \in Rows /\ row'.life = row.life
  BY VocabularyAssumption DEF Inv, TypeOK, Rows, PromoteWrites
<1>3. projection' \in Views /\ projection'.life = projection.life
      /\ projection'.truth = "canonical_in_platform"
  BY VocabularyAssumption DEF Inv, TypeOK, Views, PromoteWrites
<1>4. versions' \in Seq(Versions) /\ Len(versions') > 0 /\ Latest' = v /\ (OncePublished => OncePublished')
  BY <1>1, Appended DEF Inv, TypeOK, PromoteWrites
<1>5. TypeOK'
  BY <1>2, <1>3, <1>4, Finished DEF Inv, TypeOK, PromoteWrites
<1>6. EntityInv'
  BY <1>1, <1>2, <1>3, <1>4, Finished DEF Inv, EntityInv, ProjectionLifecycleAgrees, ProjectionTruthAgrees,
     LatestVersionDescribesRow, Published, PromoteWrites
<1> QED BY <1>2, <1>5, <1>6 DEF Inv

\* A rollback leaves only the end of the request behind.
LEMMA FailStep ==
    ASSUME Inv, NEW c \in Requests, TxFails(c)
    PROVE  Inv'
<1>1. TypeOK'
  BY Finished DEF Inv, TypeOK, TxFails
<1>2. EntityInv'
  BY Finished DEF Inv, EntityInv, TxFails, ProjectionLifecycleAgrees, ProjectionTruthAgrees,
     LatestVersionDescribesRow, Latest, OncePublished, Published
<1> QED BY <1>1, <1>2 DEF Inv

\* The invariant is inductive.
LEMMA Step == Inv /\ [Next]_vars => Inv'
<1> SUFFICES ASSUME Inv, [Next]_vars PROVE Inv' OBVIOUS
<1>1. CASE Next
  BY <1>1, ReadStep, PatchStep, PublishStep, PromoteStep, FailStep DEF Next
<1>2. CASE UNCHANGED vars
  BY <1>2 DEF vars, Inv, TypeOK, EntityInv, ProjectionLifecycleAgrees, ProjectionTruthAgrees,
     LatestVersionDescribesRow, Latest, OncePublished, Published
<1> QED BY <1>1, <1>2

\* Only PATCH and Publish change the lifecycle, and PATCH only to what it read.
LEMMA PublishedStep ==
    Inv /\ [Next]_vars =>
        [~Published(row) /\ Published(row') => Latest'.change = "publish" \/ OncePublished]_vars
<1> SUFFICES ASSUME Inv, Next, ~Published(row), Published(row')
             PROVE  Latest'.change = "publish" \/ OncePublished
  OBVIOUS
<1>1. PICK c \in Requests : \/ PatchReads(c) \/ PublishReads(c) \/ PromoteReads(c)
                            \/ PatchWrites(c) \/ PublishWrites(c) \/ PromoteWrites(c) \/ TxFails(c)
  BY DEF Next
<1>2. row' # row /\ row'.life # row.life
  BY DEF Published
<1>3. PatchWrites(c) \/ PublishWrites(c)
  BY <1>1, <1>2, PromoteStep DEF PatchReads, PublishReads, PromoteReads, Read, TxFails
<1> QED BY <1>3, PatchStep, PublishStep

-----------------------------------------------------------------------------
\* The row, its search projection and its version history keep agreeing as
\* EntityInv says, for every interleaving of any number of requests.
THEOREM EntitySafety == Spec => [](TypeOK /\ EntityInv)
<1>1. Init => Inv BY InitInv
<1>2. Inv /\ [Next]_vars => Inv' BY Step
<1>3. Inv => TypeOK /\ EntityInv BY DEF Inv
<1> QED BY <1>1, <1>2, <1>3, PTL DEF Spec

\* Search shows the lifecycle the entity has, whatever requests overlap.
THEOREM SearchShowsLifecycle == Spec => []ProjectionLifecycleAgrees
<1>1. TypeOK /\ EntityInv => ProjectionLifecycleAgrees BY DEF EntityInv
<1> QED BY <1>1, EntitySafety, PTL

\* Search shows the truth mode the entity has, or has overtaken it: a lost promotion.
THEOREM SearchTruthAgrees == Spec => []ProjectionTruthAgrees
<1>1. TypeOK /\ EntityInv => ProjectionTruthAgrees BY DEF EntityInv
<1> QED BY <1>1, EntitySafety, PTL

\* The newest version tells the row's lifecycle unless a promotion wrote it.
THEOREM HistoryIsCurrent == Spec => []LatestVersionDescribesRow
<1>1. TypeOK /\ EntityInv => LatestVersionDescribesRow BY DEF EntityInv
<1> QED BY <1>1, EntitySafety, PTL

\* No entity becomes published that Publish (or Create) had never published.
THEOREM PublicationOnRecord == Spec => PublishedWasPublishedBefore
<1>1. Init => Inv BY InitInv
<1>2. Inv /\ [Next]_vars => Inv' BY Step
<1>3. Inv /\ [Next]_vars =>
        [~Published(row) /\ Published(row') => Latest'.change = "publish" \/ OncePublished]_vars
  BY PublishedStep
<1> QED BY <1>1, <1>2, <1>3, PTL DEF Spec, PublishedWasPublishedBefore

-----------------------------------------------------------------------------
(* Reviews beside the other requests.                                       *)

LEMMA ReviewInitInv == ReviewInit => ReviewInv
<1> SUFFICES ASSUME ReviewInit PROVE ReviewInv OBVIOUS
<1>1. TypeOK
  BY InitInv DEF ReviewInit, Inv
<1>2. ReviewTypeOK
  BY <1>1 DEF ReviewInit, ReviewTypeOK
<1>3. \A t \in Tasks : task[t] # "approved"
  BY DEF ReviewInit
<1> QED BY <1>2, <1>3 DEF ReviewInv, ApprovalPublishes

\* Every step of the composition is a step of EntityLifecycle, or leaves the entity alone.
LEMMA ReviewStepMaps == [ReviewNext]_reviewVars => [Next]_vars
<1> SUFFICES ASSUME ReviewNext PROVE [Next]_vars
  BY DEF reviewVars, vars
<1>1. CASE \E t \in Tasks, status \in Decisions : Decide(t, status)
  BY <1>1 DEF Decide
<1>2. CASE \E c \in Requests :
             \/ \E t \in Tasks : Approve(c, t)
             \/ PublishApproved(c) \/ PublicationFails(c) \/ Write(c) \/ Direct(c)
  <2>1. PICK c \in Requests : \/ \E t \in Tasks : Approve(c, t)
                              \/ PublishApproved(c) \/ PublicationFails(c) \/ Write(c) \/ Direct(c)
    BY <1>2
  <2>2. \/ UNCHANGED vars
        \/ PatchReads(c) \/ PublishReads(c) \/ PromoteReads(c)
        \/ PatchWrites(c) \/ PublishWrites(c) \/ PromoteWrites(c) \/ TxFails(c)
    BY <2>1 DEF Approve, PublishApproved, PublicationFails, Write, Direct
  <2> QED BY <2>2 DEF Next
<1> QED BY <1>1, <1>2 DEF ReviewNext

-----------------------------------------------------------------------------
(* One lemma per action.                                                    *)

LEMMA DecideStep ==
    ASSUME ReviewInv, TypeOK', NEW t \in Tasks, NEW status \in Decisions, Decide(t, status)
    PROVE  ReviewInv'
BY DecisionsAssumption DEF ReviewInv, ReviewTypeOK, ApprovalPublishes, Decide, Published, vars

LEMMA ApproveStep ==
    ASSUME ReviewInv, TypeOK', NEW c \in Requests, NEW t \in Tasks, Approve(c, t)
    PROVE  ReviewInv'
<1>1. /\ row' = row /\ request' = request /\ approving' = [approving EXCEPT ![c] = t]
      /\ task' = [task EXCEPT ![t] = "approved"]
      /\ honoured' = {i \in {t} : Published(row)} \cup (honoured \ {t})
      /\ request[c] = Idle
  BY DEF Approve, vars
<1>2. ReviewTypeOK'
  BY <1>1 DEF ReviewInv, ReviewTypeOK, Idle
<1>3. ApprovalPublishes'
  BY <1>1, NoneAssumption DEF ReviewInv, ReviewTypeOK, ApprovalPublishes, Approve
<1>4. Published(row)' => \A i \in Tasks : task'[i] = "approved" => i \in honoured'
  BY <1>1 DEF ReviewInv, ReviewTypeOK, Published
<1> QED BY <1>2, <1>3, <1>4 DEF ReviewInv

LEMMA PublishApprovedStep ==
    ASSUME ReviewInv, TypeOK', NEW c \in Requests, PublishApproved(c)
    PROVE  ReviewInv'
<1>0. /\ request[c] = Idle /\ approving[c] # None
      /\ task' = task /\ honoured' = honoured
  BY DEF PublishApproved, Approved
<1>1. CASE Published(row) /\ Answer(c) /\ UNCHANGED vars
  <2>1. row' = row /\ request' = request /\ approving' = [approving EXCEPT ![c] = None]
    BY <1>1 DEF Answer, vars
  <2>2. \A t \in Tasks : task[t] = "approved" => t \in honoured
    BY <1>1 DEF ReviewInv
  <2>3. ReviewTypeOK'
    BY <1>0, <2>1 DEF ReviewInv, ReviewTypeOK
  <2> QED BY <1>0, <2>1, <2>2, <2>3 DEF ReviewInv, ApprovalPublishes
<1>2. CASE PublishReads(c) /\ UNCHANGED approving
  <2>1. row' = row /\ request' = [request EXCEPT ![c] = [call |-> "publish", copy |-> row, patch |-> NoPatch]]
    BY <1>2 DEF PublishReads, Read
  <2>2. ReviewTypeOK'
    BY <1>0, <1>2, <2>1 DEF ReviewInv, ReviewTypeOK, TypeOK
  <2> QED BY <1>0, <1>2, <2>1, <2>2 DEF ReviewInv, ApprovalPublishes, Published
<1> QED BY <1>1, <1>2 DEF PublishApproved

LEMMA PublicationFailsStep ==
    ASSUME ReviewInv, TypeOK', NEW c \in Requests, PublicationFails(c)
    PROVE  ReviewInv'
<1>1. /\ approving[c] # None /\ approving' = [approving EXCEPT ![c] = None]
      /\ honoured' = honoured \cup {approving[c]} /\ task' = task /\ row' = row
  BY DEF PublicationFails, Answer, TxFails, vars
<1>2. request' = request \/ request' = [request EXCEPT ![c] = Idle]
  BY DEF PublicationFails, TxFails, Finish, vars
<1>3. ReviewTypeOK'
  BY <1>1, <1>2 DEF ReviewInv, ReviewTypeOK, TypeOK
<1>4. ApprovalPublishes'
  BY <1>1 DEF ReviewInv, ReviewTypeOK, ApprovalPublishes
<1> QED BY <1>1, <1>3, <1>4 DEF ReviewInv, Published

\* A write in the name of a review is a publication, which honours every approval.
LEMMA WriteStep ==
    ASSUME ReviewInv, TypeOK', NEW c \in Requests, Write(c)
    PROVE  ReviewInv'
<1>1. /\ approving' = [approving EXCEPT ![c] = None] /\ task' = task
      /\ honoured' = IF Published(row') THEN Tasks ELSE honoured
      /\ request' = [request EXCEPT ![c] = Idle]
  BY DEF Write, Answer, PatchWrites, PublishWrites, PromoteWrites, Finish
<1>2. ReviewTypeOK'
  BY <1>1 DEF ReviewInv, ReviewTypeOK, TypeOK
<1>3. approving[c] # None => Published(row')
  <2>1. SUFFICES ASSUME approving[c] # None PROVE Published(row') OBVIOUS
  <2>2. request[c].call \in {"none", "publish"}
    BY <2>1 DEF ReviewInv, ReviewTypeOK
  <2>3. PublishWrites(c) /\ row \in Rows
    BY <2>2 DEF Write, PatchWrites, PromoteWrites, ReviewInv, ReviewTypeOK, TypeOK
  <2> QED BY <2>3 DEF PublishWrites, Published, Rows
<1>4. ApprovalPublishes'
  BY <1>1, <1>3 DEF ReviewInv, ReviewTypeOK, ApprovalPublishes
<1> QED BY <1>1, <1>2, <1>4 DEF ReviewInv

LEMMA DirectStep ==
    ASSUME ReviewInv, TypeOK', NEW c \in Requests, Direct(c)
    PROVE  ReviewInv'
<1>1. /\ approving[c] = None /\ task' = task /\ approving' = approving /\ honoured' = honoured
      /\ row' = row
  BY DEF Direct, PatchReads, PublishReads, PromoteReads, Read, TxFails
<1>2. \A d \in Requests \ {c} : request'[d] = request[d]
  BY DEF Direct, PatchReads, PublishReads, PromoteReads, Read, TxFails, Finish, ReviewInv, ReviewTypeOK, TypeOK
<1>3. ReviewTypeOK'
  BY <1>1, <1>2 DEF ReviewInv, ReviewTypeOK
<1> QED BY <1>1, <1>3 DEF ReviewInv, ApprovalPublishes, Published

LEMMA ReviewStep == Inv /\ ReviewInv /\ [ReviewNext]_reviewVars => ReviewInv'
<1> SUFFICES ASSUME Inv, ReviewInv, [ReviewNext]_reviewVars PROVE ReviewInv' OBVIOUS
<1>1. TypeOK'
  BY ReviewStepMaps, Step DEF Inv
<1>2. CASE ReviewNext
  BY <1>1, <1>2, DecideStep, ApproveStep, PublishApprovedStep, PublicationFailsStep, WriteStep, DirectStep
     DEF ReviewNext
<1>3. CASE UNCHANGED reviewVars
  BY <1>1, <1>3 DEF reviewVars, vars, ReviewInv, ReviewTypeOK, ApprovalPublishes, Published
<1> QED BY <1>2, <1>3

-----------------------------------------------------------------------------
\* With reviewers at work the entity still behaves as EntityLifecycle says.
THEOREM ReviewImplementsLifecycle == ReviewSpec => LifecycleIsKept
<1>1. ReviewInit => Init BY DEF ReviewInit
<1>2. [ReviewNext]_reviewVars => [Next]_vars BY ReviewStepMaps
<1> QED BY <1>1, <1>2, PTL DEF ReviewSpec, LifecycleIsKept, Spec

\* The invariant of the review tasks, beside that of the entity.
THEOREM ReviewSafety == ReviewSpec => []ReviewInv
<1>1. ReviewInit => ReviewInv BY ReviewInitInv
<1>2. Inv /\ ReviewInv /\ [ReviewNext]_reviewVars => ReviewInv' BY ReviewStep
<1>3. TypeOK /\ EntityInv => Inv BY DEF Inv
<1> QED BY <1>1, <1>2, <1>3, ReviewImplementsLifecycle, EntitySafety, PTL DEF ReviewSpec, LifecycleIsKept

\* Every reachable state of the composition is well typed, and a request that works for a
\* review does nothing but publish.
THEOREM ReviewTypes == ReviewSpec => []ReviewTypeOK
<1>1. ReviewInv => ReviewTypeOK BY DEF ReviewInv
<1> QED BY <1>1, ReviewSafety, PTL

\* An approved task's entity was published since the approval, or a publication is under way
\* or has failed, however reviewers and direct requests interleave.
THEOREM ApprovalsAreHonoured == ReviewSpec => []ApprovalPublishes
<1>1. ReviewInv => ApprovalPublishes BY DEF ReviewInv
<1> QED BY <1>1, ReviewSafety, PTL

\* A publication stays on record also when reviews publish.
THEOREM ReviewPublicationOnRecord == ReviewSpec => PublishedWasPublishedBefore
BY ReviewImplementsLifecycle, PublicationOnRecord, PTL DEF LifecycleIsKept

\* A set of numbers that is not empty has a least one.
LEMMA Least ==
    ASSUME NEW S \in SUBSET Nat, S # {}
    PROVE  \E m \in S : \A k \in S : m <= k
<1>1. PICK m \in S : \A k \in S : ~(<<k, m>> \in OpToRel(<, Nat))
  BY NatLessThanWellFounded, WFMin
<1>2. \A k \in S : ~(k < m)
  BY <1>1 DEF OpToRel
<1> QED
  BY <1>2

\* What a sequence has in it.
LEMMA Members ==
    ASSUME NEW T, NEW s \in Seq(T)
    PROVE  DOMAIN s = 1..Len(s) /\ Len(s) \in Nat /\ \A k \in DOMAIN s : s[k] \in T
OBVIOUS

\* What has an order of its own: InOrder lists every member once, by its rank.
LEMMA InOrderLists ==
    ASSUME NEW S, IsFiniteSet(S), NEW rank, \A x \in S : rank[x] \in Nat,
           \A x \in S : \A y \in S \ {x} : rank[x] # rank[y]
    PROVE  /\ Cardinality(S) \in Nat
           /\ InOrder(S, rank) \in [1..Cardinality(S) -> S]
           /\ \A x \in S : \E k \in 1..Cardinality(S) : InOrder(S, rank)[k] = x
           /\ \A j, k \in 1..Cardinality(S) : j < k => rank[InOrder(S, rank)[j]] < rank[InOrder(S, rank)[k]]
<1> DEFINE n == Cardinality(S)
           Below(x) == {y \in S : rank[y] < rank[x]}
           T == 0..(n - 1)
           f == [x \in S |-> Cardinality(Below(x))]
<1>1. n \in Nat
  BY FS_CardinalityType
<1>2. ASSUME NEW x \in S PROVE IsFiniteSet(Below(x)) /\ Cardinality(Below(x)) \in T
  <2>1. Below(x) \in SUBSET S /\ x \notin Below(x)
    OBVIOUS
  <2> HIDE DEF Below
  <2>2. IsFiniteSet(Below(x)) /\ Cardinality(Below(x)) <= n /\ Cardinality(Below(x)) # n /\ Cardinality(Below(x)) \in Nat
    BY <2>1, FS_Subset, FS_CardinalityType
  <2> QED
    BY <1>1, <2>2
<1>3. ASSUME NEW x \in S, NEW y \in S, rank[x] < rank[y] PROVE Cardinality(Below(x)) < Cardinality(Below(y))
  <2>1. Below(x) \in SUBSET Below(y) /\ x \in Below(y) /\ x \notin Below(x)
    BY <1>3
  <2> HIDE DEF Below
  <2>2. Cardinality(Below(x)) <= Cardinality(Below(y)) /\ Cardinality(Below(x)) # Cardinality(Below(y))
    BY <1>2, <2>1, FS_Subset
  <2> QED
    BY <1>1, <1>2, <2>2
<1>4. f \in Injection(S, T)
  <2>1. f \in [S -> T]
    <3> HIDE DEF Below
    <3> QED
      BY <1>2
  <2>2. ASSUME NEW x \in S, NEW y \in S, f[x] = f[y] PROVE x = y
    <3>1. rank[x] < rank[y] \/ rank[y] < rank[x] \/ x = y
      OBVIOUS
    <3>2. Cardinality(Below(x)) = Cardinality(Below(y))
      BY <2>2
    <3> HIDE DEF Below
    <3>3. Cardinality(Below(x)) \in Nat
      BY <1>1, <1>2
    <3> QED
      BY <1>3, <3>1, <3>2, <3>3
  <2> HIDE DEF f
  <2> QED
    BY <2>1, <2>2 DEF Injection, IsInjective
<1>5. IsFiniteSet(T) /\ Cardinality(T) = n
  BY <1>1, FS_Interval
<1>6. f \in Surjection(S, T)
  <2> HIDE DEF f, T
  <2> QED
    BY <1>4, <1>5, FS_Injection
<1>7. \A t \in T : \E x \in S : Cardinality(Below(x)) = t
  <2> HIDE DEF Below
  <2> QED
    BY <1>6 DEF Surjection
<1> DEFINE s == InOrder(S, rank)
<1>8. s = [k \in 1..n |-> CHOOSE x \in S : Cardinality(Below(x)) = k - 1]
  BY DEF InOrder
<1> HIDE DEF s
<1>9. ASSUME NEW k \in 1..n PROVE s[k] \in S /\ Cardinality(Below(s[k])) = k - 1
  <2>1. k - 1 \in T
    BY <1>1
  <2>2. s[k] = CHOOSE x \in S : Cardinality(Below(x)) = k - 1
    BY <1>8
  <2> HIDE DEF Below, T
  <2> QED
    BY <1>7, <2>1, <2>2
<1>10. s \in [1..n -> S]
  <2> HIDE DEF Below
  <2> QED
    BY <1>8, <1>9
<1>11. ASSUME NEW x \in S PROVE \E k \in 1..n : s[k] = x
  <2> DEFINE c == Cardinality(Below(x))
  <2>1. c \in T
    BY <1>2
  <2>2. c + 1 \in 1..n /\ (c + 1) - 1 = c
    BY <1>1, <2>1
  <2>3. s[c + 1] \in S /\ Cardinality(Below(s[c + 1])) = c
    <3> HIDE DEF c, Below
    <3> QED
      BY <1>9, <2>2
  <2>4. f[s[c + 1]] = f[x]
    BY <2>3
  <2>5. s[c + 1] = x
    <3> HIDE DEF f, c
    <3> QED
      BY <1>4, <2>3, <2>4 DEF Injection, IsInjective
  <2> HIDE DEF c
  <2> QED
    BY <2>2, <2>5
<1>12. ASSUME NEW j \in 1..n, NEW k \in 1..n, j < k PROVE rank[s[j]] < rank[s[k]]
  <2>1. s[j] \in S /\ s[k] \in S /\ Cardinality(Below(s[j])) < Cardinality(Below(s[k]))
    <3> HIDE DEF Below
    <3>1. j - 1 < k - 1
      BY <1>1, <1>12
    <3> QED
      BY <1>9, <3>1
  <2>2. rank[s[k]] < rank[s[j]] => Cardinality(Below(s[k])) < Cardinality(Below(s[j]))
    <3> HIDE DEF Below
    <3> QED
      BY <1>3, <2>1
  <2>3. s[j] # s[k] /\ ~(rank[s[k]] < rank[s[j]])
    <3> DEFINE a == Cardinality(Below(s[j]))
               b == Cardinality(Below(s[k]))
    <3>1. a \in Nat /\ b \in Nat
      <4> HIDE DEF Below
      <4> QED
        BY <1>1, <1>2, <2>1
    <3>2. a < b
      BY <2>1
    <3>3. ~(b < a) /\ a # b
      <4> HIDE DEF a, b
      <4> QED
        BY <3>1, <3>2
    <3>4. s[j] = s[k] => a = b
      OBVIOUS
    <3> QED
      BY <2>2, <3>3, <3>4
  <2> QED
    BY <2>1, <2>3
<1> QED
  BY <1>1, <1>10, <1>11, <1>12 DEF s

\* Numbers in their own order.
LEMMA AscendingLists ==
    ASSUME NEW n \in Nat, NEW S \in SUBSET (1..n)
    PROVE  /\ Cardinality(S) \in Nat
           /\ Ascending(S) \in [1..Cardinality(S) -> S]
           /\ \A x \in S : \E k \in 1..Cardinality(S) : Ascending(S)[k] = x
           /\ \A j, k \in 1..Cardinality(S) : j < k => Ascending(S)[j] < Ascending(S)[k]
<1> DEFINE rank == [i \in S |-> i]
<1>1. IsFiniteSet(S) /\ \A x \in S : rank[x] = x /\ x \in Nat
  <2>1. IsFiniteSet(1..n)
    BY FS_Interval
  <2>2. IsFiniteSet(S)
    BY <2>1, FS_Subset
  <2> QED
    BY <2>2
<1>2. \A x \in S : \A y \in S \ {x} : rank[x] # rank[y]
  BY <1>1
<1>3. Ascending(S) = InOrder(S, rank)
  BY DEF Ascending
<1>4. /\ Cardinality(S) \in Nat
      /\ InOrder(S, rank) \in [1..Cardinality(S) -> S]
      /\ \A x \in S : \E k \in 1..Cardinality(S) : InOrder(S, rank)[k] = x
      /\ \A j, k \in 1..Cardinality(S) : j < k => rank[InOrder(S, rank)[j]] < rank[InOrder(S, rank)[k]]
  <2>1. \A x \in S : rank[x] \in Nat
    BY <1>1
  <2> HIDE DEF rank
  <2> QED
    BY <1>1, <1>2, <2>1, InOrderLists
<1> HIDE DEF rank
<1>5. ASSUME NEW j \in 1..Cardinality(S), NEW k \in 1..Cardinality(S), j < k
      PROVE  Ascending(S)[j] < Ascending(S)[k]
  <2>1. InOrder(S, rank)[j] \in S /\ InOrder(S, rank)[k] \in S
    BY <1>4
  <2>2. rank[InOrder(S, rank)[j]] < rank[InOrder(S, rank)[k]]
    BY <1>4, <1>5
  <2>3. rank[InOrder(S, rank)[j]] = InOrder(S, rank)[j] /\ rank[InOrder(S, rank)[k]] = InOrder(S, rank)[k]
    BY <1>1, <2>1
  <2> QED
    BY <1>3, <2>2, <2>3
<1> QED
  BY <1>3, <1>4, <1>5

-----------------------------------------------------------------------------
(* What is flattened: the values of FlattenSeq for all beginnings of s.     *)

Joins(s, T) ==
    {F \in [0..Len(s) -> Seq(T)] : F[0] = <<>> /\ \A i \in 1..Len(s) : F[i] = F[i - 1] \o s[i]}

LEMMA JoinsExist ==
    ASSUME NEW T, NEW s \in Seq(Seq(T))
    PROVE  \E F \in Joins(s, T) : TRUE
<1> DEFINE n == Len(s)
           Upto(F, m) == F[0] = <<>> /\ \A i \in 1..m : F[i] = F[i - 1] \o s[i]
           Bad == {m \in 0..n : ~ \E F \in [0..m -> Seq(T)] : Upto(F, m)}
<1>1. n \in Nat /\ \A i \in 1..n : s[i] \in Seq(T)
  OBVIOUS
<1>2. Bad = {}
  <2>1. SUFFICES ASSUME Bad # {} PROVE FALSE
    OBVIOUS
  <2>2. PICK m \in Bad : \A k \in Bad : m <= k
    <3>1. Bad \subseteq 0..n
      OBVIOUS
    <3> HIDE DEF Bad
    <3>2. Bad \subseteq Nat
      BY <1>1, <3>1
    <3> QED
      BY <2>1, <3>2, Least
  <2>3. m \in 0..n /\ m \in Nat
    BY <1>1, <2>2
  <2>4. CASE m = 0
    <3> DEFINE F == [i \in 0..0 |-> <<>>]
    <3>1. F \in [0..0 -> Seq(T)] /\ Upto(F, 0)
      OBVIOUS
    <3> QED
      BY <2>2, <2>4, <3>1
  <2>5. CASE m # 0
    <3>1. m - 1 \in 0..n /\ m - 1 < m /\ m \in 1..n /\ m - 1 \in Nat
      BY <1>1, <2>3, <2>5
    <3>2. m - 1 \notin Bad
      <4> HIDE DEF Bad
      <4> QED
        BY <2>2, <2>3, <3>1
    <3>3. PICK F \in [0..m-1 -> Seq(T)] : Upto(F, m - 1)
      BY <3>1, <3>2
    <3> DEFINE G == [i \in 0..m |-> IF i = m THEN F[m - 1] \o s[m] ELSE F[i]]
    <3>4. F[m - 1] \o s[m] \in Seq(T)
      BY <1>1, <3>1, <3>3
    <3>5. G \in [0..m -> Seq(T)]
      BY <3>1, <3>3, <3>4
    <3>6. G[m] = F[m - 1] \o s[m] /\ \A i \in 0..m-1 : G[i] = F[i]
      <4>1. m \in 0..m /\ \A i \in 0..m-1 : i \in 0..m /\ i # m
        BY <3>1
      <4> QED
        BY <4>1
    <3>7. ASSUME NEW i \in 1..m PROVE G[i] = G[i - 1] \o s[i]
      <4> HIDE DEF G
      <4>1. i - 1 \in 0..m-1 /\ (i = m \/ i \in 1..m-1)
        BY <3>1
      <4>2. CASE i = m
        BY <3>6, <4>1, <4>2
      <4>3. CASE i \in 1..m-1
        <5>1. i \in 0..m-1
          BY <3>1, <4>3
        <5> QED
          BY <3>3, <3>6, <4>1, <4>3, <5>1
      <4> QED
        BY <4>1, <4>2, <4>3
    <3>8. Upto(G, m)
      <4>1. 0 \in 0..m-1
        BY <3>1
      <4> HIDE DEF G
      <4> QED
        BY <3>3, <3>6, <3>7, <4>1
    <3> HIDE DEF G, Upto
    <3> QED
      BY <2>2, <3>5, <3>8
  <2> QED
    BY <2>4, <2>5
<1>3. PICK F \in [0..n -> Seq(T)] : Upto(F, n)
  <2>1. n \in 0..n
    BY <1>1
  <2> HIDE DEF Upto, n
  <2> QED
    BY <1>2, <2>1
<1> QED
  BY <1>3 DEF Joins

\* Beginnings that agree are flattened to the same.
LEMMA JoinsAgree ==
    ASSUME NEW T, NEW s \in Seq(Seq(T)), NEW t \in Seq(Seq(T)), NEW F \in Joins(s, T), NEW G \in Joins(t, T),
           NEW m \in Nat, m <= Len(s), m <= Len(t), \A i \in 1..m : s[i] = t[i]
    PROVE  \A i \in 0..m : F[i] = G[i]
<1> DEFINE Bad == {i \in 0..m : F[i] # G[i]}
<1>1. SUFFICES ASSUME Bad # {} PROVE FALSE
  OBVIOUS
<1>2. PICK k \in Bad : \A i \in Bad : k <= i
  <2>1. Bad \subseteq Nat
    OBVIOUS
  <2> HIDE DEF Bad
  <2> QED
    BY <1>1, <2>1, Least
<1>3. k \in 0..m /\ F[k] # G[k] /\ k # 0
  BY <1>2 DEF Joins
<1>4. k - 1 \in 0..m /\ k - 1 < k /\ k \in 1..m /\ k \in 1..Len(s) /\ k \in 1..Len(t)
  BY <1>3
<1>5. F[k - 1] = G[k - 1]
  <2>1. k - 1 \notin Bad
    <3> HIDE DEF Bad
    <3> QED
      BY <1>2, <1>3, <1>4
  <2> QED
    BY <1>4, <2>1
<1> QED
  BY <1>3, <1>4, <1>5 DEF Joins

\* FlattenSeq is the last of them.
LEMMA FlattenJoins ==
    ASSUME NEW T, NEW s \in Seq(Seq(T)), NEW F \in Joins(s, T)
    PROVE  FlattenSeq(s) = F[Len(s)]
<1> DEFINE n == Len(s)
           G == CHOOSE f : f = [i \in 1..n |-> IF i = 1 THEN s[i] ELSE f[i-1] \o s[i]]
<1>1. n \in Nat /\ \A i \in 1..n : s[i] \in Seq(T)
  OBVIOUS
<1>2. F \in [0..n -> Seq(T)] /\ F[0] = <<>> /\ \A i \in 1..n : F[i] = F[i - 1] \o s[i]
  BY DEF Joins
<1>3. CASE n = 0
  BY <1>2, <1>3 DEF FlattenSeq
<1>4. CASE n # 0
  <2>1. FlattenSeq(s) = G[n]
    BY <1>4 DEF FlattenSeq
  <2>2. F[1] = s[1]
    <3>1. 1 \in 1..n /\ 1 - 1 = 0
      BY <1>1, <1>4
    <3>2. F[1] = <<>> \o s[1] /\ s[1] \in Seq(T)
      BY <1>1, <1>2, <3>1
    <3> QED
      BY <3>2, ConcatEmptySeq
  <2> DEFINE f == [i \in 1..n |-> F[i]]
  <2>3. f = [i \in 1..n |-> IF i = 1 THEN s[i] ELSE f[i-1] \o s[i]]
    <3>1. ASSUME NEW i \in 1..n PROVE f[i] = IF i = 1 THEN s[i] ELSE f[i-1] \o s[i]
      <4>1. i # 1 => i - 1 \in 1..n
        BY <1>1
      <4>2. i # 1 => f[i - 1] = F[i - 1]
        BY <4>1
      <4>3. f[i] = F[i]
        OBVIOUS
      <4> HIDE DEF f
      <4> QED
        BY <1>2, <2>2, <4>2, <4>3
    <3> QED
      BY <3>1
  <2>4. G = [i \in 1..n |-> IF i = 1 THEN s[i] ELSE G[i-1] \o s[i]]
    <3> HIDE DEF f
    <3> QED
      BY <2>3
  <2> HIDE DEF G
  <2> DEFINE Bad == {i \in 1..n : G[i] # F[i]}
  <2>5. Bad = {}
    <3>1. SUFFICES ASSUME Bad # {} PROVE FALSE
      OBVIOUS
    <3>2. PICK k \in Bad : \A i \in Bad : k <= i
      <4>1. Bad \subseteq Nat
        BY <1>1
      <4> HIDE DEF Bad
      <4> QED
        BY <3>1, <4>1, Least
    <3>3. k \in 1..n /\ G[k] # F[k]
      BY <3>2
    <3>4. G[k] = IF k = 1 THEN s[k] ELSE G[k-1] \o s[k]
      BY <2>4, <3>3
    <3>5. k # 1 => G[k - 1] = F[k - 1]
      <4>1. k # 1 => k - 1 \in 1..n /\ k - 1 < k /\ k \in Nat
        BY <1>1, <3>3
      <4>2. k # 1 => k - 1 \notin Bad
        <5> HIDE DEF Bad
        <5> QED
          BY <3>2, <4>1
      <4> QED
        BY <4>1, <4>2
    <3> QED
      BY <1>2, <2>2, <3>3, <3>4, <3>5
  <2>6. n \in 1..n
    BY <1>1, <1>4
  <2> QED
    BY <2>1, <2>5, <2>6
<1> QED
  BY <1>3, <1>4

\* One table for a sequence and all its beginnings.
LEMMA FlattenPrefix ==
    ASSUME NEW T, NEW s \in Seq(Seq(T)), NEW F \in Joins(s, T), NEW m \in 0..Len(s)
    PROVE  FlattenSeq([j \in 1..m |-> s[j]]) = F[m]
<1> DEFINE t == [j \in 1..m |-> s[j]]
<1>1. m \in Nat /\ m <= Len(s) /\ t \in Seq(Seq(T)) /\ Len(t) = m /\ \A i \in 1..m : s[i] = t[i]
  OBVIOUS
<1> HIDE DEF t
<1>2. PICK G \in Joins(t, T) : TRUE
  BY <1>1, JoinsExist
<1>3. FlattenSeq(t) = G[m]
  BY <1>1, <1>2, FlattenJoins
<1>4. m \in 0..m
  BY <1>1
<1>5. \A i \in 0..m : F[i] = G[i]
  BY <1>1, <1>2, JoinsAgree
<1> QED
  BY <1>3, <1>4, <1>5 DEF t

-----------------------------------------------------------------------------
(* Which span owns a letter, and the pieces of a text.                      *)

IsText(text) == text \in Texts /\ IsFiniteSet(text.spans)
PieceTypes == [type : Types \cup {""}, value : Seq(Items)]

LEMMA OwnerCovers ==
    ASSUME NEW text, IsText(text), NEW i \in Nat
    PROVE  /\ Owner(text, i).type \in Types \cup {""}
           /\ Covering(text, i) # {} => Owner(text, i) \in Covering(text, i) /\ Owner(text, i).type \in Types
           /\ Owner(text, i).from = 0 <=> Covering(text, i) = {}
           /\ Owner(text, i).from = 0 => Owner(text, i).type = ""
<1> DEFINE C == Covering(text, i)
           none == [from |-> 0, to |-> 0, type |-> "", prio |-> 0]
           Wins(s) == /\ s.from = 0 => C = {}
                      /\ \A r \in C : s.from < r.from \/ (s.from = r.from /\ s.prio >= r.prio)
<1>1. /\ C \subseteq text.spans /\ IsFiniteSet(C)
      /\ \A s \in C : s.from \in Nat /\ s.from # 0 /\ s.prio \in Nat /\ s.type \in Types
  <2>1. C \subseteq text.spans /\ \A s \in text.spans : s.from \in Nat /\ s.from # 0 /\ s.prio \in Nat /\ s.type \in Types
    BY DEF IsText, Texts, Covering
  <2> HIDE DEF C
  <2> QED
    BY <2>1, FS_Subset DEF IsText
<1>2. Owner(text, i) = CHOOSE s \in C \cup {none} : Wins(s)
  BY DEF Owner
<1>3. none.from = 0 /\ none.type = ""
  OBVIOUS
<1> HIDE DEF none, C
<1>4. CASE C = {}
  <2>1. Wins(none)
    BY <1>4
  <2>2. Owner(text, i) = none
    <3> HIDE DEF Wins
    <3> QED
      BY <1>2, <1>4, <2>1
  <2> QED
    BY <1>3, <1>4, <2>2 DEF C
<1>5. CASE C # {}
  <2> DEFINE Starts == {s.from : s \in C}
  <2>1. PICK m \in Starts : \A k \in Starts : m <= k
    <3>1. Starts \in SUBSET Nat /\ Starts # {}
      BY <1>1, <1>5
    <3> HIDE DEF Starts
    <3> QED
      BY <3>1, Least
  <2> DEFINE S == {s \in C : s.from = m}
             Above(s) == {r \in S : r.prio > s.prio}
             Counts == {Cardinality(Above(s)) : s \in S}
  <2>2. S # {} /\ IsFiniteSet(S) /\ S \subseteq C
    <3>1. S # {} /\ S \in SUBSET C
      BY <2>1
    <3> HIDE DEF S
    <3> QED
      BY <1>1, <3>1, FS_Subset
  <2>3. ASSUME NEW s \in S PROVE IsFiniteSet(Above(s)) /\ Cardinality(Above(s)) \in Nat
    <3>1. Above(s) \in SUBSET S
      OBVIOUS
    <3> HIDE DEF Above, S
    <3> QED
      BY <2>2, <3>1, FS_Subset, FS_CardinalityType
  <2>4. PICK c \in Counts : \A k \in Counts : c <= k
    <3>1. Counts \in SUBSET Nat /\ Counts # {}
      <4> HIDE DEF Above, S
      <4> QED
        BY <2>2, <2>3
    <3> HIDE DEF Counts
    <3> QED
      BY <3>1, Least
  <2>5. PICK s \in S : c = Cardinality(Above(s))
    OBVIOUS
  <2>6. ASSUME NEW r \in S, r.prio > s.prio PROVE FALSE
    <3>1. Above(r) \in SUBSET Above(s) /\ r \in Above(s) /\ r \notin Above(r)
      BY <1>1, <2>2, <2>6
    <3> HIDE DEF Above
    <3>2. Cardinality(Above(r)) <= c /\ Cardinality(Above(r)) # c
      BY <2>3, <2>5, <3>1, FS_Subset
    <3>3. c <= Cardinality(Above(r)) /\ c \in Nat /\ Cardinality(Above(r)) \in Nat
      BY <2>3, <2>4, <2>5
    <3> QED
      BY <3>2, <3>3
  <2>7. Wins(s) /\ s \in C
    <3>1. \A r \in C : r.from \in Nat /\ r.prio \in Nat /\ m <= r.from
      BY <1>1, <2>1
    <3>2. s \in C /\ s.from = m /\ s.from # 0
      BY <1>1
    <3>3. \A r \in C : r.from = m => ~(r.prio > s.prio)
      BY <2>6
    <3> HIDE DEF S, Starts
    <3> QED
      BY <3>1, <3>2, <3>3
  <2>8. Owner(text, i) \in C \cup {none} /\ Wins(Owner(text, i))
    <3> HIDE DEF Wins
    <3> QED
      BY <1>2, <2>7
  <2>9. Owner(text, i) \in C
    BY <1>3, <1>5, <2>8
  <2> QED
    BY <1>1, <1>5, <2>9 DEF C
<1> QED
  BY <1>4, <1>5

\* ends[k] is where piece k of text ends.
Ends(text, ends) ==
    LET n == Len(text.chars)
        cut == Pieces(text) IN
    /\ cut \in Seq(PieceTypes)
    /\ ends \in [0..Len(cut) -> 0..n] /\ ends[0] = 0 /\ ends[Len(cut)] = n
    /\ \A k \in 1..Len(cut) :
          /\ ends[k - 1] < ends[k]
          /\ cut[k].value = SubSeq(text.chars, ends[k - 1] + 1, ends[k])
          /\ \A i \in (ends[k - 1] + 1)..ends[k] : cut[k].type = Owner(text, i).type

LEMMA PiecesEnd ==
    ASSUME NEW text, IsText(text)
    PROVE  \E ends : Ends(text, ends)
<1> DEFINE n == Len(text.chars)
           S == {i \in 1..n : Cut(text, i)}
           c == Cardinality(S)
           st == Ascending(S)
           End(k) == IF k = Len(st) THEN n ELSE st[k + 1] - 1
           cut == Pieces(text)
<1>1. n \in Nat /\ text.chars \in Seq(Items) /\ \A i \in 1..n : text.chars[i] \in Items
  BY DEF IsText, Texts
<1>2. /\ c \in Nat /\ st \in [1..c -> S]
      /\ \A x \in S : \E k \in 1..c : st[k] = x
      /\ \A j, k \in 1..c : j < k => st[j] < st[k]
  <2>1. S \in SUBSET (1..n)
    OBVIOUS
  <2> HIDE DEF S
  <2> QED
    BY <1>1, <2>1, AscendingLists
<1>3. cut = [k \in 1..c |-> [type |-> Owner(text, st[k]).type, value |-> SubSeq(text.chars, st[k], End(k))]]
      /\ Len(st) = c
  <2>1. DOMAIN st = 1..c /\ Len(st) = c
    <3> HIDE DEF c, S, st
    <3> QED
      BY <1>2
  <2> QED
    BY <2>1 DEF Pieces
<1>4. \A k \in 1..c : st[k] \in 1..n /\ Cut(text, st[k])
  <2>1. \A x \in S : x \in 1..n /\ Cut(text, x)
    OBVIOUS
  <2> HIDE DEF S, c, st
  <2> QED
    BY <1>2, <2>1
<1>5. \A i \in 1..n : Cut(text, i) => \E k \in 1..c : st[k] = i
  BY <1>2
<1> HIDE DEF st, c, S, cut
<1> DEFINE ends == [k \in 0..c |-> End(k)]
<1>6. \A k \in 1..c : st[k] = ends[k - 1] + 1 /\ ends[k] = End(k)
  <2>1. SUFFICES ASSUME NEW k \in 1..c PROVE st[k] = End(k - 1) + 1 /\ k - 1 \in 0..c /\ k \in 0..c
    OBVIOUS
  <2>2. k - 1 # c /\ (k - 1) + 1 = k /\ k - 1 \in 0..c /\ k \in 0..c /\ st[k] \in Nat
    BY <1>1, <1>2, <1>4
  <2> QED
    BY <1>3, <2>2
<1>7. \A k \in 1..c : st[k] <= End(k) /\ End(k) \in 1..n
  <2>1. SUFFICES ASSUME NEW k \in 1..c PROVE st[k] <= End(k) /\ End(k) \in 1..n
    OBVIOUS
  <2>2. CASE k = c
    BY <1>1, <1>3, <1>4, <2>2
  <2>3. CASE k # c
    <3>1. k + 1 \in 1..c /\ k < k + 1
      BY <1>2, <2>3
    <3>2. st[k] < st[k + 1] /\ st[k] \in 1..n /\ st[k + 1] \in 1..n
      BY <1>2, <1>4, <3>1
    <3> QED
      BY <1>1, <1>3, <2>3, <3>2
  <2> QED
    BY <2>2, <2>3
<1>8. End(0) = 0 /\ End(c) = n
  <2>1. End(c) = n
    BY <1>3
  <2>2. CASE n = 0
    <3>1. c = 0
      BY <1>2, <1>4, <2>2
    <3> QED
      BY <2>1, <2>2, <3>1
  <2>3. CASE n # 0
    <3>1. 1 \in 1..n /\ Cut(text, 1)
      BY <1>1, <2>3 DEF Cut
    <3>2. PICK k \in 1..c : st[k] = 1
      BY <1>5, <3>1
    <3>3. 1 \in 1..c /\ c # 0
      BY <1>2, <3>2
    <3>4. st[1] = 1
      <4>1. 1 < k => st[1] < st[k]
        BY <1>2, <3>3
      <4> QED
        BY <1>2, <1>4, <3>2, <3>3, <4>1
    <3> QED
      BY <1>3, <2>1, <3>3, <3>4
  <2> QED
    BY <2>1, <2>2, <2>3
<1>9. \A k \in 0..c : End(k) \in 0..n
  <2>1. \A k \in 0..c : k = 0 \/ k \in 1..c
    BY <1>2
  <2> HIDE DEF End
  <2> QED
    BY <1>1, <1>7, <1>8, <2>1
<1>10. ends \in [0..c -> 0..n] /\ ends[0] = 0 /\ ends[c] = n
  <2>1. 0 \in 0..c /\ c \in 0..c
    BY <1>2
  <2> HIDE DEF End
  <2> QED
    BY <1>8, <1>9, <2>1
<1>11. \A k \in 1..c : \A i \in st[k]..End(k) : Owner(text, i) = Owner(text, st[k])
  <2>1. SUFFICES ASSUME NEW k \in 1..c PROVE \A i \in st[k]..End(k) : Owner(text, i) = Owner(text, st[k])
    OBVIOUS
  <2> DEFINE Bad == {i \in st[k]..End(k) : Owner(text, i) # Owner(text, st[k])}
  <2>2. SUFFICES ASSUME Bad # {} PROVE FALSE
    OBVIOUS
  <2>3. st[k] \in 1..n /\ End(k) \in 1..n /\ st[k] <= End(k)
    BY <1>4, <1>7
  <2> HIDE DEF End
  <2>4. PICK i \in Bad : \A j \in Bad : i <= j
    <3>1. Bad \subseteq st[k]..End(k)
      OBVIOUS
    <3> HIDE DEF Bad
    <3>2. Bad \subseteq Nat
      BY <2>3, <3>1
    <3> QED
      BY <2>2, <3>2, Least
  <2>5. i \in st[k]..End(k) /\ Owner(text, i) # Owner(text, st[k])
    BY <2>4
  <2>6. i - 1 \in st[k]..End(k) /\ i - 1 < i /\ i \in 1..n /\ i # 1 /\ st[k] < i /\ i \in Nat
    BY <2>3, <2>5
  <2>7. Owner(text, i - 1) = Owner(text, st[k])
    <3>1. i - 1 \notin Bad
      <4> HIDE DEF Bad
      <4> QED
        BY <2>4, <2>6
    <3> QED
      BY <2>6, <3>1
  <2>8. Cut(text, i)
    BY <2>5, <2>7 DEF Cut
  <2>9. PICK j \in 1..c : st[j] = i
    BY <1>5, <2>6, <2>8
  <2>10. k < j
    <3>1. j < k => st[j] < st[k]
      BY <1>2
    <3> QED
      BY <1>1, <1>2, <1>4, <2>6, <2>9, <3>1
  <2>11. k # c /\ k + 1 \in 1..c /\ (k + 1 = j \/ k + 1 < j)
    BY <1>2, <2>10
  <2>12. st[k + 1] <= i
    BY <1>2, <1>4, <2>6, <2>9, <2>11
  <2>13. End(k) = st[k + 1] - 1
    BY <1>3, <2>11 DEF End
  <2> QED
    BY <1>4, <2>5, <2>6, <2>11, <2>12, <2>13
<1>12. \A k \in 1..c : cut[k] \in PieceTypes
  <2>1. SUFFICES ASSUME NEW k \in 1..c PROVE cut[k] \in PieceTypes
    OBVIOUS
  <2>2. st[k] \in 1..n /\ End(k) \in 1..n /\ st[k] \in Nat
    BY <1>4, <1>7
  <2>3. cut[k] = [type |-> Owner(text, st[k]).type, value |-> SubSeq(text.chars, st[k], End(k))]
    BY <1>3
  <2> HIDE DEF End
  <2>4. \A i \in st[k]..End(k) : text.chars[i] \in Items
    BY <1>1, <2>2
  <2>5. SubSeq(text.chars, st[k], End(k)) \in Seq(Items)
    BY <2>2, <2>4, SubSeqProperties
  <2>6. Owner(text, st[k]).type \in Types \cup {""}
    BY <2>2, OwnerCovers
  <2>7. \A x \in Types \cup {""} : \A y \in Seq(Items) : [type |-> x, value |-> y] \in PieceTypes
    BY DEF PieceTypes
  <2> QED
    BY <2>3, <2>5, <2>6, <2>7
<1>13. cut \in Seq(PieceTypes) /\ Len(cut) = c
  <2>1. DOMAIN cut = 1..c /\ cut = [k \in 1..c |-> cut[k]]
    BY <1>3
  <2>2. cut \in [1..c -> PieceTypes]
    BY <1>12, <2>1
  <2> QED
    BY <1>2, <2>2
<1>14. ASSUME NEW k \in 1..c
       PROVE  /\ ends[k - 1] < ends[k]
              /\ cut[k].value = SubSeq(text.chars, ends[k - 1] + 1, ends[k])
              /\ \A i \in (ends[k - 1] + 1)..ends[k] : cut[k].type = Owner(text, i).type
  <2>1. st[k] = ends[k - 1] + 1 /\ ends[k] = End(k)
    BY <1>6
  <2>2. k - 1 \in 0..c /\ k \in 0..c
    BY <1>2
  <2>3. ends[k - 1] \in 0..n /\ ends[k] \in 0..n
    <3> HIDE DEF ends
    <3> QED
      BY <1>10, <2>2
  <2>4. cut[k].type = Owner(text, st[k]).type /\ cut[k].value = SubSeq(text.chars, st[k], End(k))
    BY <1>3
  <2>5. \A i \in st[k]..End(k) : Owner(text, i) = Owner(text, st[k])
    BY <1>11
  <2>6. st[k] <= End(k)
    BY <1>7
  <2> HIDE DEF ends, End
  <2> QED
    BY <1>1, <2>1, <2>3, <2>4, <2>5, <2>6
<1>15. Ends(text, ends)
  <2> HIDE DEF ends, End
  <2> QED
    BY <1>10, <1>13, <1>14 DEF Ends, cut
<1> QED
  BY <1>15

-----------------------------------------------------------------------------
(* The pieces of several texts, and what the tokenizer issues for them.     *)

\* Whatever is in a part is in the whole.
LEMMA FlattenHolds ==
    ASSUME NEW T, NEW s \in Seq(Seq(T))
    PROVE  /\ FlattenSeq(s) \in Seq(T)
           /\ \A k \in 1..Len(s) : \A j \in 1..Len(s[k]) :
                 \E i \in 1..Len(FlattenSeq(s)) : FlattenSeq(s)[i] = s[k][j]
<1> DEFINE n == Len(s)
<1>1. n \in Nat /\ n \in 0..n /\ \A i \in 1..n : s[i] \in Seq(T)
  OBVIOUS
<1>2. PICK F \in Joins(s, T) : TRUE
  BY JoinsExist
<1>3. F \in [0..n -> Seq(T)] /\ \A i \in 1..n : F[i] = F[i - 1] \o s[i]
  BY <1>2 DEF Joins
<1>4. FlattenSeq(s) = F[n] /\ F[n] \in Seq(T)
  BY <1>1, <1>2, <1>3, FlattenJoins
<1>5. ASSUME NEW k \in 1..n, NEW j \in 1..Len(s[k])
      PROVE  \E i \in 1..Len(F[n]) : F[n][i] = s[k][j]
  <2> DEFINE In(m) == \E i \in 1..Len(F[m]) : F[m][i] = s[k][j]
             Bad == {m \in k..n : ~In(m)}
  <2>1. Bad = {}
    <3>1. SUFFICES ASSUME Bad # {} PROVE FALSE
      OBVIOUS
    <3>2. PICK m \in Bad : \A l \in Bad : m <= l
      <4>1. Bad \subseteq k..n
        OBVIOUS
      <4> HIDE DEF Bad
      <4>2. Bad \subseteq Nat
        BY <1>1, <4>1
      <4> QED
        BY <3>1, <4>2, Least
    <3>3. m \in k..n /\ ~In(m) /\ m \in 1..n /\ m - 1 \in 0..n /\ m - 1 < m /\ m \in Nat
      BY <1>1, <3>2
    <3> DEFINE x == F[m - 1]
               y == s[m]
               z == F[m]
    <3>4. z = x \o y /\ x \in Seq(T) /\ y \in Seq(T) /\ (m = k => y = s[k]) /\ (In(m - 1) <=> \E i \in 1..Len(x) : x[i] = s[k][j])
          /\ ~(\E i \in 1..Len(z) : z[i] = s[k][j])
      BY <1>1, <1>3, <3>3
    <3> HIDE DEF x, y, z
    <3>5. /\ Len(z) = Len(x) + Len(y) /\ Len(x) \in Nat /\ Len(y) \in Nat
          /\ \A i \in 1..Len(z) : z[i] = IF i <= Len(x) THEN x[i] ELSE y[i - Len(x)]
      <4>1. /\ Len(x \o y) = Len(x) + Len(y)
            /\ \A i \in 1..Len(x) + Len(y) : (x \o y)[i] = IF i <= Len(x) THEN x[i] ELSE y[i - Len(x)]
        BY <3>4, ConcatProperties
      <4>2. Len(x) \in Nat /\ Len(y) \in Nat
        BY <3>4
      <4> QED
        BY <3>4, <4>1, <4>2
    <3>6. CASE m = k
      <4>1. j \in 1..Len(y) /\ y = s[k]
        BY <3>4, <3>6
      <4>2. Len(x) + j \in 1..Len(z) /\ ~(Len(x) + j <= Len(x)) /\ (Len(x) + j) - Len(x) = j
        BY <3>5, <4>1
      <4>3. z[Len(x) + j] = y[j]
        BY <3>5, <4>2
      <4> QED
        BY <3>4, <4>1, <4>2, <4>3
    <3>7. CASE m # k
      <4>1. m - 1 \in k..n
        BY <3>3, <3>7
      <4>2. In(m - 1)
        <5>1. m - 1 \notin Bad
          <6> HIDE DEF Bad
          <6> QED
            BY <3>2, <3>3
        <5> QED
          BY <4>1, <5>1
      <4>3. PICK i \in 1..Len(x) : x[i] = s[k][j]
        BY <3>4, <4>2
      <4>4. i \in 1..Len(z) /\ i <= Len(x)
        BY <3>5
      <4>5. z[i] = s[k][j]
        BY <3>5, <4>3, <4>4
      <4> QED
        BY <3>4, <4>4, <4>5
    <3> QED
      BY <3>6, <3>7
  <2>2. n \in k..n
    BY <1>1
  <2> QED
    BY <2>1, <2>2
<1>6. FlattenSeq(s) \in Seq(T)
  BY <1>4
<1>7. \A k \in 1..n : \A j \in 1..Len(s[k]) : \E i \in 1..Len(FlattenSeq(s)) : FlattenSeq(s)[i] = s[k][j]
  <2>1. FlattenSeq(s) = F[n]
    BY <1>4
  <2> QED
    BY <1>5, <2>1
<1> QED
  BY <1>6, <1>7

LEMMA PiecesOfTexts ==
    ASSUME NEW texts, NEW n \in Nat, DOMAIN texts = 1..n, \A k \in 1..n : IsText(texts[k])
    PROVE  /\ PiecesOf(texts) \in Seq(PieceTypes)
           /\ \A k \in 1..n : \A j \in 1..Len(Pieces(texts[k])) :
                 \E i \in 1..Len(PiecesOf(texts)) : PiecesOf(texts)[i] = Pieces(texts[k])[j]
<1> DEFINE s == [k \in 1..n |-> Pieces(texts[k])]
<1>1. \A k \in 1..n : Pieces(texts[k]) \in Seq(PieceTypes)
  BY PiecesEnd DEF Ends
<1>2. s \in Seq(Seq(PieceTypes)) /\ Len(s) = n /\ \A k \in 1..n : s[k] = Pieces(texts[k])
  BY <1>1
<1>3. PiecesOf(texts) = FlattenSeq(s)
  BY DEF PiecesOf
<1> HIDE DEF s
<1>4. /\ FlattenSeq(s) \in Seq(PieceTypes)
      /\ \A k \in 1..Len(s) : \A j \in 1..Len(s[k]) : \E i \in 1..Len(FlattenSeq(s)) : FlattenSeq(s)[i] = s[k][j]
  <2>1. s \in Seq(Seq(PieceTypes))
    BY <1>2
  <2> QED
    BY <2>1, FlattenHolds
<1> QED
  BY <1>2, <1>3, <1>4

\* Order lists what is tokenized, each once.
LEMMA OrderLists ==
    ASSUME NEW ruling, NEW parts \in Seq(PieceTypes)
    PROVE  /\ Order(ruling, parts) \in Seq(PieceTypes)
           /\ \A k \in 1..Len(Order(ruling, parts)) : Tokenized(ruling, Order(ruling, parts)[k])
           /\ \A j, k \in 1..Len(Order(ruling, parts)) : j # k => Order(ruling, parts)[j] # Order(ruling, parts)[k]
           /\ \A i \in 1..Len(parts) : Tokenized(ruling, parts[i]) =>
                 \E k \in 1..Len(Order(ruling, parts)) : Order(ruling, parts)[k] = parts[i]
<1> DEFINE n == Len(parts)
           New(i) == Tokenized(ruling, parts[i]) /\ \A j \in 1..(i - 1) : parts[j] # parts[i]
           S == {i \in DOMAIN parts : New(i)}
           c == Cardinality(S)
           firsts == Ascending(S)
           order == Order(ruling, parts)
<1>1. n \in Nat /\ DOMAIN parts = 1..n /\ \A i \in 1..n : parts[i] \in PieceTypes
  OBVIOUS
<1>2. /\ c \in Nat /\ firsts \in [1..c -> S]
      /\ \A x \in S : \E k \in 1..c : firsts[k] = x
      /\ \A j, k \in 1..c : j < k => firsts[j] < firsts[k]
  <2>1. S \in SUBSET (1..n)
    BY <1>1
  <2> HIDE DEF S
  <2> QED
    BY <1>1, <2>1, AscendingLists
<1>3. \A x \in S : x \in 1..n /\ New(x)
  BY <1>1
<1>4. order = [k \in 1..c |-> parts[firsts[k]]]
  <2>1. order = [k \in DOMAIN firsts |-> parts[firsts[k]]]
    BY DEF Order
  <2> HIDE DEF order, firsts, c, S
  <2> QED
    BY <1>2, <2>1
<1>5. \A i \in 1..n : New(i) => \E k \in 1..c : firsts[k] = i
  BY <1>1, <1>2
<1> HIDE DEF S, c, firsts, order
<1>6. \A k \in 1..c : firsts[k] \in 1..n /\ New(firsts[k]) /\ order[k] = parts[firsts[k]]
  BY <1>2, <1>3, <1>4
<1>7. order \in Seq(PieceTypes) /\ Len(order) = c
  <2>1. \A k \in 1..c : order[k] \in PieceTypes
    BY <1>1, <1>6
  <2>2. order \in [1..c -> PieceTypes]
    BY <1>4, <2>1
  <2> QED
    BY <1>2, <2>2
<1>8. \A k \in 1..c : Tokenized(ruling, order[k])
  BY <1>6
<1>9. ASSUME NEW j \in 1..c, NEW k \in 1..c, j < k PROVE order[j] # order[k]
  <2>1. firsts[j] < firsts[k] /\ firsts[j] \in 1..n /\ firsts[k] \in 1..n
    BY <1>2, <1>6, <1>9
  <2>2. firsts[j] \in 1..(firsts[k] - 1)
    BY <1>1, <2>1
  <2> QED
    BY <1>6, <2>2
<1>10. ASSUME NEW j \in 1..c, NEW k \in 1..c, j # k PROVE order[j] # order[k]
  <2>1. j < k \/ k < j
    BY <1>2, <1>10
  <2> QED
    BY <1>9, <2>1
<1>11. ASSUME NEW i \in 1..n, Tokenized(ruling, parts[i]) PROVE \E k \in 1..c : order[k] = parts[i]
  <2> DEFINE Same == {j \in 1..n : parts[j] = parts[i]}
  <2>1. PICK m \in Same : \A j \in Same : m <= j
    <3>1. Same \in SUBSET Nat /\ Same # {}
      BY <1>1
    <3> HIDE DEF Same
    <3> QED
      BY <3>1, Least
  <2>2. m \in 1..n /\ parts[m] = parts[i] /\ \A j \in 1..n : parts[j] = parts[i] => m <= j
    BY <2>1
  <2>3. \A j \in 1..(m - 1) : j \in 1..n /\ ~(m <= j)
    BY <1>1, <2>2
  <2>4. New(m)
    BY <1>11, <2>2, <2>3
  <2> QED
    BY <1>5, <1>6, <2>2, <2>4
<1> QED
  BY <1>7, <1>8, <1>10, <1>11 DEF order

MappingTypes == [type : Types \cup {""}, value : Seq(Items), holder : Holders]

\* Each placeholder stands for one value, and each value that is tokenized has one.
LEMMA MappingsStand ==
    ASSUME NEW ruling, NEW parts \in Seq(PieceTypes)
    PROVE  LET issued == Mappings(ruling, parts) IN
           /\ issued \in Seq(MappingTypes)
           /\ \A k \in 1..Len(issued) : issued[k].holder.n # 0 /\ issued[k].holder.tag = Tag(issued[k].type)
           /\ \A k \in 1..Len(issued) : Tokenized(ruling, issued[k])
           /\ \A j, k \in 1..Len(issued) : j # k => /\ issued[j].holder # issued[k].holder
                                                    /\ issued[j].type # issued[k].type \/ issued[j].value # issued[k].value
           /\ \A i \in 1..Len(parts) : Tokenized(ruling, parts[i]) =>
                 \E k \in 1..Len(issued) : issued[k].type = parts[i].type /\ issued[k].value = parts[i].value
<1> DEFINE order == Order(ruling, parts)
           c == Len(order)
           Alike(k) == {j \in 1..k : Tag(order[j].type) = Tag(order[k].type)}
           Holder(k) == Placeholder(Tag(order[k].type), Cardinality(Alike(k)))
           issued == Mappings(ruling, parts)
<1>1. /\ order \in Seq(PieceTypes)
      /\ \A k \in 1..c : Tokenized(ruling, order[k])
      /\ \A j, k \in 1..c : j # k => order[j] # order[k]
      /\ \A i \in 1..Len(parts) : Tokenized(ruling, parts[i]) => \E k \in 1..c : order[k] = parts[i]
  BY OrderLists
<1>2. issued = [k \in 1..c |-> [type |-> order[k].type, value |-> order[k].value, holder |-> Holder(k)]]
  <2>1. DOMAIN order = 1..c
    <3> HIDE DEF order
    <3> QED
      BY <1>1
  <2> QED
    BY <2>1 DEF Mappings
<1> HIDE DEF order, issued
<1>3. c \in Nat /\ \A k \in 1..c : order[k] \in PieceTypes
  BY <1>1
<1>4. ASSUME NEW k \in 1..c PROVE IsFiniteSet(Alike(k)) /\ Cardinality(Alike(k)) \in Nat /\ Cardinality(Alike(k)) # 0
  <2>1. Alike(k) \in SUBSET (1..k) /\ k \in Alike(k) /\ k \in Nat
    BY <1>3
  <2>2. IsFiniteSet(1..k)
    BY <2>1, FS_Interval
  <2> HIDE DEF Alike
  <2> QED
    BY <2>1, <2>2, FS_Subset, FS_CardinalityType, FS_EmptySet
<1>5. ASSUME NEW j \in 1..c, NEW k \in 1..c, j < k PROVE Holder(j) # Holder(k)
  <2>1. SUFFICES ASSUME Tag(order[j].type) = Tag(order[k].type) PROVE Cardinality(Alike(j)) # Cardinality(Alike(k))
    BY DEF Placeholder
  <2>2. Alike(j) \in SUBSET Alike(k) /\ k \in Alike(k) /\ k \notin Alike(j)
    BY <1>3, <1>5, <2>1
  <2> HIDE DEF Alike
  <2> QED
    BY <1>4, <2>2, FS_Subset
<1>6. \A j, k \in 1..c : j # k => Holder(j) # Holder(k)
  <2>1. ASSUME NEW j \in 1..c, NEW k \in 1..c, j # k PROVE Holder(j) # Holder(k)
    <3>1. j < k \/ k < j
      BY <1>3, <2>1
    <3> HIDE DEF Holder
    <3> QED
      BY <1>5, <3>1
  <2> QED
    BY <2>1
<1>7. \A k \in 1..c : order[k].type \in Types \cup {""} /\ order[k].value \in Seq(Items)
  BY <1>3 DEF PieceTypes
<1>8. \A k \in 1..c : Holder(k) \in Holders /\ Holder(k).n # 0 /\ Holder(k).tag = Tag(order[k].type)
  <2>1. SUFFICES ASSUME NEW k \in 1..c
                 PROVE  Holder(k) \in Holders /\ Holder(k).n # 0 /\ Holder(k).tag = Tag(order[k].type)
    OBVIOUS
  <2>2. Tag(order[k].type) \in Types \cup {""}
    BY <1>7 DEF Tag, Types
  <2> HIDE DEF Alike
  <2> QED
    BY <1>4, <2>2 DEF Holders, Placeholder
<1> HIDE DEF Holder
<1>9. \A k \in 1..c : /\ issued[k] \in MappingTypes /\ issued[k].holder = Holder(k)
                      /\ issued[k].type = order[k].type /\ issued[k].value = order[k].value
  <2>1. SUFFICES ASSUME NEW k \in 1..c
                 PROVE  /\ issued[k] \in MappingTypes /\ issued[k].holder = Holder(k)
                        /\ issued[k].type = order[k].type /\ issued[k].value = order[k].value
    OBVIOUS
  <2>2. issued[k] = [type |-> order[k].type, value |-> order[k].value, holder |-> Holder(k)]
    BY <1>2
  <2>3. \A x \in Types \cup {""} : \A y \in Seq(Items) : \A h \in Holders :
            [type |-> x, value |-> y, holder |-> h] \in MappingTypes
    BY DEF MappingTypes
  <2>4. issued[k] \in MappingTypes
    BY <1>7, <1>8, <2>2, <2>3
  <2> QED
    BY <2>2, <2>4
<1>10. issued \in Seq(MappingTypes) /\ Len(issued) = c
  <2>1. issued \in [1..c -> MappingTypes]
    BY <1>2, <1>9
  <2> QED
    BY <1>3, <2>1
<1>11. ASSUME NEW j \in 1..c, NEW k \in 1..c, j # k
       PROVE  issued[j].type # issued[k].type \/ issued[j].value # issued[k].value
  <2>1. order[j] # order[k] /\ order[j] \in PieceTypes /\ order[k] \in PieceTypes
    BY <1>1, <1>3, <1>11
  <2>2. \A p \in PieceTypes : p = [type |-> p.type, value |-> p.value]
    <3>1. ASSUME NEW A, NEW B, NEW p \in [type : A, value : B] PROVE p = [type |-> p.type, value |-> p.value]
      OBVIOUS
    <3> QED
      BY <3>1 DEF PieceTypes
  <2>3. order[j].type # order[k].type \/ order[j].value # order[k].value
    BY <2>1, <2>2
  <2> QED
    BY <1>9, <2>3
<1>12. \A k \in 1..c : Tokenized(ruling, issued[k])
  BY <1>1, <1>9 DEF Tokenized, Plain
<1>13. \A i \in 1..Len(parts) : Tokenized(ruling, parts[i]) =>
          \E k \in 1..c : issued[k].type = parts[i].type /\ issued[k].value = parts[i].value
  BY <1>1, <1>9
<1>14. \A k \in 1..c : issued[k].holder.n # 0 /\ issued[k].holder.tag = Tag(issued[k].type)
  BY <1>8, <1>9
<1>15. \A j, k \in 1..c : j # k => issued[j].holder # issued[k].holder
  BY <1>6, <1>9
<1> QED
  BY <1>10, <1>11, <1>12, <1>13, <1>14, <1>15 DEF issued

-----------------------------------------------------------------------------
(* What goes to the model.                                                  *)

\* The pieces put together are the text, and each beginning of them is one of the text.
LEMMA PiecesJoin ==
    ASSUME NEW text, IsText(text), NEW ends, Ends(text, ends)
    PROVE  LET cut == Pieces(text) IN
           /\ \A k \in 0..Len(cut) : Len(FlattenSeq([j \in 1..k |-> cut[j].value])) = ends[k]
           /\ FlattenSeq([j \in 1..Len(cut) |-> cut[j].value]) = text.chars
<1> DEFINE cut == Pieces(text)
           c == Len(cut)
           n == Len(text.chars)
           s == [j \in 1..c |-> cut[j].value]
<1>1. text.chars \in Seq(Items) /\ n \in Nat
  BY DEF IsText, Texts
<1>2. /\ cut \in Seq(PieceTypes)
      /\ ends \in [0..c -> 0..n] /\ ends[0] = 0 /\ ends[c] = n
      /\ \A k \in 1..c : /\ ends[k - 1] < ends[k]
                         /\ cut[k].value = SubSeq(text.chars, ends[k - 1] + 1, ends[k])
  BY DEF Ends
<1> HIDE DEF cut
<1>3. c \in Nat /\ \A k \in 1..c : cut[k] \in PieceTypes
  BY <1>2
<1>4. \A k \in 1..c : cut[k].value \in Seq(Items)
  BY <1>3 DEF PieceTypes
<1>5. s \in Seq(Seq(Items)) /\ Len(s) = c /\ \A k \in 1..c : s[k] = cut[k].value
  BY <1>3, <1>4
<1>6. \A k \in 0..c : [j \in 1..k |-> cut[j].value] = [j \in 1..k |-> s[j]]
  <2>1. SUFFICES ASSUME NEW k \in 0..c PROVE \A j \in 1..k : cut[j].value = s[j]
    OBVIOUS
  <2>2. \A j \in 1..k : j \in 1..c
    BY <1>3
  <2> HIDE DEF s
  <2> QED
    BY <1>5, <2>2
<1> HIDE DEF s
<1>7. PICK F \in Joins(s, Items) : TRUE
  BY <1>5, JoinsExist
<1>8. \A k \in 0..c : FlattenSeq([j \in 1..k |-> cut[j].value]) = F[k]
  <2>1. \A k \in 0..Len(s) : FlattenSeq([j \in 1..k |-> s[j]]) = F[k]
    <3>1. s \in Seq(Seq(Items)) /\ F \in Joins(s, Items)
      BY <1>5
    <3>2. ASSUME NEW k \in 0..Len(s) PROVE FlattenSeq([j \in 1..k |-> s[j]]) = F[k]
      BY <3>1, FlattenPrefix
    <3> QED
      BY <3>2
  <2> QED
    BY <1>5, <1>6, <2>1
<1>9. F[0] = <<>> /\ \A k \in 1..c : F[k] = F[k - 1] \o cut[k].value
  BY <1>5, <1>7 DEF Joins
<1> DEFINE Bad == {k \in 0..c : F[k] # SubSeq(text.chars, 1, ends[k])}
<1>10. Bad = {}
  <2>1. SUFFICES ASSUME Bad # {} PROVE FALSE
    OBVIOUS
  <2>2. PICK k \in Bad : \A i \in Bad : k <= i
    <3>1. Bad \subseteq 0..c
      OBVIOUS
    <3> HIDE DEF Bad
    <3>2. Bad \subseteq Nat
      BY <1>3, <3>1
    <3> QED
      BY <2>1, <3>2, Least
  <2>3. k \in 0..c /\ F[k] # SubSeq(text.chars, 1, ends[k])
    BY <2>2
  <2>4. CASE k = 0
    <3>1. SubSeq(text.chars, 1, 0) = <<>>
      BY SubSeqEmpty
    <3> QED
      BY <1>2, <1>9, <2>3, <2>4, <3>1
  <2>5. CASE k # 0
    <3>1. k \in 1..c /\ k - 1 \in 0..c /\ k - 1 < k /\ k \in Nat
      BY <1>3, <2>3, <2>5
    <3>2. F[k - 1] = SubSeq(text.chars, 1, ends[k - 1])
      <4>1. k - 1 \notin Bad
        <5> HIDE DEF Bad
        <5> QED
          BY <2>2, <3>1
      <4> QED
        BY <3>1, <4>1
    <3>3. ends[k - 1] \in 0..n /\ ends[k] \in 0..n /\ ends[k - 1] < ends[k]
      BY <1>2, <2>3, <3>1
    <3> DEFINE a == ends[k - 1]
               b == ends[k]
    <3>4. 1 \in 1..n + 1 /\ a \in 1-1..n /\ b \in a..n
      BY <1>1, <3>3
    <3> HIDE DEF a, b
    <3>5. SubSeq(text.chars, 1, a) \o SubSeq(text.chars, a + 1, b) = SubSeq(text.chars, 1, b)
      BY <1>1, <3>4, ConcatAdjacentSubSeq
    <3> QED
      BY <1>2, <1>9, <2>3, <3>1, <3>2, <3>5 DEF a, b
  <2> QED
    BY <2>4, <2>5
<1>11. \A k \in 0..c : F[k] = SubSeq(text.chars, 1, ends[k])
  BY <1>10
<1>12. ASSUME NEW k \in 0..c PROVE Len(SubSeq(text.chars, 1, ends[k])) = ends[k]
  <2>1. ends[k] \in 0..n /\ \A i \in 1..ends[k] : text.chars[i] \in Items
    BY <1>1, <1>2
  <2>2. Len(SubSeq(text.chars, 1, ends[k])) = IF 1 <= ends[k] THEN ends[k] - 1 + 1 ELSE 0
    BY <2>1, SubSeqProperties
  <2> QED
    BY <1>1, <2>1, <2>2
<1>13. F[c] = text.chars
  <2>1. c \in 0..c
    BY <1>3
  <2> QED
    BY <1>1, <1>2, <1>11, <2>1, SubSeqFull
<1>14. c \in 0..c
  BY <1>3
<1>15. \A k \in 0..c : Len(FlattenSeq([j \in 1..k |-> cut[j].value])) = ends[k]
  BY <1>8, <1>11, <1>12
<1>16. FlattenSeq([j \in 1..c |-> cut[j].value]) = text.chars
  BY <1>8, <1>13, <1>14
<1> QED
  BY <1>15, <1>16 DEF cut

\* One part is what it is flattened to.
LEMMA FlattenOne ==
    ASSUME NEW T, NEW x \in Seq(T)
    PROVE  FlattenSeq([k \in 1..1 |-> x]) = x
<1> DEFINE s == [k \in 1..1 |-> x]
<1>1. s \in Seq(Seq(T)) /\ Len(s) = 1 /\ s[1] = x
  OBVIOUS
<1> HIDE DEF s
<1>2. PICK F \in Joins(s, T) : TRUE
  BY <1>1, JoinsExist
<1>3. FlattenSeq(s) = F[1]
  BY <1>1, <1>2, FlattenJoins
<1>4. F[0] = <<>> /\ F[1] = F[0] \o x
  BY <1>1, <1>2 DEF Joins
<1> QED
  BY <1>3, <1>4, ConcatEmptySeq DEF s

\* sanitizeOne of one piece.
Shown(ruling, issued, p) ==
    IF Tokenized(ruling, p) THEN <<HolderOf(issued, p)>>
    ELSE IF Plain(p) \/ ActionFor(ruling, p.type) = "keep" THEN p.value ELSE <<>>

\* The placeholder of a piece is the one its value was issued.
LEMMA HolderIsIssued ==
    ASSUME NEW ruling, NEW parts \in Seq(PieceTypes), NEW i \in 1..Len(parts), Tokenized(ruling, parts[i])
    PROVE  LET issued == Mappings(ruling, parts) IN
           \E k \in 1..Len(issued) : /\ issued[k].type = parts[i].type /\ issued[k].value = parts[i].value
                                     /\ HolderOf(issued, parts[i]) = issued[k].holder
<1> DEFINE issued == Mappings(ruling, parts)
           Same(m) == m.type = parts[i].type /\ m.value = parts[i].value
<1>1. /\ issued \in Seq(MappingTypes)
      /\ \A j, k \in 1..Len(issued) : j # k => issued[j].type # issued[k].type \/ issued[j].value # issued[k].value
      /\ \E k \in 1..Len(issued) : issued[k].type = parts[i].type /\ issued[k].value = parts[i].value
  BY MappingsStand
<1> HIDE DEF issued
<1>2. PICK k \in 1..Len(issued) : Same(issued[k])
  BY <1>1
<1>3. ToSet(issued) = {issued[j] : j \in 1..Len(issued)}
  <2>1. DOMAIN issued = 1..Len(issued)
    BY <1>1
  <2> QED
    BY <2>1 DEF ToSet
<1>4. issued[k] \in ToSet(issued) /\ \A m \in ToSet(issued) : Same(m) => m = issued[k]
  <2>1. \A j \in 1..Len(issued) : Same(issued[j]) => j = k
    BY <1>1, <1>2
  <2> HIDE DEF Same
  <2> QED
    BY <1>3, <2>1
<1>5. (CHOOSE m \in ToSet(issued) : Same(m)) = issued[k]
  <2> HIDE DEF Same
  <2> QED
    BY <1>2, <1>4
<1>6. HolderOf(issued, parts[i]) = issued[k].holder
  BY <1>5 DEF HolderOf
<1> QED
  BY <1>2, <1>6 DEF issued

LEMMA ShownTyped ==
    ASSUME NEW ruling, NEW parts \in Seq(PieceTypes), NEW i \in 1..Len(parts)
    PROVE  /\ Shown(ruling, Mappings(ruling, parts), parts[i]) \in Seq(Items)
           /\ Tokenized(ruling, parts[i]) => HolderOf(Mappings(ruling, parts), parts[i]) \in Holders
<1> DEFINE issued == Mappings(ruling, parts)
<1>1. Tokenized(ruling, parts[i]) => HolderOf(issued, parts[i]) \in Holders
  <2>1. issued \in Seq(MappingTypes)
    BY MappingsStand
  <2>2. Tokenized(ruling, parts[i]) => \E k \in 1..Len(issued) : HolderOf(issued, parts[i]) = issued[k].holder
    BY HolderIsIssued
  <2> HIDE DEF issued
  <2>3. \A k \in 1..Len(issued) : issued[k] \in MappingTypes
    BY <2>1
  <2>4. \A m \in MappingTypes : m.holder \in Holders
    BY DEF MappingTypes
  <2> QED
    BY <2>2, <2>3, <2>4
<1>2. parts[i].value \in Seq(Items)
  <2>1. parts[i] \in PieceTypes
    OBVIOUS
  <2> QED
    BY <2>1 DEF PieceTypes
<1> HIDE DEF issued
<1>3. Tokenized(ruling, parts[i]) => <<HolderOf(issued, parts[i])>> \in Seq(Items)
  BY <1>1 DEF Items
<1>4. <<>> \in Seq(Items)
  OBVIOUS
<1>5. Shown(ruling, issued, parts[i]) \in Seq(Items)
  BY <1>2, <1>3, <1>4 DEF Shown
<1> QED
  BY <1>1, <1>5 DEF issued

\* What a part of a sequence is.
LEMMA PartOf ==
    ASSUME NEW T, NEW x \in Seq(T), NEW m \in 1..Len(x), NEW b \in m..Len(x)
    PROVE  /\ SubSeq(x, m, b) \in Seq(T) /\ Len(SubSeq(x, m, b)) = b - m + 1
           /\ \A l \in 1..(b - m + 1) : SubSeq(x, m, b)[l] = x[m + l - 1]
<1>1. \A l \in m..b : x[l] \in T
  OBVIOUS
<1>2. m \in Int /\ b \in Int /\ m <= b
  OBVIOUS
<1>3. SubSeq(x, m, b) \in Seq(T)
  BY <1>1, <1>2, SubSeqProperties
<1>4. Len(SubSeq(x, m, b)) = b - m + 1
  BY <1>1, <1>2, SubSeqProperties
<1>5. \A l \in 1..(b - m + 1) : SubSeq(x, m, b)[l] = x[m + l - 1]
  BY <1>1, <1>2, SubSeqProperties
<1> QED
  BY <1>3, <1>4, <1>5

\* A letter that some pattern found goes to the model as it is only if a rule keeps it.
LEMMA FoundIsHidden ==
    ASSUME NEW ruling, NEW texts, NEW n \in Nat, DOMAIN texts = 1..n, \A s \in 1..n : IsText(texts[s]),
           NEW s \in 1..n, NEW k \in 1..Len(Pieces(texts[s])),
           NEW i \in (Len(FlattenSeq([j \in 1..k - 1 |-> Pieces(texts[s])[j].value])) + 1)
                     ..Len(FlattenSeq([j \in 1..k |-> Pieces(texts[s])[j].value])),
           texts[s].chars[i] \in Letters, Covering(texts[s], i) # {},
           Sanitize(ruling, Mappings(ruling, PiecesOf(texts)), <<Pieces(texts[s])[k]>>) = Pieces(texts[s])[k].value
    PROVE  \E c \in Covering(texts[s], i) : ActionFor(ruling, c.type) = "keep"
<1> DEFINE text == texts[s]
           cut == Pieces(text)
           p == cut[k]
           issued == Mappings(ruling, PiecesOf(texts))
<1>1. PICK ends : Ends(text, ends)
  BY PiecesEnd
<1>2. /\ cut \in Seq(PieceTypes) /\ text.chars \in Seq(Items) /\ Len(text.chars) \in Nat /\ Len(cut) \in Nat
      /\ ends \in [0..Len(cut) -> 0..Len(text.chars)] /\ ends[k - 1] < ends[k]
      /\ p.value = SubSeq(text.chars, ends[k - 1] + 1, ends[k])
      /\ \A l \in (ends[k - 1] + 1)..ends[k] : p.type = Owner(text, l).type
  <2>1. cut \in Seq(PieceTypes) /\ text.chars \in Seq(Items)
    BY <1>1 DEF Ends, IsText, Texts
  <2>2. /\ ends \in [0..Len(cut) -> 0..Len(text.chars)] /\ ends[k - 1] < ends[k]
        /\ p.value = SubSeq(text.chars, ends[k - 1] + 1, ends[k])
        /\ \A l \in (ends[k - 1] + 1)..ends[k] : p.type = Owner(text, l).type
    BY <1>1 DEF Ends
  <2>3. Len(text.chars) \in Nat /\ Len(cut) \in Nat
    <3> HIDE DEF cut, text
    <3> QED
      BY <2>1
  <2> HIDE DEF cut, text, p
  <2> QED
    BY <2>1, <2>2, <2>3
<1>3. k - 1 \in 0..Len(cut) /\ k \in 0..Len(cut)
  BY <1>2
<1>4. i \in (ends[k - 1] + 1)..ends[k]
  <2>1. \A l \in 0..Len(cut) : Len(FlattenSeq([j \in 1..l |-> cut[j].value])) = ends[l]
    BY <1>1, PiecesJoin
  <2> QED
    BY <1>3, <2>1
<1> DEFINE a == ends[k - 1]
           b == ends[k]
<1>5. a \in 0..Len(text.chars) /\ b \in 0..Len(text.chars) /\ a < b /\ i \in (a + 1)..b /\ i \in Nat
  <2>1. a \in 0..Len(text.chars) /\ b \in 0..Len(text.chars)
    BY <1>2, <1>3
  <2>2. a < b /\ i \in (a + 1)..b
    BY <1>2, <1>4
  <2> HIDE DEF a, b
  <2> QED
    BY <1>2, <2>1, <2>2
<1>6. p.type = Owner(text, i).type /\ p.value = SubSeq(text.chars, a + 1, b)
  BY <1>2, <1>4
<1> HIDE DEF a, b
<1>7. PICK c \in Covering(text, i) : c = Owner(text, i) /\ c.type \in Types
  BY <1>5, OwnerCovers
<1>8. p.type = c.type /\ ~Plain(p)
  BY <1>6, <1>7 DEF Plain, Types
<1>9. p.value \in Seq(Items) /\ Len(p.value) = b - a /\ Len(p.value) # 0 /\ p.value[i - a] = text.chars[i] /\ i - a \in 1..Len(p.value)
  <2>1. PICK m \in Nat : m = a + 1 /\ m <= b /\ m \in 1..Len(text.chars) /\ i \in m..b /\ b \in Nat
    BY <1>2, <1>5
  <2>2. b \in m..Len(text.chars) /\ text.chars \in Seq(Items)
    BY <1>2, <1>5, <2>1
  <2> HIDE DEF text
  <2>3. /\ SubSeq(text.chars, m, b) \in Seq(Items)
        /\ Len(SubSeq(text.chars, m, b)) = b - m + 1
        /\ \A l \in 1..b - m + 1 : SubSeq(text.chars, m, b)[l] = text.chars[m + l - 1]
    BY <2>1, <2>2, PartOf
  <2>4. i - a \in 1..b - m + 1 /\ m + (i - a) - 1 = i /\ b - m + 1 = b - a /\ b - a # 0
    <3>1. a \in Nat /\ b \in Nat /\ i \in Nat
      BY <1>2, <1>5, <2>1
    <3>2. a < b /\ a + 1 <= i /\ i <= b /\ m = a + 1
      BY <1>5, <2>1, <3>1
    <3> HIDE DEF text
    <3>3. b - m + 1 = b - a /\ b - a # 0
      BY <3>1, <3>2
    <3>4. i - a >= 1 /\ i - a <= b - a /\ i - a \in Nat
      BY <3>1, <3>2
    <3>5. m + (i - a) - 1 = i
      BY <3>1, <3>2
    <3> QED
      BY <3>1, <3>3, <3>4, <3>5
  <2>5. p.value = SubSeq(text.chars, m, b)
    BY <1>6, <2>1
  <2> HIDE DEF p
  <2> QED
    BY <2>1, <2>3, <2>4, <2>5
<1>10. PICK l \in 1..Len(PiecesOf(texts)) : PiecesOf(texts)[l] = p /\ PiecesOf(texts) \in Seq(PieceTypes)
  BY PiecesOfTexts
<1>11. Shown(ruling, issued, p) \in Seq(Items) /\ (Tokenized(ruling, p) => HolderOf(issued, p) \in Holders)
  BY <1>10, ShownTyped
<1>12. Sanitize(ruling, issued, <<p>>) = Shown(ruling, issued, p)
  <2>1. Sanitize(ruling, issued, <<p>>) = FlattenSeq([j \in 1..1 |-> Shown(ruling, issued, p)])
    <3>1. DOMAIN <<p>> = 1..1 /\ \A j \in 1..1 : <<p>>[j] = p
      OBVIOUS
    <3>2. [j \in DOMAIN <<p>> |-> Shown(ruling, issued, <<p>>[j])] = [j \in 1..1 |-> Shown(ruling, issued, p)]
      <4> HIDE DEF p, issued
      <4> QED
        BY <3>1
    <3> HIDE DEF p, issued
    <3> QED
      BY <3>2 DEF Sanitize, Shown
  <2> QED
    BY <1>11, <2>1, FlattenOne
<1>13. Shown(ruling, issued, p) = p.value
  BY <1>12
<1> HIDE DEF p, issued
<1>14. ~Tokenized(ruling, p)
  <2>1. SUFFICES ASSUME Tokenized(ruling, p) PROVE FALSE
    OBVIOUS
  <2>2. p.value = <<HolderOf(issued, p)>> /\ HolderOf(issued, p) \in Holders
    BY <1>11, <1>13, <2>1 DEF Shown
  <2>3. i - a = 1 /\ p.value[1] = HolderOf(issued, p)
    BY <1>9, <2>2
  <2> QED
    BY <1>9, <2>2, <2>3, LettersAssumption
<1>15. ActionFor(ruling, p.type) = "keep"
  BY <1>8, <1>9, <1>13, <1>14 DEF Shown
<1> QED
  BY <1>7, <1>8, <1>15

-----------------------------------------------------------------------------
(* What goes back.                                                          *)

\* Each item replaced by what f has for it.
Putting(A, B) == [A -> Seq(B)]
Puts(f, x) == FlattenSeq([k \in 1..Len(x) |-> f[x[k]]])

LEMMA PutsTyped ==
    ASSUME NEW A, NEW B, NEW f \in Putting(A, B), NEW x \in Seq(A)
    PROVE  Puts(f, x) \in Seq(B)
<1> DEFINE s == [k \in 1..Len(x) |-> f[x[k]]]
<1>1. s \in Seq(Seq(B))
  <2>1. \A k \in 1..Len(x) : f[x[k]] \in Seq(B)
    BY DEF Putting
  <2> QED
    BY <2>1
<1> HIDE DEF s
<1>2. FlattenSeq(s) \in Seq(B)
  BY <1>1, FlattenHolds
<1> QED
  BY <1>2 DEF Puts, s

LEMMA PutsConcat ==
    ASSUME NEW A, NEW B, NEW f \in Putting(A, B), NEW x \in Seq(A), NEW y \in Seq(A)
    PROVE  Puts(f, x \o y) = Puts(f, x) \o Puts(f, y)
<1> DEFINE s == [k \in 1..Len(x) |-> f[x[k]]]
           t == [k \in 1..Len(y) |-> f[y[k]]]
           z == x \o y
           u == [k \in 1..Len(z) |-> f[z[k]]]
           a == Len(x)
           b == Len(y)
<1>1. /\ z \in Seq(A) /\ Len(z) = a + b /\ a \in Nat /\ b \in Nat
      /\ \A i \in 1..a : z[i] = x[i]
      /\ \A i \in 1..b : z[a + i] = y[i]
  <2>1. z \in Seq(A) /\ Len(z) = a + b /\ a \in Nat /\ b \in Nat
    OBVIOUS
  <2>2. \A i \in 1..a + b : z[i] = IF i <= a THEN x[i] ELSE y[i - a]
    BY ConcatProperties
  <2> HIDE DEF z, a, b
  <2> QED
    BY <2>1, <2>2
<1>2. \A i \in A : f[i] \in Seq(B)
  BY DEF Putting
<1>3. s \in Seq(Seq(B)) /\ Len(s) = a /\ \A i \in 1..a : s[i] = f[x[i]]
  BY <1>2
<1>4. t \in Seq(Seq(B)) /\ Len(t) = b /\ \A i \in 1..b : t[i] = f[y[i]]
  BY <1>2
<1> HIDE DEF z
<1>5. u \in Seq(Seq(B)) /\ Len(u) = a + b /\ \A i \in 1..a + b : u[i] = f[z[i]]
  <2>1. \A i \in 1..Len(z) : f[z[i]] \in Seq(B)
    BY <1>1, <1>2
  <2> QED
    BY <1>1, <1>2, <2>1
<1>6. Puts(f, x) = FlattenSeq(s) /\ Puts(f, y) = FlattenSeq(t) /\ Puts(f, x \o y) = FlattenSeq(u)
  BY DEF Puts, z
<1> HIDE DEF s, t, u, a, b
<1>7. (\A i \in 1..a : u[i] = s[i]) /\ (\A i \in 1..b : u[a + i] = t[i])
  <2>1. \A i \in 1..a : i \in 1..a + b
    BY <1>1
  <2>2. \A i \in 1..b : a + i \in 1..a + b
    BY <1>1
  <2>3. \A i \in 1..a : u[i] = s[i]
    <3>1. SUFFICES ASSUME NEW i \in 1..a PROVE u[i] = s[i]
      OBVIOUS
    <3>2. u[i] = f[z[i]]
      BY <1>5, <2>1
    <3>3. s[i] = f[x[i]]
      BY <1>3
    <3>4. z[i] = x[i]
      BY <1>1
    <3> QED
      BY <3>2, <3>3, <3>4
  <2>4. \A i \in 1..b : u[a + i] = t[i]
    <3>1. SUFFICES ASSUME NEW i \in 1..b PROVE u[a + i] = t[i]
      OBVIOUS
    <3>2. u[a + i] = f[z[a + i]]
      BY <1>5, <2>2
    <3>3. t[i] = f[y[i]]
      BY <1>4
    <3>4. z[a + i] = y[i]
      BY <1>1
    <3> QED
      BY <3>2, <3>3, <3>4
  <2> QED
    BY <2>3, <2>4
<1>8. PICK F \in Joins(s, B) : FlattenSeq(s) = F[a]
  BY <1>3, JoinsExist, FlattenJoins
<1>9. PICK G \in Joins(t, B) : FlattenSeq(t) = G[b]
  BY <1>4, JoinsExist, FlattenJoins
<1>10. PICK H \in Joins(u, B) : FlattenSeq(u) = H[a + b]
  BY <1>5, JoinsExist, FlattenJoins
<1>11. H[a] = F[a]
  <2>1. a <= Len(u) /\ a <= Len(s) /\ a \in 0..a
    BY <1>1, <1>3, <1>5
  <2>2. \A i \in 0..a : H[i] = F[i]
    <3>1. u \in Seq(Seq(B)) /\ s \in Seq(Seq(B)) /\ H \in Joins(u, B) /\ F \in Joins(s, B) /\ a \in Nat
      BY <1>1, <1>3, <1>5
    <3>2. a <= Len(u) /\ a <= Len(s) /\ \A i \in 1..a : u[i] = s[i]
      BY <1>7, <2>1
    <3> QED
      BY <3>1, <3>2, JoinsAgree
  <2> QED
    BY <2>1, <2>2
<1>12. /\ F \in [0..a -> Seq(B)] /\ G \in [0..b -> Seq(B)] /\ H \in [0..a + b -> Seq(B)] /\ G[0] = <<>>
       /\ \A i \in 1..b : G[i] = G[i - 1] \o t[i]
       /\ \A i \in 1..a + b : H[i] = H[i - 1] \o u[i]
  BY <1>3, <1>4, <1>5, <1>8, <1>9, <1>10 DEF Joins
<1> DEFINE Bad == {j \in 0..b : H[a + j] # F[a] \o G[j]}
<1>13. Bad = {}
  <2>1. SUFFICES ASSUME Bad # {} PROVE FALSE
    OBVIOUS
  <2>2. PICK j \in Bad : \A i \in Bad : j <= i
    <3>1. Bad \subseteq 0..b
      OBVIOUS
    <3> HIDE DEF Bad
    <3>2. Bad \subseteq Nat
      BY <1>1, <3>1
    <3> QED
      BY <2>1, <3>2, Least
  <2>3. j \in 0..b /\ H[a + j] # F[a] \o G[j]
    BY <2>2
  <2>4. F[a] \in Seq(B) /\ G[j] \in Seq(B)
    BY <1>1, <1>12, <2>3
  <2>5. CASE j = 0
    <3>1. F[a] \o <<>> = F[a] /\ a + 0 = a
      BY <1>1, <2>4, ConcatEmptySeq
    <3> QED
      BY <1>11, <1>12, <2>3, <2>5, <3>1
  <2>6. CASE j # 0
    <3>1. j \in 1..b /\ j - 1 \in 0..b /\ j - 1 < j /\ j \in Nat /\ a + j \in 1..a + b /\ (a + j) - 1 = a + (j - 1)
      BY <1>1, <2>3, <2>6
    <3>2. H[a + (j - 1)] = F[a] \o G[j - 1]
      <4>1. j - 1 \notin Bad
        <5> HIDE DEF Bad
        <5> QED
          BY <2>2, <3>1
      <4> QED
        BY <3>1, <4>1
    <3>3. H[a + j] = H[a + (j - 1)] \o t[j]
      BY <1>7, <1>12, <3>1
    <3>4. G[j] = G[j - 1] \o t[j] /\ G[j - 1] \in Seq(B) /\ t[j] \in Seq(B)
      <4>1. \A i \in 1..b : t[i] \in Seq(B)
        BY <1>4
      <4> QED
        BY <1>12, <3>1, <4>1
    <3>5. (F[a] \o G[j - 1]) \o t[j] = F[a] \o (G[j - 1] \o t[j])
      <4> HIDE DEF Bad
      <4>1. ASSUME NEW x1 \in Seq(B), NEW x2 \in Seq(B), NEW x3 \in Seq(B)
            PROVE  (x1 \o x2) \o x3 = x1 \o (x2 \o x3)
        BY ConcatAssociative
      <4> QED
        BY <2>4, <3>4, <4>1
    <3> QED
      BY <2>3, <3>2, <3>3, <3>4, <3>5
  <2> QED
    BY <2>5, <2>6
<1>14. b \in 0..b
  BY <1>1
<1>15. H[a + b] = F[a] \o G[b]
  BY <1>13, <1>14
<1> QED
  BY <1>6, <1>8, <1>9, <1>10, <1>15

\* What is put into a flattened sequence is put into each of its parts.
LEMMA PutsFlatten ==
    ASSUME NEW A, NEW B, NEW f \in Putting(A, B), NEW s \in Seq(Seq(A))
    PROVE  Puts(f, FlattenSeq(s)) = FlattenSeq([k \in 1..Len(s) |-> Puts(f, s[k])])
<1> DEFINE n == Len(s)
           t == [k \in 1..n |-> Puts(f, s[k])]
<1>10. ASSUME NEW x \in Seq(A), NEW y \in Seq(A) PROVE Puts(f, x \o y) = Puts(f, x) \o Puts(f, y)
  BY PutsConcat
<1>1. n \in Nat /\ \A k \in 1..n : s[k] \in Seq(A)
  OBVIOUS
<1>2. \A k \in 1..n : Puts(f, s[k]) \in Seq(B)
  BY <1>1, PutsTyped
<1>3. t \in Seq(Seq(B)) /\ Len(t) = n /\ \A k \in 1..n : t[k] = Puts(f, s[k])
  BY <1>1, <1>2
<1> HIDE DEF t
<1>4. PICK F \in Joins(s, A) : FlattenSeq(s) = F[n]
  BY JoinsExist, FlattenJoins
<1>5. PICK G \in Joins(t, B) : FlattenSeq(t) = G[n]
  BY <1>3, JoinsExist, FlattenJoins
<1>6. /\ F \in [0..n -> Seq(A)] /\ F[0] = <<>> /\ \A i \in 1..n : F[i] = F[i - 1] \o s[i]
      /\ G \in [0..n -> Seq(B)] /\ G[0] = <<>> /\ \A i \in 1..n : G[i] = G[i - 1] \o t[i]
  BY <1>3, <1>4, <1>5 DEF Joins
<1> HIDE DEF n
<1> DEFINE Bad == {k \in 0..n : Puts(f, F[k]) # G[k]}
<1>7. Bad = {}
  <2>1. SUFFICES ASSUME Bad # {} PROVE FALSE
    OBVIOUS
  <2>2. PICK k \in Bad : \A i \in Bad : k <= i
    <3>1. Bad \subseteq 0..n
      OBVIOUS
    <3> HIDE DEF Bad
    <3>2. Bad \subseteq Nat
      BY <1>1, <3>1
    <3> QED
      BY <2>1, <3>2, Least
  <2>3. k \in 0..n /\ Puts(f, F[k]) # G[k]
    BY <2>2
  <2>4. CASE k = 0
    <3>1. Puts(f, <<>>) = <<>>
      <4>1. [i \in 1..Len(<<>>) |-> f[<<>>[i]]] = <<>>
        OBVIOUS
      <4>2. FlattenSeq(<<>>) = <<>>
        BY DEF FlattenSeq
      <4> QED
        BY <4>1, <4>2 DEF Puts
    <3> QED
      BY <1>6, <2>3, <2>4, <3>1
  <2>5. CASE k # 0
    <3>1. k \in 1..n /\ k - 1 \in 0..n /\ k - 1 < k /\ k \in Nat
      BY <1>1, <2>3, <2>5
    <3>2. Puts(f, F[k - 1]) = G[k - 1]
      <4>1. k - 1 \notin Bad
        <5> HIDE DEF Bad
        <5> QED
          BY <2>2, <3>1
      <4> QED
        BY <3>1, <4>1
    <3>3. F[k] = F[k - 1] \o s[k] /\ F[k - 1] \in Seq(A) /\ s[k] \in Seq(A) /\ G[k] = G[k - 1] \o t[k]
      BY <1>1, <1>6, <3>1
    <3>4. Puts(f, F[k]) = Puts(f, F[k - 1]) \o Puts(f, s[k])
      BY <1>10, <3>3
    <3> QED
      BY <1>3, <2>3, <3>1, <3>2, <3>3, <3>4
  <2> QED
    BY <2>4, <2>5
<1>8. n \in 0..n
  BY <1>1
<1>9. Puts(f, F[n]) = G[n]
  BY <1>7, <1>8
<1> QED
  BY <1>4, <1>5, <1>9 DEF n, t

\* What Replace makes of one item.
Placed(holder, value) ==
    [i \in Items |-> IF ~FoundIn(holder, i) THEN <<i>>
                     ELSE IF i.n = holder.n THEN value
                     ELSE Append(value, Placeholder("", i.n % Base))]

LEMMA PlacedTyped ==
    ASSUME NEW holder \in Holders, NEW value \in Seq(Items)
    PROVE  Placed(holder, value) \in Putting(Items, Items)
<1> DEFINE One(i) == IF ~FoundIn(holder, i) THEN <<i>>
                     ELSE IF i.n = holder.n THEN value
                     ELSE Append(value, Placeholder("", i.n % Base))
<1>1. ASSUME NEW i \in Items PROVE One(i) \in Seq(Items)
  <2>1. CASE ~FoundIn(holder, i)
    BY <2>1
  <2>2. CASE FoundIn(holder, i)
    <3>1. i \in Holders
      BY <2>2 DEF FoundIn, IsPlaceholder, Items
    <3>2. i.n % Base \in Nat
      <4>1. i.n \in Nat /\ Base \in Nat /\ Base # 0
        BY <3>1, BaseAssumption DEF Holders
      <4>2. \A a, b \in Nat : b # 0 => a % b \in Nat
        OBVIOUS
      <4> QED
        BY <4>1, <4>2
    <3>3. Placeholder("", i.n % Base) \in Items
      BY <3>2 DEF Placeholder, Holders, Items
    <3>4. Append(value, Placeholder("", i.n % Base)) \in Seq(Items)
      <4>1. \A e \in Items : Append(value, e) \in Seq(Items)
        BY AppendProperties
      <4> QED
        BY <3>3, <4>1
    <3> QED
      BY <2>2, <3>4
  <2> QED
    BY <2>1, <2>2
<1> HIDE DEF One
<1>2. [i \in Items |-> One(i)] \in [Items -> Seq(Items)]
  BY <1>1
<1> QED
  BY <1>2 DEF One, Placed, Putting

LEMMA ReplacePuts ==
    ASSUME NEW holder, NEW value, NEW text \in Seq(Items)
    PROVE  Replace(holder, value, text) = Puts(Placed(holder, value), text)
<1> DEFINE One(i) == IF ~FoundIn(holder, i) THEN <<i>>
                     ELSE IF i.n = holder.n THEN value
                     ELSE Append(value, Placeholder("", i.n % Base))
<1>1. \A k \in 1..Len(text) : Placed(holder, value)[text[k]] = One(text[k])
  <2>1. \A i \in Items : Placed(holder, value)[i] = One(i)
    BY DEF Placed
  <2> HIDE DEF One
  <2> QED
    BY <2>1
<1>2. Replace(holder, value, text) = FlattenSeq([k \in 1..Len(text) |-> One(text[k])])
  <2>1. DOMAIN text = 1..Len(text)
    OBVIOUS
  <2> QED
    BY <2>1 DEF Replace
<1> HIDE DEF One
<1>3. [k \in 1..Len(text) |-> One(text[k])] = [k \in 1..Len(text) |-> Placed(holder, value)[text[k]]]
  BY <1>1
<1> QED
  BY <1>2, <1>3 DEF Puts

\* The items of a text, each by itself.
LEMMA FlattenLetters ==
    ASSUME NEW T, NEW x \in Seq(T)
    PROVE  FlattenSeq([k \in 1..Len(x) |-> <<x[k]>>]) = x
<1> DEFINE s == [k \in 1..Len(x) |-> <<x[k]>>]
           n == Len(x)
<1>1. n \in Nat /\ \A k \in 1..n : x[k] \in T /\ <<x[k]>> \in Seq(T)
  OBVIOUS
<1>2. s \in Seq(Seq(T)) /\ Len(s) = n /\ \A k \in 1..n : s[k] = <<x[k]>>
  BY <1>1
<1> HIDE DEF s
<1>3. PICK F \in Joins(s, T) : FlattenSeq(s) = F[n]
  BY <1>2, JoinsExist, FlattenJoins
<1>4. F \in [0..n -> Seq(T)] /\ F[0] = <<>> /\ \A i \in 1..n : F[i] = F[i - 1] \o <<x[i]>>
  BY <1>2, <1>3 DEF Joins
<1> DEFINE Bad == {k \in 0..n : ~(Len(F[k]) = k /\ \A i \in 1..k : F[k][i] = x[i])}
<1>5. Bad = {}
  <2>1. SUFFICES ASSUME Bad # {} PROVE FALSE
    OBVIOUS
  <2>2. PICK k \in Bad : \A i \in Bad : k <= i
    <3>1. Bad \subseteq 0..n
      OBVIOUS
    <3> HIDE DEF Bad
    <3>2. Bad \subseteq Nat
      BY <1>1, <3>1
    <3> QED
      BY <2>1, <3>2, Least
  <2>3. k \in 0..n /\ ~(Len(F[k]) = k /\ \A i \in 1..k : F[k][i] = x[i])
    BY <2>2
  <2>4. CASE k = 0
    BY <1>4, <2>3, <2>4
  <2>5. CASE k # 0
    <3>1. k \in 1..n /\ k - 1 \in 0..n /\ k - 1 < k /\ k \in Nat
      BY <1>1, <2>3, <2>5
    <3>2. Len(F[k - 1]) = k - 1 /\ \A i \in 1..k - 1 : F[k - 1][i] = x[i]
      <4>1. k - 1 \notin Bad
        <5> HIDE DEF Bad
        <5> QED
          BY <2>2, <3>1
      <4> QED
        BY <3>1, <4>1
    <3>3. F[k] = F[k - 1] \o <<x[k]>> /\ F[k - 1] \in Seq(T) /\ <<x[k]>> \in Seq(T)
      BY <1>1, <1>4, <3>1
    <3> DEFINE a == F[k - 1]
               b == <<x[k]>>
    <3>4. Len(b) = 1 /\ b[1] = x[k]
      OBVIOUS
    <3> HIDE DEF a, b
    <3>5. Len(a \o b) = Len(a) + Len(b) /\ \A i \in 1..Len(a) + Len(b) : (a \o b)[i] = IF i <= Len(a) THEN a[i] ELSE b[i - Len(a)]
      BY <3>3, ConcatProperties DEF a, b
    <3>6. Len(a) = k - 1 /\ (\A i \in 1..k - 1 : a[i] = x[i]) /\ F[k] = a \o b
      BY <3>2, <3>3 DEF a, b
    <3>7. Len(F[k]) = k
      BY <3>1, <3>4, <3>5, <3>6
    <3>8. ASSUME NEW i \in 1..k PROVE F[k][i] = x[i]
      <4>1. F[k][i] = IF i <= k - 1 THEN a[i] ELSE b[i - (k - 1)]
        <5>1. i \in 1..Len(a) + Len(b)
          BY <3>1, <3>4, <3>6
        <5> QED
          BY <3>5, <3>6, <5>1
      <4>2. CASE i <= k - 1
        BY <3>1, <3>6, <4>1, <4>2
      <4>3. CASE ~(i <= k - 1)
        <5>1. i = k /\ i - (k - 1) = 1
          BY <3>1, <4>3
        <5> QED
          BY <3>4, <4>1, <4>3, <5>1
      <4> QED
        BY <4>2, <4>3
    <3> QED
      BY <2>3, <3>7, <3>8
  <2> QED
    BY <2>4, <2>5
<1>6. n \in 0..n
  BY <1>1
<1>7. Len(F[n]) = n /\ \A i \in 1..n : F[n][i] = x[i]
  BY <1>5, <1>6
<1>8. F[n] \in Seq(T)
  BY <1>4, <1>6
<1>9. F[n] = x
  BY <1>7, <1>8, SeqEqual
<1> QED
  BY <1>3, <1>9 DEF s

\* What a placeholder is replaced by, and that everything else is left.
LEMMA ReplaceOne ==
    ASSUME NEW holder \in Holders, holder.n # 0, holder.n < Base, NEW value \in Seq(Items)
    PROVE  /\ Replace(holder, value, <<holder>>) = value
           /\ \A other \in Holders : other # holder /\ other.n < Base => Replace(holder, value, <<other>>) = <<other>>
           /\ \A x \in Seq(Items) : (\A k \in 1..Len(x) : x[k] \in Letters) => Replace(holder, value, x) = x
<1> DEFINE f == Placed(holder, value)
<1>1. \A i \in Items : f[i] = IF ~FoundIn(holder, i) THEN <<i>> ELSE IF i.n = holder.n THEN value ELSE Append(value, Placeholder("", i.n % Base))
  BY DEF Placed
<1> HIDE DEF f
<1>2. holder \in Items /\ FoundIn(holder, holder)
  BY LettersAssumption DEF FoundIn, IsPlaceholder, Items
<1>3. ASSUME NEW i \in Items PROVE Puts(f, <<i>>) = FlattenSeq([k \in 1..1 |-> f[i]]) /\ <<i>> \in Seq(Items)
  <2>1. Len(<<i>>) = 1 /\ \A k \in 1..1 : <<i>>[k] = i
    OBVIOUS
  <2>2. [k \in 1..Len(<<i>>) |-> f[<<i>>[k]]] = [k \in 1..1 |-> f[i]]
    BY <2>1
  <2> QED
    BY <2>2 DEF Puts
<1>4. Replace(holder, value, <<holder>>) = value
  <2>1. f[holder] = value
    BY <1>1, <1>2
  <2>2. FlattenSeq([k \in 1..1 |-> value]) = value
    BY FlattenOne
  <2> QED
    BY <1>2, <1>3, <2>1, <2>2, ReplacePuts DEF f
<1>5. ASSUME NEW other \in Holders, other # holder, other.n < Base PROVE Replace(holder, value, <<other>>) = <<other>>
  <2>1. ~FoundIn(holder, other)
    <3>1. other.n \in Nat /\ holder.n \in Nat /\ Base \in Nat /\ other.tag = holder.tag => other.n # holder.n
      <4>1. \A h \in Holders : h = [tag |-> h.tag, n |-> h.n] /\ h.n \in Nat
        <5>1. ASSUME NEW A, NEW h \in [tag : A, n : Nat] PROVE h = [tag |-> h.tag, n |-> h.n] /\ h.n \in Nat
          OBVIOUS
        <5> QED
          BY <5>1 DEF Holders
      <4> QED
        BY <1>5, <4>1, BaseAssumption
    <3>2. other.n \in Nat /\ holder.n \in Nat /\ Base \in Nat
      BY BaseAssumption DEF Holders
    <3>3. \A a, d \in Nat : \A b \in Nat : a # 0 => a * b + d >= b
      OBVIOUS
    <3>4. ASSUME NEW d \in 0..(Base - 1) PROVE other.n # holder.n * Base + d
      <4>1. holder.n * Base + d >= Base
        BY <3>2, <3>3
      <4> QED
        BY <1>5, <3>2, <4>1
    <3> QED
      BY <3>1, <3>2, <3>4 DEF FoundIn
  <2>2. other \in Items
    BY DEF Items
  <2>3. f[other] = <<other>>
    BY <1>1, <2>1, <2>2
  <2>4. FlattenSeq([k \in 1..1 |-> <<other>>]) = <<other>>
    BY <1>3, <2>2, FlattenOne
  <2> QED
    BY <1>3, <2>2, <2>3, <2>4, ReplacePuts DEF f
<1>6. ASSUME NEW x \in Seq(Items), \A k \in 1..Len(x) : x[k] \in Letters PROVE Replace(holder, value, x) = x
  <2>1. \A k \in 1..Len(x) : f[x[k]] = <<x[k]>>
    <3>1. \A k \in 1..Len(x) : x[k] \in Items /\ ~FoundIn(holder, x[k])
      BY <1>6 DEF FoundIn, IsPlaceholder
    <3> QED
      BY <1>1, <3>1
  <2>2. [k \in 1..Len(x) |-> f[x[k]]] = [k \in 1..Len(x) |-> <<x[k]>>]
    BY <2>1
  <2>3. Puts(f, x) = x
    BY <2>2, FlattenLetters DEF Puts
  <2> QED
    BY <2>3, ReplacePuts DEF f
<1> QED
  BY <1>4, <1>5, <1>6

\* What the asker has of a piece when the model says back what it was sent.
BackOf(ruling, issued, p) ==
    IF Tokenized(ruling, p) THEN IF RehydrateAllowed(ruling, p.type) THEN p.value ELSE <<HolderOf(issued, p)>>
    ELSE IF Plain(p) \/ ActionFor(ruling, p.type) = "keep" THEN p.value ELSE <<>>

\* What is there of a piece after the first m values are back.
PartBack(ruling, issued, m, p) ==
    IF /\ Tokenized(ruling, p) /\ RehydrateAllowed(ruling, p.type)
       /\ \E j \in 1..m : issued[j].type = p.type /\ issued[j].value = p.value
    THEN p.value ELSE Shown(ruling, issued, p)

Lettered(x) == \A k \in 1..Len(x) : x[k] \in Letters

\* One value more goes back.
LEMMA PartsGoBack ==
    ASSUME NEW ruling, NEW parts \in Seq(PieceTypes), NEW i \in 1..Len(parts), Lettered(parts[i].value),
           NEW m \in 1..Len(Mappings(ruling, parts)),
           \A k \in 1..Len(Mappings(ruling, parts)) : Mappings(ruling, parts)[k].holder.n < Base
    PROVE  LET issued == Mappings(ruling, parts)
               p == parts[i] IN
           /\ PartBack(ruling, issued, m - 1, p) \in Seq(Items)
           /\ PartBack(ruling, issued, m, p) =
                 IF RehydrateAllowed(ruling, issued[m].type)
                 THEN Replace(issued[m].holder, issued[m].value, PartBack(ruling, issued, m - 1, p))
                 ELSE PartBack(ruling, issued, m - 1, p)
<1> DEFINE issued == Mappings(ruling, parts)
           c == Len(issued)
           p == parts[i]
           Same(j) == issued[j].type = p.type /\ issued[j].value = p.value
           Allowed == RehydrateAllowed(ruling, p.type)
           h == issued[m].holder
           v == issued[m].value
           before == PartBack(ruling, issued, m - 1, p)
           after == PartBack(ruling, issued, m, p)
           shown == Shown(ruling, issued, p)
<1>1. /\ issued \in Seq(MappingTypes)
      /\ \A k \in 1..c : issued[k].holder.n # 0
      /\ \A j, k \in 1..c : j # k => /\ issued[j].holder # issued[k].holder
                                     /\ issued[j].type # issued[k].type \/ issued[j].value # issued[k].value
      /\ \A k \in 1..c : issued[k].holder.n < Base
  <2>1. /\ issued \in Seq(MappingTypes)
        /\ \A k \in 1..c : issued[k].holder.n # 0
        /\ \A j, k \in 1..c : j # k => /\ issued[j].holder # issued[k].holder
                                       /\ issued[j].type # issued[k].type \/ issued[j].value # issued[k].value
    BY MappingsStand
  <2>2. \A k \in 1..c : issued[k].holder.n < Base
    OBVIOUS
  <2> HIDE DEF issued
  <2> QED
    BY <2>1, <2>2
<1>2. p.value \in Seq(Items) /\ Lettered(p.value)
  <2>1. parts[i] \in PieceTypes
    OBVIOUS
  <2> QED
    BY <2>1 DEF PieceTypes
<1>3. shown \in Seq(Items)
  BY ShownTyped
<1>4. Tokenized(ruling, p) => \E j \in 1..c : Same(j) /\ shown = <<issued[j].holder>>
  <2>1. SUFFICES ASSUME Tokenized(ruling, p) PROVE \E j \in 1..c : Same(j) /\ shown = <<issued[j].holder>>
    OBVIOUS
  <2>2. PICK j \in 1..c : Same(j) /\ HolderOf(issued, p) = issued[j].holder
    BY <2>1, HolderIsIssued
  <2> QED
    BY <2>1, <2>2 DEF Shown
<1>5. ~Tokenized(ruling, p) => Lettered(shown)
  <2>1. Lettered(<<>>)
    BY DEF Lettered
  <2> HIDE DEF p, issued
  <2> QED
    BY <1>2, <2>1 DEF Shown
<1>6. before = IF Tokenized(ruling, p) /\ Allowed /\ (\E j \in 1..(m - 1) : Same(j)) THEN p.value ELSE shown
  BY DEF PartBack
<1>7. after = IF Tokenized(ruling, p) /\ Allowed /\ (\E j \in 1..m : Same(j)) THEN p.value ELSE shown
  BY DEF PartBack
<1> HIDE DEF issued, p, shown, before, after
<1>8. /\ m \in 1..c /\ c \in Nat
      /\ (\E j \in 1..m : Same(j)) <=> (Same(m) \/ \E j \in 1..(m - 1) : Same(j))
  <2>1. c \in Nat /\ m \in 1..c
    BY <1>1 DEF issued
  <2>2. ASSUME NEW j \in 1..m PROVE j = m \/ j \in 1..(m - 1)
    BY <2>1
  <2>3. ASSUME NEW j \in 1..(m - 1) PROVE j \in 1..m
    BY <2>1
  <2>4. m \in 1..m
    BY <2>1
  <2> HIDE DEF Same
  <2> QED
    BY <2>1, <2>2, <2>3, <2>4
<1>9. before \in Seq(Items)
  BY <1>2, <1>3, <1>6
<1>10. /\ h \in Holders /\ h.n # 0 /\ h.n < Base /\ v \in Seq(Items)
       /\ \A j \in 1..c : issued[j].holder \in Holders
  <2>1. \A k \in 1..c : issued[k] \in MappingTypes
    BY <1>1
  <2>2. \A x \in MappingTypes : x.holder \in Holders /\ x.value \in Seq(Items)
    BY DEF MappingTypes
  <2>3. m \in 1..c /\ c \in Nat
    <3> HIDE DEF Same
    <3> QED
      BY <1>8
  <2>4. \A j \in 1..c : issued[j].holder \in Holders /\ issued[j].value \in Seq(Items)
    BY <2>1, <2>2
  <2>5. issued[m].holder.n # 0 /\ issued[m].holder.n < Base
    BY <1>1, <2>3
  <2> QED
    BY <2>3, <2>4, <2>5
<1>11. /\ Replace(h, v, <<h>>) = v
       /\ \A j \in 1..c : j # m => Replace(h, v, <<issued[j].holder>>) = <<issued[j].holder>>
       /\ \A x \in Seq(Items) : Lettered(x) => Replace(h, v, x) = x
  <2>1. /\ Replace(h, v, <<h>>) = v
        /\ \A other \in Holders : other # h /\ other.n < Base => Replace(h, v, <<other>>) = <<other>>
        /\ \A x \in Seq(Items) : (\A k \in 1..Len(x) : x[k] \in Letters) => Replace(h, v, x) = x
    <3> HIDE DEF h, v
    <3> QED
      BY <1>10, ReplaceOne
  <2>2. \A j \in 1..c : j # m => issued[j].holder \in Holders /\ issued[j].holder # h /\ issued[j].holder.n < Base
    <3>1. SUFFICES ASSUME NEW j \in 1..c, j # m
                   PROVE  issued[j].holder \in Holders /\ issued[j].holder # h /\ issued[j].holder.n < Base
      OBVIOUS
    <3>2. m \in 1..c
      <4> HIDE DEF Same
      <4> QED
        BY <1>8
    <3>3. issued[j].holder # issued[m].holder /\ issued[j].holder.n < Base
      BY <1>1, <3>1, <3>2
    <3>4. issued[j].holder \in Holders
      BY <1>10
    <3> QED
      BY <3>3, <3>4
  <2> QED
    BY <2>1, <2>2 DEF Lettered
<1>12. ASSUME ~RehydrateAllowed(ruling, issued[m].type) PROVE after = before
  <2>1. Same(m) => ~Allowed
    BY <1>12
  <2> HIDE DEF Same, Allowed
  <2> QED
    BY <1>6, <1>7, <1>8, <2>1
<1>13. ASSUME RehydrateAllowed(ruling, issued[m].type) PROVE after = Replace(h, v, before)
  <2>1. CASE ~Tokenized(ruling, p)
    BY <1>3, <1>5, <1>6, <1>7, <1>11, <2>1
  <2>2. CASE Tokenized(ruling, p)
    <3>1. PICK j \in 1..c : Same(j) /\ shown = <<issued[j].holder>>
      BY <1>4, <2>2
    <3>2. \A l \in 1..c : Same(l) => l = j
      <4>1. ASSUME NEW l \in 1..c, Same(l), l # j PROVE FALSE
        BY <1>1, <3>1, <4>1
      <4> QED
        BY <4>1
    <3>3. j \in 1..c /\ (\E l \in 1..(m - 1) : Same(l)) => j # m
      <4> HIDE DEF Same
      <4>1. \A l \in 1..(m - 1) : l \in 1..c /\ l # m
        BY <1>8
      <4> QED
        BY <3>2, <4>1
    <3>4. Same(m) <=> j = m
      BY <1>8, <3>1, <3>2
    <3>5. j = m => Allowed /\ p.value = v
      BY <1>13, <3>1
    <3>6. Allowed /\ (\E l \in 1..(m - 1) : Same(l)) => after = Replace(h, v, before)
      <4> HIDE DEF Same, Allowed, h, v
      <4> QED
        BY <1>2, <1>6, <1>7, <1>8, <1>11, <2>2
    <3>7. ASSUME ~(Allowed /\ \E l \in 1..(m - 1) : Same(l)) PROVE after = Replace(h, v, before)
      <4>1. before = shown
        <5> HIDE DEF Same, Allowed
        <5> QED
          BY <1>6, <3>7
      <4>2. CASE j = m
        <5>1. before = <<h>> /\ after = v
          <6>1. shown = <<h>>
            BY <3>1, <4>2
          <6>2. Allowed /\ p.value = v /\ Same(m)
            BY <3>4, <3>5, <4>2
          <6>3. after = p.value
            <7> HIDE DEF Same, Allowed, h, v
            <7> QED
              BY <1>7, <1>8, <2>2, <6>2
          <6> QED
            BY <4>1, <6>1, <6>2, <6>3
        <5> QED
          BY <1>11, <5>1
      <4>3. CASE j # m
        <5>1. ~Same(m)
          BY <3>4, <4>3
        <5>2. after = shown
          <6> HIDE DEF Same, Allowed, h, v
          <6> QED
            BY <1>7, <1>8, <3>7, <5>1
        <5>3. Replace(h, v, shown) = shown
          <6> HIDE DEF h, v
          <6> QED
            BY <1>11, <3>1, <4>3
        <5> QED
          BY <4>1, <5>2, <5>3
      <4> QED
        BY <4>2, <4>3
    <3> QED
      BY <3>6, <3>7
  <2> QED
    BY <2>1, <2>2
<1> QED
  BY <1>9, <1>12, <1>13 DEF issued, p, before, after

\* A model that says back what it was sent gives every piece back.
LEMMA EchoReturns ==
    ASSUME NEW ruling, NEW parts \in Seq(PieceTypes), \A i \in 1..Len(parts) : Lettered(parts[i].value),
           \A k \in 1..Len(Mappings(ruling, parts)) : Mappings(ruling, parts)[k].holder.n < Base
    PROVE  LET issued == Mappings(ruling, parts) IN
           Rehydrate(ruling, issued, Sanitize(ruling, issued, parts))
             = FlattenSeq([i \in 1..Len(parts) |-> BackOf(ruling, issued, parts[i])])
<1> DEFINE issued == Mappings(ruling, parts)
           c == Len(issued)
           n == Len(parts)
           text == Sanitize(ruling, issued, parts)
           s(m) == [i \in 1..n |-> PartBack(ruling, issued, m, parts[i])]
           g == [m \in 0..c |-> FlattenSeq(s(m))]
           Given(f) == [k \in 0..c |-> IF k = 0 THEN text
                                       ELSE IF RehydrateAllowed(ruling, issued[k].type)
                                            THEN Replace(issued[k].holder, issued[k].value, f[k - 1])
                                       ELSE f[k - 1]]
           out == CHOOSE f : f = Given(f)
<1>1. /\ issued \in Seq(MappingTypes)
      /\ \A i \in 1..n : Tokenized(ruling, parts[i]) =>
            \E j \in 1..c : issued[j].type = parts[i].type /\ issued[j].value = parts[i].value
  BY MappingsStand
<1>2. Rehydrate(ruling, issued, text) = out[c]
  BY DEF Rehydrate
<1>3. c \in Nat /\ n \in Nat /\ DOMAIN parts = 1..n
  <2> HIDE DEF issued
  <2> QED
    BY <1>1
<1>4. ASSUME NEW m \in 1..c, NEW i \in 1..n
      PROVE  /\ PartBack(ruling, issued, m - 1, parts[i]) \in Seq(Items)
             /\ PartBack(ruling, issued, m, parts[i]) =
                   IF RehydrateAllowed(ruling, issued[m].type)
                   THEN Replace(issued[m].holder, issued[m].value, PartBack(ruling, issued, m - 1, parts[i]))
                   ELSE PartBack(ruling, issued, m - 1, parts[i])
  BY PartsGoBack
<1>5. ASSUME NEW i \in 1..n PROVE PartBack(ruling, issued, 0, parts[i]) = Shown(ruling, issued, parts[i])
  BY DEF PartBack
<1>6. text = FlattenSeq(s(0))
  <2>1. text = FlattenSeq([i \in 1..n |-> Shown(ruling, issued, parts[i])])
    <3> HIDE DEF issued
    <3> QED
      BY <1>3 DEF Sanitize, Shown
  <2> HIDE DEF issued
  <2>2. [i \in 1..n |-> Shown(ruling, issued, parts[i])] = s(0)
    BY <1>5
  <2> HIDE DEF s, text
  <2> QED
    BY <2>1, <2>2
<1> HIDE DEF issued, text
<1>7. \A m \in 1..c : issued[m].holder \in Holders /\ issued[m].value \in Seq(Items)
  <2>1. \A k \in 1..c : issued[k] \in MappingTypes
    BY <1>1
  <2>2. \A x \in MappingTypes : x.holder \in Holders /\ x.value \in Seq(Items)
    BY DEF MappingTypes
  <2> QED
    BY <2>1, <2>2
<1>8. ASSUME NEW m \in 1..c
      PROVE  FlattenSeq(s(m)) = IF RehydrateAllowed(ruling, issued[m].type)
                                THEN Replace(issued[m].holder, issued[m].value, FlattenSeq(s(m - 1)))
                                ELSE FlattenSeq(s(m - 1))
  <2> DEFINE before == s(m - 1)
             h == issued[m].holder
             v == issued[m].value
  <2>1. before \in Seq(Seq(Items)) /\ Len(before) = n /\ \A i \in 1..n : before[i] = PartBack(ruling, issued, m - 1, parts[i])
    BY <1>3, <1>4
  <2>2. CASE RehydrateAllowed(ruling, issued[m].type)
    <3>1. \A i \in 1..n : PartBack(ruling, issued, m, parts[i]) = Replace(h, v, before[i])
      <4>1. \A i \in 1..n : PartBack(ruling, issued, m, parts[i]) = Replace(h, v, PartBack(ruling, issued, m - 1, parts[i]))
        BY <1>4, <2>2
      <4> HIDE DEF before, h, v
      <4> QED
        BY <2>1, <4>1
    <3>2. Placed(h, v) \in Putting(Items, Items)
      BY <1>7, PlacedTyped
    <3> HIDE DEF before, h, v
    <3>3. \A i \in 1..n : before[i] \in Seq(Items)
      BY <2>1
    <3>4. \A i \in 1..n : Replace(h, v, before[i]) = Puts(Placed(h, v), before[i])
      BY <3>3, ReplacePuts
    <3>5. s(m) = [i \in 1..n |-> Puts(Placed(h, v), before[i])]
      BY <3>1, <3>4
    <3> HIDE DEF s
    <3>6. FlattenSeq(before) \in Seq(Items)
      BY <2>1, FlattenHolds
    <3>7. Replace(h, v, FlattenSeq(before)) = Puts(Placed(h, v), FlattenSeq(before))
      BY <3>6, ReplacePuts
    <3>8. Puts(Placed(h, v), FlattenSeq(before)) = FlattenSeq([i \in 1..Len(before) |-> Puts(Placed(h, v), before[i])])
      <4>1. before \in Seq(Seq(Items))
        BY <2>1
      <4> QED
        BY <3>2, <4>1, PutsFlatten
    <3> QED
      BY <2>1, <2>2, <3>5, <3>7, <3>8 DEF before, h, v
  <2>3. CASE ~RehydrateAllowed(ruling, issued[m].type)
    <3>1. \A i \in 1..n : PartBack(ruling, issued, m, parts[i]) = PartBack(ruling, issued, m - 1, parts[i])
      BY <1>4, <2>3
    <3>2. s(m) = s(m - 1)
      BY <3>1
    <3> HIDE DEF s
    <3> QED
      BY <2>3, <3>2
  <2> QED
    BY <2>2, <2>3
<1> HIDE DEF s
<1>9. \A m \in 0..c : g[m] = FlattenSeq(s(m))
  OBVIOUS
<1>10. g = Given(g)
  <2> DEFINE R(k) == IF k = 0 THEN text
                     ELSE IF RehydrateAllowed(ruling, issued[k].type)
                          THEN Replace(issued[k].holder, issued[k].value, g[k - 1])
                     ELSE g[k - 1]
  <2>1. ASSUME NEW k \in 0..c PROVE FlattenSeq(s(k)) = R(k)
    <3>1. CASE k = 0
      BY <1>6, <3>1
    <3>2. CASE k # 0
      <4>1. k \in 1..c /\ k - 1 \in 0..c
        BY <1>3, <3>2
      <4>2. g[k - 1] = FlattenSeq(s(k - 1))
        BY <1>9, <4>1
      <4> HIDE DEF g
      <4> QED
        BY <1>8, <3>2, <4>1, <4>2
    <3> QED
      BY <3>1, <3>2
  <2>2. g = [k \in 0..c |-> FlattenSeq(s(k))]
    OBVIOUS
  <2> HIDE DEF g, R
  <2>3. g = [k \in 0..c |-> R(k)]
    BY <2>1, <2>2
  <2> QED
    BY <2>3 DEF R
<1>11. out = Given(out)
  <2> HIDE DEF Given, g
  <2> QED
    BY <1>10
<1> HIDE DEF out, g
<1> DEFINE Bad == {k \in 0..c : out[k] # g[k]}
<1>12. Bad = {}
  <2>1. SUFFICES ASSUME Bad # {} PROVE FALSE
    OBVIOUS
  <2>2. PICK k \in Bad : \A l \in Bad : k <= l
    <3>1. Bad \subseteq 0..c
      OBVIOUS
    <3> HIDE DEF Bad
    <3>2. Bad \subseteq Nat
      BY <1>3, <3>1
    <3> QED
      BY <2>1, <3>2, Least
  <2>3. k \in 0..c /\ out[k] # g[k]
    BY <2>2
  <2>4. out[k] = IF k = 0 THEN text
                 ELSE IF RehydrateAllowed(ruling, issued[k].type)
                      THEN Replace(issued[k].holder, issued[k].value, out[k - 1])
                 ELSE out[k - 1]
    BY <1>11, <2>3
  <2>5. g[k] = IF k = 0 THEN text
               ELSE IF RehydrateAllowed(ruling, issued[k].type)
                    THEN Replace(issued[k].holder, issued[k].value, g[k - 1])
               ELSE g[k - 1]
    BY <1>10, <2>3
  <2>6. k # 0 => out[k - 1] = g[k - 1]
    <3>1. k # 0 => k - 1 \in 0..c /\ k - 1 < k /\ k \in Nat
      BY <1>3, <2>3
    <3>2. k # 0 => k - 1 \notin Bad
      <4> HIDE DEF Bad
      <4> QED
        BY <2>2, <3>1
    <3> QED
      BY <3>1, <3>2
  <2> QED
    BY <2>3, <2>4, <2>5, <2>6
<1>13. c \in 0..c
  BY <1>3
<1>14. out[c] = FlattenSeq(s(c))
  BY <1>9, <1>12, <1>13
<1>15. \A i \in 1..n : PartBack(ruling, issued, c, parts[i]) = BackOf(ruling, issued, parts[i])
  <2>1. \A i \in 1..n : Tokenized(ruling, parts[i]) => \E j \in 1..c : issued[j].type = parts[i].type /\ issued[j].value = parts[i].value
    BY <1>1
  <2> QED
    BY <2>1 DEF PartBack, BackOf, Shown
<1>16. s(c) = [i \in 1..n |-> BackOf(ruling, issued, parts[i])]
  BY <1>15 DEF s
<1> QED
  BY <1>2, <1>14, <1>16 DEF issued, text

-----------------------------------------------------------------------------
(* The request.                                                             *)

Asked == plan.kind \notin {"text", "backfill"}
Gathering == {"retrieve", "expand", "get", "view", "links"}
Told == {"vault", "model", "answer", "done"}
Pieced(e) == \E k \in DOMAIN pieces : pieces[k].id = e

AskTypes ==
    /\ AskTypeOK
    /\ at = "view" => read \in [id : Entities, high : BOOLEAN] /\ want # <<>>

\* What is let in was asked about; all of retrieval's entities are among its pieces.
EvidenceInv ==
    /\ at \in Gathering => Asked
    /\ Asked => Ids \subseteq vouched
    /\ Asked /\ at \in Told \cup {"policy"} => evidence # <<>>
    /\ at = "retrieve" => want = <<>> /\ evidence = <<>>
    /\ plan.kind = "pieces" /\ at \in Gathering \cup {"policy"} =>
          /\ at # "links"
          /\ \A k \in DOMAIN want : Pieced(want[k])
          /\ at = "view" => Pieced(read.id)
          /\ \A k \in DOMAIN evidence : Pieced(evidence[k].id)

\* The prompt is of the evidence, its pieces are of its texts, and no piece stops it.
PromptStands ==
    LET n == Len(prompt.texts) IN
    /\ n \in Nat /\ DOMAIN prompt.texts = 1..n
    /\ \A k \in 1..n : IsText(prompt.texts[k].text)
    /\ Asked => {prompt.texts[k].id : k \in 1..n} = Ids
    /\ prompt.cut = PiecesOf([k \in 1..n |-> prompt.texts[k].text])
    /\ prompt.issued = Mappings(policy, prompt.cut)
    /\ prompt.sent = Sanitize(policy, prompt.issued, prompt.cut)
    /\ ~DisallowsAI(policy, prompt.cut)
    /\ \A t \in DOMAIN policy.rule : policy.rule[t].action \in Actions
PromptInv ==
    /\ prompt = NoPrompt \/ PromptStands
    /\ at \in Told => PromptStands
    /\ at \in Gathering \cup {"policy"} => prompt = NoPrompt

\* The vault has the first so many of what was issued.
VaultInv ==
    /\ at \in Gathering \cup {"policy"} => vault = {}
    /\ at = "vault" =>
          \E stored \in Nat : /\ stored < Len(prompt.issued) /\ vault = {prompt.issued[k] : k \in 1..stored}
                         /\ IsFiniteSet(vault) /\ Cardinality(vault) = stored
    /\ at \in {"model", "answer", "done"} /\ plan.vault => vault = ToSet(prompt.issued)

AnswerInv ==
    /\ at # "done" => answer = NoAnswer
    /\ at = "done" => answer.text = Restored /\ answer.cites \subseteq IF Asked THEN Ids ELSE {}

AskInv == AskTypes /\ EvidenceInv /\ PromptInv /\ VaultInv /\ AnswerInv

\* What the plan of a request has in it.
LEMMA PlanTypes ==
    ASSUME AskTypeOK
    PROVE  /\ plan.kind \in Kinds /\ plan.root \in Entities /\ plan.linked \subseteq Entities
           /\ plan.vault \in BOOLEAN
           /\ \A e \in Entities : IsText(plan.text[e]) /\ IsText(plan.chunk[e])
           /\ \A r \in plan.rules : r.action \in Actions
<1>1. plan \in Plans
  BY DEF AskTypeOK
<1> QED
  BY <1>1, PlansAssumption DEF IsText

\* Every rule that holds is one of the plan's.
LEMMA RulesOfPlan ==
    ASSUME AskTypeOK, NEW effective \in Resolve(plan.rules, Context)
    PROVE  \A t \in DOMAIN effective.rule : effective.rule[t].action \in Actions
<1> DEFINE matching == {r \in plan.rules : RuleMatches(r, Context)}
           ruled == {r.type : r \in matching}
           best(t) == {r \in matching : r.type = t /\ ~\E s \in matching : s.type = t /\ Outranks(s, r)}
           Rules == {f \in [ruled -> matching] : \A t \in ruled : f[t] \in best(t)}
           least(W) == CHOOSE m \in Modes : /\ \E r \in W : r.mode = m
                                            /\ \A r \in W : Rank[m] <= Rank[r.mode]
           cap(w) == IF ruled = {} THEN "partial" ELSE least({w[t] : t \in ruled})
<1>1. Resolve(plan.rules, Context) = {[rule |-> w, cap |-> cap(w)] : w \in Rules}
  BY DEF Resolve
<1>2. matching \subseteq plan.rules
  OBVIOUS
<1>3. Rules \subseteq [ruled -> matching]
  OBVIOUS
<1> HIDE DEF cap, Rules, matching, ruled
<1>4. PICK w \in [ruled -> matching] : effective.rule = w
  BY <1>1, <1>3
<1>5. \A t \in DOMAIN w : w[t] \in plan.rules
  BY <1>2, <1>4
<1> QED
  BY <1>4, <1>5, PlanTypes

\* The rows that were let in, and which of them is first.
LEMMA IdsTypes ==
    ASSUME AskTypeOK
    PROVE  /\ Ids \subseteq Entities /\ IsFiniteSet(Ids)
           /\ evidence # <<>> => First \in Ids
           /\ evidence = <<>> => Ids = {}
<1>1. evidence \in Seq([id : Entities, high : BOOLEAN])
  BY DEF AskTypeOK
<1>2. \A k \in DOMAIN evidence : evidence[k].id \in Entities
  <2>1. \A k \in DOMAIN evidence : evidence[k] \in [id : Entities, high : BOOLEAN]
    BY <1>1, Members
  <2>2. \A x \in [id : Entities, high : BOOLEAN] : x.id \in Entities
    OBVIOUS
  <2> QED
    BY <2>1, <2>2
<1>3. Ids \subseteq Entities
  BY <1>2 DEF Ids
<1>4. IsFiniteSet(Ids)
  BY <1>3, EntitiesAssumption, FS_Subset
<1>5. evidence # <<>> => evidence[1].id \in Ids
  <2>1. evidence # <<>> => 1 \in DOMAIN evidence
    BY <1>1
  <2> QED
    BY <2>1 DEF Ids
<1>6. evidence # <<>> => First \in Ids
  BY <1>5 DEF First
<1>7. evidence = <<>> => Ids = {}
  BY DEF Ids
<1> QED
  BY <1>3, <1>4, <1>6, <1>7

\* A set of entities in the order of their trust.
LEMMA TrustOrders ==
    ASSUME NEW S \in SUBSET Entities
    PROVE  /\ Cardinality(S) \in Nat
           /\ InOrder(S, TrustRank) \in [1..Cardinality(S) -> S]
           /\ InOrder(S, TrustRank) \in Seq(S) /\ Len(InOrder(S, TrustRank)) = Cardinality(S)
           /\ \A x \in S : \E k \in 1..Cardinality(S) : InOrder(S, TrustRank)[k] = x
<1>1. IsFiniteSet(S)
  BY EntitiesAssumption, FS_Subset
<1>2. \A x \in S : TrustRank[x] \in Nat
  BY EntitiesAssumption
<1>3. \A x \in S : \A y \in S \ {x} : TrustRank[x] # TrustRank[y]
  BY EntitiesAssumption
<1>4. /\ Cardinality(S) \in Nat
      /\ InOrder(S, TrustRank) \in [1..Cardinality(S) -> S]
      /\ \A x \in S : \E k \in 1..Cardinality(S) : InOrder(S, TrustRank)[k] = x
  BY <1>1, <1>2, <1>3, InOrderLists
<1>5. \A n \in Nat : \A f \in [1..n -> S] : f \in Seq(S) /\ Len(f) = n
  OBVIOUS
<1> QED
  BY <1>4, <1>5

\* The texts are those of the rows that were let in, all of them and no others.
LEMMA SegmentsStand ==
    ASSUME AskTypes, EvidenceInv, at = "policy"
    PROVE  /\ Len(Segments) \in Nat /\ DOMAIN Segments = 1..Len(Segments)
           /\ \A k \in 1..Len(Segments) : IsText(Segments[k].text)
           /\ Asked => {Segments[k].id : k \in 1..Len(Segments)} = Ids
<1>0. AskTypeOK
  BY DEF AskTypes
<1>1. /\ plan.root \in Entities
      /\ \A e \in Entities : IsText(plan.text[e]) /\ IsText(plan.chunk[e])
  BY <1>0, PlanTypes
<1>2. Ids \subseteq Entities /\ (Asked => First \in Ids)
  BY <1>0, IdsTypes DEF EvidenceInv
<1>3. CASE ~Asked
  <2>1. Segments = <<[id |-> plan.root, text |-> plan.text[plan.root]]>>
    BY <1>3 DEF Asked, Segments
  <2>2. \A x : Len(<<x>>) = 1 /\ DOMAIN <<x>> = 1..1 /\ <<x>>[1] = x
    OBVIOUS
  <2>3. Len(Segments) = 1 /\ DOMAIN Segments = 1..1 /\ Segments[1].text = plan.text[plan.root]
    BY <2>1, <2>2
  <2>4. \A k \in 1..1 : k = 1
    OBVIOUS
  <2> QED
    BY <1>1, <1>3, <2>3, <2>4
<1>4. CASE Asked /\ plan.kind = "pieces"
  <2> DEFINE S == {k \in DOMAIN pieces : pieces[k].id \in Ids}
             kept == Ascending(S)
             c == Cardinality(S)
             TextOf(p) == IF p.chunk THEN plan.chunk[p.id] ELSE plan.text[p.id]
  <2>1. pieces \in Seq([id : Entities, chunk : BOOLEAN]) /\ Len(pieces) \in Nat /\ DOMAIN pieces = 1..Len(pieces)
        /\ \A k \in DOMAIN pieces : pieces[k].id \in Entities
    <3>1. pieces \in Seq([id : Entities, chunk : BOOLEAN])
      BY <1>0 DEF AskTypeOK
    <3>2. \A x \in [id : Entities, chunk : BOOLEAN] : x.id \in Entities
      OBVIOUS
    <3>3. DOMAIN pieces = 1..Len(pieces) /\ Len(pieces) \in Nat
      BY <3>1
    <3>4. \A k \in DOMAIN pieces : pieces[k] \in [id : Entities, chunk : BOOLEAN]
      BY <3>1, Members
    <3> QED
      BY <3>1, <3>2, <3>3, <3>4
  <2>2. /\ c \in Nat /\ kept \in [1..c -> S]
        /\ \A x \in S : \E k \in 1..c : kept[k] = x
    <3>1. S \in SUBSET (1..Len(pieces))
      BY <2>1
    <3> HIDE DEF S
    <3> QED
      BY <2>1, <3>1, AscendingLists
  <2>3. \A k \in S : k \in DOMAIN pieces /\ pieces[k].id \in Ids
    OBVIOUS
  <2>4. \A k \in DOMAIN pieces : pieces[k].id \in Ids => k \in S
    OBVIOUS
  <2>5. Segments = [k \in DOMAIN kept |-> [id |-> pieces[kept[k]].id, text |-> TextOf(pieces[kept[k]])]]
    BY <1>4 DEF Segments, Asked
  <2> HIDE DEF S, kept, c
  <2>6. DOMAIN Segments = 1..c /\ Len(Segments) = c
    <3>1. DOMAIN kept = 1..c
      BY <2>2
    <3> HIDE DEF TextOf
    <3>2. Segments = [k \in 1..c |-> [id |-> pieces[kept[k]].id, text |-> TextOf(pieces[kept[k]])]]
      BY <2>5, <3>1
    <3> QED
      BY <2>2, <3>2
  <2>7. ASSUME NEW k \in 1..c
        PROVE  kept[k] \in S /\ Segments[k].id = pieces[kept[k]].id /\ Segments[k].text = TextOf(pieces[kept[k]])
    <3>1. DOMAIN kept = 1..c /\ kept[k] \in S
      BY <2>2
    <3> HIDE DEF TextOf
    <3> QED
      BY <2>5, <3>1
  <2>8. \A k \in 1..c : IsText(Segments[k].text)
    <3>1. ASSUME NEW e \in DOMAIN pieces PROVE IsText(TextOf(pieces[e]))
      BY <1>1, <2>1
    <3> HIDE DEF TextOf
    <3> QED
      BY <2>3, <2>7, <3>1
  <2>9. ASSUME NEW e \in Ids PROVE \E k \in 1..c : Segments[k].id = e
    <3>1. PICK l \in DOMAIN evidence : evidence[l].id = e
      BY DEF Ids
    <3>2. PICK x \in DOMAIN pieces : pieces[x].id = e
      BY <1>4, <3>1 DEF EvidenceInv, Pieced
    <3>3. PICK k \in 1..c : kept[k] = x
      BY <2>2, <2>4, <3>2
    <3> QED
      BY <2>7, <3>2, <3>3
  <2>10. \A k \in 1..c : Segments[k].id \in Ids
    BY <2>3, <2>7
  <2>11. {Segments[k].id : k \in 1..c} = Ids
    BY <2>9, <2>10
  <2> QED
    BY <2>2, <2>6, <2>8, <2>11
<1>5. CASE Asked /\ plan.kind # "pieces"
  <2> DEFINE others == InOrder(Ids \ {First}, TrustRank)
             n == Cardinality(Ids \ {First})
             order == <<First>> \o others
  <2>1. /\ n \in Nat /\ others \in Seq(Ids \ {First}) /\ Len(others) = n
        /\ \A x \in Ids \ {First} : \E k \in 1..n : others[k] = x
    BY <1>2, TrustOrders
  <2>2. Segments = [k \in DOMAIN order |-> [id |-> order[k], text |-> plan.text[order[k]]]]
    BY <1>5 DEF Segments, Asked
  <2> HIDE DEF n, others
  <2>3. /\ Len(order) = n + 1 /\ DOMAIN order = 1..(n + 1) /\ order[1] = First
        /\ \A k \in 1..n : order[k + 1] = others[k]
    <3> DEFINE f == <<First>>
    <3>1. Len(f) = 1 /\ f[1] = First /\ f \in Seq(Ids) /\ others \in Seq(Ids)
      BY <1>2, <1>5, <2>1
    <3> HIDE DEF f
    <3>2. /\ Len(f \o others) = Len(f) + Len(others) /\ f \o others \in Seq(Ids)
          /\ \A k \in 1..Len(f) + Len(others) : (f \o others)[k] = IF k <= Len(f) THEN f[k] ELSE others[k - Len(f)]
      BY <3>1, ConcatProperties
    <3>3. order = f \o others
      BY DEF f
    <3> HIDE DEF order
    <3>4. Len(order) = n + 1 /\ DOMAIN order = 1..(n + 1) /\ 1 \in 1..(n + 1) /\ \A k \in 1..n : k + 1 \in 1..(n + 1)
      BY <2>1, <3>1, <3>2, <3>3
    <3>5. \A k \in 1..n : order[k + 1] = others[k]
      <4>1. SUFFICES ASSUME NEW k \in 1..n PROVE order[k + 1] = others[k]
        OBVIOUS
      <4>2. k + 1 \in 1..Len(f) + Len(others) /\ ~(k + 1 <= Len(f)) /\ (k + 1) - Len(f) = k
        BY <2>1, <3>1
      <4> QED
        BY <3>2, <3>3, <4>2
    <3>6. order[1] = First
      BY <2>1, <3>1, <3>2, <3>3
    <3> QED
      BY <3>4, <3>5, <3>6
  <2> HIDE DEF order
  <2>4. Len(Segments) = n + 1 /\ DOMAIN Segments = 1..(n + 1)
        /\ \A k \in 1..(n + 1) : Segments[k].id = order[k] /\ Segments[k].text = plan.text[order[k]]
    BY <2>1, <2>2, <2>3
  <2>5. ASSUME NEW k \in 1..(n + 1) PROVE order[k] \in Ids
    <3>1. k = 1 \/ (k - 1 \in 1..n /\ (k - 1) + 1 = k)
      BY <2>1
    <3>2. \A l \in 1..n : others[l] \in Ids
      BY <2>1
    <3> QED
      BY <1>2, <1>5, <2>3, <3>1, <3>2
  <2>6. ASSUME NEW e \in Ids PROVE \E k \in 1..(n + 1) : order[k] = e
    <3>1. CASE e = First
      <4>1. 1 \in 1..(n + 1)
        BY <2>1
      <4> QED
        BY <2>3, <3>1, <4>1
    <3>2. CASE e # First
      <4>1. PICK k \in 1..n : others[k] = e
        BY <2>1, <3>2
      <4>2. k + 1 \in 1..(n + 1)
        BY <2>1
      <4> QED
        BY <2>3, <4>1, <4>2
    <3> QED
      BY <3>1, <3>2
  <2>7. \A k \in 1..(n + 1) : IsText(Segments[k].text) /\ Segments[k].id \in Ids
    BY <1>1, <1>2, <2>4, <2>5
  <2>8. Len(Segments) \in Nat /\ DOMAIN Segments = 1..Len(Segments)
    BY <2>1, <2>4
  <2>9. {Segments[k].id : k \in 1..(n + 1)} = Ids
    BY <2>4, <2>5, <2>6
  <2> QED
    BY <2>4, <2>7, <2>8, <2>9
<1> QED
  BY <1>3, <1>4, <1>5

LEMMA AskInitInv == AskInit => AskInv
<1> SUFFICES ASSUME AskInit PROVE AskInv
  OBVIOUS
<1>0. plan \in Plans /\ plan.root \in Entities /\ plan.kind \in Kinds
  BY PlansAssumption DEF AskInit
<1>1. want \in Seq(Entities)
  <2>1. <<plan.root>> \in Seq(Entities) /\ <<>> \in Seq(Entities)
    BY <1>0
  <2> QED
    BY <2>1 DEF AskInit
<1>2. /\ at \in {"get", "retrieve", "policy"}
      /\ at = "policy" => ~Asked
      /\ at = "get" => Asked /\ plan.kind = "entity"
      /\ at = "retrieve" => Asked /\ plan.kind # "entity"
  BY <1>0 DEF AskInit, Asked, Kinds
<1>3. /\ evidence = <<>> /\ pieces = <<>> /\ answer = NoAnswer /\ vouched = {} /\ vault = {} /\ prompt = NoPrompt
      /\ linking = FALSE /\ changes = 0
      /\ rows = [e \in Entities |-> [live |-> TRUE, high |-> FALSE]] /\ may = [e \in Entities |-> TRUE]
  BY DEF AskInit
<1>4. AskTypes
  <2>1. rows \in [Entities -> [live : BOOLEAN, high : BOOLEAN]] /\ may \in [Entities -> BOOLEAN]
    BY <1>3
  <2>2. changes \in 0..MaxChanges
    BY <1>3, BoundsAssumption
  <2>3. at \in Stages /\ at # "view" /\ linking \in BOOLEAN
    BY <1>2, <1>3 DEF Stages
  <2>4. pieces \in Seq([id : Entities, chunk : BOOLEAN]) /\ evidence \in Seq([id : Entities, high : BOOLEAN])
    BY <1>3
  <2>5. answer.cites \subseteq Entities /\ vouched \subseteq Entities
    BY <1>3 DEF NoAnswer
  <2> QED
    BY <1>0, <1>1, <2>1, <2>2, <2>3, <2>4, <2>5 DEF AskTypes, AskTypeOK
<1>5. EvidenceInv
  <2>1. Ids = {}
    BY <1>3 DEF Ids
  <2>2. at = "retrieve" => want = <<>>
    BY <1>2 DEF AskInit
  <2>3. plan.kind = "pieces" => want = <<>>
    BY DEF AskInit
  <2>4. at \in Gathering => Asked
    BY <1>2 DEF Gathering
  <2>5. ~(Asked /\ at \in Told \cup {"policy"}) /\ at # "links" /\ at # "view"
    BY <1>2 DEF Told
  <2> QED
    BY <1>3, <2>1, <2>2, <2>3, <2>4, <2>5 DEF EvidenceInv
<1>6. PromptInv /\ VaultInv /\ AnswerInv
  BY <1>2, <1>3 DEF PromptInv, VaultInv, AnswerInv, Told
<1> QED
  BY <1>4, <1>5, <1>6 DEF AskInv

\* What the prompt stands on.
LEMMA StandsStill ==
    ASSUME PromptStands, UNCHANGED <<plan, evidence, policy, prompt>>
    PROVE  PromptStands'
BY DEF PromptStands, Asked, Ids

\* Rows and grants are others' business.
LEMMA WorldStep ==
    ASSUME AskInv, UNCHANGED <<plan, asking>>,
           rows' \in [Entities -> [live : BOOLEAN, high : BOOLEAN]], may' \in [Entities -> BOOLEAN],
           changes' \in 0..MaxChanges
    PROVE  AskInv'
<1>1. /\ plan' = plan /\ at' = at /\ want' = want /\ linking' = linking /\ pieces' = pieces /\ read' = read
      /\ evidence' = evidence /\ policy' = policy /\ prompt' = prompt /\ vault' = vault /\ said' = said
      /\ answer' = answer /\ vouched' = vouched
  BY DEF asking
<1>2. AskTypes'
  BY <1>1 DEF AskInv, AskTypes, AskTypeOK
<1>3. EvidenceInv'
  BY <1>1 DEF AskInv, EvidenceInv, Asked, Ids, Pieced
<1>4. PromptInv'
  BY <1>1, StandsStill DEF AskInv, PromptInv
<1>5. VaultInv'
  BY <1>1 DEF AskInv, VaultInv
<1>6. AnswerInv'
  BY <1>1 DEF AskInv, AnswerInv, Restored, High, Asked, Ids
<1> QED
  BY <1>2, <1>3, <1>4, <1>5, <1>6 DEF AskInv

LEMMA RefuseStep ==
    ASSUME AskInv, Refuse, UNCHANGED world, at # "done"
    PROVE  AskInv'
<1>1. /\ plan' = plan /\ at' = "refused" /\ want' = want /\ linking' = linking /\ pieces' = pieces /\ read' = read
      /\ evidence' = evidence /\ policy' = policy /\ prompt' = prompt /\ vault' = vault /\ said' = said
      /\ answer' = answer /\ vouched' = vouched /\ rows' = rows /\ may' = may /\ changes' = changes
  BY DEF Refuse, world
<1>2. AskTypes'
  BY <1>1 DEF AskInv, AskTypes, AskTypeOK, Stages
<1>3. EvidenceInv'
  BY <1>1 DEF AskInv, EvidenceInv, Asked, Ids, Gathering, Told
<1>4. PromptInv'
  BY <1>1, StandsStill DEF AskInv, PromptInv, Told, Gathering
<1>5. VaultInv' /\ AnswerInv'
  BY <1>1 DEF AskInv, VaultInv, AnswerInv, Gathering
<1> QED
  BY <1>2, <1>3, <1>4, <1>5 DEF AskInv

\* While evidence is gathered there is no prompt, and nothing in the vault.
LEMMA GatherStep ==
    ASSUME AskInv, at \in Gathering, at' \in Gathering \cup {"policy", "refused"}, UNCHANGED world,
           UNCHANGED <<policy, prompt, vault, said, answer>>
    PROVE  PromptInv' /\ VaultInv' /\ AnswerInv'
<1>1. prompt' = NoPrompt /\ vault' = {} /\ answer' = NoAnswer
  BY DEF AskInv, PromptInv, VaultInv, AnswerInv, Gathering
<1>2. at' \notin Told
  BY DEF Gathering, Told
<1>3. at' # "vault" /\ at' \notin {"model", "answer", "done"}
  BY <1>2 DEF Told
<1> QED
  BY <1>1, <1>2, <1>3 DEF PromptInv, VaultInv, AnswerInv

\* The entities of a sequence that lists a set.
LEMMA ListsSet ==
    ASSUME NEW S \in SUBSET Entities, NEW s \in SetToSeqs(S)
    PROVE  s \in Seq(S) /\ s \in Seq(Entities)
<1>1. IsFiniteSet(S)
  BY EntitiesAssumption, FS_Subset
<1>2. Cardinality(S) \in Nat
  BY <1>1, FS_CardinalityType
<1>3. s \in [1..Cardinality(S) -> S]
  BY DEF SetToSeqs
<1> QED
  BY <1>2, <1>3

LEMMA RetrieveStep ==
    ASSUME AskInv, Retrieve, UNCHANGED world
    PROVE  AskInv'
<1>1. /\ at = "retrieve" /\ at \in Gathering /\ AskTypeOK /\ EvidenceInv
      /\ plan' = plan /\ rows' = rows /\ may' = may /\ changes' = changes /\ linking' = linking /\ read' = read
      /\ evidence' = evidence /\ policy' = policy /\ prompt' = prompt /\ vault' = vault /\ said' = said
      /\ answer' = answer /\ vouched' = vouched
  BY DEF Retrieve, world, Gathering, AskInv, AskTypes
<1>2. PICK found \in Hits :
          /\ at' = IF found = <<>> THEN "refused" ELSE IF plan.kind = "pieces" THEN "expand" ELSE "get"
          /\ want' = found
          /\ pieces' \in IF plan.kind = "pieces" THEN Fused(found) ELSE {<<>>}
  BY DEF Retrieve
<1>3. found \in Seq(Entities)
  <2>1. CASE found \in SetToAllKPermutations(Viewable)
    <3>1. PICK S \in SUBSET Viewable : found \in SetToSeqs(S)
      BY <2>1 DEF SetToAllKPermutations
    <3> QED
      BY <3>1, ListsSet DEF Viewable
  <2>2. CASE found \in UNION {[1..n -> Viewable] : n \in 0..MaxPieces}
    <3>1. PICK n \in 0..MaxPieces : found \in [1..n -> Viewable]
      BY <2>2
    <3>2. n \in Nat
      BY <3>1, BoundsAssumption
    <3>3. found \in [1..n -> Entities]
      BY <3>1 DEF Viewable
    <3> QED
      BY <3>2, <3>3
  <2> QED
    BY <1>2, <2>1, <2>2 DEF Hits
<1>4. DOMAIN found = 1..Len(found) /\ Len(found) \in Nat /\ \A k \in DOMAIN found : found[k] \in Entities
  BY <1>3, Members
<1>5. pieces' \in Seq([id : Entities, chunk : BOOLEAN])
      /\ (plan.kind = "pieces" => \A k \in DOMAIN found : k \in DOMAIN pieces' /\ pieces'[k].id = found[k])
  <2>1. CASE plan.kind # "pieces"
    BY <1>2, <2>1
  <2>2. CASE plan.kind = "pieces"
    <3> DEFINE near == CASE plan.mode = "keyword_only" -> {FALSE}
                         [] plan.mode = "semantic_only" -> {TRUE}
                         [] plan.mode = "hybrid" -> BOOLEAN
    <3>1. pieces' \in {[k \in DOMAIN found |-> [id |-> found[k], chunk |-> chunk[k]]] : chunk \in [DOMAIN found -> near]}
      BY <1>2, <2>2 DEF Fused
    <3>2. near \subseteq BOOLEAN
      BY <1>1, PlansAssumption DEF AskTypeOK
    <3> HIDE DEF near
    <3>3. PICK chunk \in [DOMAIN found -> near] : pieces' = [k \in DOMAIN found |-> [id |-> found[k], chunk |-> chunk[k]]]
      BY <3>1
    <3>4. \A k \in DOMAIN found : pieces'[k] \in [id : Entities, chunk : BOOLEAN] /\ pieces'[k].id = found[k]
      BY <1>4, <3>2, <3>3
    <3>5. pieces' \in [1..Len(found) -> [id : Entities, chunk : BOOLEAN]]
      BY <1>4, <3>3, <3>4
    <3> QED
      BY <1>4, <3>3, <3>4, <3>5
  <2> QED
    BY <2>1, <2>2
<1>6. at' \in {"refused", "expand", "get"} /\ (at' = "expand" => plan.kind = "pieces")
  BY <1>2
<1>7. AskTypes'
  BY <1>1, <1>2, <1>3, <1>5, <1>6 DEF AskTypes, AskTypeOK, Stages
<1>8. EvidenceInv'
  <2>1. Asked' /\ evidence' = <<>> /\ Ids' = Ids /\ Ids \subseteq vouched
    BY <1>1 DEF EvidenceInv, Asked, Ids
  <2>2. at' \notin Told \cup {"policy"} /\ at' \notin {"retrieve", "links", "view"}
    BY <1>6 DEF Told
  <2>3. plan'.kind = "pieces" => \A k \in DOMAIN want' : Pieced(want[k])'
    BY <1>1, <1>2, <1>5 DEF Pieced
  <2> QED
    BY <1>1, <2>1, <2>2, <2>3 DEF EvidenceInv
<1>9. PromptInv' /\ VaultInv' /\ AnswerInv'
  <2>1. at' \in Gathering \cup {"policy", "refused"}
    BY <1>6 DEF Gathering
  <2> QED
    BY <1>1, <2>1, GatherStep
<1> QED
  BY <1>7, <1>8, <1>9 DEF AskInv

LEMMA ExpandStep ==
    ASSUME AskInv, Expand, UNCHANGED world
    PROVE  AskInv'
<1>1. /\ at = "expand" /\ at' = "get" /\ at \in Gathering /\ AskTypeOK /\ EvidenceInv
      /\ plan' = plan /\ rows' = rows /\ may' = may /\ changes' = changes /\ linking' = linking /\ read' = read
      /\ evidence' = evidence /\ policy' = policy /\ prompt' = prompt /\ vault' = vault /\ said' = said
      /\ answer' = answer
  BY DEF Expand, world, Gathering, AskInv, AskTypes
<1>2. PICK more \in SUBSET Entities :
          /\ pieces' = pieces \o [k \in DOMAIN InOrder(more, TrustRank) |-> [id |-> InOrder(more, TrustRank)[k], chunk |-> TRUE]]
          /\ want' = want \o InOrder(more, TrustRank)
          /\ vouched' = vouched \cup more
  BY DEF Expand
<1> DEFINE extra == InOrder(more, TrustRank)
           n == Len(extra)
           chunks == [k \in 1..n |-> [id |-> extra[k], chunk |-> TRUE]]
<1>3. extra \in Seq(Entities) /\ n \in Nat /\ DOMAIN extra = 1..n /\ \A k \in 1..n : extra[k] \in Entities
  <2>1. extra \in Seq(more)
    BY TrustOrders
  <2>2. DOMAIN extra = 1..n /\ n \in Nat /\ \A k \in DOMAIN extra : extra[k] \in more
    <3> HIDE DEF extra
    <3> QED
      BY <2>1, Members
  <2> HIDE DEF extra
  <2> QED
    BY <2>1, <2>2
<1>4. want' = want \o extra /\ pieces' = pieces \o chunks
  BY <1>2, <1>3
<1> HIDE DEF extra, n
<1>5. /\ chunks \in Seq([id : Entities, chunk : BOOLEAN]) /\ Len(chunks) = n
      /\ \A k \in 1..n : chunks[k].id = extra[k]
  <2>1. \A k \in 1..n : chunks[k] \in [id : Entities, chunk : BOOLEAN] /\ chunks[k].id = extra[k]
    BY <1>3
  <2> QED
    BY <1>3, <2>1
<1> HIDE DEF chunks
<1>6. /\ want \in Seq(Entities) /\ pieces \in Seq([id : Entities, chunk : BOOLEAN])
      /\ Len(want) \in Nat /\ Len(pieces) \in Nat /\ DOMAIN pieces = 1..Len(pieces) /\ DOMAIN want = 1..Len(want)
  BY <1>1 DEF AskTypeOK
<1>7. want' \in Seq(Entities) /\ pieces' \in Seq([id : Entities, chunk : BOOLEAN])
  BY <1>3, <1>4, <1>5, <1>6
<1>8. /\ Len(pieces') = Len(pieces) + n /\ DOMAIN pieces' = 1..(Len(pieces) + n)
      /\ \A k \in 1..(Len(pieces) + n) : pieces'[k] = IF k <= Len(pieces) THEN pieces[k] ELSE chunks[k - Len(pieces)]
  <2>1. /\ Len(pieces \o chunks) = Len(pieces) + Len(chunks)
        /\ \A k \in 1..Len(pieces) + Len(chunks) :
              (pieces \o chunks)[k] = IF k <= Len(pieces) THEN pieces[k] ELSE chunks[k - Len(pieces)]
    BY <1>5, <1>6, ConcatProperties
  <2>2. DOMAIN pieces' = 1..Len(pieces')
    BY <1>7
  <2> QED
    BY <1>4, <1>5, <2>1, <2>2
<1>9. /\ DOMAIN want' = 1..(Len(want) + n)
      /\ \A k \in 1..(Len(want) + n) : want'[k] = IF k <= Len(want) THEN want[k] ELSE extra[k - Len(want)]
  <2>1. /\ Len(want \o extra) = Len(want) + Len(extra)
        /\ \A k \in 1..Len(want) + Len(extra) :
              (want \o extra)[k] = IF k <= Len(want) THEN want[k] ELSE extra[k - Len(want)]
    BY <1>3, <1>6, ConcatProperties
  <2>2. DOMAIN want' = 1..Len(want')
    BY <1>7
  <2> QED
    BY <1>4, <2>1, <2>2 DEF n
<1>10. \A e : Pieced(e) => Pieced(e)'
  <2>1. ASSUME NEW k \in DOMAIN pieces PROVE k \in DOMAIN pieces' /\ pieces'[k] = pieces[k]
    BY <1>3, <1>6, <1>8
  <2> QED
    BY <2>1 DEF Pieced
<1>11. \A k \in 1..n : Pieced(extra[k])'
  <2>1. SUFFICES ASSUME NEW k \in 1..n PROVE \E l \in DOMAIN pieces' : pieces'[l].id = extra[k]
    BY DEF Pieced
  <2>2. Len(pieces) + k \in 1..(Len(pieces) + n) /\ ~(Len(pieces) + k <= Len(pieces)) /\ (Len(pieces) + k) - Len(pieces) = k
    BY <1>3, <1>6
  <2>3. pieces'[Len(pieces) + k] = chunks[k]
    BY <1>8, <2>2
  <2> QED
    BY <1>5, <1>8, <2>2, <2>3
<1>12. AskTypes'
  <2>1. vouched' \subseteq Entities
    BY <1>1, <1>2 DEF AskTypeOK
  <2> QED
    BY <1>1, <1>7, <2>1 DEF AskTypes, AskTypeOK, Stages
<1>13. EvidenceInv'
  <2>1. Asked' /\ Ids' = Ids /\ Ids \subseteq vouched /\ vouched \subseteq vouched'
    BY <1>1, <1>2 DEF EvidenceInv, Asked, Ids
  <2>2. at' \notin Told \cup {"policy"} /\ at' \notin {"retrieve", "links", "view"}
    BY <1>1 DEF Told
  <2>3. plan.kind = "pieces" => /\ \A k \in DOMAIN want : Pieced(want[k])
                                /\ \A k \in DOMAIN evidence : Pieced(evidence[k].id)
    BY <1>1 DEF EvidenceInv
  <2>4. plan.kind = "pieces" => \A k \in DOMAIN want' : Pieced(want[k])'
    <3>1. SUFFICES ASSUME plan.kind = "pieces", NEW k \in 1..(Len(want) + n) PROVE \E l \in DOMAIN pieces' : pieces'[l].id = want'[k]
      BY <1>9 DEF Pieced
    <3>2. CASE k <= Len(want)
      <4>1. k \in DOMAIN want /\ want'[k] = want[k]
        BY <1>3, <1>6, <1>9, <3>2
      <4> QED
        BY <1>10, <2>3, <3>1, <4>1 DEF Pieced
    <3>3. CASE ~(k <= Len(want))
      <4>1. k - Len(want) \in 1..n /\ want'[k] = extra[k - Len(want)]
        BY <1>3, <1>6, <1>9, <3>3
      <4> QED
        BY <1>11, <4>1 DEF Pieced
    <3> QED
      BY <3>2, <3>3
  <2>5. plan.kind = "pieces" => \A k \in DOMAIN evidence' : Pieced(evidence[k].id)'
    <3>1. plan.kind = "pieces" => \A k \in DOMAIN evidence : Pieced(evidence[k].id)
      BY <2>3
    <3>2. \A k \in DOMAIN evidence : Pieced(evidence[k].id) => \E l \in DOMAIN pieces' : pieces'[l].id = evidence[k].id
      BY <1>10 DEF Pieced
    <3> QED
      BY <1>1, <3>1, <3>2 DEF Pieced
  <2> QED
    BY <1>1, <2>1, <2>2, <2>4, <2>5 DEF EvidenceInv
<1>14. PromptInv' /\ VaultInv' /\ AnswerInv'
  <2>1. at' \in Gathering \cup {"policy", "refused"}
    BY <1>1 DEF Gathering
  <2> QED
    BY <1>1, <2>1, GatherStep
<1> QED
  BY <1>12, <1>13, <1>14 DEF AskInv

\* What is left to read.
LEMMA TailOf ==
    ASSUME NEW T, NEW s \in Seq(T), s # <<>>
    PROVE  /\ Head(s) \in T /\ Tail(s) \in Seq(T) /\ 1 \in DOMAIN s /\ Head(s) = s[1]
           /\ \A k \in DOMAIN Tail(s) : k + 1 \in DOMAIN s /\ Tail(s)[k] = s[k + 1]
<1>1. Head(s) \in T /\ Tail(s) \in Seq(T) /\ 1 \in DOMAIN s /\ Head(s) = s[1]
  OBVIOUS
<1>2. Len(s) \in Nat /\ Len(s) # 0 /\ Len(Tail(s)) = Len(s) - 1 /\ DOMAIN Tail(s) = 1..(Len(s) - 1) /\ DOMAIN s = 1..Len(s)
  OBVIOUS
<1>3. \A k \in 1..(Len(s) - 1) : Tail(s)[k] = s[k + 1]
  OBVIOUS
<1>4. \A k \in 1..(Len(s) - 1) : k + 1 \in 1..Len(s)
  BY <1>2
<1> QED
  BY <1>1, <1>2, <1>3, <1>4

LEMMA GetStep ==
    ASSUME AskInv, Get, UNCHANGED world
    PROVE  AskInv'
<1>1. /\ at = "get" /\ at \in Gathering /\ at # "done" /\ AskTypeOK /\ EvidenceInv /\ want \in Seq(Entities) /\ want # <<>>
      /\ plan' = plan /\ rows' = rows /\ may' = may /\ changes' = changes
  BY DEF Get, world, Gathering, AskInv, AskTypes, AskTypeOK
<1> DEFINE e == Head(want)
<1>2. /\ e \in Entities /\ Tail(want) \in Seq(Entities) /\ 1 \in DOMAIN want /\ e = want[1]
      /\ \A k \in DOMAIN Tail(want) : k + 1 \in DOMAIN want /\ Tail(want)[k] = want[k + 1]
  BY <1>1, TailOf
<1> HIDE DEF e
<1>3. CASE /\ at' = "view" /\ read' = [id |-> e, high |-> rows[e].high]
           /\ UNCHANGED <<want, linking, pieces, evidence, policy, prompt, vault, said, answer, vouched>>
  <2>1. rows[e].high \in BOOLEAN
    BY <1>1, <1>2 DEF AskTypeOK
  <2>2. read' \in [id : Entities, high : BOOLEAN] /\ read'.id = e
    BY <1>2, <1>3, <2>1
  <2>3. AskTypes'
    BY <1>1, <1>3, <2>2 DEF AskTypes, AskTypeOK, Stages
  <2>4. EvidenceInv'
    <3>1. at' = "view" /\ at' \notin Told \cup {"policy"}
      BY <1>3 DEF Told
    <3> QED
      BY <1>1, <1>2, <1>3, <2>2, <3>1 DEF EvidenceInv, Asked, Ids, Pieced
  <2>5. PromptInv' /\ VaultInv' /\ AnswerInv'
    <3>1. at' \in Gathering \cup {"policy", "refused"}
      BY <1>3 DEF Gathering
    <3> QED
      BY <1>1, <1>3, <3>1, GatherStep
  <2> QED
    BY <2>3, <2>4, <2>5 DEF AskInv
<1>4. CASE Refuse
  BY <1>1, <1>4, RefuseStep
<1>5. CASE /\ want' = Tail(want)
           /\ UNCHANGED <<at, linking, pieces, read, evidence, policy, prompt, vault, said, answer, vouched>>
  <2>1. AskTypes'
    BY <1>1, <1>2, <1>5 DEF AskTypes, AskTypeOK
  <2>2. EvidenceInv'
    <3>1. at' = "get" /\ at' \notin Told \cup {"policy"}
      BY <1>1, <1>5 DEF Told
    <3>2. plan.kind = "pieces" => \A k \in DOMAIN want' : Pieced(want[k])'
      BY <1>1, <1>2, <1>5 DEF EvidenceInv, Pieced
    <3> QED
      BY <1>1, <1>5, <3>1, <3>2 DEF EvidenceInv, Asked, Ids, Pieced
  <2>3. PromptInv' /\ VaultInv' /\ AnswerInv'
    <3>1. at' \in Gathering \cup {"policy", "refused"}
      BY <1>1, <1>5
    <3> QED
      BY <1>1, <1>5, <3>1, GatherStep
  <2> QED
    BY <2>1, <2>2, <2>3 DEF AskInv
<1> QED
  BY <1>3, <1>4, <1>5 DEF Get, e

LEMMA CanViewStep ==
    ASSUME AskInv, CanView, UNCHANGED world
    PROVE  AskInv'
<1>1. /\ at = "view" /\ at \in Gathering /\ at # "done" /\ AskTypeOK /\ EvidenceInv /\ want \in Seq(Entities)
      /\ read \in [id : Entities, high : BOOLEAN] /\ want # <<>>
      /\ evidence \in Seq([id : Entities, high : BOOLEAN])
      /\ plan' = plan /\ rows' = rows /\ may' = may /\ changes' = changes
  BY DEF CanView, world, Gathering, AskInv, AskTypes, AskTypeOK
<1>2. CASE Refuse
  BY <1>1, <1>2, RefuseStep
<1>3. CASE /\ evidence' = IF may[read.id] THEN Append(evidence, read) ELSE evidence
           /\ vouched' = IF may[read.id] THEN vouched \cup {read.id} ELSE vouched
           /\ at' = "get" /\ want' = Tail(want) /\ read' = NoRow
           /\ UNCHANGED <<linking, pieces, policy, prompt, vault, said, answer>>
  <2>1. /\ Tail(want) \in Seq(Entities)
        /\ \A k \in DOMAIN Tail(want) : k + 1 \in DOMAIN want /\ Tail(want)[k] = want[k + 1]
    BY <1>1, TailOf
  <2>2. read.id \in Entities
    BY <1>1
  <2>3. /\ evidence' \in Seq([id : Entities, high : BOOLEAN])
        /\ \A k \in DOMAIN evidence' : (k \in DOMAIN evidence /\ evidence'[k] = evidence[k])
                                        \/ (evidence'[k] = read /\ may[read.id])
    <3>1. ASSUME NEW T, NEW s \in Seq(T), NEW x \in T
          PROVE  /\ Append(s, x) \in Seq(T)
                 /\ \A k \in DOMAIN Append(s, x) : (k \in DOMAIN s /\ Append(s, x)[k] = s[k]) \/ Append(s, x)[k] = x
      <4>1. /\ Append(s, x) \in Seq(T) /\ Len(s) \in Nat /\ DOMAIN s = 1..Len(s)
            /\ DOMAIN Append(s, x) = 1..(Len(s) + 1)
            /\ \A k \in 1..Len(s) : Append(s, x)[k] = s[k]
            /\ Append(s, x)[Len(s) + 1] = x
        OBVIOUS
      <4>2. \A k \in 1..(Len(s) + 1) : k \in 1..Len(s) \/ k = Len(s) + 1
        BY <4>1
      <4> QED
        BY <4>1, <4>2
    <3>2. CASE may[read.id]
      <4>1. evidence' = Append(evidence, read)
        BY <1>3, <3>2
      <4>2. /\ Append(evidence, read) \in Seq([id : Entities, high : BOOLEAN])
            /\ \A k \in DOMAIN Append(evidence, read) :
                  (k \in DOMAIN evidence /\ Append(evidence, read)[k] = evidence[k]) \/ Append(evidence, read)[k] = read
        BY <1>1, <3>1
      <4> QED
        BY <3>2, <4>1, <4>2
    <3>3. CASE ~may[read.id]
      BY <1>1, <1>3, <3>3
    <3> QED
      BY <3>2, <3>3
  <2>4. vouched \subseteq vouched' /\ vouched' \subseteq Entities /\ (may[read.id] => read.id \in vouched')
    BY <1>1, <1>3, <2>2 DEF AskTypeOK
  <2>5. AskTypes'
    BY <1>1, <1>3, <2>1, <2>3, <2>4 DEF AskTypes, AskTypeOK, Stages
  <2>6. EvidenceInv'
    <3>1. at' = "get" /\ at' \notin Told \cup {"policy"}
      BY <1>3 DEF Told
    <3>2. Asked => Ids' \subseteq vouched'
      <4>1. Asked => \A k \in DOMAIN evidence : evidence[k].id \in vouched
        BY <1>1 DEF EvidenceInv, Ids
      <4>2. Asked => \A k \in DOMAIN evidence' : evidence'[k].id \in vouched'
        BY <2>3, <2>4, <4>1
      <4> QED
        BY <4>2 DEF Ids
    <3>3. plan.kind = "pieces" => \A k \in DOMAIN want' : Pieced(want[k])'
      <4>1. plan.kind = "pieces" => \A k \in DOMAIN want : \E l \in DOMAIN pieces : pieces[l].id = want[k]
        BY <1>1 DEF EvidenceInv, Pieced
      <4> QED
        BY <1>3, <2>1, <4>1 DEF Pieced
    <3>4. plan.kind = "pieces" => \A k \in DOMAIN evidence' : Pieced(evidence[k].id)'
      <4>1. plan.kind = "pieces" => /\ \A k \in DOMAIN evidence : \E l \in DOMAIN pieces : pieces[l].id = evidence[k].id
                                    /\ \E l \in DOMAIN pieces : pieces[l].id = read.id
        BY <1>1 DEF EvidenceInv, Pieced
      <4> QED
        BY <1>3, <2>3, <4>1 DEF Pieced
    <3>5. Asked' /\ Asked
      BY <1>1 DEF EvidenceInv, Asked
    <3> QED
      BY <1>1, <3>1, <3>2, <3>3, <3>4, <3>5 DEF EvidenceInv
  <2>7. PromptInv' /\ VaultInv' /\ AnswerInv'
    <3>1. at' \in Gathering \cup {"policy", "refused"}
      BY <1>3 DEF Gathering
    <3> QED
      BY <1>1, <1>3, <3>1, GatherStep
  <2> QED
    BY <2>5, <2>6, <2>7 DEF AskInv
<1> QED
  BY <1>2, <1>3 DEF CanView

LEMMA CollectedStep ==
    ASSUME AskInv, Collected, UNCHANGED world
    PROVE  AskInv'
<1>1. /\ at = "get" /\ at \in Gathering /\ AskTypeOK /\ EvidenceInv /\ want' = <<>>
      /\ plan' = plan /\ rows' = rows /\ may' = may /\ changes' = changes
      /\ linking' = linking /\ pieces' = pieces /\ read' = read
      /\ evidence' = evidence /\ policy' = policy /\ prompt' = prompt /\ vault' = vault /\ said' = said
      /\ answer' = answer /\ vouched' = vouched
  BY DEF Collected, world, Gathering, AskInv, AskTypes, AskTypeOK
<1>2. /\ at' \in {"refused", "links", "policy"}
      /\ at' # "refused" => evidence # <<>>
      /\ at' = "links" => plan.kind # "pieces"
  BY DEF Collected
<1>3. AskTypes'
  <2>1. want' \in Seq(Entities) /\ at' \in Stages /\ at' # "view"
    BY <1>1, <1>2 DEF Stages
  <2> QED
    BY <1>1, <2>1 DEF AskTypes, AskTypeOK
<1>4. EvidenceInv'
  <2>1. /\ at' \notin Told /\ (at' = "policy" => evidence # <<>>) /\ at' # "retrieve" /\ at' # "view"
        /\ Asked' /\ Ids' = Ids /\ Ids \subseteq vouched
    BY <1>1, <1>2 DEF Told, EvidenceInv, Asked, Ids
  <2>2. plan.kind = "pieces" => \A k \in DOMAIN evidence' : Pieced(evidence[k].id)'
    BY <1>1 DEF EvidenceInv, Pieced
  <2> QED
    BY <1>1, <1>2, <2>1, <2>2 DEF EvidenceInv
<1>5. PromptInv' /\ VaultInv' /\ AnswerInv'
  <2>1. at' \in Gathering \cup {"policy", "refused"}
    BY <1>2 DEF Gathering
  <2> QED
    BY <1>1, <2>1, GatherStep
<1> QED
  BY <1>3, <1>4, <1>5 DEF AskInv

LEMMA LinksStep ==
    ASSUME AskInv, Links, UNCHANGED world
    PROVE  AskInv'
<1>1. /\ at = "links" /\ at \in Gathering /\ AskTypeOK /\ EvidenceInv /\ at' = "get" /\ linking' = TRUE
      /\ plan' = plan /\ rows' = rows /\ may' = may /\ changes' = changes
      /\ pieces' = pieces /\ read' = read
      /\ evidence' = evidence /\ policy' = policy /\ prompt' = prompt /\ vault' = vault /\ said' = said
      /\ answer' = answer /\ vouched' = vouched
  BY DEF Links, world, Gathering, AskInv, AskTypes, AskTypeOK
<1>2. PICK linked \in SetToSeqs(plan.linked \ Ids) : want' = linked
  BY DEF Links
<1>3. want' \in Seq(Entities)
  <2>1. plan.linked \ Ids \subseteq Entities
    BY <1>1, PlanTypes
  <2> QED
    BY <1>2, <2>1, ListsSet
<1>4. AskTypes'
  BY <1>1, <1>3 DEF AskTypes, AskTypeOK, Stages
<1>5. EvidenceInv'
  <2>1. /\ at' \notin Told \cup {"policy"} /\ plan.kind # "pieces"
        /\ Asked' /\ Ids' = Ids /\ Ids \subseteq vouched
    BY <1>1 DEF Told, EvidenceInv, Asked, Ids
  <2> QED
    BY <1>1, <2>1 DEF EvidenceInv
<1>6. PromptInv' /\ VaultInv' /\ AnswerInv'
  <2>1. at' \in Gathering \cup {"policy", "refused"}
    BY <1>1 DEF Gathering
  <2> QED
    BY <1>1, <2>1, GatherStep
<1> QED
  BY <1>4, <1>5, <1>6 DEF AskInv

\* The prompt is of the evidence.
LEMMA PromptMade ==
    ASSUME AskTypes, EvidenceInv, at = "policy", NEW effective \in Resolve(plan.rules, Context),
           prompt' = Prompt(effective), policy' = effective, UNCHANGED <<plan, evidence>>,
           ~DisallowsAI(effective, Prompt(effective).cut)
    PROVE  PromptStands'
<1> DEFINE texts == Segments
           n == Len(texts)
           cut == PiecesOf([k \in DOMAIN texts |-> texts[k].text])
           issued == Mappings(effective, cut)
<1>1. /\ n \in Nat /\ DOMAIN texts = 1..n
      /\ \A k \in 1..n : IsText(texts[k].text)
      /\ Asked => {texts[k].id : k \in 1..n} = Ids
  BY SegmentsStand
<1>2. Prompt(effective) = [texts |-> texts, cut |-> cut, issued |-> issued, sent |-> Sanitize(effective, issued, cut)]
  BY DEF Prompt
<1> HIDE DEF texts
<1>3. cut = PiecesOf([k \in 1..n |-> texts[k].text])
  BY <1>1
<1> HIDE DEF cut, issued
<1>4. prompt'.texts = texts /\ prompt'.cut = cut /\ prompt'.issued = issued /\ prompt'.sent = Sanitize(effective, issued, cut)
  BY <1>2
<1>5. Asked' <=> Asked
  BY DEF Asked
<1>6. Ids' = Ids
  BY DEF Ids
<1>7. \A t \in DOMAIN effective.rule : effective.rule[t].action \in Actions
  BY RulesOfPlan DEF AskTypes
<1>8. issued = Mappings(effective, cut)
  BY DEF issued
<1>9. ~DisallowsAI(effective, cut)
  BY <1>2
<1> QED
  BY <1>1, <1>3, <1>4, <1>5, <1>6, <1>7, <1>8, <1>9 DEF PromptStands

LEMMA ResolveStep ==
    ASSUME AskInv, ResolveAndSanitize, UNCHANGED world
    PROVE  AskInv'
<1>1. /\ at = "policy" /\ at # "done" /\ AskTypes /\ AskTypeOK /\ EvidenceInv /\ vault = {} /\ answer = NoAnswer
      /\ plan' = plan /\ rows' = rows /\ may' = may /\ changes' = changes
  BY DEF ResolveAndSanitize, world, AskInv, AskTypes, VaultInv, AnswerInv
<1>2. PICK effective \in Resolve(plan.rules, Context) :
          LET new == Prompt(effective)
              stored == new.issued # <<>> /\ plan.vault IN
          IF DisallowsAI(effective, new.cut) \/ (stored /\ plan.kind = "backfill") THEN Refuse
          ELSE /\ policy' = effective
               /\ prompt' = new
               /\ at' = IF stored THEN "vault" ELSE "model"
               /\ UNCHANGED <<want, linking, pieces, read, evidence, vault, said, answer, vouched>>
  BY DEF ResolveAndSanitize
<1> DEFINE new == Prompt(effective)
           stored == new.issued # <<>> /\ plan.vault
<1>3. CASE Refuse
  BY <1>1, <1>3, RefuseStep
<1>4. CASE /\ ~DisallowsAI(effective, new.cut)
           /\ policy' = effective /\ prompt' = new /\ at' = IF stored THEN "vault" ELSE "model"
           /\ UNCHANGED <<want, linking, pieces, read, evidence, vault, said, answer, vouched>>
  <2>1. PromptStands'
    BY <1>1, <1>4, PromptMade
  <2>2. at' \in {"vault", "model"} /\ at' \in Told /\ at' \notin Gathering \cup {"policy"}
    BY <1>4 DEF Told, Gathering
  <2>3. AskTypes'
    BY <1>1, <1>4, <2>2 DEF AskTypes, AskTypeOK, Stages
  <2>4. EvidenceInv'
    <3>1. Asked => evidence # <<>>
      BY <1>1 DEF EvidenceInv
    <3>2. (Asked' <=> Asked) /\ Ids' = Ids /\ (Asked => Ids \subseteq vouched)
      BY <1>1, <1>4 DEF EvidenceInv, Asked, Ids
    <3>3. at' # "retrieve" /\ vouched' = vouched /\ evidence' = evidence
      BY <1>4, <2>2
    <3> QED
      BY <2>2, <3>1, <3>2, <3>3 DEF EvidenceInv
  <2>5. PromptInv'
    BY <2>1, <2>2 DEF PromptInv
  <2>6. VaultInv'
    <3>1. prompt'.issued = new.issued /\ vault' = {} /\ plan' = plan
      BY <1>1, <1>4
    <3>2. new.issued \in Seq(MappingTypes)
      <4>1. /\ prompt'.issued = Mappings(policy', prompt'.cut) /\ Len(prompt'.texts) \in Nat
            /\ \A k \in 1..Len(prompt'.texts) : IsText(prompt'.texts[k].text)
            /\ prompt'.cut = PiecesOf([k \in 1..Len(prompt'.texts) |-> prompt'.texts[k].text])
        BY <2>1 DEF PromptStands
      <4>2. prompt'.cut \in Seq(PieceTypes)
        BY <4>1, PiecesOfTexts
      <4> QED
        BY <3>1, <4>1, <4>2, MappingsStand
    <3> HIDE DEF new
    <3>3. CASE stored
      <4>1. at' = "vault"
        BY <1>4, <3>3
      <4>2. new.issued # <<>> => 0 < Len(new.issued)
        BY <3>2
      <4>3. {prompt'.issued[k] : k \in 1..0} = {}
        OBVIOUS
      <4>4. IsFiniteSet({}) /\ Cardinality({}) = 0
        BY FS_EmptySet
      <4>5. 0 \in Nat /\ 0 < Len(prompt'.issued) /\ vault' = {prompt'.issued[k] : k \in 1..0}
            /\ IsFiniteSet(vault') /\ Cardinality(vault') = 0
        BY <3>1, <3>3, <4>2, <4>3, <4>4
      <4> QED
        BY <2>2, <4>1, <4>5 DEF VaultInv
    <3>4. CASE ~stored
      <4>1. at' = "model"
        BY <1>4, <3>4
      <4>2. plan.vault => new.issued = <<>>
        BY <3>4
      <4>3. ToSet(<<>>) = {}
        BY DEF ToSet
      <4> QED
        BY <2>2, <3>1, <4>1, <4>2, <4>3 DEF VaultInv
    <3> QED
      BY <3>3, <3>4
  <2>7. AnswerInv'
    BY <1>1, <1>4, <2>2 DEF AnswerInv
  <2> QED
    BY <2>3, <2>4, <2>5, <2>6, <2>7 DEF AskInv
<1> QED
  BY <1>2, <1>3, <1>4

\* What was issued for a prompt that stands.
LEMMA IssuedStands ==
    ASSUME PromptStands
    PROVE  /\ prompt.cut \in Seq(PieceTypes)
           /\ prompt.issued = Mappings(policy, prompt.cut)
           /\ prompt.issued \in Seq(MappingTypes)
           /\ \A j, k \in 1..Len(prompt.issued) : j # k => prompt.issued[j].holder # prompt.issued[k].holder
<1>1. /\ prompt.issued = Mappings(policy, prompt.cut) /\ Len(prompt.texts) \in Nat
      /\ \A k \in 1..Len(prompt.texts) : IsText(prompt.texts[k].text)
      /\ prompt.cut = PiecesOf([k \in 1..Len(prompt.texts) |-> prompt.texts[k].text])
  BY DEF PromptStands
<1>2. prompt.cut \in Seq(PieceTypes)
  BY <1>1, PiecesOfTexts
<1>3. /\ Mappings(policy, prompt.cut) \in Seq(MappingTypes)
      /\ \A j, k \in 1..Len(Mappings(policy, prompt.cut)) :
            j # k => Mappings(policy, prompt.cut)[j].holder # Mappings(policy, prompt.cut)[k].holder
  BY <1>2, MappingsStand
<1> QED
  BY <1>1, <1>2, <1>3

\* After the policy is known nothing changes the evidence.
LEMMA ToldStep ==
    ASSUME AskInv, at \in Told, at' \in Told, UNCHANGED world,
           UNCHANGED <<want, linking, pieces, read, evidence, policy, prompt, vouched>>
    PROVE  EvidenceInv' /\ PromptInv'
<1>1. at' \notin Gathering \cup {"policy"} /\ at' # "retrieve"
  BY DEF Told, Gathering
<1>2. (Asked => evidence # <<>>) /\ (Asked => Ids \subseteq vouched)
  BY DEF AskInv, EvidenceInv
<1>3. (Asked' <=> Asked) /\ Ids' = Ids
  BY DEF Asked, Ids, world
<1>4. EvidenceInv'
  BY <1>1, <1>2, <1>3 DEF EvidenceInv
<1>5. PromptStands'
  BY StandsStill DEF AskInv, PromptInv, world
<1>6. PromptInv'
  BY <1>1, <1>5 DEF PromptInv
<1> QED
  BY <1>4, <1>6

LEMMA PutBatchStep ==
    ASSUME AskInv, PutBatch, UNCHANGED world
    PROVE  AskInv'
<1>1. /\ at = "vault" /\ at \in Told /\ AskTypeOK /\ answer = NoAnswer /\ PromptStands
      /\ plan' = plan /\ rows' = rows /\ may' = may /\ changes' = changes
      /\ want' = want /\ linking' = linking /\ pieces' = pieces /\ read' = read /\ evidence' = evidence
      /\ policy' = policy /\ prompt' = prompt /\ said' = said /\ answer' = answer /\ vouched' = vouched
  BY DEF PutBatch, world, AskInv, AskTypes, AnswerInv, PromptInv, Told
<1> DEFINE issued == prompt.issued
<1>2. /\ issued \in Seq(MappingTypes) /\ Len(issued) \in Nat /\ DOMAIN issued = 1..Len(issued)
      /\ \A j, k \in 1..Len(issued) : j # k => issued[j].holder # issued[k].holder
  BY <1>1, IssuedStands
<1>3. PICK stored \in Nat : /\ stored < Len(issued) /\ vault = {issued[k] : k \in 1..stored}
                            /\ IsFiniteSet(vault) /\ Cardinality(vault) = stored
  BY <1>1 DEF AskInv, VaultInv
<1>4. /\ vault' = vault \cup {issued[stored + 1]}
      /\ at' = IF Cardinality(vault') = Len(issued) THEN "model" ELSE "vault"
  BY <1>3 DEF PutBatch
<1> HIDE DEF issued
<1>5. issued[stored + 1] \notin vault
  <2>1. \A k \in 1..stored : k \in 1..Len(issued) /\ stored + 1 \in 1..Len(issued) /\ k # stored + 1
    BY <1>2, <1>3
  <2> QED
    BY <1>2, <1>3, <2>1
<1>6. vault' = {issued[k] : k \in 1..(stored + 1)}
  <2>1. \A k \in 1..(stored + 1) : k \in 1..stored \/ k = stored + 1
    BY <1>3
  <2>2. stored + 1 \in 1..(stored + 1) /\ \A k \in 1..stored : k \in 1..(stored + 1)
    BY <1>3
  <2> QED
    BY <1>3, <1>4, <2>1, <2>2
<1>7. IsFiniteSet(vault') /\ Cardinality(vault') = stored + 1
  BY <1>3, <1>4, <1>5, FS_AddElement
<1>8. at' \in {"model", "vault"} /\ at' \in Told /\ at' \notin Gathering \cup {"policy"}
  BY <1>4 DEF Told, Gathering
<1>9. AskTypes'
  BY <1>1, <1>8 DEF AskTypes, AskTypeOK, Stages
<1>10. EvidenceInv' /\ PromptInv'
  BY <1>1, <1>8, ToldStep
<1>11. VaultInv'
  <2>1. CASE stored + 1 = Len(issued)
    <3>1. vault' = ToSet(issued) /\ at' = "model"
      BY <1>2, <1>4, <1>6, <1>7, <2>1 DEF ToSet
    <3> QED
      BY <1>1, <1>8, <3>1 DEF VaultInv, issued
  <2>2. CASE stored + 1 # Len(issued)
    <3>1. at' = "vault" /\ stored + 1 < Len(issued) /\ stored + 1 \in Nat
      <4>1. PICK n \in Nat : n = Len(issued)
        BY <1>2
      <4>2. stored < n /\ stored + 1 # n /\ stored \in Nat
        BY <1>3, <2>2, <4>1
      <4>3. stored + 1 < n /\ stored + 1 \in Nat
        BY <4>2
      <4>4. at' = "vault"
        BY <1>4, <1>7, <2>2
      <4> QED
        BY <4>1, <4>3, <4>4
    <3> QED
      BY <1>1, <1>6, <1>7, <1>8, <3>1 DEF VaultInv, issued
  <2> QED
    BY <2>1, <2>2
<1>12. AnswerInv'
  BY <1>1, <1>8 DEF AnswerInv
<1> QED
  BY <1>9, <1>10, <1>11, <1>12 DEF AskInv

LEMMA ChatStep ==
    ASSUME AskInv, Chat, UNCHANGED world
    PROVE  AskInv'
<1>1. /\ at = "model" /\ at' = "answer" /\ at \in Told /\ at' \in Told /\ AskTypeOK /\ answer = NoAnswer
      /\ plan' = plan /\ rows' = rows /\ may' = may /\ changes' = changes
      /\ want' = want /\ linking' = linking /\ pieces' = pieces /\ read' = read /\ evidence' = evidence
      /\ policy' = policy /\ prompt' = prompt /\ vault' = vault /\ answer' = answer /\ vouched' = vouched
  BY DEF Chat, world, AskInv, AskTypes, AnswerInv, Told
<1>2. AskTypes'
  BY <1>1 DEF AskTypes, AskTypeOK, Stages
<1>3. EvidenceInv' /\ PromptInv'
  BY <1>1, ToldStep
<1>4. VaultInv'
  BY <1>1 DEF AskInv, VaultInv, Gathering
<1>5. AnswerInv'
  BY <1>1 DEF AnswerInv
<1> QED
  BY <1>2, <1>3, <1>4, <1>5 DEF AskInv

LEMMA AnswerStep ==
    ASSUME AskInv, parseModelOutput, UNCHANGED world
    PROVE  AskInv'
<1>1. /\ at = "answer" /\ at \in Told /\ at # "done" /\ AskTypeOK
      /\ plan' = plan /\ rows' = rows /\ may' = may /\ changes' = changes
  BY DEF parseModelOutput, world, AskInv, AskTypes, Told
<1>2. CASE Refuse
  BY <1>1, <1>2, RefuseStep
<1>3. CASE /\ \E named \in SUBSET Entities :
                 answer' = [text |-> Restored, cites |-> IF plan.kind \notin {"text", "backfill"} THEN named \cap Ids ELSE {}]
           /\ at' = "done"
           /\ UNCHANGED <<want, linking, pieces, read, evidence, policy, prompt, vault, said, vouched>>
  <2>1. at' \in Told /\ at' \notin Gathering \cup {"policy"} /\ at' # "view"
    BY <1>3 DEF Told, Gathering
  <2>2. answer'.text = Restored /\ answer'.cites \subseteq (IF Asked THEN Ids ELSE {}) /\ answer'.cites \subseteq Entities
    BY <1>3 DEF Asked
  <2>3. AskTypes'
    BY <1>1, <1>3, <2>1, <2>2 DEF AskTypes, AskTypeOK, Stages
  <2>4. EvidenceInv' /\ PromptInv'
    BY <1>1, <1>3, <2>1, ToldStep
  <2>5. VaultInv'
    BY <1>1, <1>3, <2>1 DEF AskInv, VaultInv
  <2>6. AnswerInv'
    <3>1. Restored' = Restored
      BY <1>3 DEF Restored, High
    <3>2. (Asked' <=> Asked) /\ Ids' = Ids
      BY <1>1, <1>3 DEF Asked, Ids
    <3> QED
      BY <1>3, <2>2, <3>1, <3>2 DEF AnswerInv
  <2> QED
    BY <2>3, <2>4, <2>5, <2>6 DEF AskInv
<1> QED
  BY <1>2, <1>3 DEF parseModelOutput

LEMMA AskStep == AskInv /\ [AskNext]_askVars => AskInv'
<1> SUFFICES ASSUME AskInv, [AskNext]_askVars PROVE AskInv'
  OBVIOUS
<1>1. CASE UNCHANGED askVars
  <2>1. UNCHANGED <<plan, asking>> /\ rows' = rows /\ may' = may /\ changes' = changes
    BY <1>1 DEF askVars, world
  <2>2. /\ rows' \in [Entities -> [live : BOOLEAN, high : BOOLEAN]] /\ may' \in [Entities -> BOOLEAN]
        /\ changes' \in 0..MaxChanges
    BY <2>1 DEF AskInv, AskTypes, AskTypeOK
  <2> QED
    BY <2>1, <2>2, WorldStep
<1>2. ASSUME NEW e \in Entities, RowChanges(e) PROVE AskInv'
  <2>1. /\ rows \in [Entities -> [live : BOOLEAN, high : BOOLEAN]] /\ may \in [Entities -> BOOLEAN]
        /\ changes \in 0..MaxChanges
    BY DEF AskInv, AskTypes, AskTypeOK
  <2>2. UNCHANGED <<plan, asking>> /\ changes' = changes + 1 /\ changes < MaxChanges
    BY <1>2 DEF RowChanges
  <2>3. changes' \in 0..MaxChanges
    BY <2>1, <2>2, BoundsAssumption
  <2>4. rows' \in [Entities -> [live : BOOLEAN, high : BOOLEAN]] /\ may' \in [Entities -> BOOLEAN]
    <3>1. CASE \E new \in [live : BOOLEAN, high : BOOLEAN] : rows' = [rows EXCEPT ![e] = new] /\ may' = may
      BY <2>1, <3>1
    <3>2. CASE may' = [may EXCEPT ![e] = ~@] /\ rows' = rows
      BY <2>1, <3>2
    <3> QED
      BY <1>2, <3>1, <3>2 DEF RowChanges
  <2> QED
    BY <2>2, <2>3, <2>4, WorldStep
<1>3. ASSUME AskFails, UNCHANGED world PROVE AskInv'
  BY <1>3, RefuseStep DEF AskFails
<1> QED
  BY <1>1, <1>2, <1>3, RetrieveStep, ExpandStep, GetStep, CanViewStep, CollectedStep, LinksStep,
     ResolveStep, PutBatchStep, ChatStep, AnswerStep DEF AskNext

LEMMA AskInvariant == AskSpec => []AskInv
BY AskInitInv, AskStep, PTL DEF AskSpec

\* The state of a request is well formed.
THEOREM AskTypesHold == AskSpec => []AskTypeOK
<1>1. AskInv => AskTypeOK
  BY DEF AskInv, AskTypes
<1> QED
  BY <1>1, AskInvariant, PTL

\* What the model is sent and what an answer cites is of entities that an evaluation of this
\* request allowed (buildCanView, BuildPrivacySegmentsFromContextPieces, parseModelOutput).
THEOREM AnswersHold == AskSpec => []AnswersKeepToEvidence
<1>1. AskInv => AnswersKeepToEvidence
  <2> SUFFICES ASSUME AskInv, Asked
               PROVE  LET shown == {prompt.texts[k].id : k \in DOMAIN prompt.texts} IN
                      shown \subseteq vouched /\ answer.cites \subseteq shown
    BY DEF AnswersKeepToEvidence, Asked
  <2> DEFINE shown == {prompt.texts[k].id : k \in DOMAIN prompt.texts}
  <2>1. Ids \subseteq vouched /\ answer.cites \subseteq Ids
    BY DEF AskInv, EvidenceInv, AnswerInv, NoAnswer
  <2>2. CASE PromptStands
    <3>1. shown = Ids
      BY <2>2 DEF PromptStands
    <3> QED
      BY <2>1, <3>1
  <2>3. CASE ~PromptStands
    <3>1. prompt = NoPrompt /\ at \notin Told
      BY <2>3 DEF AskInv, PromptInv
    <3>2. DOMAIN prompt.texts = {}
      BY <3>1 DEF NoPrompt
    <3>3. answer.cites = {}
      BY <3>1 DEF AskInv, AnswerInv, NoAnswer, Told
    <3> QED
      BY <3>2, <3>3
  <2> QED
    BY <2>2, <2>3
<1> QED
  BY <1>1, AskInvariant, PTL

\* No letter that a pattern found goes to the model as it is, unless a rule keeps one of the
\* patterns that found it (mergeSpansInText, sanitizeOne).
THEOREM FoundIsNotSent == AskSpec => []NothingFoundIsSentAsIs
<1>1. AskInv => NothingFoundIsSentAsIs
  <2> DEFINE CutOf(s) == Pieces(prompt.texts[s].text)
             Upto(s, k) == Len(FlattenSeq([j \in 1..k |-> CutOf(s)[j].value]))
             Found(s, i) == {c \in prompt.texts[s].text.spans : c.from <= i /\ i <= c.to}
  <2> SUFFICES ASSUME AskInv, at = "model", NEW s \in DOMAIN prompt.texts, NEW k \in DOMAIN CutOf(s),
                      NEW i \in (Upto(s, k - 1) + 1)..Upto(s, k),
                      prompt.texts[s].text.chars[i] \in Letters, Found(s, i) # {},
                      Sanitize(policy, prompt.issued, <<CutOf(s)[k]>>) = CutOf(s)[k].value
               PROVE  \E c \in Found(s, i) : ActionFor(policy, c.type) = "keep"
    BY DEF NothingFoundIsSentAsIs
  <2>1. PromptStands
    BY DEF AskInv, PromptInv, Told
  <2> DEFINE n == Len(prompt.texts)
             texts == [l \in 1..n |-> prompt.texts[l].text]
  <2>2. /\ n \in Nat /\ DOMAIN texts = 1..n /\ s \in 1..n
        /\ \A l \in 1..n : IsText(texts[l])
        /\ prompt.issued = Mappings(policy, PiecesOf(texts))
        /\ texts[s] = prompt.texts[s].text
    BY <2>1 DEF PromptStands
  <2>3. Covering(texts[s], i) = Found(s, i)
    BY <2>2 DEF Covering, Covers
  <2>4. k \in 1..Len(Pieces(texts[s]))
    <3>1. IsText(texts[s]) /\ CutOf(s) = Pieces(texts[s])
      BY <2>2
    <3>2. Pieces(texts[s]) \in Seq(PieceTypes)
      BY <3>1, PiecesEnd DEF Ends
    <3> QED
      BY <3>1, <3>2
  <2> HIDE DEF texts, n
  <2>5. \E c \in Covering(texts[s], i) : ActionFor(policy, c.type) = "keep"
    <3> DEFINE text == texts[s]
    <3>1. /\ i \in (Len(FlattenSeq([j \in 1..k - 1 |-> Pieces(text)[j].value])) + 1)
                      ..Len(FlattenSeq([j \in 1..k |-> Pieces(text)[j].value]))
          /\ text.chars[i] \in Letters
          /\ Sanitize(policy, prompt.issued, <<Pieces(text)[k]>>) = Pieces(text)[k].value
      BY <2>2
    <3>2. /\ Covering(text, i) # {}
          /\ Sanitize(policy, Mappings(policy, PiecesOf(texts)), <<Pieces(text)[k]>>) = Pieces(text)[k].value
      BY <2>2, <2>3, <3>1
    <3>3. n \in Nat /\ DOMAIN texts = 1..n /\ s \in 1..n /\ \A l \in 1..n : IsText(texts[l])
      BY <2>2
    <3> QED
      BY <2>4, <3>1, <3>2, <3>3, FoundIsHidden
  <2> QED
    BY <2>3, <2>5
<1> QED
  BY <1>1, AskInvariant, PTL

\* When the model is called the vault has a row for every placeholder it is sent, each for one
\* value (PutBatch).
THEOREM VaultHolds == AskSpec => []VaultHoldsWhatIsSent
<1>1. AskInv => VaultHoldsWhatIsSent
  <2> SUFFICES ASSUME AskInv, at \in {"model", "answer", "done"}, plan.vault
               PROVE  /\ vault = ToSet(prompt.issued)
                      /\ \A m \in vault : \A o \in vault \ {m} : m.holder # o.holder
    BY DEF VaultHoldsWhatIsSent
  <2>1. vault = ToSet(prompt.issued) /\ PromptStands
    BY DEF AskInv, VaultInv, PromptInv, Told
  <2>2. /\ prompt.issued \in Seq(MappingTypes)
        /\ \A j, k \in 1..Len(prompt.issued) : j # k => prompt.issued[j].holder # prompt.issued[k].holder
    BY <2>1, IssuedStands
  <2>3. DOMAIN prompt.issued = 1..Len(prompt.issued)
    BY <2>2
  <2> QED
    BY <2>1, <2>2, <2>3 DEF ToSet
<1> QED
  BY <1>1, AskInvariant, PTL

\* A model that says back what it was sent gives the asker every piece again, but for what was
\* removed and for what no rule lets back (RehydrateFromTokenizer).
THEOREM EchoHolds == AskSpec => []EchoIsFaithful
<1>1. AskInv => EchoIsFaithful
  <2> DEFINE plainly == /\ \A p \in ToSet(prompt.cut) : ToSet(p.value) \subseteq Letters
                        /\ \A m \in ToSet(prompt.issued) : m.holder.n < Base
             Back(p) == IF Plain(p) \/ ActionFor(policy, p.type) = "keep" THEN p.value
                        ELSE IF ActionFor(policy, p.type) = "remove" THEN <<>>
                        ELSE IF RehydrateAllowed(policy, p.type) /\ ~High THEN p.value
                        ELSE <<HolderOf(prompt.issued, p)>>
  <2> SUFFICES ASSUME AskInv, at = "done", said = prompt.sent, plainly
               PROVE  answer.text = FlattenSeq([k \in DOMAIN prompt.cut |-> Back(prompt.cut[k])])
    BY DEF EchoIsFaithful
  <2> DEFINE cut == prompt.cut
             n == Len(cut)
  <2>1. answer.text = Restored /\ PromptStands
    BY DEF AskInv, AnswerInv, PromptInv, Told
  <2>2. /\ cut \in Seq(PieceTypes) /\ prompt.issued = Mappings(policy, cut) /\ prompt.issued \in Seq(MappingTypes)
        /\ prompt.sent = Sanitize(policy, prompt.issued, cut)
    BY <2>1, IssuedStands DEF PromptStands
  <2>3. DOMAIN cut = 1..n /\ n \in Nat /\ \A k \in 1..n : cut[k] \in PieceTypes
    <3> HIDE DEF cut
    <3> QED
      BY <2>2
  <2>4. \A k \in 1..n : Lettered(cut[k].value)
    <3>1. SUFFICES ASSUME NEW k \in 1..n PROVE Lettered(cut[k].value)
      OBVIOUS
    <3>2. cut[k] \in ToSet(prompt.cut)
      BY <2>3 DEF ToSet
    <3>3. ToSet(cut[k].value) \subseteq Letters
      BY <3>2
    <3>4. cut[k].value \in Seq(Items)
      BY <2>3 DEF PieceTypes
    <3>5. DOMAIN cut[k].value = 1..Len(cut[k].value)
      BY <3>4
    <3> QED
      BY <3>3, <3>5 DEF Lettered, ToSet
  <2>5. \A k \in 1..Len(prompt.issued) : prompt.issued[k].holder.n < Base
    <3>1. DOMAIN prompt.issued = 1..Len(prompt.issued)
      BY <2>2
    <3>2. \A k \in 1..Len(prompt.issued) : prompt.issued[k] \in ToSet(prompt.issued)
      BY <3>1 DEF ToSet
    <3> QED
      BY <3>2
  <2>6. \A k \in 1..n : ActionFor(policy, cut[k].type) \in {"keep", "tokenize", "remove"} \/ Plain(cut[k])
    <3>1. SUFFICES ASSUME NEW k \in 1..n, ~Plain(cut[k]) PROVE ActionFor(policy, cut[k].type) \in {"keep", "tokenize", "remove"}
      OBVIOUS
    <3>2. ActionFor(policy, cut[k].type) \in Actions
      BY <2>1 DEF PromptStands, ActionFor, Actions
    <3>3. ActionFor(policy, cut[k].type) # "disallow_ai"
      BY <2>1, <2>3, <3>1 DEF PromptStands, DisallowsAI
    <3> QED
      BY <3>2, <3>3 DEF Actions
  <2> HIDE DEF cut, n, plainly
  <2>7. CASE High
    <3>1. answer.text = Sanitize(policy, prompt.issued, cut)
      BY <2>1, <2>2, <2>7 DEF Restored
    <3>2. Sanitize(policy, prompt.issued, cut) = FlattenSeq([k \in 1..n |-> Shown(policy, prompt.issued, cut[k])])
      BY <2>3 DEF Sanitize, Shown
    <3>3. \A k \in 1..n : Shown(policy, prompt.issued, cut[k]) = Back(cut[k])
      BY <2>6, <2>7 DEF Shown, Tokenized
    <3> HIDE DEF Back
    <3>4. [k \in 1..n |-> Shown(policy, prompt.issued, cut[k])] = [k \in 1..n |-> Back(cut[k])]
      BY <3>3
    <3> QED
      BY <2>3, <3>1, <3>2, <3>4 DEF cut
  <2>8. CASE ~High
    <3>1. answer.text = Rehydrate(policy, prompt.issued, Sanitize(policy, prompt.issued, cut))
      BY <2>1, <2>2, <2>8 DEF Restored
    <3>2. Rehydrate(policy, prompt.issued, Sanitize(policy, prompt.issued, cut))
            = FlattenSeq([k \in 1..n |-> BackOf(policy, prompt.issued, cut[k])])
      BY <2>2, <2>4, <2>5, EchoReturns DEF n
    <3>3. \A k \in 1..n : BackOf(policy, prompt.issued, cut[k]) = Back(cut[k])
      BY <2>6, <2>8 DEF BackOf, Tokenized
    <3> HIDE DEF Back
    <3>4. [k \in 1..n |-> BackOf(policy, prompt.issued, cut[k])] = [k \in 1..n |-> Back(cut[k])]
      BY <3>3
    <3> QED
      BY <2>3, <3>1, <3>2, <3>4 DEF cut
  <2> QED
    BY <2>7, <2>8
<1> QED
  BY <1>1, AskInvariant, PTL
=============================================================================
