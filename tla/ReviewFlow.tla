----------------------------- MODULE ReviewFlow -----------------------------
(***************************************************************************)
(* Review tasks of the entity of EntityLifecycle and the routes that       *)
(* decide them.  A decision is one unconditional UPDATE of review_tasks;   *)
(* the approve route then publishes the entity in a call of its own, whose *)
(* error it only logs.  The direct requests of EntityLifecycle go on       *)
(* beside the reviewers.                                                   *)
(*                                                                         *)
(* The permission checks, the note and completed_at are left out.  The     *)
(* tasks exist from the start: a job creates one right after its entity.   *)
(***************************************************************************)
EXTENDS EntityLifecycle

CONSTANTS
    Tasks,      \* ids of review_tasks rows whose target is the entity
    Decisions,  \* statuses that the other routes give a task
    None        \* no task

ASSUME NoneAssumption == None \notin Tasks
ASSUME DecisionsAssumption == "approved" \notin Decisions

VARIABLES
    task,       \* review_tasks.status
    approving,  \* approving[c]: the task that c has approved and whose entity it publishes
    honoured    \* history: tasks since whose last approval the entity was published at some
                \* time, or a publication was not carried out

reviewVars == <<vars, task, approving, honoured>>

ReviewTypeOK ==
    /\ TypeOK
    /\ task \in [Tasks -> {"pending", "approved"} \cup Decisions]
    /\ approving \in [Requests -> Tasks \cup {None}]
    /\ \A c \in Requests : approving[c] # None => request[c].call \in {"none", "publish"}
    /\ honoured \subseteq Tasks

ReviewInit ==
    /\ Init
    /\ task = [t \in Tasks |-> "pending"]
    /\ approving = [c \in Requests |-> None]
    /\ honoured = {}

-----------------------------------------------------------------------------
\* Start, RequestChanges and Reject, from any status.
Decide(t, status) ==
    /\ task' = [task EXCEPT ![t] = status]
    /\ UNCHANGED <<vars, approving, honoured>>

\* Review.Approve commits before anything is published.
Approve(c, t) ==
    /\ request[c] = Idle /\ approving[c] = None
    /\ task' = [task EXCEPT ![t] = "approved"]
    /\ approving' = [approving EXCEPT ![c] = t]
    /\ honoured' = {i \in {t} : Published(row)} \cup (honoured \ {t})
    /\ UNCHANGED vars

Approved(c) == request[c] = Idle /\ approving[c] # None
Answer(c) == approving' = [approving EXCEPT ![c] = None]

\* Mutant: the stamp of an earlier approval counts as the publication.
Mutant_PublishUnlessStamped(c) ==
    /\ Approved(c)
    /\ \/ /\ row.approval = "approved"
          /\ Answer(c)
          /\ UNCHANGED vars
       \/ row.approval # "approved" /\ PublishReads(c) /\ UNCHANGED approving
    /\ UNCHANGED <<task, honoured>>
\* Mutant: the route writes the row itself, as it once did.
Mutant_PublishInline(c) ==
    /\ Approved(c)
    /\ row' = [row EXCEPT !.life = "published"]
    /\ Answer(c)
    /\ honoured' = Tasks
    /\ UNCHANGED <<versions, projection, request, task>>
\* Entities.Publish up to its transaction; an entity read published is left as it is.
PublishApproved(c) ==
    /\ Approved(c)
    /\ \/ /\ Published(row)
          /\ Answer(c)
          /\ UNCHANGED vars
       \/ PublishReads(c) /\ UNCHANGED approving
    /\ UNCHANGED <<task, honoured>>

\* The publication of an approved task is never begun, or its transaction fails.
PublicationFails(c) ==
    /\ approving[c] # None
    /\ IF request[c] = Idle THEN UNCHANGED vars ELSE TxFails(c)
    /\ Answer(c)
    /\ honoured' = honoured \cup {approving[c]}
    /\ UNCHANGED task

\* The transactions of EntityLifecycle, of a direct request or of an approval.
Write(c) ==
    /\ PatchWrites(c) \/ PublishWrites(c) \/ PromoteWrites(c)
    /\ Answer(c)
    /\ honoured' = IF Published(row') THEN Tasks ELSE honoured
    /\ UNCHANGED task

\* The rest of a direct request.
Direct(c) ==
    /\ approving[c] = None
    /\ PatchReads(c) \/ PublishReads(c) \/ PromoteReads(c) \/ TxFails(c)
    /\ UNCHANGED <<task, approving, honoured>>

ReviewNext ==
    \/ \E t \in Tasks, status \in Decisions : Decide(t, status)
    \/ \E c \in Requests :
         \/ \E t \in Tasks : Approve(c, t)
         \/ PublishApproved(c) \/ PublicationFails(c) \/ Write(c) \/ Direct(c)

ReviewSpec == ReviewInit /\ [][ReviewNext]_reviewVars

-----------------------------------------------------------------------------
(* Properties.                                                              *)

\* The comment in the approve route: an approval publishes the entity, and a failure to is
\* not the approval's.  An approved task that no reviewer is at work on had its entity
\* published at some time since its last approval, or a publication of it failed; however
\* approvals, other decisions and direct requests interleave.
ApprovalPublishes ==
    \A t \in Tasks : task[t] = "approved" =>
        \/ \E c \in Requests : approving[c] = t
        \/ t \in honoured

\* The change log: reviews publish via the same path as direct publication.  Whatever
\* reviewers do, the entity does nothing that EntityLifecycle does not allow.
LifecycleIsKept == Spec

\* What makes ApprovalPublishes true: while the entity is published, every approval is
\* honoured.
ReviewInv ==
    /\ ReviewTypeOK
    /\ ApprovalPublishes
    /\ Published(row) => \A t \in Tasks : task[t] = "approved" => t \in honoured
=============================================================================
