------------------------------- MODULE Access -------------------------------
(***************************************************************************)
(* AccessEvaluator.Evaluate: whether the person of Grants may do something *)
(* in the domain, to an entity in it or to the domain itself.  It asks the *)
(* database one question after the other, each a statement of its own, and *)
(* stops at the first answer that denies.  Administrators go on writing    *)
(* the tables meanwhile: the grant and the assignments of Grants (accepts  *)
(* and imports write the same rows in the same statements), memberships of *)
(* a team and policy exceptions.                                           *)
(*                                                                         *)
(* A question whose statement fails ends the evaluation without an answer, *)
(* which is left out; but the grant's then counts as having found no grant.*)
(*                                                                         *)
(* No code in the repository writes global_access_denials, entity_acl or   *)
(* the type scopes of access_policies: what they hold is chosen at the     *)
(* start.  Roles (their actions, entity types and domains, whether they    *)
(* are active) do not change here.                                         *)
(***************************************************************************)
EXTENDS Grants

CONSTANTS
    Checks,     \* evaluations under way
    Questions,  \* what they are asked
    Does,       \* Does[r]: actions of a role, none when it is inactive or bound to other domains
    TypesOf,    \* TypesOf[r]: entity types a role is bound to
    Types,      \* entity types
    Exceptions, \* ids of policy_overrides rows on the entity
    Settings,   \* what entity_acl may say, with the type scopes of the domain's active policies
    Reach       \* bound: the rows and the edits of a behaviour with evaluations, and of one without

Actions == {"view", "view_raw", "edit", "manage_permissions"}
Effects == {"none", "allow", "deny"}

ASSUME QuestionsAssumption ==
    \A a \in Questions : /\ a.action \in Actions /\ a.type \in Types \cup {None}
                         /\ {a.known, a.entity, a.domain} \subseteq BOOLEAN
ASSUME RolesAssumption == Does \in [Roles -> SUBSET Actions] /\ TypesOf \in [Roles -> SUBSET Types]
ASSUME SettingsAssumption ==
    /\ Settings # {}
    /\ Settings \subseteq [acl : [user : Effects, team : Effects], scopes : SUBSET (Types \cup {"*"})]
ASSUME ReachAssumption ==
    Reach \in [BOOLEAN -> [grants : SUBSET GrantRows, bindings : SUBSET BindingRows, edits : 0..MaxEdits]]

VARIABLES
    checking,   \* whether this behaviour has evaluations; one without is a behaviour of Grants
    denied,     \* whether global_access_denials has the person
    acl,        \* entity_acl of the entity
    scopes,     \* entity_type_scope of the active policies of the domain
    member,     \* user_team_memberships
    exception,  \* policy_overrides
    check,      \* check[c]: an evaluation
    ground,     \* history: ground[c]: the gates at which there is a ground to deny now
    held,       \* history: held[c]: grounds for a denial in every state since it began
    clear,      \* history: clear[c]: in some state since it began there was none
    writes,     \* history: writes[c]: writes of the tables since it began, two for more
    gap         \* history: gap[c]: the assignments were written between the questions about roles

rules == <<checking, denied, acl, scopes>>
asking == <<check, ground, held, clear, writes, gap>>
avars == <<vars, rules, member, exception, asking>>

ExceptionRows == [type : {"allow", "deny"}, status : {"pending_review", "active", "revoked"},
                  expiry : Expiries]
Reasons == {"missing_principal", "global_block", "policy_override", "entity_acl", "domain_required",
            "no_domain_grant", "entity_type", "role_entity_type", "role_action", "access_level",
            "sensitivity", "allow"}
Gates == (Reasons \ {"allow"}) \cup {"grant"}
Stages == {"denials", "overrides", "acl deny", "acl allow", "grant", "types", "role types", "role", "done"}
\* bypass: an allow row of entity_acl for view or search; grant: the row it read.
Evaluations == [at : Stages, of : Questions, bypass : BOOLEAN, grant : GrantRows \cup {None},
                reason : Reasons]
ASSUME EvaluationsAssumption == None \notin Evaluations

AccessTypeOK ==
    /\ TypeOK
    /\ checking \in BOOLEAN /\ denied \in BOOLEAN /\ member \in BOOLEAN
    /\ [acl |-> acl, scopes |-> scopes] \in Settings
    /\ exception \in [Exceptions -> ExceptionRows \cup {None}]
    /\ check \in [Checks -> Evaluations \cup {None}]
    /\ ground \in [Checks -> SUBSET Gates]
    /\ held \in [Checks -> SUBSET Gates]
    /\ clear \in [Checks -> BOOLEAN]
    /\ writes \in [Checks -> 0..2]
    /\ gap \in [Checks -> BOOLEAN]

-----------------------------------------------------------------------------
(* What the questions look at.                                              *)

\* levelAllowsAction
LevelAllows(level, action) ==
    \/ level = "admin"
    \/ level = "write" /\ action \in {"view", "view_raw", "edit"}
    \/ level = "read" /\ action \in {"view", "view_raw"}

\* loadOverrides: any deny that has not expired.  It does not look at the status.
DenyOverride(a) == a.entity /\ \E x \in Exceptions : Live(exception[x]) /\ exception[x].type = "deny"

\* effectiveExceptionStatus: of those, what a review has activated and nobody revoked.
DenyInForce(a) ==
    a.entity /\ \E x \in Exceptions :
        Live(exception[x]) /\ exception[x].type = "deny" /\ exception[x].status = "active"

AclHas(a, effect) == a.entity /\ (acl.user = effect \/ (member /\ acl.team = effect))
AclBypass(a) == AclHas(a, "allow") /\ a.action = "view"
Typed(a) == a.entity /\ a.type # None
Exceeds(a, g) == a.level # None /\ a.level > g.cap
TypeAllowed(a) == scopes = {} \/ scopes \cap {"*", a.type} # {}

\* Roles with the action that are assigned here and now.
Acting(a) ==
    {r \in Roles : /\ a.action \in Does[r]
                   /\ \E b \in Bindings : /\ Live(binding[b]) /\ binding[b].role = r
                                          /\ binding[b].scope \in {"global", "domain"}}
\* roleEntityTypeAllowedForAction: the union of the types of those roles that have any.
RoleTypeAllowed(a) ==
    LET types == UNION {TypesOf[r] : r \in Acting(a)} IN types = {} \/ a.type \in types

\* Whether there is a ground to deny at a gate in the present state; "grant" stands for whatever the
\* grant denies.  A deny exception is one while it is in force, though AskOverrides denies for it
\* before its review and after its revocation as well.
Denies(g, a) ==
    CASE g = "missing_principal" -> ~a.known
      [] g = "global_block" -> denied
      [] g = "policy_override" -> DenyInForce(a)
      [] g = "entity_acl" -> AclHas(a, "deny")
      [] g = "domain_required" -> ~a.domain
      [] g = "no_domain_grant" -> ~Live(grant)
      [] g = "entity_type" -> Typed(a) /\ ~TypeAllowed(a) /\ ~AclBypass(a)
      [] g = "role_entity_type" -> Typed(a) /\ ~RoleTypeAllowed(a)
      [] g = "role_action" -> Acting(a) = {}
      [] g = "access_level" -> Live(grant) /\ ~LevelAllows(grant.level, a.action)
      [] g = "sensitivity" -> Live(grant) /\ Exceeds(a, grant)
      [] g = "grant" -> ~Live(grant) \/ ~LevelAllows(grant.level, a.action) \/ Exceeds(a, grant)
Grounds(a) == {g \in Gates : Denies(g, a)}

\* The order of docs/permission-system.md; of "grant" only the last gate is certain.
Rank ==
    [missing_principal |-> 1, global_block |-> 2, policy_override |-> 3, entity_acl |-> 4,
     domain_required |-> 5, no_domain_grant |-> 5, entity_type |-> 6, role_entity_type |-> 7,
     role_action |-> 8, access_level |-> 8, sensitivity |-> 9, grant |-> 9, allow |-> 10]

-----------------------------------------------------------------------------
(* The evaluation.                                                          *)

Asks(c, stage) == check[c] # None /\ check[c].at = stage
Turn(c, stage) == check' = [check EXCEPT ![c].at = stage]
Deny(c, reason) == check' = [check EXCEPT ![c].at = "done", ![c].reason = reason]
\* Denies for the reason if the question says so, else goes on.
Test(c, bad, reason, stage) == IF bad THEN Deny(c, reason) ELSE Turn(c, stage)
Unwritten == UNCHANGED <<vars, rules, member, exception, ground, held, clear, writes, gap>>

Evaluate(c, a) ==
    /\ check[c] = None
    /\ check' = [check EXCEPT ![c] =
        [at |-> IF a.known THEN "denials" ELSE "done", of |-> a, bypass |-> FALSE, grant |-> None,
         reason |-> IF a.known THEN "allow" ELSE "missing_principal"]]
    /\ ground' = [ground EXCEPT ![c] = Grounds(a)]
    /\ held' = [held EXCEPT ![c] = ground'[c]]
    /\ clear' = [clear EXCEPT ![c] = ground'[c] = {}]
    /\ UNCHANGED <<vars, rules, member, exception, writes, gap>>

AskDenials(c) ==
    /\ Asks(c, "denials")
    /\ Test(c, denied, "global_block", "overrides")
    /\ Unwritten

AskOverrides(c) ==
    LET a == check[c].of IN
    /\ Asks(c, "overrides")
    /\ Test(c, DenyOverride(a), "policy_override", IF a.entity THEN "acl deny" ELSE "grant")
    /\ Unwritten

AskAclDeny(c) ==
    /\ Asks(c, "acl deny")
    /\ Test(c, AclHas(check[c].of, "deny"), "entity_acl", "acl allow")
    /\ Unwritten

AskAclAllow(c) ==
    /\ Asks(c, "acl allow")
    /\ check' = [check EXCEPT ![c].at = "grant", ![c].bypass = AclBypass(check[c].of)]
    /\ Unwritten

\* Mutant: expires_at of the grant is not looked at.
AskExpiredGrant(c) ==
    LET a == check[c].of IN
    /\ Asks(c, "grant")
    /\ \/ ~a.domain /\ Deny(c, "domain_required")
       \/ a.domain /\ grant = None /\ Deny(c, "no_domain_grant")
       \/ /\ a.domain /\ grant # None
          /\ check' = [check EXCEPT ![c].at = IF Typed(a) THEN "types" ELSE "role", ![c].grant = grant]
    /\ Unwritten

\* No row and a failed statement are one to it.
AskGrant(c) ==
    LET a == check[c].of IN
    /\ Asks(c, "grant")
    /\ \/ ~a.domain /\ Deny(c, "domain_required")
       \/ a.domain /\ Deny(c, "no_domain_grant")
       \/ /\ a.domain /\ Live(grant)
          /\ check' = [check EXCEPT ![c].at = IF Typed(a) THEN "types" ELSE "role", ![c].grant = grant]
    /\ Unwritten

AskTypes(c) ==
    /\ Asks(c, "types")
    /\ Test(c, ~TypeAllowed(check[c].of) /\ ~check[c].bypass, "entity_type", "role types")
    /\ Unwritten

AskRoleTypes(c) ==
    /\ Asks(c, "role types")
    /\ Test(c, ~RoleTypeAllowed(check[c].of), "role_entity_type", "role")
    /\ Unwritten

\* Mutant: only the level and the cap of the grant are asked.
AskLevel(c) ==
    LET a == check[c].of
        g == check[c].grant
    IN
    /\ Asks(c, "role")
    /\ IF LevelAllows(g.level, a.action) THEN Test(c, Exceeds(a, g), "sensitivity", "done")
       ELSE Deny(c, "access_level")
    /\ Unwritten

\* The last question; the level and the cap are those of the grant it read.
AskRole(c) ==
    LET a == check[c].of
        g == check[c].grant
    IN
    /\ Asks(c, "role")
    /\ CASE Acting(a) = {} -> Deny(c, "role_action")
         [] Acting(a) # {} /\ ~LevelAllows(g.level, a.action) -> Deny(c, "access_level")
         [] OTHER -> Test(c, Exceeds(a, g), "sensitivity", "done")
    /\ Unwritten

Evaluation(c) ==
    \/ \E a \in Questions : Evaluate(c, a)
    \/ AskDenials(c) \/ AskOverrides(c) \/ AskAclDeny(c) \/ AskAclAllow(c)
    \/ AskGrant(c) \/ AskTypes(c) \/ AskRoleTypes(c) \/ AskRole(c)

-----------------------------------------------------------------------------
(* Teams and policy exceptions.                                             *)

AddTeamMembership == ~member /\ Edit /\ member' = TRUE /\ UNCHANGED exception
DeleteTeamMembership == member /\ Edit /\ member' = FALSE /\ UNCHANGED exception

CreateException(x, type, expiry) ==
    /\ exception[x] = None /\ Edit
    /\ exception' = [exception EXCEPT ![x] = [type |-> type, status |-> "pending_review", expiry |-> expiry]]
    /\ UNCHANGED member

MarkReviewed(x) ==
    /\ exception[x] # None /\ exception[x].status = "pending_review" /\ Edit
    /\ exception' = [exception EXCEPT ![x].status = "active"]
    /\ UNCHANGED member

Revoke(x) ==
    /\ exception[x] # None /\ Edit
    /\ exception' = [exception EXCEPT ![x].status = "revoked"]
    /\ UNCHANGED member

ExceptionExpires(x) ==
    /\ exception[x] # None /\ exception[x].expiry = "later"
    /\ exception' = [exception EXCEPT ![x].expiry = "past"]
    /\ UNCHANGED <<member, edits>>

Govern ==
    \/ AddTeamMembership \/ DeleteTeamMembership
    \/ \E x \in Exceptions :
        \/ \E type \in {"allow", "deny"}, expiry \in {"never", "later"} : CreateException(x, type, expiry)
        \/ MarkReviewed(x) \/ Revoke(x) \/ ExceptionExpires(x)

\* What the evaluations under way live through when the tables are written.
Running(c) == check[c] # None /\ check[c].at # "done"
Written ==
    LET asked_of == <<grant, binding, member, exception>>
        changed == {c \in Checks : Running(c) /\ asked_of' # asked_of}
    IN
    /\ UNCHANGED <<check, rules>>
    /\ ground' = [c \in Checks |-> IF c \in changed THEN Grounds(check[c].of)' ELSE ground[c]]
    /\ held' = [c \in Checks |-> IF c \in changed THEN held[c] \cap ground'[c] ELSE held[c]]
    /\ clear' = [c \in Checks |-> clear[c] \/ (c \in changed /\ ground'[c] = {})]
    /\ writes' = [c \in Checks |-> IF c \in changed /\ writes[c] < 2 THEN writes[c] + 1 ELSE writes[c]]
    /\ gap' = [c \in Checks |-> gap[c] \/ (c \in changed /\ binding' # binding /\ Asks(c, "role"))]

Within ==
    /\ edits' <= Reach[checking].edits
    /\ grant' \in Reach[checking].grants \cup {None}
    /\ \A b \in Bindings : binding'[b] \in Reach[checking].bindings \cup {None}
    /\ \A e \in Editors : patch'[e].new \in UNION {Reach[checking].grants, Reach[checking].bindings, {None}}

\* The tables are chosen by AccessInit: what is written while nothing is asked is left out, and
\* so are the two statements of a PATCH, whose second writes as another edit does.
Write ==
    /\ \E c \in Checks : Running(c)
    /\ \/ Administer /\ UNCHANGED <<patch, member, exception>>
       \/ Govern /\ UNCHANGED <<tables, req, patch, history>>
    /\ Within
    /\ Written

AccessInit ==
    /\ \/ /\ checking = TRUE
          /\ user = TRUE
          /\ grant \in {g \in Reach[TRUE].grants : g.expiry # "never"} \cup {None}
          /\ binding \in [Bindings -> {b \in Reach[TRUE].bindings : b.expiry = "never"} \cup {None}]
          /\ \A b \in Bindings : binding[b] # None => ~Taken(binding[b].role, binding[b].scope, b)
          /\ invitation = [i \in Invitations |-> "unsent"] /\ lapsed = {}
          /\ req = [q \in Requests |-> NotAsking]
          /\ patch = [e \in Editors |-> NotPatching]
          /\ edits = 0
          /\ asked = IF grant = None THEN [level |-> None, cap |-> None]
                                    ELSE [level |-> grant.level, cap |-> grant.cap]
          /\ raced = FALSE
          /\ accepts = [i \in Invitations |-> 0]
          /\ withdrawn = {} /\ unbound = {}
          /\ denied \in BOOLEAN /\ member \in BOOLEAN
          /\ \E s \in Settings : acl = s.acl /\ scopes = s.scopes
          /\ exception \in [Exceptions ->
                {[type |-> "deny", status |-> "active", expiry |-> "later"]} \cup {None}]
       \/ /\ checking = FALSE /\ Init
          /\ denied = FALSE /\ member = FALSE
          /\ LET s == CHOOSE s \in Settings : TRUE IN acl = s.acl /\ scopes = s.scopes
          /\ exception = [x \in Exceptions |-> None]
    /\ check = [c \in Checks |-> None]
    /\ ground = [c \in Checks |-> {}]
    /\ held = [c \in Checks |-> {}]
    /\ clear = [c \in Checks |-> FALSE]
    /\ writes = [c \in Checks |-> 0]
    /\ gap = [c \in Checks |-> FALSE]

AccessNext ==
    \/ checking /\ (Write \/ \E c \in Checks : Evaluation(c))
    \/ ~checking /\ Next /\ Within /\ UNCHANGED <<rules, member, exception, asking>>

AccessSpec == AccessInit /\ [][AccessNext]_avars

-----------------------------------------------------------------------------
Answered(c) == check[c] # None /\ check[c].at = "done"

\* Whatever is written meanwhile, a ground that stood all along an evaluation denies, and no
\* later gate answers in its place: the documented order holds between grounds that stand.  Of a
\* deny exception that is pending review or revoked nothing is asked: the code denies for it, the
\* tests of its life cycle ("Review activates", "Revoke disables") would have it not.
StandingGroundsDeny ==
    \A c \in Checks : Answered(c) => \A g \in held[c] : Rank[check[c].reason] <= Rank[g]

\* The answer "allow" is that of some single state, though the questions are asked in several,
\* unless two writes came in between, or one of the assignments between the two questions about
\* roles: a role that narrows the types and gives the action is seen by the second only.
AllowedWasAllowable ==
    \A c \in Checks : Answered(c) /\ check[c].reason = "allow" => clear[c] \/ writes[c] = 2 \/ gap[c]
=============================================================================
