------------------------------- MODULE Grants -------------------------------
(***************************************************************************)
(* What a person may do in one domain: the domain_grants row and the       *)
(* user_role_bindings rows of one e-mail address, and the requests that    *)
(* write them.  Accepting an invitation or importing a user takes several  *)
(* statements without a transaction; PATCH reads the row, fills in the     *)
(* fields it was not given and writes all of them; the others are one      *)
(* statement.                                                              *)
(*                                                                         *)
(* The access of the administrator, checked before each request, is taken  *)
(* for granted, as are the tokens of invitations, passwords and names, and *)
(* no team, user or domain is deleted (no route does).                     *)
(***************************************************************************)
EXTENDS Naturals, FiniteSets

CONSTANTS
    Invitations,    \* user_invitations for the address and the domain
    Imports,        \* lines of an imported file, in mode "active"
    Terms,          \* what an invitation or a line gives: level, cap and role
    Requests,       \* accepts and imports, each connection one at a time
    Editors,        \* PATCH requests of administrators
    Roles, Scopes,  \* roles, and what a binding of one extends to
    Levels, Caps,   \* access levels and sensitivity caps
    Bindings,       \* ids of user_role_bindings rows
    MaxEdits,       \* bound: edits by administrators
    None            \* no row, no role, nothing asked

Offers == Invitations \cup Imports
Expiries == {"never", "later", "past"}
GrantRows == [level : Levels, cap : Caps, expiry : Expiries]
BindingRows == [role : Roles, scope : Scopes, expiry : Expiries]

ASSUME NoneAssumption == None \notin Roles \cup Scopes \cup Levels \cup Offers
ASSUME RowsAssumption == None \notin GrantRows \cup BindingRows
ASSUME CapsAssumption == None \notin Caps
ASSUME BindingsAssumption == Bindings \cap {"none", "grant"} = {} /\ None \notin Bindings
ASSUME RequestsAssumption == IsFiniteSet(Requests)
ASSUME OffersAssumption == Invitations \cap Imports = {}
ASSUME TermsAssumption == Terms \in [Offers -> [level : Levels, cap : Caps, role : Roles \cup {None}]]
ASSUME ScopesAssumption == "domain" \in Scopes
ASSUME EditsAssumption == MaxEdits \in Nat

VARIABLES
    user,       \* whether users has the address
    grant,      \* the domain_grants row
    binding,    \* user_role_bindings
    invitation, \* invitation[i]: whether it was sent and accepted
    lapsed,     \* invitations past their expires_at
    req,        \* req[q]: an accept or an import in progress
    patch,      \* patch[e]: a PATCH that has read its row
    edits,      \* edits so far
    asked,      \* history: the level and the cap last asked for the grant
    raced,      \* history: a PATCH of the grant overlapped another write of it
    accepts,    \* history: how often an accept of the invitation succeeded
    withdrawn,  \* history: whether administrators deleted the grant, or gave it an expiry
    unbound     \* history: roles of which administrators deleted or moved a binding

vars == <<user, grant, binding, invitation, lapsed, req, patch, edits, asked, raced, accepts,
          withdrawn, unbound>>
tables == <<user, grant, binding, invitation, lapsed>>
history == <<asked, raced, accepts, withdrawn, unbound>>

Steps == {"look", "create", "grant", "bind", "mark"}
Asking == [at : Steps \cup {"idle"}, of : Offers \cup {None}]
NotAsking == [at |-> "idle", of |-> None]
\* What a PATCH will write, the fields it was given, and whether its copy of the grant is stale.
Patching == [row : {"none", "grant"} \cup Bindings, new : GrantRows \cup BindingRows \cup {None},
             level : Levels \cup {None}, cap : Caps \cup {None}, stale : BOOLEAN]
NotPatching == [row |-> "none", new |-> None, level |-> None, cap |-> None, stale |-> FALSE]

TypeOK ==
    /\ user \in BOOLEAN
    /\ grant \in GrantRows \cup {None}
    /\ binding \in [Bindings -> BindingRows \cup {None}]
    /\ (grant # None \/ \E b \in Bindings : binding[b] # None) => user
    /\ invitation \in [Invitations -> {"unsent", "open", "accepted"}]
    /\ lapsed \subseteq Invitations
    /\ req \in [Requests -> Asking]
    /\ patch \in [Editors -> Patching]
    /\ edits \in 0..MaxEdits
    /\ asked \in [level : Levels \cup {None}, cap : Caps \cup {None}]
    /\ raced \in BOOLEAN
    /\ accepts \in [Invitations -> 0..Cardinality(Requests)]
    /\ withdrawn \subseteq {"grant", "expiry"}
    /\ unbound \subseteq Roles

Init ==
    /\ user \in BOOLEAN
    /\ grant = None
    /\ binding = [b \in Bindings |-> None]
    /\ invitation \in [Invitations -> {"unsent", "open"}]
    /\ lapsed = {}
    /\ req = [q \in Requests |-> NotAsking]
    /\ patch = [e \in Editors |-> NotPatching]
    /\ edits = 0
    /\ asked = [level |-> None, cap |-> None]
    /\ raced = FALSE
    /\ accepts = [i \in Invitations |-> 0]
    /\ withdrawn = {}
    /\ unbound = {}

-----------------------------------------------------------------------------
(* The statements.                                                          *)

Live(row) == row # None /\ row.expiry # "past"
At(q, step) == req[q].at = step
Go(q, step) == req' = [req EXCEPT ![q].at = step]
Answer(q) == req' = [req EXCEPT ![q] = NotAsking]
Edit == edits < MaxEdits /\ edits' = edits + 1

\* The unique index on user, role and scope.
Taken(role, scope, id) ==
    \E b \in Bindings \ {id} : binding[b] # None /\ binding[b].role = role /\ binding[b].scope = scope

\* The grant is written: PATCHes that have read it have a stale copy of it.  Those of a row that
\* is deleted find nothing to write.
Outdate == [e \in Editors |-> [patch[e] EXCEPT !.stale = @ \/ patch[e].row = "grant"]]
Orphan(row) == [e \in Editors |-> IF patch[e].row = row THEN NotPatching ELSE patch[e]]

\* Mutant: ON CONFLICT DO NOTHING.
UpsertKeepsRow(level, cap) ==
    /\ grant' = IF grant = None THEN [level |-> level, cap |-> cap, expiry |-> "never"] ELSE grant
    /\ patch' = Outdate
    /\ asked' = [level |-> level, cap |-> cap]
    /\ raced' = FALSE
    /\ withdrawn' = IF grant = None THEN {} ELSE withdrawn

\* INSERT ... ON CONFLICT DO UPDATE, which leaves expires_at as it is.
UpsertDomainGrant(level, cap) ==
    /\ grant' = [level |-> level, cap |-> cap, expiry |-> IF grant = None THEN "never" ELSE grant.expiry]
    /\ patch' = Outdate
    /\ asked' = [level |-> level, cap |-> cap]
    /\ raced' = FALSE
    /\ withdrawn' = IF grant = None THEN {} ELSE withdrawn

InsertBinding(b, role, scope, expiry) ==
    /\ binding[b] = None
    /\ ~Taken(role, scope, b)
    /\ binding' = [binding EXCEPT ![b] = [role |-> role, scope |-> scope, expiry |-> expiry]]

-----------------------------------------------------------------------------
(* Invitations and imports.                                                 *)

\* POST /invitations, and an import in mode "invite": an invitation for an address can be
\* sent whether or not it has one already, or is a user.
CreateInvitation(i) ==
    /\ invitation[i] = "unsent"
    /\ invitation' = [invitation EXCEPT ![i] = "open"]
    /\ UNCHANGED <<user, grant, binding, lapsed, req, patch, edits, history>>

\* GetInvitationByRawToken; then GetUserByEmail decides how it goes on.
AcceptInvitation(q, i) ==
    /\ At(q, "idle")
    /\ invitation[i] = "open" /\ i \notin lapsed
    /\ req' = [req EXCEPT ![q] = [at |-> "look", of |-> i]]
    /\ UNCHANGED <<tables, patch, edits, history>>

\* Mutant: an existing user is thought to have what the invitation gives.
LookUpMarksUser(q) ==
    /\ At(q, "look")
    /\ Go(q, IF user THEN "mark" ELSE "create")
    /\ UNCHANGED <<tables, patch, edits, history>>

\* An existing user is given the new password and name, and nothing else.
LookUpUser(q) ==
    /\ At(q, "look")
    /\ Go(q, IF user THEN "grant" ELSE "create")
    /\ UNCHANGED <<tables, patch, edits, history>>

ImportLine(q, m) ==
    /\ At(q, "idle")
    /\ req' = [req EXCEPT ![q] = [at |-> "create", of |-> m]]
    /\ UNCHANGED <<tables, patch, edits, history>>

\* users.email is unique: the second to create the address answers with an error.
CreateUser(q) ==
    /\ At(q, "create")
    /\ user' = TRUE
    /\ IF user THEN Answer(q) ELSE Go(q, "grant")
    /\ UNCHANGED <<grant, binding, invitation, lapsed, patch, edits, history>>

GiveGrant(q) ==
    LET t == Terms[req[q].of] IN
    /\ At(q, "grant")
    /\ UpsertDomainGrant(t.level, t.cap)
    /\ Go(q, IF t.role # None THEN "bind" ELSE "mark")
    /\ UNCHANGED <<user, binding, invitation, lapsed, edits, accepts, unbound>>

\* CreateUserRoleBinding: an assignment that is there already is an error.
GiveRole(q) ==
    LET t == Terms[req[q].of] IN
    /\ At(q, "bind")
    /\ \/ \E b \in Bindings : InsertBinding(b, t.role, "domain", "never")
          /\ Go(q, "mark")
       \/ Taken(t.role, "domain", None) /\ Answer(q) /\ UNCHANGED binding
    /\ UNCHANGED <<user, grant, invitation, lapsed, patch, edits, history>>

\* MarkInvitationAccepted, which does not say whether it was marked already; a line has
\* nothing to mark.
Finish(q) ==
    LET i == req[q].of IN
    /\ At(q, "mark")
    /\ IF i \in Invitations
       THEN /\ invitation' = [invitation EXCEPT ![i] = "accepted"]
            /\ accepts' = [accepts EXCEPT ![i] = @ + 1]
       ELSE UNCHANGED <<invitation, accepts>>
    /\ Answer(q)
    /\ UNCHANGED <<user, grant, binding, lapsed, patch, edits, asked, raced, withdrawn, unbound>>

\* The process stops, or a statement fails: what was written stays.
BreakOff(q) ==
    /\ ~At(q, "idle")
    /\ Answer(q)
    /\ UNCHANGED <<tables, patch, edits, history>>

-----------------------------------------------------------------------------
(* Administrators.                                                          *)

PostGrant(level, cap) ==
    /\ user /\ Edit
    /\ UpsertDomainGrant(level, cap)
    /\ UNCHANGED <<user, binding, invitation, lapsed, req, accepts, unbound>>

DeleteGrant ==
    /\ grant # None /\ Edit
    /\ grant' = None
    /\ patch' = Orphan("grant")
    /\ withdrawn' = {"grant"}
    /\ UNCHANGED <<user, binding, invitation, lapsed, req, asked, raced, accepts, unbound>>

\* PatchDomainGrant: reads the row; a level or a cap it was not given is copied, an expires_at
\* it was not given is not.
ReadGrant(e, level, cap, expiry) ==
    /\ patch[e].row = "none" /\ grant # None /\ Edit
    /\ patch' = [patch EXCEPT ![e] =
        [row |-> "grant", level |-> level, cap |-> cap, stale |-> FALSE,
         new |-> [level |-> IF level = None THEN grant.level ELSE level,
                  cap |-> IF cap = None THEN grant.cap ELSE cap, expiry |-> expiry]]]
    /\ UNCHANGED <<tables, req, history>>

PatchDomainGrant(e) ==
    LET p == patch[e] IN
    /\ p.row = "grant"
    /\ grant' = p.new
    /\ patch' = [Outdate EXCEPT ![e] = NotPatching]
    /\ asked' = [level |-> IF p.level = None THEN asked.level ELSE p.level,
                 cap |-> IF p.cap = None THEN asked.cap ELSE p.cap]
    /\ raced' = (raced \/ p.stale)
    /\ withdrawn' = IF p.new.expiry = "never" THEN {} ELSE {"expiry"}
    /\ UNCHANGED <<user, binding, invitation, lapsed, req, edits, accepts, unbound>>

\* POST /user-role-bindings, which gives no expiry, and POST /roles/:id/assignments.
BindRole(b, role, scope, expiry) ==
    /\ user /\ Edit
    /\ InsertBinding(b, role, scope, expiry)
    /\ UNCHANGED <<user, grant, invitation, lapsed, req, patch, history>>

PostBinding(b, role, scope) == BindRole(b, role, scope, "never")
Assign(b, role, scope) == \E expiry \in {"never", "later"} : BindRole(b, role, scope, expiry)

DeleteBinding(b) ==
    /\ binding[b] # None /\ Edit
    /\ binding' = [binding EXCEPT ![b] = None]
    /\ patch' = Orphan(b)
    /\ unbound' = unbound \cup {binding[b].role}
    /\ UNCHANGED <<user, grant, invitation, lapsed, req, asked, raced, accepts, withdrawn>>

ReadBinding(e, b, scope, expiry) ==
    /\ patch[e].row = "none" /\ binding[b] # None /\ Edit
    /\ patch' = [patch EXCEPT ![e] = [NotPatching EXCEPT !.row = b, !.new =
        [role |-> binding[b].role, scope |-> IF scope = None THEN binding[b].scope ELSE scope,
         expiry |-> expiry]]]
    /\ UNCHANGED <<tables, req, history>>

PatchUserRoleBinding(e) ==
    LET b == patch[e].row
        new == patch[e].new
    IN
    /\ b \in Bindings
    /\ binding' = IF Taken(new.role, new.scope, b) THEN binding ELSE [binding EXCEPT ![b] = new]
    /\ patch' = [patch EXCEPT ![e] = NotPatching]
    /\ unbound' = IF binding' = binding THEN unbound ELSE unbound \cup {new.role}
    /\ UNCHANGED <<user, grant, invitation, lapsed, req, edits, asked, raced, accepts, withdrawn>>

-----------------------------------------------------------------------------
(* Time.                                                                    *)

GrantExpires ==
    /\ grant # None /\ grant.expiry = "later"
    /\ grant' = [grant EXCEPT !.expiry = "past"]
    /\ UNCHANGED <<user, binding, invitation, lapsed, req, patch, edits, history>>

BindingExpires(b) ==
    /\ binding[b] # None /\ binding[b].expiry = "later"
    /\ binding' = [binding EXCEPT ![b].expiry = "past"]
    /\ UNCHANGED <<user, grant, invitation, lapsed, req, patch, edits, history>>

InvitationLapses(i) ==
    /\ i \notin lapsed
    /\ lapsed' = lapsed \cup {i}
    /\ UNCHANGED <<user, grant, binding, invitation, req, patch, edits, history>>

-----------------------------------------------------------------------------
Offer ==
    \/ \E i \in Invitations : CreateInvitation(i) \/ InvitationLapses(i)
    \/ \E q \in Requests :
        \/ \E i \in Invitations : AcceptInvitation(q, i)
        \/ \E m \in Imports : ImportLine(q, m)
        \/ LookUpUser(q) \/ CreateUser(q) \/ GiveGrant(q) \/ GiveRole(q) \/ Finish(q) \/ BreakOff(q)

Administer ==
    \/ \E level \in Levels, cap \in Caps : PostGrant(level, cap)
    \/ DeleteGrant
    \/ GrantExpires
    \/ \E b \in Bindings : DeleteBinding(b) \/ BindingExpires(b)
    \/ \E b \in Bindings, role \in Roles, scope \in Scopes :
        PostBinding(b, role, scope) \/ Assign(b, role, scope)
    \/ \E e \in Editors :
        \/ \E level \in Levels \cup {None}, cap \in Caps \cup {None}, expiry \in {"never", "later"} :
            ReadGrant(e, level, cap, expiry)
        \/ \E b \in Bindings, scope \in Scopes \cup {None}, expiry \in {"never", "later"} :
            ReadBinding(e, b, scope, expiry)
        \/ PatchDomainGrant(e) \/ PatchUserRoleBinding(e)

Next == Offer \/ Administer

Spec == Init /\ [][Next]_vars

-----------------------------------------------------------------------------
\* What an accepted invitation gave is there, whatever broke off and in whatever order the
\* requests ran, unless an administrator took it away: the grant is deleted or was given an
\* expiry, which a later accept does not lift; the role was unassigned or moved.
AcceptedUnlessWithdrawn ==
    \A i \in Invitations : invitation[i] = "accepted" =>
        /\ Live(grant) \/ withdrawn # {}
        /\ Terms[i].role # None => Taken(Terms[i].role, "domain", None) \/ Terms[i].role \in unbound

\* Nothing keeps two accepts of one invitation apart; with a role only one succeeds, unless
\* the assignment it made is taken away while the other runs.
OneAcceptUnlessUnbound ==
    \A i \in Invitations : accepts[i] > 1 => Terms[i].role = None \/ Terms[i].role \in unbound

\* A PATCH writes the fields it was not given as it read them: the grant has the level and the
\* cap last asked for unless such a PATCH overlapped another write.
LastWordHolds == grant # None /\ ~raced => grant.level = asked.level /\ grant.cap = asked.cap
=============================================================================
