------------------------------ MODULE Builders ------------------------------
(***************************************************************************)
(* Scenario Builder and Role Builder: the two editors of the table         *)
(* role_scenario_bindings.  Scenario Builder keeps in it a mirror, keyed   *)
(* by the scenario's code, of the roles that see the scenario; Role        *)
(* Builder writes the keys of a role into it.  A request makes several     *)
(* transactions, and nothing keeps two requests for one scenario or role   *)
(* apart.                                                                  *)
(*                                                                         *)
(* Transactions are READ COMMITTED: a DELETE takes the rows committed when *)
(* it starts and waits for those another transaction has taken.  What it   *)
(* took goes when its transaction commits; a row that was replaced         *)
(* meanwhile is another row.                                               *)
(*                                                                         *)
(* Of a role only what the mirror and the validation need is kept; scope   *)
(* "domain" with a domain bound counts as "global".  Preset scenarios and  *)
(* system roles, which cannot be deleted, are not modelled, nor is whether *)
(* a role is active or assigned to anyone.  Of the bindings of a scenario  *)
(* only those with can_see count.                                          *)
(***************************************************************************)
EXTENDS Naturals, FiniteSets

CONSTANTS
    Scenarios,  \* ids of scenarios
    Roles,      \* ids of roles
    Codes,      \* scenario codes
    Requests,   \* callers of the builders, each with one request at a time
    Scopes,     \* scope models, "global" among them
    Overrides,  \* values of can_override_policies
    Plans,      \* bound: the scenarios, roles and edits that the callers of one behaviour work on
    None        \* no code, no row, nothing asked

ASSUME ScopesAssumption == "global" \in Scopes
ASSUME OverridesAssumption == FALSE \in Overrides /\ Overrides \subseteq BOOLEAN

VARIABLES
    plan,       \* what the callers work on
    scenario,   \* scenario_definitions: its code, the roles that can see it
    role,       \* roles with role_governance_permissions
    mirror,     \* role_scenario_bindings
    req,        \* req[q]: local state of a request
    foul,       \* history: codes whose mirror a request may have left wrong
    loose       \* history: roles a request gave a scope that was not checked

bvars == <<plan, scenario, role, mirror, req, foul, loose>>

RoleRows == [scope : Scopes, override : Overrides]

ASSUME NoneAssumption ==
    None \notin Codes \cup Scenarios \cup Roles /\ None \notin Scopes /\ None \notin BOOLEAN /\ None \notin RoleRows

\* A request to Role Builder: the scope it gives, and whether it gives bindings, which have
\* a scope of their own (claims), the governance and the keys.
EditRows == [scope : Scopes \cup {None}, bind : BOOLEAN, claims : Scopes \cup {None},
             override : Overrides \cup {None}, keys : SUBSET Codes]
NoEdit == [scope |-> None, bind |-> FALSE, claims |-> None, override |-> None, keys |-> {}]
\* Without bindings a request gives a scope at most.
Edits == {e \in EditRows : e.bind \/ e = [NoEdit EXCEPT !.scope = e.scope]}

ASSUME PlansAssumption ==
    Plans \subseteq [scenarios : SUBSET Scenarios, roles : SUBSET Roles, edits : SUBSET Edits]

ScenarioSteps == {"unmirror", "copy", "write", "resync", "resynced", "delete", "mirror", "commit", "drop"}
RoleSteps == {"govern", "editcopy", "editwrite", "clonegovern", "clone", "drop role"}
Requested == [at : {"idle", "crashed"} \cup ScenarioSteps \cup RoleSteps,
              of : Scenarios \cup Roles \cup {None},
              old : Codes \cup {None}, new : Codes \cup {None}, cur : Codes \cup {None},
              seen : SUBSET Roles, taken : SUBSET Roles, rows : SUBSET (Roles \X Codes),
              edit : EditRows, copy : RoleRows]
NotMade == [at |-> "idle", of |-> None, old |-> None, new |-> None, cur |-> None,
            seen |-> {}, taken |-> {}, rows |-> {}, edit |-> NoEdit,
            copy |-> [scope |-> "global", override |-> FALSE]]

BuildersTypeOK ==
    /\ plan \in Plans
    /\ scenario \in [Scenarios -> [code : Codes \cup {None}, seen : SUBSET Roles]]
    /\ role \in [Roles -> RoleRows \cup {None}]
    /\ mirror \subseteq {r \in Roles : role[r] # None} \X Codes
    /\ req \in [Requests -> Requested]
    /\ foul \subseteq Codes
    /\ loose \subseteq Roles

\* Whatever the builders leave when requests come one at a time and succeed.
BuildersInit ==
    /\ plan \in Plans
    /\ scenario \in [Scenarios -> [code : Codes \cup {None}, seen : SUBSET Roles]]
    /\ \A s, t \in Scenarios : scenario[s].code = scenario[t].code => s = t \/ scenario[s].code = None
    /\ \A s \in Scenarios : scenario[s].code = None => scenario[s].seen = {}
    /\ \A s \in Scenarios \ plan.scenarios : scenario[s].code = None
    /\ role \in [Roles -> {NotMade.copy, None}]
    /\ \A r \in Roles \ plan.roles : role[r] = None
    /\ \A s \in Scenarios : \A r \in scenario[s].seen : role[r] # None
    /\ mirror = UNION {scenario[s].seen \X {scenario[s].code} : s \in Scenarios}
    /\ req = [q \in Requests |-> NotMade]
    /\ foul = {}
    /\ loose = {}

At(q, step) == req[q].at = step
InProgress(q) == req[q].at \in ScenarioSteps \cup RoleSteps
Go(q, step) == req' = [req EXCEPT ![q].at = step]
Answer(q) == req' = [req EXCEPT ![q] = NotMade]     \* with success or an error; the next may come
Exists(s) == scenario[s].code # None
Fresh(i) == \A q \in Requests : req[q].of # i       \* no request takes a new id for an old one
Keyed(c) == mirror \cap (Roles \X {c})
KeysOf(r) == mirror \cap ({r} \X Codes)

-----------------------------------------------------------------------------
(* Scenario Builder.                                                        *)

\* Codes of q and of the requests for the same scenario, when they overlap.
CodesOf(q) == {req[q].old, req[q].new} \ {None}
Meet(s, codes) ==
    LET others == {p \in Requests : InProgress(p) /\ req[p].of = s}
    IN IF others = {} THEN {} ELSE (codes \cup UNION {CodesOf(p) : p \in others}) \ {None}
Unmirrored(q) ==
    \/ At(q, "drop")
    \/ req[q].at \in {"copy", "write", "resync", "resynced"} /\ req[q].new \notin {None, req[q].old}

\* One transaction; unique violations refuse it.  It leaves the mirror alone.
CreateScenario(q, s, c) ==
    /\ At(q, "idle") /\ Fresh(s) /\ ~Exists(s)
    /\ \A t \in Scenarios : scenario[t].code # c
    /\ scenario' = [scenario EXCEPT ![s] = [code |-> c, seen |-> {}]]
    /\ Answer(q)
    /\ UNCHANGED <<role, mirror, foul, loose>>

\* The template of the preset fills what the request does not, but the code is the request's
\* own, and Create makes the scenario: the preset leaves nothing in it that counts here.
CreateFromPreset(q, s, code) == code # None /\ CreateScenario(q, s, code)

\* GetCode, before any transaction.
ReadCode(q, s, new, seen, step) ==
    /\ At(q, "idle") /\ Exists(s)
    /\ req' = [req EXCEPT ![q].at = step, ![q].of = s, ![q].old = scenario[s].code,
                          ![q].new = new, ![q].seen = seen]
    /\ foul' = foul \cup Meet(s, {scenario[s].code, new})
    /\ UNCHANGED <<scenario, role, mirror, loose>>

PatchScenario(q, s, new) ==
    ReadCode(q, s, new, {}, IF new \in {None, scenario[s].code} THEN "copy" ELSE "unmirror")
DeleteScenario(q, s) == ReadCode(q, s, None, {}, "unmirror")
ReplaceRoleBindings(q, s, seen) == ReadCode(q, s, None, seen, "delete")

\* What q takes away is gone for the DELETEs of the others; local is q's next state.
Advance(q, local, rows) ==
    req' = [p \in Requests |-> IF p = q THEN local ELSE [req[p] EXCEPT !.rows = @ \ rows]]

RemoveRoleScenarioMirrorForCode(q) ==
    /\ At(q, "unmirror")
    /\ mirror' = mirror \ Keyed(req[q].old)
    /\ Advance(q, [req[q] EXCEPT !.at = IF req[q].new = None THEN "drop" ELSE "copy"], Keyed(req[q].old))
    /\ UNCHANGED <<scenario, role, foul, loose>>

\* The code the UPDATE stores.
Written(q) == IF req[q].new = None THEN req[q].cur ELSE req[q].new

\* The patch is refused: the scenario is gone, the merged row is not valid, the code is taken.
RefusePatch(q) ==
    /\ \/ At(q, "copy")
       \/ At(q, "write") /\ \E t \in Scenarios \ {req[q].of} : scenario[t].code = Written(q)
    /\ Answer(q)
    /\ foul' = foul \cup {c \in {req[q].old} : Unmirrored(q)}
    /\ UNCHANGED <<scenario, role, mirror, loose>>

\* SELECT without a lock; the UPDATE writes every column back.
CopyScenario(q) ==
    /\ At(q, "copy") /\ Exists(req[q].of)
    /\ req' = [req EXCEPT ![q].at = "write", ![q].cur = scenario[req[q].of].code]
    /\ UNCHANGED <<scenario, role, mirror, foul, loose>>

WriteScenario(q) ==
    LET s == req[q].of
    IN /\ At(q, "write")
       /\ \A t \in Scenarios \ {s} : scenario[t].code # Written(q)
       /\ scenario' = IF Exists(s) THEN [scenario EXCEPT ![s].code = Written(q)] ELSE scenario
       /\ IF ~Exists(s) \/ req[q].new \in {None, req[q].old} THEN Answer(q) ELSE Go(q, "resync")
       /\ UNCHANGED <<role, mirror, foul, loose>>

\* ResyncRoleScenarioMirror: the code is read again, then one transaction.
ResyncDelete(q) ==
    LET c == scenario[req[q].of].code
    IN /\ At(q, "resync")
       /\ IF c = None THEN Answer(q)
          ELSE req' = [req EXCEPT ![q].at = "resynced", ![q].new = c, ![q].rows = Keyed(c)]
       /\ UNCHANGED <<scenario, role, mirror, foul, loose>>

ResyncCommit(q) ==
    /\ At(q, "resynced")
    /\ mirror' = (mirror \ req[q].rows) \cup (scenario[req[q].of].seen \X {req[q].new})
    /\ Advance(q, NotMade, req[q].rows)
    /\ UNCHANGED <<scenario, role, foul, loose>>

\* ReplaceRoleBindings: the roles exist, DELETE of the bindings.
ReplaceDelete(q) ==
    /\ At(q, "delete")
    /\ IF \A r \in req[q].seen : role[r] # None
       THEN req' = [req EXCEPT ![q].at = "mirror", ![q].taken = scenario[req[q].of].seen]
       ELSE Answer(q)
    /\ UNCHANGED <<scenario, role, mirror, foul, loose>>

\* Bindings that q has deleted or inserted and not committed.
Locked(q) == IF At(q, "commit") THEN req[q].taken \cup req[q].seen ELSE {}

\* INSERT of the bindings, DELETE of the mirror.
ReplaceMirror(q) ==
    LET s == req[q].of
        broken == \/ ~Exists(s) /\ req[q].seen # {}
                  \/ \E r \in req[q].seen : role[r] = None
                  \/ (scenario[s].seen \ req[q].taken) \cap req[q].seen # {}
    IN /\ At(q, "mirror")
       /\ \A p \in Requests : req[p].of = s => Locked(p) \cap (req[q].taken \cup req[q].seen) = {}
       /\ IF broken THEN Answer(q)
          ELSE req' = [req EXCEPT ![q].at = "commit", ![q].rows = Keyed(req[q].old)]
       /\ UNCHANGED <<scenario, role, mirror, foul, loose>>

\* Mutant: roles that cannot see the scenario keep their key.
Mutant_CommitAddsOnly(q) ==
    LET s == req[q].of
    IN /\ At(q, "commit")
       /\ scenario' = [scenario EXCEPT ![s].seen = (@ \ req[q].taken) \cup req[q].seen]
       /\ mirror' = mirror \cup (req[q].seen \X {req[q].old})
       /\ Answer(q)
       /\ UNCHANGED <<role, foul, loose>>
ReplaceCommit(q) ==
    LET s == req[q].of
    IN /\ At(q, "commit")
       /\ scenario' = [scenario EXCEPT ![s].seen = (@ \ req[q].taken) \cup req[q].seen]
       /\ mirror' = (mirror \ req[q].rows) \cup (req[q].seen \X {req[q].old})
       /\ req' = [p \in Requests |->
                    IF p = q THEN NotMade
                    ELSE [req[p] EXCEPT !.rows = @ \ req[q].rows,
                                        !.taken = IF req[p].of = s THEN @ \ req[q].taken ELSE @]]
       /\ UNCHANGED <<role, foul, loose>>

\* The DELETE of the row, which waits for the bindings being written.
DropScenario(q) ==
    LET s == req[q].of
    IN /\ At(q, "drop")
       /\ \A p \in Requests : At(p, "commit") => req[p].of # s
       /\ scenario' = [scenario EXCEPT ![s] = [code |-> None, seen |-> {}]]
       /\ Answer(q)
       /\ UNCHANGED <<role, mirror, foul, loose>>

-----------------------------------------------------------------------------
(* Role Builder.                                                            *)

\* ValidateWriteInput.
Allowed(override, scope) == override => scope = "global"
Given(value, default) == IF value = None THEN default ELSE value
EditorsOf(r) == {p \in Requests : InProgress(p) /\ req[p].of = r}

\* Create validates, then one transaction.
CreateRole(q, r, edit) ==
    /\ At(q, "idle") /\ Fresh(r) /\ role[r] = None
    /\ edit.bind /\ edit.claims = None /\ None \notin {edit.scope, edit.override}
    /\ Allowed(edit.override, edit.scope)
    /\ role' = [role EXCEPT ![r] = [scope |-> edit.scope, override |-> edit.override]]
    /\ mirror' = mirror \cup ({r} \X edit.keys)
    /\ foul' = foul \cup edit.keys
    /\ Answer(q)
    /\ UNCHANGED <<scenario, loose>>

\* The scope an edit stores is the one it is checked against.
Checked(edit) == IF edit.bind THEN edit.scope # None \/ edit.claims = None ELSE edit.scope = None
\* GetFull reads the role's row first, its governance and keys in later statements.  The scope
\* a patch is checked with is the one it gives, else that of its bindings, else the role's.
ReadRole(q, r, edit, step) ==
    /\ At(q, "idle") /\ role[r] # None
    /\ req' = [req EXCEPT ![q].at = step, ![q].of = r, ![q].edit = [edit EXCEPT !.claims = None],
                          ![q].copy = [role[r] EXCEPT !.scope = Given(edit.scope, Given(edit.claims, @))]]
    /\ loose' = loose \cup {i \in {r} : EditorsOf(r) # {} \/ ~Checked(edit)}
    /\ UNCHANGED <<scenario, role, mirror, foul>>

PatchRole(q, r, edit) == ReadRole(q, r, edit, "govern")
\* Clone, and CreateFromPreset, which clones the preset's role.
CloneRole(q, r) == ReadRole(q, r, NoEdit, "clonegovern")

\* Mutant: the scope is checked only when the patch gives one.
Mutant_ReadGovernance(q) ==
    LET r == req[q].of
        e == req[q].edit
        override == role[r].override
    IN /\ At(q, "govern")
       /\ IF role[r] # None /\ Allowed(Given(e.override, override), Given(e.scope, "global"))
          THEN req' = [req EXCEPT ![q].at = "editcopy", ![q].edit.override = Given(@, override),
                                  ![q].copy = NotMade.copy]
          ELSE Answer(q)
       /\ UNCHANGED <<scenario, role, mirror, foul, loose>>
\* The rest of GetFull; a patch of the bindings that gives no governance keeps the one read
\* here.
ReadGovernance(q) ==
    LET r == req[q].of
        e == req[q].edit
        override == role[r].override
    IN /\ At(q, "govern")
       /\ IF role[r] = None THEN Answer(q)
          ELSE IF ~e.bind THEN req' = [req EXCEPT ![q].at = "editcopy", ![q].copy = NotMade.copy]
          ELSE IF ~Allowed(Given(e.override, override), req[q].copy.scope)
          THEN Answer(q)
          ELSE req' = [req EXCEPT ![q].at = "editcopy", ![q].edit.override = Given(@, override),
                                  ![q].copy = NotMade.copy]
       /\ UNCHANGED <<scenario, role, mirror, foul, loose>>

\* The transaction: SELECT without a lock, UPDATE of every column, then the bindings.
CopyRole(q) ==
    LET r == req[q].of
    IN /\ At(q, "editcopy")
       /\ IF role[r] = None THEN Answer(q)
          ELSE req' = [req EXCEPT ![q].at = "editwrite", ![q].copy = role[r]]
       /\ UNCHANGED <<scenario, role, mirror, foul, loose>>

\* The rows of r that the transactions of others have taken.
TakenRows(r) == UNION {req[p].rows : p \in {p \in Requests : req[p].at \in {"commit", "resynced"}}} \cap ({r} \X Codes)

WriteRole(q) ==
    LET r == req[q].of
        e == req[q].edit
    IN /\ At(q, "editwrite")
       /\ IF role[r] = None
          THEN Answer(q) /\ UNCHANGED <<role, mirror, foul>>
          ELSE /\ role' = [role EXCEPT ![r].scope = Given(e.scope, req[q].copy.scope),
                                       ![r].override = IF e.bind THEN e.override ELSE @]
               /\ IF e.bind
                  THEN /\ TakenRows(r) = {}
                       /\ mirror' = (mirror \ KeysOf(r)) \cup ({r} \X e.keys)
                       /\ foul' = foul \cup e.keys \cup {row[2] : row \in KeysOf(r)}
                  ELSE UNCHANGED <<mirror, foul>>
               /\ Advance(q, NotMade, IF e.bind THEN KeysOf(r) ELSE {})
       /\ UNCHANGED <<scenario, loose>>

CloneGovernance(q) ==
    LET r == req[q].of
    IN /\ At(q, "clonegovern")
       /\ IF role[r] = None THEN Answer(q)
          ELSE req' = [req EXCEPT ![q].at = "clone", ![q].copy.override = role[r].override,
                                  ![q].edit.keys = {row[2] : row \in KeysOf(r)}]
       /\ UNCHANGED <<scenario, role, mirror, foul, loose>>

\* createFullTx, without ValidateWriteInput.
WriteClone(q, new) ==
    LET keys == req[q].edit.keys
    IN /\ At(q, "clone") /\ Fresh(new) /\ role[new] = None
       /\ role' = [role EXCEPT ![new] = req[q].copy]
       /\ mirror' = mirror \cup ({new} \X keys)
       /\ foul' = foul \cup keys
       /\ loose' = loose \cup {i \in {new} : req[q].of \in loose}
       /\ Answer(q)
       /\ UNCHANGED scenario

\* Of a role that someone is assigned to, SetInactive only clears the flag left out here.
DeleteRole(q, r) ==
    /\ At(q, "idle") /\ role[r] # None
    /\ req' = [req EXCEPT ![q].at = "drop role", ![q].of = r]
    /\ UNCHANGED <<scenario, role, mirror, foul, loose>>

\* ON DELETE CASCADE, which waits for the rows others write.
DeleteHard(q) ==
    LET r == req[q].of
    IN /\ At(q, "drop role")
       /\ TakenRows(r) = {}
       /\ \A p \in Requests : r \notin Locked(p)
       /\ role' = [role EXCEPT ![r] = None]
       /\ mirror' = mirror \ KeysOf(r)
       /\ scenario' = [s \in Scenarios |-> [scenario[s] EXCEPT !.seen = @ \ {r}]]
       /\ Advance(q, NotMade, KeysOf(r))
       /\ UNCHANGED <<foul, loose>>

-----------------------------------------------------------------------------
\* A statement fails or the process stops: the open transaction is rolled back.
Crash(q) ==
    /\ InProgress(q)
    /\ req' = [req EXCEPT ![q] = [NotMade EXCEPT !.at = "crashed"]]
    /\ foul' = foul \cup {c \in CodesOf(q) : Unmirrored(q)}
    /\ UNCHANGED <<scenario, role, mirror, loose>>

RequestStep(q) ==
    \/ RemoveRoleScenarioMirrorForCode(q) \/ RefusePatch(q) \/ CopyScenario(q) \/ WriteScenario(q)
    \/ ResyncDelete(q) \/ ResyncCommit(q)
    \/ ReplaceDelete(q) \/ ReplaceMirror(q) \/ ReplaceCommit(q) \/ DropScenario(q)
    \/ ReadGovernance(q) \/ CopyRole(q) \/ WriteRole(q)
    \/ CloneGovernance(q) \/ DeleteHard(q)
    \/ \E new \in plan.roles : WriteClone(q, new)

ScenarioRoutes(q) ==
    \E s \in plan.scenarios :
        \/ \E c \in Codes : CreateScenario(q, s, c) \/ CreateFromPreset(q, s, c)
        \/ \E new \in Codes \cup {None} : PatchScenario(q, s, new)
        \/ \E seen \in SUBSET plan.roles : ReplaceRoleBindings(q, s, seen)
        \/ DeleteScenario(q, s)

RoleRoutes(q) ==
    \E r \in plan.roles :
        \/ \E edit \in plan.edits : CreateRole(q, r, edit) \/ PatchRole(q, r, edit)
        \/ CloneRole(q, r) \/ DeleteRole(q, r)

BuildersNext ==
    /\ UNCHANGED plan
    /\ \E q \in Requests : ScenarioRoutes(q) \/ RoleRoutes(q) \/ RequestStep(q) \/ Crash(q)

BuildersSpec == BuildersInit /\ [][BuildersNext]_bvars

-----------------------------------------------------------------------------
(* Properties.                                                              *)

Seeing(c) == UNION {scenario[s].seen : s \in {s \in Scenarios : scenario[s].code = c}}

\* Through renames, deletions and new scenarios that take over a code: a key that no
\* request is working on holds exactly the roles that see the scenario of that code,
\* unless requests for one scenario overlapped, one broke off or was refused after it
\* had removed the mirror, or Role Builder wrote the key.
MirrorIsExact ==
    \A c \in Codes \ foul :
        (\A q \in Requests : InProgress(q) => c \notin CodesOf(q)) => Keyed(c) = Seeing(c) \X {c}

\* The rule of ValidateWriteInput holds of every role whose requests did not overlap and
\* that no patch gave a scope other than the one it checked, and of their clones.
OverrideIsConfined ==
    \A r \in Roles \ loose : role[r] # None => Allowed(role[r].override, role[r].scope)
=============================================================================
