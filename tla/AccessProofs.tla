---------------------------- MODULE AccessProofs ----------------------------
(***************************************************************************)
(* Proofs about Grants and Access, for any offers, administrators, tables  *)
(* and questions.                                                          *)
(*                                                                         *)
(* Grants: a request that is past the grant, or past the role, has given   *)
(* it (OfferInv, ExpiryInv), and the unique index lets one request alone   *)
(* give a role (AcceptInv); a PATCH that nobody overlapped knows the row   *)
(* it writes (PatchInv).  Access: the grounds that stood all along are     *)
(* those of gates still ahead (EvalInv), and while nothing or one thing    *)
(* was written there is one, or a role gate ahead that denies (WhyInv).    *)
(***************************************************************************)
EXTENDS Access, FiniteSetTheorems, TLAPS

AskedFor(i) == {q \in Requests : req[q].of = i}
RoleGiven(o) == Terms[o].role # None => Taken(Terms[o].role, "domain", None) \/ Terms[o].role \in unbound

\* Each accept uses up a request that began before the invitation was accepted.
BudgetInv ==
    \A i \in Invitations :
        /\ accepts[i] > 0 => invitation[i] = "accepted"
        /\ accepts[i] + Cardinality(AskedFor(i)) <= Cardinality(Requests)

OfferInv ==
    \A q \in Requests :
        /\ At(q, "idle") => req[q].of = None
        /\ ~At(q, "idle") => req[q].of \in Offers
        /\ At(q, "look") => req[q].of \in Invitations
        /\ req[q].at \in {"grant", "bind", "mark"} => user
        /\ At(q, "bind") => Terms[req[q].of].role # None
        /\ At(q, "mark") => RoleGiven(req[q].of)

AcceptInv ==
    \A i \in Invitations :
        /\ invitation[i] = "accepted" => RoleGiven(i)
        /\ Terms[i].role # None /\ Terms[i].role \notin unbound =>
            /\ accepts[i] <= 1
            /\ \A q \in AskedFor(i) : At(q, "mark") => accepts[i] = 0
            /\ \A p, q \in AskedFor(i) : At(p, "mark") /\ At(q, "mark") => p = q

Knows(e) ==
    LET p == patch[e] IN
    /\ p.new.level = IF p.level = None THEN grant.level ELSE p.level
    /\ p.new.cap = IF p.cap = None THEN grant.cap ELSE p.cap

PatchInv ==
    \A e \in Editors :
        LET p == patch[e] IN
        /\ p.row = "grant" => grant # None /\ p.new \in GrantRows /\ (p.stale \/ Knows(e))
        /\ p.row \in Bindings => /\ binding[p.row] # None /\ p.new \in BindingRows
                                 /\ p.new.role = binding[p.row].role

GrantsInv == TypeOK /\ BudgetInv /\ OfferInv /\ AcceptInv /\ PatchInv /\ LastWordHolds

GivenInv ==
    (\E i \in Invitations : invitation[i] = "accepted") \/ (\E q \in Requests : req[q].at \in {"bind", "mark"})
        => grant # None \/ withdrawn # {}
\* The grant lapses only if an administrator gave it an expiry.
ExpiryInv == GivenInv /\ (grant # None /\ grant.expiry # "never" => withdrawn # {})

-----------------------------------------------------------------------------
\* The rank of the gates that are not passed yet.
Ahead == [s \in Stages |-> CASE s = "denials" -> 2 [] s = "overrides" -> 3 [] s = "acl deny" -> 4
                             [] s \in {"acl allow", "grant"} -> 5 [] s = "types" -> 6
                             [] s = "role types" -> 7 [] s = "role" -> 8 [] s = "done" -> 10]

\* What is known of an evaluation that goes on, and of the grounds H that stood since it began.
Stands(e, H) ==
    /\ e.reason = "allow"
    /\ \A g \in H : Ahead[e.at] <= Rank[g]
    /\ e.at \in {"grant", "types"} /\ "entity_type" \in H => ~e.bypass
    /\ e.at \in {"types", "role types", "role"} =>
        /\ e.grant # None
        /\ "access_level" \in H => ~LevelAllows(e.grant.level, e.of.action)
        /\ "sensitivity" \in H => Exceeds(e.of, e.grant)
        /\ "grant" \in H => ~LevelAllows(e.grant.level, e.of.action) \/ Exceeds(e.of, e.grant)

EvalInv ==
    \A c \in Checks : Running(c) => held[c] \subseteq Grounds(check[c].of) /\ Stands(check[c], held[c])

WhyInv ==
    \A c \in Checks :
        /\ check[c] = None => writes[c] = 0 /\ ~gap[c]
        /\ Running(c) /\ ~clear[c] /\ ~gap[c] /\ writes[c] < 2 =>
            /\ writes[c] = 0 => held[c] = Grounds(check[c].of)
            /\ \/ held[c] # {}
               \/ "role_entity_type" \in Grounds(check[c].of) /\ check[c].at # "role"
               \/ "role_action" \in Grounds(check[c].of)

\* Nothing is offered in a behaviour with evaluations; without, there are no evaluations.
ModeInv ==
    /\ checking => /\ \A i \in Invitations : invitation[i] = "unsent"
                   /\ \A q \in Requests : At(q, "idle")
    /\ ~checking => ExpiryInv /\ \A c \in Checks : check[c] = None

AccessInv ==
    /\ AccessTypeOK /\ GrantsInv /\ ModeInv
    /\ EvalInv /\ StandingGroundsDeny /\ WhyInv /\ AllowedWasAllowable

-----------------------------------------------------------------------------
(* The parts of GrantsInv that a step leaves alone.                         *)

LEMMA NotAskingType == NotAsking \in Asking /\ NotAsking.at = "idle" /\ NotAsking.of = None
BY DEF NotAsking, Asking, Steps

LEMMA NotPatchingType ==
    /\ NotPatching \in Patching /\ NotPatching.row = "none"
    /\ "none" \notin Bindings /\ "grant" \notin Bindings
BY BindingsAssumption DEF NotPatching, Patching

LEMMA InitGrants == Init => GrantsInv /\ ExpiryInv
<1> SUFFICES ASSUME Init PROVE GrantsInv /\ ExpiryInv OBVIOUS
<1>1. \A q \in Requests : At(q, "idle") /\ req[q].of = None
  BY NotAskingType DEF Init, At
<1>2. \A e \in Editors : patch[e].row = "none"
  BY NotPatchingType DEF Init
<1>3. Cardinality(Requests) \in Nat
  BY RequestsAssumption, FS_CardinalityType
<1>4. TypeOK
  <2>1. accepts \in [Invitations -> 0..Cardinality(Requests)] /\ edits \in 0..MaxEdits
    BY <1>3, EditsAssumption DEF Init
  <2>2. patch \in [Editors -> Patching] /\ req \in [Requests -> Asking]
    BY NotAskingType, NotPatchingType DEF Init
  <2>3. asked \in [level : Levels \cup {None}, cap : Caps \cup {None}]
    BY DEF Init
  <2>4. grant = None /\ \A b \in Bindings : binding[b] = None
    BY DEF Init
  <2>5. /\ user \in BOOLEAN /\ binding \in [Bindings -> BindingRows \cup {None}]
        /\ invitation \in [Invitations -> {"unsent", "open", "accepted"}]
        /\ raced \in BOOLEAN /\ withdrawn \subseteq {"grant", "expiry"}
        /\ unbound \subseteq Roles /\ lapsed \subseteq Invitations
    BY DEF Init
  <2> QED BY <2>1, <2>2, <2>3, <2>4, <2>5 DEF TypeOK
<1>5. BudgetInv
  <2>1. \A i \in Invitations : AskedFor(i) = {}
    BY <1>1, NoneAssumption DEF AskedFor, Offers
  <2>2. Cardinality({}) = 0 /\ \A i \in Invitations : accepts[i] = 0
    BY FS_EmptySet DEF Init
  <2> QED BY <2>1, <2>2, <1>3 DEF BudgetInv
<1>6. OfferInv
  BY <1>1 DEF OfferInv, At
<1>7. AcceptInv
  BY <1>1 DEF Init, AcceptInv, AskedFor, At
<1>8. PatchInv /\ LastWordHolds
  BY <1>2, NotPatchingType DEF Init, PatchInv, LastWordHolds
<1>9. ExpiryInv
  BY <1>1 DEF Init, ExpiryInv, GivenInv, At
<1> QED BY <1>4, <1>5, <1>6, <1>7, <1>8, <1>9 DEF GrantsInv

\* An administrator's write of assignments: what was given stays, or is on record as taken away.
LEMMA RolesFrame ==
    ASSUME GrantsInv, UNCHANGED <<req, accepts, invitation>>, user => user', unbound \subseteq unbound',
           \A o \in Offers : RoleGiven(o) => RoleGiven(o)'
    PROVE  BudgetInv' /\ OfferInv' /\ AcceptInv'
<1> USE DEF GrantsInv
<1>1. BudgetInv'
  BY DEF BudgetInv, AskedFor
<1>2. OfferInv'
  <2> SUFFICES ASSUME NEW q \in Requests
               PROVE  /\ At(q, "idle") => req[q].of = None
                      /\ ~At(q, "idle") => req[q].of \in Offers
                      /\ At(q, "look") => req[q].of \in Invitations
                      /\ req[q].at \in {"grant", "bind", "mark"} => user'
                      /\ At(q, "bind") => Terms[req[q].of].role # None
                      /\ At(q, "mark") => RoleGiven(req[q].of)'
    BY DEF OfferInv, At
  <2> QED BY DEF OfferInv, At
<1>3. AcceptInv'
  <2> SUFFICES ASSUME NEW i \in Invitations
               PROVE  /\ invitation[i] = "accepted" => RoleGiven(i)'
                      /\ Terms[i].role # None /\ Terms[i].role \notin unbound' =>
                            /\ accepts[i] <= 1
                            /\ \A q \in AskedFor(i) : At(q, "mark") => accepts[i] = 0
                            /\ \A p, q \in AskedFor(i) : At(p, "mark") /\ At(q, "mark") => p = q
    BY DEF AcceptInv, AskedFor, At
  <2> QED BY DEF AcceptInv, Offers
<1> QED BY <1>1, <1>2, <1>3

\* Without a write of the assignments nothing about roles changes.
LEMMA SameRoles ==
    ASSUME UNCHANGED <<binding, unbound>>
    PROVE  \A o : RoleGiven(o)' = RoleGiven(o)
BY DEF RoleGiven, Taken

\* The patches of a step that leaves them, the grant and the assignments alone.
LEMMA PatchFrame ==
    ASSUME GrantsInv, UNCHANGED <<patch, grant, binding>>
    PROVE  PatchInv'
BY DEF GrantsInv, PatchInv, Knows

LEMMA ExpiryFrame ==
    ASSUME ExpiryInv, UNCHANGED <<req, invitation, grant, withdrawn>>
    PROVE  ExpiryInv'
BY DEF ExpiryInv, GivenInv

-----------------------------------------------------------------------------
(* A request goes on.                                                       *)

\* It changes only its own place, reads no row of the grant, and gives no role yet.
LEMMA GoStep ==
    ASSUME GrantsInv, NEW q \in Requests, NEW r \in Asking, req' = [req EXCEPT ![q] = r],
           UNCHANGED <<grant, binding, invitation, patch, edits, history, lapsed>>,
           user' \in BOOLEAN, user => user',
           r.at = "idle" <=> r.of = None, r.of \in {req[q].of, None}, r.at \in {"idle", "create", "grant"},
           r.at = "grant" => user'
    PROVE  GrantsInv' /\ (ExpiryInv => ExpiryInv')
<1>0. /\ \A p \in Requests : req'[p] = IF p = q THEN r ELSE req[p]
      /\ req[q] \in Asking
  BY DEF GrantsInv, TypeOK
<1> USE DEF GrantsInv
<1>1. TypeOK'
  <2>1. req' \in [Requests -> Asking]
    BY DEF TypeOK
  <2> QED BY <2>1 DEF TypeOK, history
<1>2. BudgetInv'
  <2> SUFFICES ASSUME NEW i \in Invitations
               PROVE accepts[i] + Cardinality(AskedFor(i)') <= Cardinality(Requests)
    BY DEF BudgetInv, history
  <2>1. AskedFor(i)' \subseteq AskedFor(i) /\ AskedFor(i) \subseteq Requests
    BY <1>0, NoneAssumption DEF AskedFor, Offers
  <2>2. IsFiniteSet(AskedFor(i)) /\ IsFiniteSet(AskedFor(i)')
    BY <2>1, RequestsAssumption, FS_Subset
  <2>3. /\ Cardinality(AskedFor(i)') <= Cardinality(AskedFor(i))
        /\ Cardinality(AskedFor(i)') \in Nat /\ Cardinality(AskedFor(i)) \in Nat
        /\ Cardinality(Requests) \in Nat
    BY <2>1, <2>2, RequestsAssumption, FS_Subset, FS_CardinalityType
  <2>4. accepts[i] \in Nat
    BY <2>3 DEF TypeOK
  <2> QED BY <2>3, <2>4 DEF BudgetInv
<1>3. \A o : RoleGiven(o)' = RoleGiven(o)
  BY SameRoles DEF history
<1>4. OfferInv'
  BY <1>0, <1>3, NoneAssumption DEF OfferInv, At
<1>5. AcceptInv'
  <2>1. \A i \in Invitations : \A p \in AskedFor(i)' : At(p, "mark")' => p \in AskedFor(i) /\ At(p, "mark")
    BY <1>0 DEF AskedFor, At
  <2> QED BY <1>3, <2>1 DEF AcceptInv, history
<1>6. PatchInv' /\ LastWordHolds'
  BY PatchFrame DEF LastWordHolds, history
<1>7. ExpiryInv => ExpiryInv'
  BY <1>0 DEF ExpiryInv, GivenInv, history
<1> QED BY <1>1, <1>2, <1>4, <1>5, <1>6, <1>7

LEMMA LookUpUserStep == ASSUME GrantsInv, NEW q \in Requests, LookUpUser(q)
                        PROVE  GrantsInv' /\ (ExpiryInv => ExpiryInv')
<1> DEFINE r == [req[q] EXCEPT !.at = IF user THEN "grant" ELSE "create"]
<1>1. r \in Asking /\ r.of = req[q].of /\ r.at = IF user THEN "grant" ELSE "create"
  BY DEF GrantsInv, TypeOK, Asking, Steps
<1>2. req' = [req EXCEPT ![q] = r]
  BY DEF LookUpUser, Go, GrantsInv, TypeOK
<1>3. req[q].of \in Offers
  BY DEF GrantsInv, OfferInv, LookUpUser, At
<1> HIDE DEF r
<1>4. /\ user' = user /\ user \in BOOLEAN
      /\ UNCHANGED <<grant, binding, invitation, patch, edits, history, lapsed>>
  BY DEF LookUpUser, tables, GrantsInv, TypeOK
<1>5. r.at \in {"idle", "create", "grant"} /\ (r.at = "idle" <=> r.of = None) /\ (r.at = "grant" => user')
      /\ r.of \in {req[q].of, None}
  BY <1>1, <1>3, <1>4, NoneAssumption
<1> QED BY <1>1, <1>2, <1>4, <1>5, GoStep

LEMMA CreateUserStep == ASSUME GrantsInv, NEW q \in Requests, CreateUser(q)
                        PROVE  GrantsInv' /\ (ExpiryInv => ExpiryInv')
<1> DEFINE r == IF user THEN NotAsking ELSE [req[q] EXCEPT !.at = "grant"]
<1>1. req' = [req EXCEPT ![q] = r]
  BY DEF CreateUser, Go, Answer, GrantsInv, TypeOK
<1>2. user => r = NotAsking
  OBVIOUS
<1>3. ~user => r \in Asking /\ r.of = req[q].of /\ r.at = "grant"
  BY DEF GrantsInv, TypeOK, Asking, Steps
<1> HIDE DEF r
<1>4. req[q].of \in Offers
  BY DEF GrantsInv, OfferInv, CreateUser, At
<1>5. user' = TRUE /\ UNCHANGED <<grant, binding, invitation, patch, edits, history, lapsed>>
  BY DEF CreateUser
<1>6. /\ r \in Asking /\ r.of \in {req[q].of, None} /\ r.at \in {"idle", "create", "grant"}
      /\ r.at = "idle" <=> r.of = None
  BY <1>2, <1>3, <1>4, NotAskingType, NoneAssumption
<1> QED BY <1>1, <1>5, <1>6, GoStep

LEMMA BreakOffStep == ASSUME GrantsInv, NEW q \in Requests, BreakOff(q)
                      PROVE  GrantsInv' /\ (ExpiryInv => ExpiryInv')
<1>1. /\ user' = user /\ user \in BOOLEAN
      /\ UNCHANGED <<grant, binding, invitation, patch, edits, history, lapsed>>
      /\ req' = [req EXCEPT ![q] = NotAsking]
  BY DEF BreakOff, Answer, tables, GrantsInv, TypeOK
<1>2. NotAsking \in Asking /\ NotAsking.of \in {req[q].of, None} /\ NotAsking.at \in {"idle", "create", "grant"}
      /\ (NotAsking.at = "idle" <=> NotAsking.of = None) /\ NotAsking.at # "grant"
  BY NotAskingType
<1> QED BY <1>1, <1>2, GoStep

\* A request takes up an offer: an invitation that nobody has accepted yet, or a line.
LEMMA TakeUpStep ==
    ASSUME GrantsInv, NEW q \in Requests, NEW o \in Offers, NEW s \in Steps,
           At(q, "idle"), req' = [req EXCEPT ![q] = [at |-> s, of |-> o]],
           (s = "look" /\ o \in Invitations) \/ s = "create",
           o \in Invitations => invitation[o] = "open",
           UNCHANGED <<tables, patch, edits, history>>
    PROVE  GrantsInv' /\ (ExpiryInv => ExpiryInv')
<1>0. /\ \A p \in Requests : req'[p] = IF p = q THEN [at |-> s, of |-> o] ELSE req[p]
      /\ req[q] \in Asking /\ req[q].at = "idle" /\ req[q].of = None
  BY DEF GrantsInv, TypeOK, OfferInv, At
<1> USE DEF GrantsInv
<1>1. TypeOK'
  <2>1. req' \in [Requests -> Asking]
    BY <1>0 DEF TypeOK, Asking
  <2> QED BY <2>1 DEF TypeOK, history, tables
<1>2. BudgetInv'
  <2> SUFFICES ASSUME NEW i \in Invitations
               PROVE accepts[i] + Cardinality(AskedFor(i)') <= Cardinality(Requests)
    BY DEF BudgetInv, history, tables
  <2>1. Cardinality(Requests) \in Nat /\ accepts[i] \in Nat
    BY RequestsAssumption, FS_CardinalityType DEF TypeOK
  <2>2. CASE i = o
    <3>1. accepts[i] = 0
      BY <2>1, <2>2 DEF BudgetInv
    <3>2. AskedFor(i)' \subseteq Requests
      BY DEF AskedFor
    <3>3. Cardinality(AskedFor(i)') <= Cardinality(Requests) /\ Cardinality(AskedFor(i)') \in Nat
      BY <3>2, RequestsAssumption, FS_Subset, FS_CardinalityType
    <3> QED BY <2>1, <3>1, <3>3
  <2>3. CASE i # o
    <3>1. AskedFor(i)' = AskedFor(i)
      BY <1>0, <2>3, NoneAssumption DEF AskedFor, Offers
    <3> QED BY <3>1 DEF BudgetInv
  <2> QED BY <2>2, <2>3
<1>3. \A p : RoleGiven(p)' = RoleGiven(p)
  BY SameRoles DEF history, tables
<1>4. OfferInv'
  <2>1. \A p \in Requests : p # q => req'[p] = req[p]
    BY <1>0
  <2>2. req'[q].at \in {"look", "create"} /\ req'[q].of \in Offers /\ (req'[q].at = "look" => req'[q].of \in Invitations)
    BY <1>0
  <2> QED BY <2>1, <2>2, <1>3 DEF OfferInv, At, tables
<1>5. AcceptInv'
  <2>1. \A i \in Invitations : \A p \in AskedFor(i)' : At(p, "mark")' => p \in AskedFor(i) /\ At(p, "mark")
    BY <1>0 DEF AskedFor, At, Steps
  <2> QED BY <1>3, <2>1 DEF AcceptInv, history, tables
<1>6. PatchInv' /\ LastWordHolds'
  BY PatchFrame DEF LastWordHolds, history, tables
<1>7. ExpiryInv => ExpiryInv'
  BY <1>0 DEF ExpiryInv, GivenInv, history, tables, Steps
<1> QED BY <1>1, <1>2, <1>4, <1>5, <1>6, <1>7

LEMMA InvitationStep ==
    ASSUME GrantsInv, NEW i \in Invitations, CreateInvitation(i) \/ InvitationLapses(i)
    PROVE  GrantsInv' /\ (ExpiryInv => ExpiryInv')
<1> USE DEF GrantsInv
<1>0. UNCHANGED <<user, grant, binding, req, patch, edits, history>>
  BY DEF CreateInvitation, InvitationLapses
<1>1. \A j \in Invitations : invitation'[j] = "accepted" <=> invitation[j] = "accepted"
  BY DEF CreateInvitation, InvitationLapses, TypeOK
<1>2. TypeOK'
  BY <1>0 DEF TypeOK, CreateInvitation, InvitationLapses, history
<1>3. BudgetInv'
  BY <1>0, <1>1 DEF BudgetInv, AskedFor, history
<1>4. \A o : RoleGiven(o)' = RoleGiven(o)
  BY <1>0, SameRoles DEF history
<1>5. OfferInv'
  BY <1>0, <1>4 DEF OfferInv, At
<1>6. AcceptInv'
  BY <1>0, <1>1, <1>4 DEF AcceptInv, AskedFor, At, history
<1>7. PatchInv' /\ LastWordHolds'
  BY <1>0, PatchFrame DEF LastWordHolds, history
<1>8. ExpiryInv => ExpiryInv'
  BY <1>0, <1>1 DEF ExpiryInv, GivenInv, history
<1> QED BY <1>2, <1>3, <1>5, <1>6, <1>7, <1>8

-----------------------------------------------------------------------------
(* The grant is written.                                                    *)

LEMMA OutdateFacts ==
    ASSUME GrantsInv
    PROVE  /\ Outdate \in [Editors -> Patching]
           /\ \A e \in Editors :
                 /\ Outdate[e].row = patch[e].row /\ Outdate[e].new = patch[e].new
                 /\ Outdate[e].row = "grant" => Outdate[e].stale
<1>1. \A e \in Editors : patch[e] \in Patching
  BY DEF GrantsInv, TypeOK
<1>2. \A e \in Editors : (patch[e].stale \/ patch[e].row = "grant") \in BOOLEAN
  OBVIOUS
<1>3. \A e \in Editors : Outdate[e] = [patch[e] EXCEPT !.stale = patch[e].stale \/ patch[e].row = "grant"]
  BY Zenon DEF Outdate
<1>4. \A e \in Editors :
        Outdate[e] = [row |-> patch[e].row, new |-> patch[e].new, level |-> patch[e].level, cap |-> patch[e].cap,
                      stale |-> patch[e].stale \/ patch[e].row = "grant"]
  BY <1>1, <1>3 DEF Patching
<1>5. ASSUME NEW e \in Editors
      PROVE  /\ Outdate[e] \in Patching
             /\ Outdate[e].row = patch[e].row /\ Outdate[e].new = patch[e].new
             /\ Outdate[e].row = "grant" => Outdate[e].stale
  <2>1. PICK st \in BOOLEAN :
           /\ patch[e].row = "grant" => st
           /\ Outdate[e] = [row |-> patch[e].row, new |-> patch[e].new, level |-> patch[e].level,
                            cap |-> patch[e].cap, stale |-> st]
    BY <1>2, <1>4
  <2> QED BY <1>1, <2>1 DEF Patching
<1>6. Outdate = [e \in Editors |-> Outdate[e]]
  BY DEF Outdate
<1> QED BY <1>5, <1>6

LEMMA UpsertFacts ==
    ASSUME GrantsInv, NEW level \in Levels, NEW cap \in Caps, UpsertDomainGrant(level, cap), binding' = binding
    PROVE  /\ grant' \in GrantRows /\ grant' # None
           /\ asked' \in [level : Levels \cup {None}, cap : Caps \cup {None}] /\ raced' \in BOOLEAN
           /\ patch' \in [Editors -> Patching] /\ withdrawn' \subseteq {"grant", "expiry"}
           /\ PatchInv' /\ LastWordHolds'
           /\ (grant # None /\ grant.expiry # "never" => withdrawn # {}) =>
                  (grant'.expiry # "never" => withdrawn' # {})
<1>0. grant' = [level |-> level, cap |-> cap, expiry |-> IF grant = None THEN "never" ELSE grant.expiry]
      /\ asked' = [level |-> level, cap |-> cap] /\ raced' = FALSE
      /\ patch' = Outdate
      /\ withdrawn' = IF grant = None THEN {} ELSE withdrawn
  BY DEF UpsertDomainGrant
<1>1. grant' \in GrantRows
  <2>1. grant # None => grant.expiry \in Expiries
    BY DEF GrantsInv, TypeOK, GrantRows
  <2> QED BY <1>0, <2>1 DEF GrantRows, Expiries
<1>2. grant' # None
  BY <1>1, RowsAssumption
<1>3. withdrawn' \subseteq {"grant", "expiry"}
  BY <1>0 DEF GrantsInv, TypeOK
<1>4. PatchInv'
  <2>1. PatchInv
    BY DEF GrantsInv
  <2> QED BY <2>1, <1>0, <1>2, OutdateFacts DEF PatchInv
<1>5. patch' \in [Editors -> Patching]
  BY <1>0, OutdateFacts
<1>6. LastWordHolds'
  BY <1>0 DEF LastWordHolds
<1> QED BY <1>0, <1>1, <1>2, <1>3, <1>4, <1>5, <1>6

LEMMA PostGrantStep ==
    ASSUME GrantsInv, NEW level \in Levels, NEW cap \in Caps, PostGrant(level, cap)
    PROVE  GrantsInv' /\ (ExpiryInv => ExpiryInv')
<1>0. /\ user /\ edits' \in 0..MaxEdits /\ UpsertDomainGrant(level, cap)
      /\ UNCHANGED <<user, binding, invitation, lapsed, req, accepts, unbound>>
  BY EditsAssumption DEF PostGrant, Edit, GrantsInv, TypeOK
<1>1. TypeOK' /\ PatchInv' /\ LastWordHolds' /\ grant' # None
  BY <1>0, UpsertFacts DEF GrantsInv, TypeOK
<1>2. BudgetInv' /\ OfferInv' /\ AcceptInv'
  BY <1>0, SameRoles, RolesFrame
<1>3. ExpiryInv => ExpiryInv'
  BY <1>0, UpsertFacts DEF ExpiryInv, GivenInv
<1> QED BY <1>1, <1>2, <1>3 DEF GrantsInv

LEMMA GiveGrantStep ==
    ASSUME GrantsInv, NEW q \in Requests, GiveGrant(q)
    PROVE  GrantsInv' /\ (ExpiryInv => ExpiryInv')
<1> DEFINE t == Terms[req[q].of]
           s == IF t.role # None THEN "bind" ELSE "mark"
<1>0. /\ At(q, "grant") /\ UpsertDomainGrant(t.level, t.cap) /\ req' = [req EXCEPT ![q].at = s]
      /\ UNCHANGED <<user, binding, invitation, lapsed, edits, accepts, unbound>>
  BY DEF GiveGrant, Go
<1>1. user /\ req[q].of \in Offers /\ t \in [level : Levels, cap : Caps, role : Roles \cup {None}]
  BY <1>0, TermsAssumption DEF GrantsInv, OfferInv, At
<1>2. s \in Steps /\ (s = "bind" => t.role # None) /\ (s = "mark" => t.role = None) /\ s \in {"bind", "mark"}
  BY DEF Steps
<1>3. t.level \in Levels /\ t.cap \in Caps /\ (t.role # None => s = "bind")
  BY <1>1
<1> HIDE DEF s
<1>4. /\ \A p \in Requests : req'[p].of = req[p].of /\ (p # q => req'[p] = req[p])
      /\ req'[q].at = s /\ req' \in [Requests -> Asking]
  BY <1>0, <1>2 DEF GrantsInv, TypeOK, Asking
<1>5. /\ grant' \in GrantRows /\ grant' # None
      /\ asked' \in [level : Levels \cup {None}, cap : Caps \cup {None}] /\ raced' \in BOOLEAN
      /\ patch' \in [Editors -> Patching] /\ withdrawn' \subseteq {"grant", "expiry"}
      /\ PatchInv' /\ LastWordHolds'
      /\ (grant # None /\ grant.expiry # "never" => withdrawn # {}) =>
             (grant'.expiry # "never" => withdrawn' # {})
  BY <1>0, <1>3, UpsertFacts
<1>6. TypeOK'
  BY <1>0, <1>1, <1>4, <1>5 DEF GrantsInv, TypeOK
<1>7. \A i \in Invitations : AskedFor(i)' = AskedFor(i)
  BY <1>4 DEF AskedFor
<1>8. BudgetInv'
  BY <1>0, <1>7 DEF GrantsInv, BudgetInv
<1>9. \A o : RoleGiven(o)' = RoleGiven(o)
  BY <1>0, SameRoles
<1>10. OfferInv'
  <2>1. \A p \in Requests : p # q => At(p, "idle")' = At(p, "idle") /\ At(p, "mark")' = At(p, "mark")
    BY <1>4 DEF At
  <2>2. s = "mark" => RoleGiven(req[q].of)
    BY <1>2 DEF RoleGiven
  <2> QED BY <1>0, <1>1, <1>2, <1>4, <1>9, <2>1, <2>2 DEF GrantsInv, OfferInv, At
<1>11. AcceptInv'
  <2>1. \A p \in Requests : At(p, "mark")' => At(p, "mark") \/ (p = q /\ Terms[req[q].of].role = None)
    BY <1>2, <1>4 DEF At
  <2>2. \A i \in Invitations : \A p \in AskedFor(i) : p = q => req[q].of = i
    BY DEF AskedFor
  <2>3. AcceptInv
    BY DEF GrantsInv
  <2> QED BY <1>0, <1>7, <1>9, <2>1, <2>2, <2>3 DEF AcceptInv, AskedFor
<1>12. ExpiryInv => ExpiryInv'
  BY <1>5 DEF ExpiryInv, GivenInv
<1> QED BY <1>5, <1>6, <1>8, <1>10, <1>11, <1>12 DEF GrantsInv

-----------------------------------------------------------------------------
(* A role is given, and a request ends.                                     *)

\* A new row: what was given before still is, and no patch has it.
LEMMA InsertFacts ==
    ASSUME GrantsInv, NEW b \in Bindings, NEW role \in Roles, NEW scope \in Scopes, NEW expiry \in Expiries,
           InsertBinding(b, role, scope, expiry), unbound' = unbound, grant' = grant, patch' = patch
    PROVE  /\ binding' \in [Bindings -> BindingRows \cup {None}]
           /\ \A o : RoleGiven(o) => RoleGiven(o)'
           /\ Taken(role, scope, None)' /\ ~Taken(role, scope, None)
           /\ PatchInv'
<1>0. /\ binding[b] = None /\ ~Taken(role, scope, b)
      /\ binding' = [binding EXCEPT ![b] = [role |-> role, scope |-> scope, expiry |-> expiry]]
      /\ binding \in [Bindings -> BindingRows \cup {None}]
  BY DEF InsertBinding, GrantsInv, TypeOK
<1>1. [role |-> role, scope |-> scope, expiry |-> expiry] \in BindingRows
  BY DEF BindingRows
<1>2. binding' \in [Bindings -> BindingRows \cup {None}]
  BY <1>0, <1>1
<1>3. /\ binding'[b] # None /\ binding'[b].role = role /\ binding'[b].scope = scope
      /\ \A c \in Bindings : c # b => binding'[c] = binding[c]
  BY <1>0, <1>1, RowsAssumption
<1>4. \A o : RoleGiven(o) => RoleGiven(o)'
  BY <1>0, <1>3 DEF RoleGiven, Taken
<1>5. Taken(role, scope, None)' /\ ~Taken(role, scope, None)
  BY <1>0, <1>3, BindingsAssumption DEF Taken
<1>6. PatchInv'
  <2>1. PatchInv
    BY DEF GrantsInv
  <2>2. \A e \in Editors : patch[e].row \in Bindings => binding'[patch[e].row] = binding[patch[e].row]
    BY <2>1, <1>0, <1>3 DEF PatchInv
  <2> QED BY <2>1, <2>2 DEF PatchInv, Knows
<1> QED BY <1>2, <1>4, <1>5, <1>6

LEMMA AnswerStep ==
    ASSUME GrantsInv, NEW q \in Requests, Answer(q), UNCHANGED <<tables, patch, edits, history>>
    PROVE  GrantsInv' /\ (ExpiryInv => ExpiryInv')
<1>1. /\ user' = user /\ user \in BOOLEAN
      /\ UNCHANGED <<grant, binding, invitation, patch, edits, history, lapsed>>
      /\ req' = [req EXCEPT ![q] = NotAsking]
  BY DEF Answer, tables, GrantsInv, TypeOK
<1>2. NotAsking \in Asking /\ NotAsking.of \in {req[q].of, None} /\ NotAsking.at \in {"idle", "create", "grant"}
      /\ (NotAsking.at = "idle" <=> NotAsking.of = None) /\ NotAsking.at # "grant"
  BY NotAskingType
<1> QED BY <1>1, <1>2, GoStep

LEMMA GiveRoleStep == ASSUME GrantsInv, NEW q \in Requests, GiveRole(q)
                      PROVE  GrantsInv' /\ (ExpiryInv => ExpiryInv')
<1> DEFINE t == Terms[req[q].of]
<1>0. /\ At(q, "bind") /\ user /\ req[q].of \in Offers /\ t.role \in Roles
      /\ UNCHANGED <<user, grant, invitation, lapsed, patch, edits, history>>
  <2>1. At(q, "bind") /\ UNCHANGED <<user, grant, invitation, lapsed, patch, edits, history>>
    BY DEF GiveRole
  <2>2. req[q].of \in Offers /\ user /\ t.role # None
    BY <2>1 DEF GrantsInv, OfferInv, At
  <2> QED BY <2>1, <2>2, TermsAssumption
<1>1. CASE Taken(t.role, "domain", None) /\ Answer(q) /\ UNCHANGED binding
  BY <1>0, <1>1, AnswerStep DEF tables
<1>2. ASSUME NEW b \in Bindings, InsertBinding(b, t.role, "domain", "never"), Go(q, "mark")
      PROVE  GrantsInv' /\ (ExpiryInv => ExpiryInv')
  <2>0. PICK role \in Roles : role = t.role
    BY <1>0
  <2>1. /\ binding' \in [Bindings -> BindingRows \cup {None}]
        /\ \A o : RoleGiven(o) => RoleGiven(o)'
        /\ Taken(role, "domain", None)' /\ ~Taken(role, "domain", None)
        /\ PatchInv'
    <3>1. "never" \in Expiries /\ unbound' = unbound
      BY <1>0 DEF Expiries, history
    <3>2. InsertBinding(b, role, "domain", "never")
      BY <1>2, <2>0
    <3> QED BY <1>0, <3>1, <3>2, InsertFacts, ScopesAssumption
  <2>2. /\ \A p \in Requests : req'[p].of = req[p].of /\ (p # q => req'[p] = req[p])
        /\ req'[q].at = "mark" /\ req' \in [Requests -> Asking]
    BY <1>2 DEF GrantsInv, TypeOK, Asking, Go, Steps
  <2>3. TypeOK'
    BY <1>0, <2>1, <2>2 DEF GrantsInv, TypeOK, history
  <2>4. \A i \in Invitations : AskedFor(i)' = AskedFor(i)
    BY <2>2 DEF AskedFor
  <2>5. BudgetInv'
    BY <1>0, <2>4 DEF GrantsInv, BudgetInv, history
  <2>6. OfferInv'
    <3>1. RoleGiven(req[q].of)'
      BY <2>0, <2>1, <2>2 DEF RoleGiven
    <3> QED BY <1>0, <2>1, <2>2, <3>1 DEF GrantsInv, OfferInv, At
  <2>7. AcceptInv'
    <3> SUFFICES ASSUME NEW i \in Invitations
                 PROVE  /\ invitation[i] = "accepted" => RoleGiven(i)'
                        /\ Terms[i].role # None /\ Terms[i].role \notin unbound =>
                              /\ accepts[i] <= 1
                              /\ \A p \in AskedFor(i) : At(p, "mark")' => accepts[i] = 0
                              /\ \A p, r \in AskedFor(i) : At(p, "mark")' /\ At(r, "mark")' => p = r
      BY <1>0, <2>4 DEF AcceptInv, history
    <3>1. AcceptInv /\ BudgetInv /\ OfferInv /\ TypeOK
      BY DEF GrantsInv
    <3>2. invitation[i] = "accepted" => RoleGiven(i)'
      BY <2>1, <3>1 DEF AcceptInv
    <3>3. ASSUME Terms[i].role # None, Terms[i].role \notin unbound, q \in AskedFor(i)
          PROVE  accepts[i] = 0 /\ \A p \in AskedFor(i) : ~At(p, "mark")
      <4>1. req[q].of = i /\ ~RoleGiven(i)
        BY <2>0, <2>1, <3>3 DEF AskedFor, RoleGiven
      <4>2. accepts[i] \in Nat /\ ~(accepts[i] > 0)
        BY <3>1, <4>1, RequestsAssumption, FS_CardinalityType DEF AcceptInv, BudgetInv, TypeOK
      <4>3. \A p \in AskedFor(i) : p \in Requests /\ req[p].of = i
        BY DEF AskedFor
      <4> QED BY <3>1, <4>1, <4>2, <4>3 DEF OfferInv
    <3>4. \A p \in AskedFor(i) : p \in Requests /\ (p # q => At(p, "mark")' = At(p, "mark"))
      BY <2>2 DEF AskedFor, At
    <3> QED BY <3>1, <3>2, <3>3, <3>4 DEF AcceptInv
  <2>8. LastWordHolds' /\ (ExpiryInv => ExpiryInv')
    <3>1. ExpiryInv => ExpiryInv'
      <4>1. (\E p \in Requests : req'[p].at \in {"bind", "mark"}) => \E p \in Requests : req[p].at \in {"bind", "mark"}
        BY <1>0, <2>2 DEF At
      <4> QED BY <1>0, <4>1 DEF ExpiryInv, GivenInv, history
    <3> QED BY <1>0, <3>1 DEF GrantsInv, LastWordHolds, history
  <2> QED BY <2>1, <2>3, <2>5, <2>6, <2>7, <2>8 DEF GrantsInv
<1> QED BY <1>1, <1>2 DEF GiveRole

LEMMA FinishStep == ASSUME GrantsInv, NEW q \in Requests, Finish(q)
                    PROVE  GrantsInv' /\ (ExpiryInv => ExpiryInv')
<1> DEFINE i == req[q].of
<1>0. /\ At(q, "mark") /\ Answer(q) /\ i \in Offers /\ RoleGiven(i)
      /\ UNCHANGED <<user, grant, binding, lapsed, patch, edits, asked, raced, withdrawn, unbound>>
  BY DEF Finish, GrantsInv, OfferInv, At
<1>1. CASE i \notin Invitations
  BY <1>0, <1>1, AnswerStep DEF Finish, tables, history
<1>2. CASE i \in Invitations
  <2>1. /\ invitation' = [invitation EXCEPT ![i] = "accepted"]
        /\ accepts' = [accepts EXCEPT ![i] = @ + 1]
    BY <1>2 DEF Finish
  <2>2. Cardinality(Requests) \in Nat /\ \A j \in Invitations : accepts[j] \in Nat
    BY RequestsAssumption, FS_CardinalityType DEF GrantsInv, TypeOK
  <2>3. /\ \A p \in Requests : req'[p] = IF p = q THEN NotAsking ELSE req[p]
        /\ req' \in [Requests -> Asking]
    BY <1>0, NotAskingType DEF Answer, GrantsInv, TypeOK
  <2>4. \A j \in Invitations : AskedFor(j)' = AskedFor(j) \ {q}
    BY <2>3, NotAskingType, NoneAssumption DEF AskedFor, Offers
  <2>5. q \in AskedFor(i) /\ \A j \in Invitations : j # i => q \notin AskedFor(j)
    BY DEF AskedFor
  <2>6. \A j \in Invitations :
           /\ IsFiniteSet(AskedFor(j)) /\ Cardinality(AskedFor(j)) \in Nat
           /\ Cardinality(AskedFor(j)') = IF j = i THEN Cardinality(AskedFor(j)) - 1 ELSE Cardinality(AskedFor(j))
    <3>1. \A j \in Invitations : AskedFor(j) \subseteq Requests
      BY DEF AskedFor
    <3>2. \A j \in Invitations : IsFiniteSet(AskedFor(j)) /\ Cardinality(AskedFor(j)) \in Nat
      BY <3>1, RequestsAssumption, FS_Subset, FS_CardinalityType
    <3>3. \A j \in Invitations :
             Cardinality(AskedFor(j) \ {q}) = IF q \in AskedFor(j) THEN Cardinality(AskedFor(j)) - 1
                                                                   ELSE Cardinality(AskedFor(j))
      BY <3>2, FS_RemoveElement
    <3> QED BY <1>2, <2>4, <2>5, <3>2, <3>3
  <2>7. BudgetInv /\ TypeOK /\ AcceptInv /\ OfferInv
    BY DEF GrantsInv
  <2>8. \A j \in Invitations : /\ accepts'[j] = IF j = i THEN accepts[j] + 1 ELSE accepts[j]
                               /\ invitation'[j] = IF j = i THEN "accepted" ELSE invitation[j]
    BY <1>2, <2>1, <2>7 DEF TypeOK
  <2>9. BudgetInv'
    <3> SUFFICES ASSUME NEW j \in Invitations
                 PROVE  /\ accepts'[j] > 0 => invitation'[j] = "accepted"
                        /\ accepts'[j] + Cardinality(AskedFor(j)') <= Cardinality(Requests)
      BY DEF BudgetInv
    <3>1. /\ accepts[j] > 0 => invitation[j] = "accepted"
          /\ accepts[j] + Cardinality(AskedFor(j)) <= Cardinality(Requests)
      BY <2>7 DEF BudgetInv
    <3> QED BY <2>2, <2>6, <2>8, <3>1
  <2>10. TypeOK'
    <3>1. \A j \in Invitations : accepts'[j] \in 0..Cardinality(Requests)
      <4>1. \A j \in Invitations : Cardinality(AskedFor(j)') \in Nat
        <5>1. \A j \in Invitations : AskedFor(j)' \subseteq Requests
          BY DEF AskedFor
        <5> QED BY <5>1, RequestsAssumption, FS_Subset, FS_CardinalityType
      <4> QED BY <2>2, <2>8, <2>9, <4>1 DEF BudgetInv
    <3>2. accepts' \in [Invitations -> 0..Cardinality(Requests)]
      BY <2>1, <2>7, <3>1 DEF TypeOK
    <3>3. invitation' \in [Invitations -> {"unsent", "open", "accepted"}]
      BY <2>1, <2>7 DEF TypeOK
    <3> QED BY <1>0, <2>3, <2>7, <3>2, <3>3 DEF TypeOK
  <2>11. \A o : RoleGiven(o)' = RoleGiven(o)
    BY <1>0, SameRoles
  <2>12. OfferInv'
    BY <1>0, <2>3, <2>7, <2>11, NotAskingType DEF OfferInv, At
  <2>13. AcceptInv'
    <3> SUFFICES ASSUME NEW j \in Invitations
                 PROVE  /\ invitation'[j] = "accepted" => RoleGiven(j)
                        /\ Terms[j].role # None /\ Terms[j].role \notin unbound =>
                              /\ accepts'[j] <= 1
                              /\ \A p \in AskedFor(j)' : At(p, "mark")' => accepts'[j] = 0
                              /\ \A p, r \in AskedFor(j)' : At(p, "mark")' /\ At(r, "mark")' => p = r
      BY <1>0, <2>11 DEF AcceptInv
    <3>1. \A p \in AskedFor(j)' : p \in AskedFor(j) /\ p # q /\ (At(p, "mark")' => At(p, "mark"))
      BY <2>3, <2>4 DEF At, AskedFor
    <3>2. invitation'[j] = "accepted" => RoleGiven(j)
      BY <1>0, <2>7, <2>8 DEF AcceptInv
    <3>3. Terms[j].role # None /\ Terms[j].role \notin unbound =>
            /\ accepts'[j] <= 1
            /\ \A p \in AskedFor(j)' : At(p, "mark")' => accepts'[j] = 0
      <4>1. CASE j = i
        BY <1>0, <2>2, <2>5, <2>7, <2>8, <3>1, <4>1 DEF AcceptInv
      <4>2. CASE j # i
        BY <2>7, <2>8, <3>1, <4>2 DEF AcceptInv
      <4> QED BY <4>1, <4>2
    <3> QED BY <2>7, <3>1, <3>2, <3>3 DEF AcceptInv
  <2>14. PatchInv' /\ LastWordHolds'
    BY <1>0, PatchFrame DEF GrantsInv, LastWordHolds
  <2>15. ExpiryInv => ExpiryInv'
    <3>1. (\E p \in Requests : req'[p].at \in {"bind", "mark"}) => \E p \in Requests : req[p].at \in {"bind", "mark"}
      BY <2>3, NotAskingType
    <3>2. \E p \in Requests : req[p].at \in {"bind", "mark"}
      BY <1>0 DEF At
    <3> QED BY <1>0, <3>1, <3>2 DEF ExpiryInv, GivenInv
  <2> QED BY <2>9, <2>10, <2>12, <2>13, <2>14, <2>15 DEF GrantsInv
<1> QED BY <1>1, <1>2

-----------------------------------------------------------------------------
(* Administrators write the grant.                                          *)

LEMMA OrphanFacts ==
    ASSUME GrantsInv, NEW row \in {"grant"} \cup Bindings
    PROVE  /\ Orphan(row) \in [Editors -> Patching]
           /\ \A e \in Editors : /\ Orphan(row)[e].row # row
                                 /\ Orphan(row)[e].row # "none" => Orphan(row)[e] = patch[e]
<1>1. \A e \in Editors : Orphan(row)[e] = IF patch[e].row = row THEN NotPatching ELSE patch[e]
  BY DEF Orphan
<1>2. patch \in [Editors -> Patching]
  BY DEF GrantsInv, TypeOK
<1> QED BY <1>1, <1>2, NotPatchingType DEF Orphan

LEMMA DeleteGrantStep == GrantsInv /\ DeleteGrant => GrantsInv' /\ (ExpiryInv => ExpiryInv')
<1> SUFFICES ASSUME GrantsInv, DeleteGrant PROVE GrantsInv' /\ (ExpiryInv => ExpiryInv')
  OBVIOUS
<1>0. /\ edits' \in 0..MaxEdits /\ grant' = None /\ patch' = Orphan("grant") /\ withdrawn' = {"grant"}
      /\ UNCHANGED <<user, binding, invitation, lapsed, req, asked, raced, accepts, unbound>>
  BY EditsAssumption DEF DeleteGrant, Edit, GrantsInv, TypeOK
<1>1. BudgetInv' /\ OfferInv' /\ AcceptInv'
  BY <1>0, SameRoles, RolesFrame
<1>2. patch' \in [Editors -> Patching]
      /\ \A e \in Editors : patch'[e].row # "grant" /\ (patch'[e].row # "none" => patch'[e] = patch[e])
  BY <1>0, OrphanFacts
<1>3. TypeOK'
  BY <1>0, <1>2 DEF GrantsInv, TypeOK
<1>4. PatchInv'
  <2>1. \A e \in Editors : patch'[e].row \in Bindings => patch'[e] = patch[e]
    BY <1>2, NotPatchingType
  <2> QED BY <1>0, <1>2, <2>1 DEF GrantsInv, PatchInv
<1> QED BY <1>0, <1>1, <1>3, <1>4 DEF GrantsInv, LastWordHolds, ExpiryInv, GivenInv

LEMMA GrantExpiresStep == GrantsInv /\ GrantExpires => GrantsInv' /\ (ExpiryInv => ExpiryInv')
<1> SUFFICES ASSUME GrantsInv, GrantExpires PROVE GrantsInv' /\ (ExpiryInv => ExpiryInv')
  OBVIOUS
<1>0. /\ grant \in GrantRows /\ grant # None /\ grant.expiry = "later"
      /\ grant' = [grant EXCEPT !.expiry = "past"]
      /\ UNCHANGED <<user, binding, invitation, lapsed, req, patch, edits, history>>
  BY DEF GrantExpires, GrantsInv, TypeOK
<1>1. grant' \in GrantRows /\ grant'.level = grant.level /\ grant'.cap = grant.cap
  BY <1>0 DEF GrantRows, Expiries
<1>2. grant' # None
  BY <1>1, RowsAssumption
<1>3. BudgetInv' /\ OfferInv' /\ AcceptInv'
  BY <1>0, SameRoles, RolesFrame DEF history
<1>4. TypeOK'
  BY <1>0, <1>1 DEF GrantsInv, TypeOK, history
<1>5. PatchInv'
  <2>1. \A e \in Editors : Knows(e)' = Knows(e)
    BY <1>0, <1>1 DEF Knows
  <2> QED BY <1>0, <1>2, <2>1 DEF GrantsInv, PatchInv
<1>6. LastWordHolds'
  BY <1>0, <1>1 DEF GrantsInv, LastWordHolds, history
<1>7. ExpiryInv => ExpiryInv'
  BY <1>0, <1>2 DEF ExpiryInv, GivenInv, history
<1> QED BY <1>3, <1>4, <1>5, <1>6, <1>7 DEF GrantsInv

LEMMA ReadGrantStep ==
    ASSUME GrantsInv, NEW e \in Editors, NEW level \in Levels \cup {None}, NEW cap \in Caps \cup {None},
           NEW expiry \in {"never", "later"}, ReadGrant(e, level, cap, expiry)
    PROVE  GrantsInv' /\ (ExpiryInv => ExpiryInv')
<1> DEFINE new == [level |-> IF level = None THEN grant.level ELSE level,
                   cap |-> IF cap = None THEN grant.cap ELSE cap, expiry |-> expiry]
           p == [row |-> "grant", level |-> level, cap |-> cap, stale |-> FALSE, new |-> new]
<1>0. /\ grant \in GrantRows /\ grant # None /\ edits' \in 0..MaxEdits /\ patch' = [patch EXCEPT ![e] = p]
      /\ UNCHANGED <<tables, req, history>>
  BY EditsAssumption DEF ReadGrant, Edit, GrantsInv, TypeOK
<1>1. new \in GrantRows
  BY <1>0 DEF GrantRows, Expiries
<1>2. p \in Patching
  BY <1>1 DEF Patching
<1>3. patch' \in [Editors -> Patching] /\ \A f \in Editors : patch'[f] = IF f = e THEN p ELSE patch[f]
  BY <1>0, <1>2 DEF GrantsInv, TypeOK
<1>4. TypeOK'
  BY <1>0, <1>3 DEF GrantsInv, TypeOK, history, tables
<1>5. BudgetInv' /\ OfferInv' /\ AcceptInv'
  BY <1>0, SameRoles, RolesFrame DEF history, tables
<1>6. PatchInv'
  <2>1. PatchInv /\ UNCHANGED <<grant, binding>>
    BY <1>0 DEF GrantsInv, tables
  <2>2. p.row = "grant" /\ "grant" \notin Bindings /\ p.new = new
    BY NotPatchingType
  <2>3. Knows(e)'
    BY <1>0, <1>3, <2>1 DEF Knows
  <2> QED BY <1>0, <1>1, <1>3, <2>1, <2>2, <2>3 DEF PatchInv, Knows
<1>7. LastWordHolds' /\ (ExpiryInv => ExpiryInv')
  BY <1>0 DEF GrantsInv, LastWordHolds, ExpiryInv, GivenInv, tables, history
<1> QED BY <1>4, <1>5, <1>6, <1>7 DEF GrantsInv

LEMMA PatchDomainGrantStep ==
    ASSUME GrantsInv, NEW e \in Editors, PatchDomainGrant(e)
    PROVE  GrantsInv' /\ (ExpiryInv => ExpiryInv')
<1> DEFINE p == patch[e]
<1>0. /\ p.row = "grant" /\ p \in Patching /\ grant # None /\ p.new \in GrantRows /\ (p.stale \/ Knows(e))
      /\ grant' = p.new /\ patch' = [Outdate EXCEPT ![e] = NotPatching]
      /\ asked' = [level |-> IF p.level = None THEN asked.level ELSE p.level,
                   cap |-> IF p.cap = None THEN asked.cap ELSE p.cap]
      /\ raced' = (raced \/ p.stale)
      /\ UNCHANGED <<user, binding, invitation, lapsed, req, edits, accepts, unbound>>
  BY DEF PatchDomainGrant, GrantsInv, TypeOK, PatchInv
<1>1. grant' # None
  BY <1>0, RowsAssumption
<1>2. /\ patch' \in [Editors -> Patching]
      /\ \A f \in Editors : patch'[f] = IF f = e THEN NotPatching ELSE Outdate[f]
  BY <1>0, OutdateFacts, NotPatchingType
<1>3. asked' \in [level : Levels \cup {None}, cap : Caps \cup {None}] /\ raced' \in BOOLEAN
  <2>1. asked \in [level : Levels \cup {None}, cap : Caps \cup {None}]
    BY DEF GrantsInv, TypeOK
  <2>2. p.level \in Levels \cup {None} /\ p.cap \in Caps \cup {None}
    BY <1>0 DEF Patching
  <2> QED BY <1>0, <2>1, <2>2
<1>4. withdrawn' \subseteq {"grant", "expiry"}
  BY DEF PatchDomainGrant
<1>5. TypeOK'
  BY <1>0, <1>2, <1>3, <1>4 DEF GrantsInv, TypeOK
<1>6. BudgetInv' /\ OfferInv' /\ AcceptInv'
  BY <1>0, SameRoles, RolesFrame
<1>7. PatchInv'
  <2>1. \A f \in Editors : /\ patch'[f].row = "grant" => patch'[f].stale /\ patch'[f].new = patch[f].new
                                                         /\ patch'[f].row = patch[f].row
                           /\ patch'[f].row \in Bindings => /\ patch'[f].row = patch[f].row
                                                            /\ patch'[f].new = patch[f].new
    BY <1>2, OutdateFacts, NotPatchingType
  <2> QED BY <1>0, <1>1, <2>1 DEF GrantsInv, PatchInv
<1>8. LastWordHolds'
  <2>1. asked'.level = (IF p.level = None THEN asked.level ELSE p.level)
        /\ asked'.cap = (IF p.cap = None THEN asked.cap ELSE p.cap)
    BY <1>0
  <2>2. ~raced' => ~raced /\ Knows(e)
    BY <1>0
  <2> QED BY <1>0, <2>1, <2>2 DEF GrantsInv, LastWordHolds, Knows
<1>9. ExpiryInv => ExpiryInv'
  <2>1. grant'.expiry # "never" => withdrawn' # {}
    BY <1>0 DEF PatchDomainGrant
  <2> QED BY <1>1, <2>1 DEF ExpiryInv, GivenInv
<1> QED BY <1>5, <1>6, <1>7, <1>8, <1>9 DEF GrantsInv

-----------------------------------------------------------------------------
(* Administrators write the assignments.                                    *)

\* What a write of the assignments by an administrator has to keep.
LEMMA AssignFrame ==
    ASSUME GrantsInv, UNCHANGED <<user, grant, invitation, lapsed, req, asked, raced, accepts, withdrawn>>,
           binding' \in [Bindings -> BindingRows \cup {None}],
           user \/ (\A b \in Bindings : binding'[b] # None => binding[b] # None),
           patch' \in [Editors -> Patching], edits' \in 0..MaxEdits,
           unbound \subseteq unbound', unbound' \subseteq Roles,
           \A o \in Offers : RoleGiven(o) => RoleGiven(o)', PatchInv'
    PROVE  GrantsInv' /\ (ExpiryInv => ExpiryInv')
<1>1. BudgetInv' /\ OfferInv' /\ AcceptInv'
  BY RolesFrame
<1>2. TypeOK'
  BY DEF GrantsInv, TypeOK
<1>3. LastWordHolds' /\ (ExpiryInv => ExpiryInv')
  BY DEF GrantsInv, LastWordHolds, ExpiryInv, GivenInv
<1> QED BY <1>1, <1>2, <1>3 DEF GrantsInv

LEMMA BindRoleStep ==
    ASSUME GrantsInv, NEW b \in Bindings, NEW role \in Roles, NEW scope \in Scopes, NEW expiry \in Expiries,
           BindRole(b, role, scope, expiry)
    PROVE  GrantsInv' /\ (ExpiryInv => ExpiryInv')
<1>0. /\ user /\ edits' \in 0..MaxEdits /\ InsertBinding(b, role, scope, expiry)
      /\ UNCHANGED <<user, grant, invitation, lapsed, req, patch, history>>
  BY EditsAssumption DEF BindRole, Edit, GrantsInv, TypeOK
<1>1. /\ binding' \in [Bindings -> BindingRows \cup {None}]
      /\ \A o : RoleGiven(o) => RoleGiven(o)'
      /\ PatchInv'
  BY <1>0, InsertFacts DEF history
<1>2. unbound' = unbound /\ unbound \subseteq Roles /\ patch' \in [Editors -> Patching]
      /\ UNCHANGED <<asked, raced, accepts, withdrawn>>
  BY <1>0 DEF history, GrantsInv, TypeOK
<1> QED BY <1>0, <1>1, <1>2, AssignFrame

LEMMA DeleteBindingStep ==
    ASSUME GrantsInv, NEW b \in Bindings, DeleteBinding(b)
    PROVE  GrantsInv' /\ (ExpiryInv => ExpiryInv')
<1>0. /\ binding[b] # None /\ edits' \in 0..MaxEdits /\ binding' = [binding EXCEPT ![b] = None]
      /\ patch' = Orphan(b) /\ unbound' = unbound \cup {binding[b].role}
      /\ UNCHANGED <<user, grant, invitation, lapsed, req, asked, raced, accepts, withdrawn>>
  BY EditsAssumption DEF DeleteBinding, Edit, GrantsInv, TypeOK
<1>1. binding \in [Bindings -> BindingRows \cup {None}] /\ unbound \subseteq Roles
  BY DEF GrantsInv, TypeOK
<1>2. binding[b].role \in Roles
  BY <1>0, <1>1 DEF BindingRows
<1>3. /\ binding' \in [Bindings -> BindingRows \cup {None}] /\ binding'[b] = None
      /\ \A c \in Bindings : c # b => binding'[c] = binding[c]
  BY <1>0, <1>1
<1>4. patch' \in [Editors -> Patching]
      /\ \A e \in Editors : patch'[e].row # b /\ (patch'[e].row # "none" => patch'[e] = patch[e])
  BY <1>0, OrphanFacts
<1>5. \A o \in Offers : RoleGiven(o) => RoleGiven(o)'
  BY <1>0, <1>3 DEF RoleGiven, Taken
<1>6. PatchInv'
  <2>1. \A e \in Editors : patch'[e].row \in Bindings \cup {"grant"} => patch'[e] = patch[e] /\ patch'[e].row # b
    BY <1>4, NotPatchingType
  <2> QED BY <1>0, <1>3, <2>1 DEF GrantsInv, PatchInv, Knows
<1> QED BY <1>0, <1>1, <1>2, <1>3, <1>4, <1>5, <1>6, AssignFrame

LEMMA BindingExpiresStep ==
    ASSUME GrantsInv, NEW b \in Bindings, BindingExpires(b)
    PROVE  GrantsInv' /\ (ExpiryInv => ExpiryInv')
<1>0. /\ binding[b] # None /\ binding' = [binding EXCEPT ![b].expiry = "past"]
      /\ UNCHANGED <<user, grant, invitation, lapsed, req, patch, edits, history>>
      /\ binding \in [Bindings -> BindingRows \cup {None}]
  BY DEF BindingExpires, GrantsInv, TypeOK
<1>1. /\ binding' \in [Bindings -> BindingRows \cup {None}]
      /\ \A c \in Bindings : /\ c # b => binding'[c] = binding[c]
                             /\ binding'[c].role = binding[c].role /\ binding'[c].scope = binding[c].scope
      /\ binding'[b] \in BindingRows
  BY <1>0 DEF BindingRows, Expiries
<1>2. \A c \in Bindings : binding[c] # None => binding'[c] # None
  BY <1>0, <1>1, RowsAssumption
<1>3. \A o \in Offers : RoleGiven(o) => RoleGiven(o)'
  BY <1>0, <1>1, <1>2 DEF RoleGiven, Taken, history
<1>4. PatchInv'
  BY <1>0, <1>1, <1>2 DEF GrantsInv, PatchInv, Knows
<1>5. /\ patch' \in [Editors -> Patching] /\ edits' \in 0..MaxEdits
      /\ unbound' = unbound /\ unbound \subseteq Roles
      /\ UNCHANGED <<asked, raced, accepts, withdrawn>>
      /\ \A c \in Bindings : binding'[c] # None => binding[c] # None
  BY <1>0, <1>1 DEF history, GrantsInv, TypeOK
<1> QED BY <1>0, <1>1, <1>3, <1>4, <1>5, AssignFrame

LEMMA ReadBindingStep ==
    ASSUME GrantsInv, NEW e \in Editors, NEW b \in Bindings, NEW scope \in Scopes \cup {None},
           NEW expiry \in {"never", "later"}, ReadBinding(e, b, scope, expiry)
    PROVE  GrantsInv' /\ (ExpiryInv => ExpiryInv')
<1> DEFINE new == [role |-> binding[b].role, scope |-> IF scope = None THEN binding[b].scope ELSE scope,
                   expiry |-> expiry]
           p == [NotPatching EXCEPT !.row = b, !.new = new]
<1>0. /\ binding[b] # None /\ edits' \in 0..MaxEdits /\ patch' = [patch EXCEPT ![e] = p]
      /\ UNCHANGED <<tables, req, history>>
  BY EditsAssumption DEF ReadBinding, Edit, GrantsInv, TypeOK
<1>1. binding[b] \in BindingRows
  BY <1>0 DEF GrantsInv, TypeOK
<1>2. new \in BindingRows /\ new.role = binding[b].role
  BY <1>1 DEF BindingRows, Expiries
<1>3. p \in Patching /\ p.row = b /\ p.new = new
  BY <1>2 DEF NotPatching, Patching
<1>4. patch' \in [Editors -> Patching] /\ \A f \in Editors : patch'[f] = IF f = e THEN p ELSE patch[f]
  BY <1>0, <1>3 DEF GrantsInv, TypeOK
<1>5. PatchInv'
  <2>1. PatchInv /\ UNCHANGED <<grant, binding>>
    BY <1>0 DEF GrantsInv, tables
  <2> QED BY <1>0, <1>2, <1>3, <1>4, <2>1, NotPatchingType DEF PatchInv, Knows
<1>6. \A o : RoleGiven(o)' = RoleGiven(o)
  BY <1>0, SameRoles DEF tables, history
<1>7. /\ UNCHANGED <<user, grant, binding, invitation, lapsed, req, asked, raced, accepts, withdrawn, unbound>>
      /\ binding \in [Bindings -> BindingRows \cup {None}] /\ unbound \subseteq Roles
  BY <1>0 DEF tables, history, GrantsInv, TypeOK
<1> QED BY <1>0, <1>4, <1>5, <1>6, <1>7, AssignFrame

LEMMA PatchUserRoleBindingStep ==
    ASSUME GrantsInv, NEW e \in Editors, PatchUserRoleBinding(e)
    PROVE  GrantsInv' /\ (ExpiryInv => ExpiryInv')
<1> DEFINE b == patch[e].row
           new == patch[e].new
<1>0. /\ b \in Bindings /\ binding[b] # None /\ new \in BindingRows /\ new.role = binding[b].role
      /\ binding' = IF Taken(new.role, new.scope, b) THEN binding ELSE [binding EXCEPT ![b] = new]
  BY DEF PatchUserRoleBinding, GrantsInv, PatchInv
<1>1. /\ patch' = [patch EXCEPT ![e] = NotPatching]
      /\ unbound' = IF binding' = binding THEN unbound ELSE unbound \cup {new.role}
      /\ UNCHANGED <<user, grant, invitation, lapsed, req, edits, asked, raced, accepts, withdrawn>>
  BY DEF PatchUserRoleBinding
<1>2. /\ binding \in [Bindings -> BindingRows \cup {None}] /\ unbound \subseteq Roles
      /\ patch \in [Editors -> Patching] /\ edits \in 0..MaxEdits
  BY DEF GrantsInv, TypeOK
<1>3. PICK i \in Bindings : i = b
  BY <1>0
<1>4. /\ binding' \in [Bindings -> BindingRows \cup {None}]
      /\ \A c \in Bindings : /\ c # i => binding'[c] = binding[c]
                             /\ binding[c] # None => binding'[c] # None /\ binding'[c].role = binding[c].role
                             /\ binding'[c] # None => binding[c] # None
  BY <1>0, <1>2, <1>3, RowsAssumption
<1>5. unbound \subseteq unbound' /\ unbound' \subseteq Roles
  BY <1>0, <1>1, <1>2 DEF BindingRows
<1>6. \A o \in Offers : RoleGiven(o) => RoleGiven(o)'
  <2>1. CASE binding' = binding
    BY <1>1, <2>1, SameRoles
  <2>2. CASE binding' # binding
    <3>1. unbound' = unbound \cup {binding[i].role}
      BY <1>0, <1>1, <1>3, <2>2
    <3> QED BY <1>3, <1>4, <3>1 DEF RoleGiven, Taken
  <2> QED BY <2>1, <2>2
<1>7. patch' \in [Editors -> Patching]
      /\ \A f \in Editors : patch'[f] = IF f = e THEN NotPatching ELSE patch[f]
  BY <1>1, <1>2, NotPatchingType
<1>8. PatchInv'
  <2>1. \A f \in Editors : patch'[f].row \in Bindings \cup {"grant"} => patch'[f] = patch[f]
    BY <1>7, NotPatchingType
  <2> QED BY <1>1, <1>4, <2>1 DEF GrantsInv, PatchInv, Knows
<1> QED BY <1>1, <1>2, <1>4, <1>5, <1>6, <1>7, <1>8, AssignFrame

LEMMA OfferStep == GrantsInv /\ Offer => GrantsInv' /\ (ExpiryInv => ExpiryInv')
<1> SUFFICES ASSUME GrantsInv, Offer PROVE GrantsInv' /\ (ExpiryInv => ExpiryInv')
  OBVIOUS
<1>1. ASSUME NEW q \in Requests, NEW i \in Invitations, AcceptInvitation(q, i)
      PROVE  GrantsInv' /\ (ExpiryInv => ExpiryInv')
  <2>1. i \in Offers /\ "look" \in Steps
    BY DEF Offers, Steps
  <2> QED BY <1>1, <2>1, TakeUpStep DEF AcceptInvitation
<1>2. ASSUME NEW q \in Requests, NEW m \in Imports, ImportLine(q, m)
      PROVE  GrantsInv' /\ (ExpiryInv => ExpiryInv')
  <2>1. m \in Offers /\ "create" \in Steps /\ m \notin Invitations
    BY OffersAssumption DEF Offers, Steps
  <2> QED BY <1>2, <2>1, TakeUpStep DEF ImportLine
<1> QED BY <1>1, <1>2, InvitationStep, LookUpUserStep, CreateUserStep, GiveGrantStep, GiveRoleStep, FinishStep,
     BreakOffStep DEF Offer

LEMMA AdministerStep == GrantsInv /\ Administer => GrantsInv' /\ (ExpiryInv => ExpiryInv')
<1> SUFFICES ASSUME GrantsInv, Administer PROVE GrantsInv' /\ (ExpiryInv => ExpiryInv')
  OBVIOUS
<1>1. ASSUME NEW b \in Bindings, NEW role \in Roles, NEW scope \in Scopes,
             PostBinding(b, role, scope) \/ Assign(b, role, scope)
      PROVE  GrantsInv' /\ (ExpiryInv => ExpiryInv')
  BY <1>1, BindRoleStep DEF PostBinding, Assign, Expiries
<1> QED BY <1>1, PostGrantStep, DeleteGrantStep, GrantExpiresStep, DeleteBindingStep, BindingExpiresStep,
     ReadGrantStep, ReadBindingStep, PatchDomainGrantStep, PatchUserRoleBindingStep DEF Administer

LEMMA GrantsStutter == ASSUME GrantsInv, UNCHANGED vars PROVE GrantsInv' /\ (ExpiryInv => ExpiryInv')
<1>1. UNCHANGED <<req, accepts, invitation, user, binding, unbound, patch, grant, lapsed, edits, asked, raced,
                  withdrawn>>
  BY DEF vars
<1>2. BudgetInv' /\ OfferInv' /\ AcceptInv'
  BY <1>1, SameRoles, RolesFrame
<1>3. PatchInv' /\ (ExpiryInv => ExpiryInv')
  BY <1>1, PatchFrame, ExpiryFrame
<1> QED BY <1>1, <1>2, <1>3 DEF GrantsInv, TypeOK, LastWordHolds

\* What an accepted invitation gave, and how often it was accepted, follow from the invariant.
LEMMA GrantsGive ==
    /\ GrantsInv => OneAcceptUnlessUnbound
    /\ GrantsInv /\ ExpiryInv => AcceptedUnlessWithdrawn
<1>1. ASSUME GrantsInv PROVE OneAcceptUnlessUnbound
  <2>1. AcceptInv /\ TypeOK
    BY <1>1 DEF GrantsInv
  <2>2. \A i \in Invitations : accepts[i] \in Nat
    BY <2>1, RequestsAssumption, FS_CardinalityType DEF TypeOK
  <2> QED BY <2>1, <2>2 DEF AcceptInv, OneAcceptUnlessUnbound
<1>2. ASSUME GrantsInv, ExpiryInv PROVE AcceptedUnlessWithdrawn
  BY <1>2 DEF GrantsInv, AcceptInv, ExpiryInv, GivenInv, AcceptedUnlessWithdrawn, RoleGiven, Live
<1> QED BY <1>1, <1>2

\* Grants: the types, and what an accepted invitation is worth, for any requests and administrators.
THEOREM GrantsSafety ==
    Spec => [](TypeOK /\ AcceptedUnlessWithdrawn /\ OneAcceptUnlessUnbound /\ LastWordHolds)
<1> DEFINE I == GrantsInv /\ ExpiryInv
<1>1. Init => I
  BY InitGrants
<1>2. I /\ [Next]_vars => I'
  BY OfferStep, AdministerStep, GrantsStutter DEF Next
<1>3. I => TypeOK /\ AcceptedUnlessWithdrawn /\ OneAcceptUnlessUnbound /\ LastWordHolds
  BY GrantsGive DEF GrantsInv
<1> QED BY <1>1, <1>2, <1>3, PTL DEF Spec

-----------------------------------------------------------------------------
(* Access: one question after the other.                                    *)

LEMMA RankFacts ==
    /\ Rank["missing_principal"] = 1 /\ Rank["global_block"] = 2 /\ Rank["policy_override"] = 3
    /\ Rank["entity_acl"] = 4 /\ Rank["domain_required"] = 5 /\ Rank["no_domain_grant"] = 5
    /\ Rank["entity_type"] = 6 /\ Rank["role_entity_type"] = 7 /\ Rank["role_action"] = 8
    /\ Rank["access_level"] = 8 /\ Rank["sensitivity"] = 9 /\ Rank["grant"] = 9 /\ Rank["allow"] = 10
BY DEF Rank

\* Which gates have a rank: past them, the next rank is certain.
LEMMA NextRank ==
    ASSUME NEW g \in Gates
    PROVE  /\ 2 <= Rank[g] /\ g # "global_block" => 3 <= Rank[g]
           /\ 3 <= Rank[g] /\ g # "policy_override" => 4 <= Rank[g]
           /\ 4 <= Rank[g] /\ g # "entity_acl" => 5 <= Rank[g]
           /\ 5 <= Rank[g] /\ g \notin {"domain_required", "no_domain_grant"} => 6 <= Rank[g]
           /\ 6 <= Rank[g] /\ g # "entity_type" => 7 <= Rank[g]
           /\ 7 <= Rank[g] /\ g # "role_entity_type" => 8 <= Rank[g]
           /\ 8 <= Rank[g] => g \in {"role_action", "access_level", "sensitivity", "grant"}
BY RankFacts DEF Gates, Reasons

LEMMA AheadFacts ==
    /\ Ahead["denials"] = 2 /\ Ahead["overrides"] = 3 /\ Ahead["acl deny"] = 4 /\ Ahead["acl allow"] = 5
    /\ Ahead["grant"] = 5 /\ Ahead["types"] = 6 /\ Ahead["role types"] = 7 /\ Ahead["role"] = 8
BY DEF Ahead, Stages

LEMMA GroundFacts ==
    ASSUME NEW a
    PROVE  /\ Grounds(a) \subseteq Gates
           /\ "missing_principal" \in Grounds(a) <=> ~a.known
           /\ "global_block" \in Grounds(a) <=> denied
           /\ "policy_override" \in Grounds(a) <=> DenyInForce(a)
           /\ "entity_acl" \in Grounds(a) <=> AclHas(a, "deny")
           /\ "domain_required" \in Grounds(a) <=> ~a.domain
           /\ "no_domain_grant" \in Grounds(a) <=> ~Live(grant)
           /\ "entity_type" \in Grounds(a) <=> Typed(a) /\ ~TypeAllowed(a) /\ ~AclBypass(a)
           /\ "role_entity_type" \in Grounds(a) <=> Typed(a) /\ ~RoleTypeAllowed(a)
           /\ "role_action" \in Grounds(a) <=> Acting(a) = {}
           /\ "access_level" \in Grounds(a) <=> Live(grant) /\ ~LevelAllows(grant.level, a.action)
           /\ "sensitivity" \in Grounds(a) <=> Live(grant) /\ Exceeds(a, grant)
           /\ "grant" \in Grounds(a) <=> \/ ~Live(grant) \/ ~LevelAllows(grant.level, a.action)
                                          \/ Exceeds(a, grant)
BY DEF Grounds, Denies, Gates, Reasons

LEMMA AskStep ==
    ASSUME AccessInv, checking, NEW c \in Checks, Running(c), NEW e \in Evaluations,
           check' = [check EXCEPT ![c] = e], Unwritten, e.of = check[c].of,
           e.at # "done" => Stands(e, held[c]),
           e.at = "done" => \A g \in held[c] : Rank[e.reason] <= Rank[g],
           e.at = "role" => "role_entity_type" \notin Grounds(e.of),
           e.at = "done" /\ e.reason = "allow" =>
               held[c] = {} /\ "role_action" \notin Grounds(e.of) /\ check[c].at = "role"
    PROVE  AccessInv'
<1>0. UNCHANGED <<vars, rules, member, exception, ground, held, clear, writes, gap>>
  BY DEF Unwritten
<1>1. /\ AccessTypeOK /\ GrantsInv /\ ModeInv /\ EvalInv /\ StandingGroundsDeny /\ WhyInv /\ AllowedWasAllowable
      /\ check[c] # None /\ check[c].at # "done"
  BY DEF AccessInv, Running
<1>2. \A d \in Checks : check'[d] = IF d = c THEN e ELSE check[d]
  BY <1>1 DEF AccessTypeOK
<1>3. AccessTypeOK' /\ GrantsInv'
  BY <1>0, <1>1, GrantsStutter DEF AccessTypeOK, GrantsInv, rules
<1>4. ModeInv'
  <2>1. UNCHANGED <<checking, req, invitation>>
    BY <1>0 DEF vars, rules
  <2> QED BY <1>1, <2>1 DEF ModeInv, At
<1>5. \A a : Grounds(a)' = Grounds(a)
  BY <1>0 DEF vars, rules, Grounds, Denies, DenyInForce, AclHas, AclBypass, TypeAllowed, RoleTypeAllowed,
       Acting, Live
<1>6. \A d \in Checks : d # c => Running(d)' = Running(d) /\ check'[d] = check[d]
  BY <1>2 DEF Running
<1>7. EvalInv'
  BY <1>0, <1>1, <1>2, <1>5, <1>6 DEF EvalInv, Running
<1>8. StandingGroundsDeny'
  BY <1>0, <1>1, <1>2 DEF StandingGroundsDeny, Answered
<1>9. e # None
  BY EvaluationsAssumption
<1>10. WhyInv'
  <2> SUFFICES ASSUME NEW d \in Checks
               PROVE  /\ check'[d] = None => writes[d] = 0 /\ ~gap[d]
                      /\ Running(d)' /\ ~clear[d] /\ ~gap[d] /\ writes[d] < 2 =>
                           /\ writes[d] = 0 => held[d] = Grounds(check'[d].of)
                           /\ \/ held[d] # {}
                              \/ "role_entity_type" \in Grounds(check'[d].of) /\ check'[d].at # "role"
                              \/ "role_action" \in Grounds(check'[d].of)
    BY <1>0, <1>5 DEF WhyInv
  <2>1. CASE d # c
    BY <1>1, <1>2, <1>6, <2>1 DEF WhyInv
  <2>2. CASE d = c
    <3>1. check'[d] = e /\ Running(c)
      BY <1>2, <2>2
    <3>2. "role_entity_type" \in Grounds(e.of) => e.at # "role"
      OBVIOUS
    <3>3. Running(d)' => e.at # "done"
      BY <3>1 DEF Running
    <3> QED BY <1>1, <1>9, <2>2, <3>1, <3>2, <3>3 DEF WhyInv
  <2> QED BY <2>1, <2>2
<1>11. AllowedWasAllowable'
  <2> SUFFICES ASSUME NEW d \in Checks, Answered(d)', check'[d].reason = "allow"
               PROVE  clear[d] \/ writes[d] = 2 \/ gap[d]
    BY <1>0 DEF AllowedWasAllowable
  <2>1. CASE d # c
    BY <1>1, <1>2, <2>1 DEF AllowedWasAllowable, Answered
  <2>2. CASE d = c
    <3>1. held[c] = {} /\ "role_action" \notin Grounds(e.of) /\ check[c].at = "role"
      BY <1>2, <2>2 DEF Answered
    <3>2. clear[c] \/ gap[c] \/ ~(writes[c] < 2)
      BY <1>1, <3>1 DEF WhyInv
    <3>3. writes[c] \in 0..2
      BY <1>1 DEF AccessTypeOK
    <3> QED BY <2>2, <3>2, <3>3
  <2> QED BY <2>1, <2>2
<1> QED BY <1>3, <1>4, <1>7, <1>8, <1>10, <1>11 DEF AccessInv

\* A denial ends the evaluation; no ground that stood has a gate before the reason's.
LEMMA DenyStep ==
    ASSUME AccessInv, checking, NEW c \in Checks, Running(c), NEW reason \in Reasons \ {"allow"},
           Deny(c, reason), Unwritten, \A g \in held[c] : Rank[reason] <= Rank[g]
    PROVE  AccessInv'
<1> DEFINE e == [check[c] EXCEPT !.at = "done", !.reason = reason]
<1>1. check[c] \in Evaluations
  BY DEF AccessInv, AccessTypeOK, Running
<1>2. e \in Evaluations /\ e.of = check[c].of /\ e.at = "done" /\ e.reason = reason
  BY <1>1 DEF Evaluations, Stages
<1>3. check' = [check EXCEPT ![c] = e]
  BY DEF Deny
<1> HIDE DEF e
<1> QED BY <1>2, <1>3, AskStep

LEMMA TurnStep ==
    ASSUME AccessInv, checking, NEW c \in Checks, Running(c), NEW stage \in Stages \ {"done", "role"},
           Turn(c, stage), Unwritten, Stands([check[c] EXCEPT !.at = stage], held[c])
    PROVE  AccessInv'
<1> DEFINE e == [check[c] EXCEPT !.at = stage]
<1>1. check[c] \in Evaluations
  BY DEF AccessInv, AccessTypeOK, Running
<1>2. e \in Evaluations /\ e.of = check[c].of /\ e.at \notin {"done", "role"}
  BY <1>1 DEF Evaluations
<1>3. check' = [check EXCEPT ![c] = e] /\ Stands(e, held[c])
  BY DEF Turn
<1> HIDE DEF e
<1> QED BY <1>2, <1>3, AskStep

\* What an evaluation in progress may count on.
LEMMA RunningFacts ==
    ASSUME AccessInv, NEW c \in Checks, NEW stage \in Stages \ {"done"}, Asks(c, stage)
    PROVE  /\ Running(c) /\ check[c] \in Evaluations /\ check[c].of \in Questions /\ check[c].at = stage
           /\ held[c] \subseteq Grounds(check[c].of) /\ held[c] \subseteq Gates
           /\ Stands(check[c], held[c])
BY DEF AccessInv, AccessTypeOK, EvalInv, Running, Asks, Evaluations

LEMMA AskDenialsStep == ASSUME AccessInv, checking, NEW c \in Checks, AskDenials(c) PROVE AccessInv'
<1>1. Asks(c, "denials") /\ Unwritten /\ Test(c, denied, "global_block", "overrides")
  BY DEF AskDenials
<1>2. "denials" \in Stages \ {"done"} /\ "overrides" \in Stages \ {"done", "role"}
      /\ "global_block" \in Reasons \ {"allow"}
  BY DEF Stages, Reasons
<1>3. /\ Running(c) /\ check[c] \in Evaluations /\ check[c].at = "denials"
      /\ held[c] \subseteq Grounds(check[c].of) /\ held[c] \subseteq Gates
      /\ Stands(check[c], held[c])
  BY <1>1, <1>2, RunningFacts
<1>4. \A g \in held[c] : 2 <= Rank[g]
  BY <1>3, AheadFacts DEF Stands
<1>5. CASE denied
  BY <1>1, <1>2, <1>3, <1>4, <1>5, RankFacts, DenyStep DEF Test
<1>6. CASE ~denied
  <2>1. "global_block" \notin held[c]
    BY <1>3, <1>6, GroundFacts
  <2>2. \A g \in held[c] : 3 <= Rank[g]
    BY <1>3, <1>4, <2>1, NextRank
  <2>3. Stands([check[c] EXCEPT !.at = "overrides"], held[c])
    BY <1>3, <2>2, AheadFacts DEF Stands, Evaluations
  <2> QED BY <1>1, <1>2, <1>3, <1>6, <2>3, TurnStep DEF Test
<1> QED BY <1>5, <1>6

LEMMA AskOverridesStep == ASSUME AccessInv, checking, NEW c \in Checks, AskOverrides(c) PROVE AccessInv'
<1> DEFINE a == check[c].of
           stage == IF a.entity THEN "acl deny" ELSE "grant"
<1>1. Asks(c, "overrides") /\ Unwritten /\ Test(c, DenyOverride(a), "policy_override", stage)
  BY DEF AskOverrides
<1>2. "overrides" \in Stages \ {"done"} /\ stage \in Stages \ {"done", "role"}
      /\ "policy_override" \in Reasons \ {"allow"}
  BY DEF Stages, Reasons
<1>3. /\ Running(c) /\ check[c] \in Evaluations /\ check[c].at = "overrides"
      /\ held[c] \subseteq Grounds(a) /\ held[c] \subseteq Gates
      /\ Stands(check[c], held[c])
  BY <1>1, <1>2, RunningFacts
<1>4. \A g \in held[c] : 3 <= Rank[g]
  BY <1>3, AheadFacts DEF Stands
<1>5. CASE DenyOverride(a)
  BY <1>1, <1>2, <1>3, <1>4, <1>5, RankFacts, DenyStep DEF Test
<1>6. CASE ~DenyOverride(a)
  <2>1. "policy_override" \notin held[c]
    BY <1>3, <1>6, GroundFacts DEF DenyInForce, DenyOverride
  <2>2. \A g \in held[c] : 4 <= Rank[g]
    BY <1>3, <1>4, <2>1, NextRank
  <2>3. Turn(c, stage)
    BY <1>1, <1>6 DEF Test
  <2>4. CASE a.entity
    <3>1. Stands([check[c] EXCEPT !.at = "acl deny"], held[c])
      BY <1>3, <2>2, AheadFacts DEF Stands, Evaluations
    <3> QED BY <1>1, <1>2, <1>3, <2>3, <2>4, <3>1, TurnStep
  <2>5. CASE ~a.entity
    <3>1. "entity_acl" \notin held[c] /\ "entity_type" \notin held[c]
      BY <1>3, <2>5, GroundFacts DEF AclHas, Typed
    <3>2. \A g \in held[c] : 5 <= Rank[g]
      BY <1>3, <2>2, <3>1, NextRank
    <3>3. Stands([check[c] EXCEPT !.at = "grant"], held[c])
      BY <1>3, <3>1, <3>2, AheadFacts DEF Stands, Evaluations
    <3> QED BY <1>1, <1>2, <1>3, <2>3, <2>5, <3>3, TurnStep
  <2> QED BY <2>4, <2>5
<1> QED BY <1>5, <1>6

LEMMA AskAclDenyStep == ASSUME AccessInv, checking, NEW c \in Checks, AskAclDeny(c) PROVE AccessInv'
<1>1. Asks(c, "acl deny") /\ Unwritten /\ Test(c, AclHas(check[c].of, "deny"), "entity_acl", "acl allow")
  BY DEF AskAclDeny
<1>2. "acl deny" \in Stages \ {"done"} /\ "acl allow" \in Stages \ {"done", "role"}
      /\ "entity_acl" \in Reasons \ {"allow"}
  BY DEF Stages, Reasons
<1>3. /\ Running(c) /\ check[c] \in Evaluations /\ check[c].at = "acl deny"
      /\ held[c] \subseteq Grounds(check[c].of) /\ held[c] \subseteq Gates
      /\ Stands(check[c], held[c])
  BY <1>1, <1>2, RunningFacts
<1>4. \A g \in held[c] : 4 <= Rank[g]
  BY <1>3, AheadFacts DEF Stands
<1>5. CASE AclHas(check[c].of, "deny")
  BY <1>1, <1>2, <1>3, <1>4, <1>5, RankFacts, DenyStep DEF Test
<1>6. CASE ~AclHas(check[c].of, "deny")
  <2>1. "entity_acl" \notin held[c]
    BY <1>3, <1>6, GroundFacts
  <2>2. \A g \in held[c] : 5 <= Rank[g]
    BY <1>3, <1>4, <2>1, NextRank
  <2>3. Stands([check[c] EXCEPT !.at = "acl allow"], held[c])
    BY <1>3, <2>2, AheadFacts DEF Stands, Evaluations
  <2> QED BY <1>1, <1>2, <1>3, <1>6, <2>3, TurnStep DEF Test
<1> QED BY <1>5, <1>6

LEMMA AskAclAllowStep == ASSUME AccessInv, checking, NEW c \in Checks, AskAclAllow(c) PROVE AccessInv'
<1> DEFINE a == check[c].of
<1>1. /\ Asks(c, "acl allow") /\ Unwritten
      /\ check' = [check EXCEPT ![c] = [check[c] EXCEPT !.at = "grant", !.bypass = AclBypass(a)]]
  BY DEF AskAclAllow
<1>2. "acl allow" \in Stages \ {"done"} /\ "grant" \in Stages
  BY DEF Stages
<1>3. /\ Running(c) /\ check[c] \in Evaluations /\ check[c].at = "acl allow" /\ a \in Questions
      /\ held[c] \subseteq Grounds(a) /\ Stands(check[c], held[c])
  BY <1>1, <1>2, RunningFacts
<1>4. AclBypass(a) \in BOOLEAN
  <2>1. a.entity \in BOOLEAN
    BY <1>3, QuestionsAssumption
  <2> QED BY <2>1 DEF AclBypass, AclHas
<1>5. PICK bypass \in BOOLEAN : bypass <=> AclBypass(a)
  BY <1>4
<1> DEFINE e == [check[c] EXCEPT !.at = "grant", !.bypass = bypass]
<1>6. check' = [check EXCEPT ![c] = e]
  <2>1. bypass = AclBypass(a)
    BY <1>4, <1>5
  <2> QED BY <1>1, <2>1
<1>7. e \in Evaluations /\ e.of = a /\ e.at = "grant" /\ e.bypass = bypass /\ e.reason = check[c].reason
  BY <1>2, <1>3 DEF Evaluations
<1>8. "entity_type" \in held[c] => ~bypass
  BY <1>3, <1>5, GroundFacts
<1> HIDE DEF e
<1>9. Stands(e, held[c])
  BY <1>3, <1>7, <1>8, AheadFacts DEF Stands
<1> QED BY <1>1, <1>3, <1>6, <1>7, <1>9, AskStep

LEMMA AskGrantStep == ASSUME AccessInv, checking, NEW c \in Checks, AskGrant(c) PROVE AccessInv'
<1> DEFINE a == check[c].of
<1>1. Asks(c, "grant") /\ Unwritten
  BY DEF AskGrant
<1>2. "grant" \in Stages \ {"done"} /\ {"types", "role"} \subseteq Stages
      /\ {"domain_required", "no_domain_grant"} \subseteq Reasons \ {"allow"}
  BY DEF Stages, Reasons
<1>3. /\ Running(c) /\ check[c] \in Evaluations /\ check[c].at = "grant"
      /\ held[c] \subseteq Grounds(a) /\ held[c] \subseteq Gates
      /\ Stands(check[c], held[c])
  BY <1>1, <1>2, RunningFacts
<1>4. \A g \in held[c] : 5 <= Rank[g]
  BY <1>3, AheadFacts DEF Stands
<1>5. CASE Deny(c, "domain_required")
  BY <1>1, <1>2, <1>3, <1>4, <1>5, RankFacts, DenyStep
<1>6. CASE Deny(c, "no_domain_grant")
  BY <1>1, <1>2, <1>3, <1>4, <1>6, RankFacts, DenyStep
<1>7. CASE /\ a.domain /\ Live(grant)
           /\ check' = [check EXCEPT ![c].at = IF Typed(a) THEN "types" ELSE "role", ![c].grant = grant]
  <2> DEFINE stage == IF Typed(a) THEN "types" ELSE "role"
             e == [check[c] EXCEPT !.at = stage, !.grant = grant]
  <2>1. check' = [check EXCEPT ![c] = e] /\ stage \in {"types", "role"} /\ (stage = "role" <=> ~Typed(a))
    BY <1>7
  <2> HIDE DEF stage
  <2>2. grant \in GrantRows /\ grant # None
    BY <1>7 DEF AccessInv, AccessTypeOK, TypeOK, Live
  <2>3. e \in Evaluations /\ e.of = a /\ e.at = stage /\ e.bypass = check[c].bypass /\ e.grant = grant
        /\ e.reason = check[c].reason
    BY <1>2, <1>3, <2>1, <2>2 DEF Evaluations
  <2> HIDE DEF e
  <2>4. /\ "domain_required" \notin held[c] /\ "no_domain_grant" \notin held[c]
        /\ stage = "role" => "entity_type" \notin held[c] /\ "role_entity_type" \notin held[c]
                             /\ "role_entity_type" \notin Grounds(a)
    BY <1>3, <1>7, <2>1, GroundFacts
  <2>5. \A g \in held[c] : 6 <= Rank[g] /\ (stage = "role" => 8 <= Rank[g])
    BY <1>3, <1>4, <2>4, NextRank
  <2>6. /\ "access_level" \in held[c] => ~LevelAllows(grant.level, a.action)
        /\ "sensitivity" \in held[c] => Exceeds(a, grant)
        /\ "grant" \in held[c] => ~LevelAllows(grant.level, a.action) \/ Exceeds(a, grant)
    BY <1>3, <1>7, GroundFacts
  <2>7. Stands(e, held[c])
    BY <1>3, <2>1, <2>2, <2>3, <2>5, <2>6, AheadFacts DEF Stands
  <2> QED BY <1>1, <1>3, <2>1, <2>3, <2>4, <2>7, AskStep
<1> QED BY <1>5, <1>6, <1>7 DEF AskGrant

LEMMA AskTypesStep == ASSUME AccessInv, checking, NEW c \in Checks, AskTypes(c) PROVE AccessInv'
<1> DEFINE a == check[c].of
           bad == ~TypeAllowed(a) /\ ~check[c].bypass
<1>1. Asks(c, "types") /\ Unwritten /\ Test(c, bad, "entity_type", "role types")
  BY DEF AskTypes
<1>2. "types" \in Stages \ {"done"} /\ "role types" \in Stages \ {"done", "role"}
      /\ "entity_type" \in Reasons \ {"allow"}
  BY DEF Stages, Reasons
<1>3. /\ Running(c) /\ check[c] \in Evaluations /\ check[c].at = "types"
      /\ held[c] \subseteq Grounds(a) /\ held[c] \subseteq Gates
      /\ Stands(check[c], held[c])
  BY <1>1, <1>2, RunningFacts
<1>4. \A g \in held[c] : 6 <= Rank[g]
  BY <1>3, AheadFacts DEF Stands
<1>5. CASE bad
  BY <1>1, <1>2, <1>3, <1>4, <1>5, RankFacts, DenyStep DEF Test
<1>6. CASE ~bad
  <2>1. "entity_type" \notin held[c]
    BY <1>3, <1>6, GroundFacts DEF Stands
  <2>2. \A g \in held[c] : 7 <= Rank[g]
    BY <1>3, <1>4, <2>1, NextRank
  <2>3. Stands([check[c] EXCEPT !.at = "role types"], held[c])
    BY <1>3, <2>2, AheadFacts DEF Stands, Evaluations
  <2> QED BY <1>1, <1>2, <1>3, <1>6, <2>3, TurnStep DEF Test
<1> QED BY <1>5, <1>6

LEMMA AskRoleTypesStep == ASSUME AccessInv, checking, NEW c \in Checks, AskRoleTypes(c) PROVE AccessInv'
<1> DEFINE a == check[c].of
<1>1. Asks(c, "role types") /\ Unwritten /\ Test(c, ~RoleTypeAllowed(a), "role_entity_type", "role")
  BY DEF AskRoleTypes
<1>2. "role types" \in Stages \ {"done"} /\ "role" \in Stages
      /\ "role_entity_type" \in Reasons \ {"allow"}
  BY DEF Stages, Reasons
<1>3. /\ Running(c) /\ check[c] \in Evaluations /\ check[c].at = "role types"
      /\ held[c] \subseteq Grounds(a) /\ held[c] \subseteq Gates
      /\ Stands(check[c], held[c])
  BY <1>1, <1>2, RunningFacts
<1>4. \A g \in held[c] : 7 <= Rank[g]
  BY <1>3, AheadFacts DEF Stands
<1>5. CASE ~RoleTypeAllowed(a)
  BY <1>1, <1>2, <1>3, <1>4, <1>5, RankFacts, DenyStep DEF Test
<1>6. CASE RoleTypeAllowed(a)
  <2> DEFINE e == [check[c] EXCEPT !.at = "role"]
  <2>1. "role_entity_type" \notin held[c] /\ "role_entity_type" \notin Grounds(a)
    BY <1>3, <1>6, GroundFacts
  <2>2. \A g \in held[c] : 8 <= Rank[g]
    BY <1>3, <1>4, <2>1, NextRank
  <2>3. Stands(e, held[c])
    BY <1>3, <2>2, AheadFacts DEF Stands, Evaluations
  <2>4. e \in Evaluations /\ e.of = a /\ e.at = "role" /\ check' = [check EXCEPT ![c] = e]
    BY <1>1, <1>2, <1>3, <1>6 DEF Evaluations, Test, Turn
  <2> HIDE DEF e
  <2> QED BY <1>1, <1>3, <2>1, <2>3, <2>4, AskStep
<1> QED BY <1>5, <1>6

LEMMA AskRoleStep == ASSUME AccessInv, checking, NEW c \in Checks, AskRole(c) PROVE AccessInv'
<1> DEFINE a == check[c].of
           g == check[c].grant
<1>1. /\ Asks(c, "role") /\ Unwritten
      /\ \/ Acting(a) = {} /\ Deny(c, "role_action")
         \/ Acting(a) # {} /\ ~LevelAllows(g.level, a.action) /\ Deny(c, "access_level")
         \/ Acting(a) # {} /\ LevelAllows(g.level, a.action) /\ Exceeds(a, g) /\ Deny(c, "sensitivity")
         \/ Acting(a) # {} /\ LevelAllows(g.level, a.action) /\ ~Exceeds(a, g) /\ Turn(c, "done")
  BY DEF AskRole, Test
<1>2. "role" \in Stages \ {"done"} /\ "done" \in Stages
      /\ {"role_action", "access_level", "sensitivity"} \subseteq Reasons \ {"allow"}
  BY DEF Stages, Reasons
<1>3. /\ Running(c) /\ check[c] \in Evaluations /\ check[c].at = "role"
      /\ held[c] \subseteq Grounds(a) /\ held[c] \subseteq Gates
      /\ Stands(check[c], held[c])
  BY <1>1, <1>2, RunningFacts
<1>4. \A h \in held[c] : 8 <= Rank[h] /\ h \in {"role_action", "access_level", "sensitivity", "grant"}
  BY <1>3, AheadFacts, NextRank DEF Stands
<1>5. Acting(a) # {} => "role_action" \notin Grounds(a) /\ "role_action" \notin held[c]
  BY <1>3, GroundFacts
<1>6. LevelAllows(g.level, a.action) => "access_level" \notin held[c]
  BY <1>3 DEF Stands
<1>7. LevelAllows(g.level, a.action) /\ ~Exceeds(a, g) => "sensitivity" \notin held[c] /\ "grant" \notin held[c]
  BY <1>3 DEF Stands
<1>8. CASE Deny(c, "role_action") \/ Deny(c, "access_level")
  BY <1>1, <1>2, <1>3, <1>4, <1>8, RankFacts, DenyStep
<1>9. CASE Acting(a) # {} /\ LevelAllows(g.level, a.action) /\ Exceeds(a, g) /\ Deny(c, "sensitivity")
  <2>1. \A h \in held[c] : Rank["sensitivity"] <= Rank[h]
    BY <1>4, <1>5, <1>6, <1>9, RankFacts
  <2> QED BY <1>1, <1>2, <1>3, <1>9, <2>1, DenyStep
<1>10. CASE Acting(a) # {} /\ LevelAllows(g.level, a.action) /\ ~Exceeds(a, g) /\ Turn(c, "done")
  <2> DEFINE e == [check[c] EXCEPT !.at = "done"]
  <2>1. held[c] = {} /\ "role_action" \notin Grounds(a)
    BY <1>4, <1>5, <1>6, <1>7, <1>10
  <2>2. e \in Evaluations /\ e.of = a /\ e.at = "done" /\ check' = [check EXCEPT ![c] = e]
    BY <1>2, <1>3, <1>10 DEF Evaluations, Turn
  <2> HIDE DEF e
  <2> QED BY <1>1, <1>3, <2>1, <2>2, AskStep
<1> QED BY <1>1, <1>8, <1>9, <1>10

LEMMA EvaluateStep == ASSUME AccessInv, checking, NEW c \in Checks, NEW a \in Questions, Evaluate(c, a)
                      PROVE  AccessInv'
<1>0. /\ check[c] = None
      /\ check' = [check EXCEPT ![c] =
            [at |-> IF a.known THEN "denials" ELSE "done", of |-> a, bypass |-> FALSE, grant |-> None,
             reason |-> IF a.known THEN "allow" ELSE "missing_principal"]]
      /\ ground' = [ground EXCEPT ![c] = Grounds(a)]
      /\ held' = [held EXCEPT ![c] = ground'[c]]
      /\ clear' = [clear EXCEPT ![c] = (ground'[c] = {})]
      /\ UNCHANGED <<vars, rules, member, exception, writes, gap>>
  BY DEF Evaluate
<1>1. /\ AccessTypeOK /\ GrantsInv /\ ModeInv /\ EvalInv /\ StandingGroundsDeny /\ WhyInv /\ AllowedWasAllowable
      /\ a.known \in BOOLEAN
  BY QuestionsAssumption DEF AccessInv
<1>2. PICK e \in Evaluations :
         /\ check' = [check EXCEPT ![c] = e] /\ e # None
         /\ e.of = a /\ (e.at = "done" <=> ~a.known) /\ e.at \in {"denials", "done"}
         /\ (a.known => e.reason = "allow") /\ (~a.known => e.reason = "missing_principal")
  <2>1. CASE a.known
    <3> DEFINE e == [at |-> "denials", of |-> a, bypass |-> FALSE, grant |-> None, reason |-> "allow"]
    <3>1. e \in Evaluations
      BY DEF Evaluations, Stages, Reasons
    <3>2. check' = [check EXCEPT ![c] = e]
      BY <1>0, <2>1
    <3> QED BY <2>1, <3>1, <3>2, EvaluationsAssumption
  <2>2. CASE ~a.known
    <3> DEFINE e == [at |-> "done", of |-> a, bypass |-> FALSE, grant |-> None, reason |-> "missing_principal"]
    <3>1. e \in Evaluations
      BY DEF Evaluations, Stages, Reasons
    <3>2. check' = [check EXCEPT ![c] = e]
      BY <1>0, <2>2
    <3> QED BY <2>2, <3>1, <3>2, EvaluationsAssumption
  <2> QED BY <2>1, <2>2
<1>3. Grounds(a) \subseteq Gates
  BY GroundFacts
<1>4. \A d \in Checks : /\ check'[d] = IF d = c THEN e ELSE check[d]
                        /\ ground'[d] = IF d = c THEN Grounds(a) ELSE ground[d]
                        /\ held'[d] = IF d = c THEN Grounds(a) ELSE held[d]
                        /\ d # c => clear'[d] = clear[d]
  BY <1>0, <1>1, <1>2 DEF AccessTypeOK
<1>5. clear'[c] <=> Grounds(a) = {}
  BY <1>0, <1>1 DEF AccessTypeOK
<1>6. AccessTypeOK' /\ GrantsInv'
  <2>1. GrantsInv'
    BY <1>0, <1>1, GrantsStutter
  <2>2. clear' \in [Checks -> BOOLEAN]
    <3>1. PICK b \in BOOLEAN : b = (ground'[c] = {})
      OBVIOUS
    <3> QED BY <1>0, <1>1, <3>1 DEF AccessTypeOK
  <2>3. check' \in [Checks -> Evaluations \cup {None}]
    BY <1>1, <1>2 DEF AccessTypeOK
  <2>4. ground' \in [Checks -> SUBSET Gates] /\ ground'[c] = Grounds(a)
    BY <1>0, <1>1, <1>3 DEF AccessTypeOK
  <2>5. held' \in [Checks -> SUBSET Gates]
    BY <1>0, <1>1, <1>3, <2>4 DEF AccessTypeOK
  <2> QED BY <1>0, <1>1, <2>1, <2>2, <2>3, <2>4, <2>5 DEF AccessTypeOK, GrantsInv, rules
<1>7. ModeInv'
  <2>1. UNCHANGED <<checking, req, invitation>>
    BY <1>0 DEF vars, rules
  <2> QED BY <1>1, <2>1 DEF ModeInv, At
<1>8. \A b : Grounds(b)' = Grounds(b)
  BY <1>0 DEF vars, rules, Grounds, Denies, DenyInForce, AclHas, AclBypass, TypeAllowed, RoleTypeAllowed,
       Acting, Live
<1>9. EvalInv'
  <2> SUFFICES ASSUME NEW d \in Checks, Running(d)'
               PROVE  held'[d] \subseteq Grounds(check'[d].of) /\ Stands(check'[d], held'[d])
    BY <1>8 DEF EvalInv
  <2>1. CASE d = c
    <3>1. e.at = "denials" /\ a.known
      BY <1>2, <1>4, <2>1 DEF Running
    <3>2. \A g \in Grounds(a) : 2 <= Rank[g]
      BY <1>3, <3>1, GroundFacts, RankFacts DEF Gates, Reasons
    <3>3. Stands(e, Grounds(a))
      BY <1>2, <3>1, <3>2, AheadFacts DEF Stands
    <3> QED BY <1>2, <1>4, <2>1, <3>3
  <2>2. CASE d # c
    BY <1>1, <1>4, <2>2 DEF EvalInv, Running
  <2> QED BY <2>1, <2>2
<1>10. StandingGroundsDeny'
  <2>1. \A g \in Gates : Rank["missing_principal"] <= Rank[g]
    BY RankFacts DEF Gates, Reasons
  <2> QED BY <1>1, <1>2, <1>3, <1>4, <2>1 DEF StandingGroundsDeny, Answered
<1>11. WhyInv'
  <2> SUFFICES ASSUME NEW d \in Checks
               PROVE  /\ check'[d] = None => writes[d] = 0 /\ ~gap[d]
                      /\ Running(d)' /\ ~clear'[d] /\ ~gap[d] /\ writes[d] < 2 =>
                           /\ writes[d] = 0 => held'[d] = Grounds(check'[d].of)
                           /\ \/ held'[d] # {}
                              \/ "role_entity_type" \in Grounds(check'[d].of) /\ check'[d].at # "role"
                              \/ "role_action" \in Grounds(check'[d].of)
    BY <1>0, <1>8 DEF WhyInv
  <2>1. CASE d = c
    BY <1>2, <1>4, <1>5, <2>1
  <2>2. CASE d # c
    BY <1>1, <1>4, <2>2 DEF WhyInv, Running
  <2> QED BY <2>1, <2>2
<1>12. AllowedWasAllowable'
  <2>1. "missing_principal" # "allow"
    OBVIOUS
  <2> QED BY <1>0, <1>1, <1>2, <1>4 DEF AllowedWasAllowable, Answered
<1> QED BY <1>6, <1>7, <1>9, <1>10, <1>11, <1>12 DEF AccessInv

-----------------------------------------------------------------------------
(* Access: the tables are written.                                          *)

LEMMA StandsMonotone == ASSUME NEW e, NEW G, NEW H \in SUBSET G, Stands(e, G) PROVE Stands(e, H)
BY DEF Stands

\* One write changes one of the tables.
LEMMA OneTable ==
    /\ Administer /\ UNCHANGED <<patch, member, exception>> =>
          /\ UNCHANGED <<req, invitation, member, exception>>
          /\ grant' = grant \/ binding' = binding
    /\ Govern /\ UNCHANGED <<tables, req, patch, history>> =>
          /\ UNCHANGED <<req, invitation, grant, binding>>
          /\ member' = member \/ exception' = exception
<1>1. ASSUME Administer, UNCHANGED <<patch, member, exception>>
      PROVE  UNCHANGED <<req, invitation, member, exception>> /\ (grant' = grant \/ binding' = binding)
  BY <1>1 DEF Administer, PostGrant, DeleteGrant, GrantExpires, DeleteBinding, BindingExpires, PostBinding,
       Assign, BindRole, ReadGrant, ReadBinding, PatchDomainGrant, PatchUserRoleBinding, tables
<1>2. ASSUME Govern, UNCHANGED <<tables, req, patch, history>>
      PROVE  /\ UNCHANGED <<req, invitation, grant, binding>>
             /\ member' = member \/ exception' = exception
  BY <1>2 DEF Govern, AddTeamMembership, DeleteTeamMembership, CreateException, MarkReviewed, Revoke,
       ExceptionExpires, tables
<1> QED BY <1>1, <1>2

\* A write does not lift every ground for a denial and bring in others, unless the others are those
\* of the assignments.
LEMMA WriteGrounds ==
    ASSUME NEW a, UNCHANGED rules,
           \/ UNCHANGED <<member, exception>> /\ (grant' = grant \/ binding' = binding)
           \/ UNCHANGED <<grant, binding>> /\ (member' = member \/ exception' = exception),
           Grounds(a) # {}, Grounds(a)' # {}
    PROVE  \/ Grounds(a) \cap Grounds(a)' # {}
           \/ binding' # binding /\ ("role_action" \in Grounds(a)' \/ "role_entity_type" \in Grounds(a)')
<1> USE DEF rules
<1>0. \A g : /\ g \in Grounds(a) <=> g \in Gates /\ Denies(g, a)
             /\ g \in Grounds(a)' <=> g \in Gates /\ Denies(g, a)'
  BY DEF Grounds
<1>1. CASE UNCHANGED <<member, exception, grant>>
  <2>1. \A g \in Gates \ {"role_action", "role_entity_type"} : Denies(g, a)' = Denies(g, a)
    BY <1>1 DEF Gates, Reasons, Denies, DenyInForce, AclHas, AclBypass, TypeAllowed, Live
  <2>2. CASE binding' = binding
    <3>1. Acting(a)' = Acting(a)
      BY <2>2 DEF Acting, Live
    <3>2. RoleTypeAllowed(a)' = RoleTypeAllowed(a)
      BY <3>1 DEF RoleTypeAllowed
    <3>3. \A g \in Gates : Denies(g, a)' = Denies(g, a)
      BY <2>1, <3>1, <3>2 DEF Denies
    <3> QED BY <1>0, <3>3
  <2> QED BY <1>0, <2>1, <2>2
<1>2. CASE UNCHANGED <<member, exception, binding>>
  <2> DEFINE mine == {"no_domain_grant", "access_level", "sensitivity", "grant"}
  <2>1. \A g \in Gates \ mine : Denies(g, a)' = Denies(g, a)
    BY <1>2 DEF Gates, Reasons, Denies, DenyInForce, AclHas, AclBypass, TypeAllowed, RoleTypeAllowed, Acting, Live
  <2>2. \A g \in mine : /\ Denies(g, a) => Denies("grant", a)
                        /\ Denies(g, a)' => Denies("grant", a)'
    BY DEF Denies
  <2>3. "grant" \in Gates
    BY DEF Gates
  <2> QED BY <1>0, <2>1, <2>2, <2>3
<1>3. CASE UNCHANGED <<grant, binding, member>>
  <2>1. \A g \in Gates \ {"policy_override"} : Denies(g, a)' = Denies(g, a)
    BY <1>3 DEF Gates, Reasons, Denies, AclHas, AclBypass, TypeAllowed, RoleTypeAllowed, Acting, Live
  <2> QED BY <1>0, <2>1
<1>4. CASE UNCHANGED <<grant, binding, exception>>
  <2>1. \A g \in Gates \ {"entity_acl", "entity_type"} : Denies(g, a)' = Denies(g, a)
    BY <1>4 DEF Gates, Reasons, Denies, DenyInForce, TypeAllowed, RoleTypeAllowed, Acting, Live
  <2>2. acl.team = "allow" => Denies("entity_acl", a)' = Denies("entity_acl", a)
    BY <1>4 DEF Denies, AclHas
  <2>3. acl.team # "allow" => Denies("entity_type", a)' = Denies("entity_type", a)
    BY <1>4 DEF Denies, AclBypass, AclHas, TypeAllowed
  <2> QED BY <1>0, <2>1, <2>2, <2>3
<1> QED BY <1>1, <1>2, <1>3, <1>4

LEMMA WriteStep == AccessInv /\ checking /\ Write => AccessInv'
<1> SUFFICES ASSUME AccessInv, checking, Write PROVE AccessInv'
  OBVIOUS
<1> DEFINE changed == {c \in Checks : Running(c) /\ <<grant, binding, member, exception>>' # <<grant, binding, member, exception>>}
<1>0. /\ UNCHANGED <<check, rules>>
      /\ ground' = [c \in Checks |-> IF c \in changed THEN Grounds(check[c].of)' ELSE ground[c]]
      /\ held' = [c \in Checks |-> IF c \in changed THEN held[c] \cap ground'[c] ELSE held[c]]
      /\ clear' = [c \in Checks |-> clear[c] \/ (c \in changed /\ ground'[c] = {})]
      /\ writes' = [c \in Checks |-> IF c \in changed /\ writes[c] < 2 THEN writes[c] + 1 ELSE writes[c]]
      /\ gap' = [c \in Checks |-> gap[c] \/ (c \in changed /\ binding' # binding /\ Asks(c, "role"))]
  BY DEF Write, Written
<1>1. /\ AccessTypeOK /\ GrantsInv /\ ModeInv /\ EvalInv /\ StandingGroundsDeny /\ WhyInv /\ AllowedWasAllowable
  BY DEF AccessInv
<1>2. /\ UNCHANGED <<req, invitation>> /\ GrantsInv'
      /\ member' \in BOOLEAN /\ exception' \in [Exceptions -> ExceptionRows \cup {None}]
      /\ \/ UNCHANGED <<member, exception>> /\ (grant' = grant \/ binding' = binding)
         \/ UNCHANGED <<grant, binding>> /\ (member' = member \/ exception' = exception)
  <2>1. CASE Administer /\ UNCHANGED <<patch, member, exception>>
    BY <1>1, <2>1, OneTable, AdministerStep DEF AccessTypeOK
  <2>2. CASE Govern /\ UNCHANGED <<tables, req, patch, history>>
    <3>1. edits' \in 0..MaxEdits
      BY <1>1, <2>2, EditsAssumption DEF AccessTypeOK, TypeOK, Govern, AddTeamMembership, DeleteTeamMembership,
         CreateException, MarkReviewed, Revoke, ExceptionExpires, Edit
    <3>2. GrantsInv'
      <4>1. UNCHANGED <<req, accepts, invitation, user, binding, unbound, patch, grant, lapsed, asked, raced,
                        withdrawn>>
        BY <2>2 DEF tables, history
      <4>2. BudgetInv' /\ OfferInv' /\ AcceptInv'
        BY <1>1, <4>1, SameRoles, RolesFrame
      <4>3. PatchInv'
        BY <1>1, <4>1, PatchFrame
      <4> QED BY <1>1, <3>1, <4>1, <4>2, <4>3 DEF GrantsInv, TypeOK, LastWordHolds
    <3>3. member' \in BOOLEAN
      BY <1>1, <2>2 DEF AccessTypeOK, Govern, AddTeamMembership, DeleteTeamMembership, CreateException,
         MarkReviewed, Revoke, ExceptionExpires
    <3>4. exception' \in [Exceptions -> ExceptionRows \cup {None}]
      <4>1. exception \in [Exceptions -> ExceptionRows \cup {None}]
        BY <1>1 DEF AccessTypeOK
      <4>2. ASSUME NEW x \in Exceptions, NEW type \in {"allow", "deny"}, NEW expiry \in {"never", "later"},
                   CreateException(x, type, expiry)
            PROVE  exception' \in [Exceptions -> ExceptionRows \cup {None}]
        <5>1. [type |-> type, status |-> "pending_review", expiry |-> expiry] \in ExceptionRows
          BY DEF ExceptionRows, Expiries
        <5> QED BY <4>1, <4>2, <5>1 DEF CreateException
      <4>3. ASSUME NEW x \in Exceptions, MarkReviewed(x) \/ Revoke(x) \/ ExceptionExpires(x)
            PROVE  exception' \in [Exceptions -> ExceptionRows \cup {None}]
        BY <4>1, <4>3 DEF MarkReviewed, Revoke, ExceptionExpires, ExceptionRows, Expiries
      <4> QED BY <2>2, <4>1, <4>2, <4>3 DEF Govern, AddTeamMembership, DeleteTeamMembership
    <3> QED BY <2>2, <3>2, <3>3, <3>4, OneTable
  <2> QED BY <2>1, <2>2 DEF Write
<1>3. \A c \in changed : c \in Checks /\ Running(c)
  OBVIOUS
<1>4. \A c \in Checks : Running(c) /\ c \notin changed => UNCHANGED <<grant, binding, member, exception>>
  OBVIOUS
<1> HIDE DEF changed
<1>5. ASSUME NEW c \in Checks
      PROVE  /\ ground'[c] \in SUBSET Gates /\ held'[c] \in SUBSET Gates /\ clear'[c] \in BOOLEAN
             /\ writes'[c] \in 0..2 /\ gap'[c] \in BOOLEAN
             /\ Running(c) => held'[c] \subseteq Grounds(check[c].of)' /\ Stands(check[c], held'[c])
             /\ held'[c] \subseteq held[c]
             /\ check[c] = None => writes'[c] = 0 /\ ~gap'[c]
             /\ Running(c) /\ ~clear'[c] /\ ~gap'[c] /\ writes'[c] < 2 =>
                  /\ writes'[c] = 0 => held'[c] = Grounds(check[c].of)'
                  /\ \/ held'[c] # {}
                     \/ "role_entity_type" \in Grounds(check[c].of)' /\ check[c].at # "role"
                     \/ "role_action" \in Grounds(check[c].of)'
             /\ clear[c] \/ writes[c] = 2 \/ gap[c] => clear'[c] \/ writes'[c] = 2 \/ gap'[c]
  <2>1. /\ ground[c] \in SUBSET Gates /\ held[c] \in SUBSET Gates /\ clear[c] \in BOOLEAN
        /\ writes[c] \in 0..2 /\ gap[c] \in BOOLEAN
    BY <1>1 DEF AccessTypeOK
  <2>2. Running(c) => held[c] \subseteq Grounds(check[c].of) /\ Stands(check[c], held[c])
    BY <1>1 DEF EvalInv
  <2>3. CASE c \notin changed
    <3>1. /\ ground'[c] = ground[c] /\ held'[c] = held[c] /\ clear'[c] = clear[c]
          /\ writes'[c] = writes[c] /\ gap'[c] = gap[c]
      BY <1>0, <2>1, <2>3
    <3>2. Running(c) => Grounds(check[c].of)' = Grounds(check[c].of)
      BY <1>0, <1>4, <2>3 DEF rules, Grounds, Denies, DenyInForce, AclHas, AclBypass, TypeAllowed, RoleTypeAllowed,
           Acting, Live
    <3> QED BY <1>1, <2>1, <2>2, <3>1, <3>2 DEF WhyInv
  <2>4. CASE c \in changed
    <3> DEFINE a == check[c].of
    <3>1. Running(c) /\ check[c] # None
      BY <1>3, <2>4 DEF Running
    <3>2. /\ ground'[c] = Grounds(a)' /\ held'[c] = held[c] \cap Grounds(a)'
          /\ clear'[c] = (clear[c] \/ Grounds(a)' = {})
          /\ writes'[c] = IF writes[c] < 2 THEN writes[c] + 1 ELSE writes[c]
      BY <1>0, <2>4
    <3>3. gap'[c] = (gap[c] \/ (binding' # binding /\ Asks(c, "role")))
      BY <1>0, <2>4
    <3>4. Grounds(a)' \subseteq Gates
      BY DEF Grounds
    <3>5. Stands(check[c], held'[c])
      BY <2>2, <3>1, <3>2, StandsMonotone
    <3>6. ASSUME ~clear'[c], ~gap'[c], writes'[c] < 2
          PROVE  \/ held'[c] # {}
                 \/ "role_entity_type" \in Grounds(a)' /\ check[c].at # "role"
                 \/ "role_action" \in Grounds(a)'
      <4>1. writes[c] = 0 /\ ~clear[c] /\ ~gap[c] /\ Grounds(a)' # {}
        <5>1. ~clear[c] /\ Grounds(a)' # {}
          BY <3>2, <3>6, Zenon
        <5>2. ~gap[c]
          BY <3>3, <3>6, Zenon
        <5>3. writes[c] = 0
          BY <2>1, <3>2, <3>6
        <5> QED BY <5>1, <5>2, <5>3
      <4>2. held[c] = Grounds(a) /\ Grounds(a) # {}
        BY <1>1, <3>1, <4>1 DEF WhyInv
      <4>3. PICK b : b = a
        OBVIOUS
      <4>4. a' = a
        BY <1>0
      <4>5. UNCHANGED rules
        BY <1>0
      <4>6. \/ Grounds(b) \cap Grounds(b)' # {}
            \/ binding' # binding /\ ("role_action" \in Grounds(b)' \/ "role_entity_type" \in Grounds(b)')
        <5>1. Grounds(b) # {} /\ Grounds(b)' # {}
          BY <4>1, <4>2, <4>3, <4>4
        <5> QED BY <1>2, <4>5, <5>1, WriteGrounds
      <4>7. Grounds(b)' = Grounds(a)'
        BY <4>3, <4>4
      <4>8. binding' # binding => check[c].at # "role"
        BY <3>1, <3>3, <3>6 DEF Asks
      <4> QED BY <3>2, <4>2, <4>3, <4>6, <4>7, <4>8
    <3>7. writes'[c] # 0
      BY <2>1, <3>2
    <3> QED BY <2>1, <3>1, <3>2, <3>3, <3>4, <3>5, <3>6, <3>7
  <2> QED BY <2>3, <2>4
<1>6. check' = check /\ checking' = checking /\ \A c \in Checks : (Running(c)' <=> Running(c)) /\ (Answered(c)' <=> Answered(c))
  BY <1>0 DEF rules, Running, Answered
<1>7. AccessTypeOK'
  <2>1. /\ ground' \in [Checks -> SUBSET Gates] /\ held' \in [Checks -> SUBSET Gates]
        /\ writes' \in [Checks -> 0..2]
    BY <1>0, <1>5
  <2>2. clear' \in [Checks -> BOOLEAN] /\ gap' \in [Checks -> BOOLEAN]
    BY <1>0, <1>5
  <2> QED BY <1>0, <1>1, <1>2, <2>1, <2>2 DEF AccessTypeOK, GrantsInv, rules
<1>8. ModeInv'
  BY <1>1, <1>2, <1>6 DEF ModeInv, At
<1>9. EvalInv'
  BY <1>5, <1>6 DEF EvalInv
<1>10. StandingGroundsDeny'
  BY <1>1, <1>5, <1>6 DEF StandingGroundsDeny
<1>11. WhyInv'
  BY <1>5, <1>6 DEF WhyInv
<1>12. AllowedWasAllowable'
  BY <1>1, <1>5, <1>6 DEF AllowedWasAllowable
<1> QED BY <1>2, <1>7, <1>8, <1>9, <1>10, <1>11, <1>12 DEF AccessInv

-----------------------------------------------------------------------------
\* The tables a behaviour with evaluations starts from.
LEMMA InitTables ==
    ASSUME AccessInit, checking
    PROVE  /\ TypeOK /\ grant \in GrantRows \cup {None}
           /\ \A q \in Requests : req[q] = NotAsking
           /\ \A i \in Invitations : invitation[i] = "unsent" /\ accepts[i] = 0
           /\ \A e \in Editors : patch[e] = NotPatching
           /\ grant # None => grant.level = asked.level /\ grant.cap = asked.cap
           /\ denied \in BOOLEAN /\ member \in BOOLEAN
           /\ exception \in [Exceptions -> ExceptionRows \cup {None}]
<1>1. /\ user = TRUE /\ grant \in Reach[TRUE].grants \cup {None}
      /\ binding \in [Bindings -> Reach[TRUE].bindings \cup {None}]
      /\ invitation = [i \in Invitations |-> "unsent"] /\ lapsed = {}
      /\ req = [q \in Requests |-> NotAsking] /\ patch = [e \in Editors |-> NotPatching]
      /\ edits = 0 /\ raced = FALSE /\ accepts = [i \in Invitations |-> 0]
      /\ withdrawn = {} /\ unbound = {} /\ denied \in BOOLEAN /\ member \in BOOLEAN
      /\ exception \in [Exceptions -> {[type |-> "deny", status |-> "active", expiry |-> "later"]} \cup {None}]
  BY DEF AccessInit
<1>2. asked = IF grant = None THEN [level |-> None, cap |-> None] ELSE [level |-> grant.level, cap |-> grant.cap]
  BY DEF AccessInit
<1>3. Reach[TRUE].grants \subseteq GrantRows /\ Reach[TRUE].bindings \subseteq BindingRows
  <2>1. TRUE \in BOOLEAN
    OBVIOUS
  <2> QED BY <2>1, ReachAssumption
<1>4. grant \in GrantRows \cup {None} /\ binding \in [Bindings -> BindingRows \cup {None}]
  BY <1>1, <1>3
<1>5. /\ asked \in [level : Levels \cup {None}, cap : Caps \cup {None}]
      /\ grant # None => grant.level = asked.level /\ grant.cap = asked.cap
  <2>1. CASE grant = None
    BY <1>2, <2>1
  <2>2. CASE grant # None
    <3>1. grant.level \in Levels /\ grant.cap \in Caps
      BY <1>4, <2>2 DEF GrantRows
    <3> QED BY <1>2, <2>2, <3>1
  <2> QED BY <2>1, <2>2
<1>6. /\ accepts \in [Invitations -> 0..Cardinality(Requests)] /\ edits \in 0..MaxEdits
      /\ req \in [Requests -> Asking] /\ patch \in [Editors -> Patching]
      /\ invitation \in [Invitations -> {"unsent", "open", "accepted"}]
  BY <1>1, RequestsAssumption, FS_CardinalityType, EditsAssumption, NotAskingType, NotPatchingType
<1>7. TypeOK
  BY <1>1, <1>4, <1>5, <1>6 DEF TypeOK
<1>8. [type |-> "deny", status |-> "active", expiry |-> "later"] \in ExceptionRows
  BY DEF ExceptionRows, Expiries
<1> QED BY <1>1, <1>4, <1>5, <1>7, <1>8

LEMMA InitAccess == AccessInit => AccessInv
<1> SUFFICES ASSUME AccessInit PROVE AccessInv OBVIOUS
<1>0. /\ check = [c \in Checks |-> None] /\ ground = [c \in Checks |-> {}] /\ held = [c \in Checks |-> {}]
      /\ clear = [c \in Checks |-> FALSE] /\ writes = [c \in Checks |-> 0] /\ gap = [c \in Checks |-> FALSE]
      /\ checking \in BOOLEAN
  BY DEF AccessInit
<1>1. GrantsInv /\ ModeInv
  <2>1. CASE ~checking
    <3>1. Init
      BY <2>1 DEF AccessInit
    <3> QED BY <1>0, <2>1, <3>1, InitGrants DEF ModeInv
  <2>2. CASE checking
    <3>0. /\ TypeOK
          /\ \A q \in Requests : req[q] = NotAsking
          /\ \A i \in Invitations : invitation[i] = "unsent" /\ accepts[i] = 0
          /\ \A e \in Editors : patch[e] = NotPatching
          /\ grant # None => grant.level = asked.level /\ grant.cap = asked.cap
      BY <2>2, InitTables
    <3>1. \A q \in Requests : req[q].at = "idle" /\ req[q].of = None
      BY <3>0, NotAskingType
    <3>2. BudgetInv
      <4>1. \A i \in Invitations : AskedFor(i) = {}
        BY <3>1, NoneAssumption DEF AskedFor, Offers
      <4>2. Cardinality({}) = 0 /\ Cardinality(Requests) \in Nat
        BY FS_EmptySet, FS_CardinalityType, RequestsAssumption
      <4> QED BY <3>0, <4>1, <4>2 DEF BudgetInv
    <3>3. OfferInv
      BY <3>1 DEF OfferInv, At
    <3>4. AcceptInv
      BY <3>0, <3>1 DEF AcceptInv, At, AskedFor
    <3>5. PatchInv
      BY <3>0, NotPatchingType DEF PatchInv
    <3> QED BY <2>2, <3>0, <3>1, <3>2, <3>3, <3>4, <3>5 DEF GrantsInv, LastWordHolds, ModeInv, At
  <2> QED BY <1>0, <2>1, <2>2
<1>2. AccessTypeOK
  <2>1. denied \in BOOLEAN /\ member \in BOOLEAN /\ exception \in [Exceptions -> ExceptionRows \cup {None}]
    <3>1. CASE checking
      BY <3>1, InitTables
    <3>2. CASE ~checking
      <4>1. denied = FALSE /\ member = FALSE /\ exception = [x \in Exceptions |-> None]
        BY <3>2 DEF AccessInit
      <4> QED BY <4>1
    <3> QED BY <1>0, <3>1, <3>2
  <2>2. PICK s \in Settings : acl = s.acl /\ scopes = s.scopes
    BY SettingsAssumption DEF AccessInit
  <2>3. [acl |-> acl, scopes |-> scopes] \in Settings
    <3>1. s \in [acl : [user : Effects, team : Effects], scopes : SUBSET (Types \cup {"*"})]
      BY SettingsAssumption
    <3>2. s = [acl |-> acl, scopes |-> scopes]
      BY <2>2, <3>1
    <3> QED BY <3>2
  <2> QED BY <1>0, <1>1, <2>1, <2>3 DEF AccessTypeOK, GrantsInv
<1>3. EvalInv /\ StandingGroundsDeny /\ WhyInv /\ AllowedWasAllowable
  BY <1>0 DEF EvalInv, StandingGroundsDeny, WhyInv, AllowedWasAllowable, Running, Answered
<1> QED BY <1>1, <1>2, <1>3 DEF AccessInv

LEMMA AccessStutter == ASSUME AccessInv, UNCHANGED avars PROVE AccessInv'
<1>1. UNCHANGED <<vars, rules, member, exception, check, ground, held, clear, writes, gap>>
  BY DEF avars, asking
<1>2. /\ AccessTypeOK /\ GrantsInv /\ ModeInv /\ EvalInv /\ StandingGroundsDeny /\ WhyInv /\ AllowedWasAllowable
  BY DEF AccessInv
<1>3. GrantsInv' /\ (ExpiryInv => ExpiryInv')
  BY <1>1, <1>2, GrantsStutter
<1>4. AccessTypeOK'
  BY <1>1, <1>2, <1>3 DEF AccessTypeOK, GrantsInv, rules
<1>5. ModeInv'
  <2>1. UNCHANGED <<checking, req, invitation, check>>
    BY <1>1 DEF vars, rules
  <2> QED BY <1>2, <1>3, <2>1 DEF ModeInv, At
<1>6. \A a : Grounds(a)' = Grounds(a)
  BY <1>1 DEF vars, rules, Grounds, Denies, DenyInForce, AclHas, AclBypass, TypeAllowed, RoleTypeAllowed,
       Acting, Live
<1>7. EvalInv' /\ WhyInv'
  BY <1>1, <1>2, <1>6 DEF EvalInv, WhyInv, Running
<1>8. StandingGroundsDeny' /\ AllowedWasAllowable'
  BY <1>1, <1>2 DEF StandingGroundsDeny, AllowedWasAllowable, Answered
<1> QED BY <1>3, <1>4, <1>5, <1>7, <1>8 DEF AccessInv

\* A behaviour without evaluations is one of Grants.
LEMMA OfferingStep ==
    ASSUME AccessInv, ~checking, Next, UNCHANGED <<rules, member, exception, asking>>
    PROVE  AccessInv'
<1>1. /\ AccessTypeOK /\ GrantsInv /\ ExpiryInv /\ StandingGroundsDeny /\ AllowedWasAllowable /\ WhyInv
      /\ \A c \in Checks : check[c] = None
  BY DEF AccessInv, ModeInv
<1>2. GrantsInv' /\ ExpiryInv'
  BY <1>1, OfferStep, AdministerStep DEF Next
<1>3. UNCHANGED <<checking, denied, acl, scopes, member, exception, check, ground, held, clear, writes, gap>>
  BY DEF rules, asking
<1>4. AccessTypeOK'
  BY <1>1, <1>2, <1>3 DEF AccessTypeOK, GrantsInv
<1>5. ModeInv'
  BY <1>1, <1>2, <1>3 DEF ModeInv
<1>6. EvalInv' /\ StandingGroundsDeny' /\ WhyInv' /\ AllowedWasAllowable'
  BY <1>1, <1>3 DEF EvalInv, StandingGroundsDeny, WhyInv, AllowedWasAllowable, Running, Answered
<1> QED BY <1>2, <1>4, <1>5, <1>6 DEF AccessInv

LEMMA AccessStep == AccessInv /\ [AccessNext]_avars => AccessInv'
<1> SUFFICES ASSUME AccessInv, [AccessNext]_avars PROVE AccessInv'
  OBVIOUS
<1>1. CASE checking /\ Write
  BY <1>1, WriteStep
<1>2. ASSUME checking, NEW c \in Checks, Evaluation(c) PROVE AccessInv'
  BY <1>2, EvaluateStep, AskDenialsStep, AskOverridesStep, AskAclDenyStep, AskAclAllowStep, AskGrantStep,
     AskTypesStep, AskRoleTypesStep, AskRoleStep DEF Evaluation
<1>3. CASE ~checking /\ Next /\ UNCHANGED <<rules, member, exception, asking>>
  BY <1>3, OfferingStep
<1>4. CASE UNCHANGED avars
  BY <1>4, AccessStutter
<1> QED BY <1>1, <1>2, <1>3, <1>4 DEF AccessNext

LEMMA AccessInvariant == AccessSpec => []AccessInv
<1>1. AccessInit => AccessInv
  BY InitAccess
<1>2. AccessInv /\ [AccessNext]_avars => AccessInv'
  BY AccessStep
<1> QED BY <1>1, <1>2, PTL DEF AccessSpec

\* The types of the evaluations and of all the tables they read.
THEOREM AccessTypes == AccessSpec => []AccessTypeOK
<1>1. AccessInv => AccessTypeOK
  BY DEF AccessInv
<1> QED BY <1>1, AccessInvariant, PTL

\* Whatever administrators write between the questions of an evaluation, in whatever number, a ground
\* that stood all along denies, and in the documented order (AccessEvaluator.Evaluate).
THEOREM StandingGroundsHold == AccessSpec => []StandingGroundsDeny
<1>1. AccessInv => StandingGroundsDeny
  BY DEF AccessInv
<1> QED BY <1>1, AccessInvariant, PTL

\* An "allow" put together from several states was the answer of one, but for two writes or a write
\* of the assignments between the two questions about roles.
THEOREM AllowedIsExplained == AccessSpec => []AllowedWasAllowable
<1>1. AccessInv => AllowedWasAllowable
  BY DEF AccessInv
<1> QED BY <1>1, AccessInvariant, PTL

\* Also beside evaluations the three promises of Grants hold.
LEMMA OffersAreKept ==
    AccessInv => AcceptedUnlessWithdrawn /\ OneAcceptUnlessUnbound /\ LastWordHolds
<1> SUFFICES ASSUME AccessInv PROVE AcceptedUnlessWithdrawn /\ OneAcceptUnlessUnbound /\ LastWordHolds
  OBVIOUS
<1>1. GrantsInv /\ ModeInv /\ checking \in BOOLEAN
  BY DEF AccessInv, AccessTypeOK
<1>2. checking => AcceptedUnlessWithdrawn
  BY <1>1 DEF ModeInv, AcceptedUnlessWithdrawn
<1>3. ~checking => AcceptedUnlessWithdrawn
  BY <1>1, GrantsGive DEF ModeInv
<1> QED BY <1>1, <1>2, <1>3, GrantsGive DEF GrantsInv

\* What an accepted invitation gave stands, in whatever order offers and administrators write, unless
\* an administrator withdrew it: the grant was deleted or expires, the role was taken away
\* (AcceptInvitation, statement by statement).
THEOREM AcceptanceGives == AccessSpec => []AcceptedUnlessWithdrawn
<1> QED BY OffersAreKept, AccessInvariant, PTL

\* However many requests accept one invitation at once, an invitation to a role is accepted once,
\* unless the assignment was taken away meanwhile (the unique index on assignments).
THEOREM AcceptanceIsOnce == AccessSpec => []OneAcceptUnlessUnbound
<1> QED BY OffersAreKept, AccessInvariant, PTL

\* The grant has the level and the cap last asked for, unless a PATCH wrote over what another request
\* had written since it read the row.
THEOREM LastWordIsKept == AccessSpec => []LastWordHolds
<1> QED BY OffersAreKept, AccessInvariant, PTL
=============================================================================
