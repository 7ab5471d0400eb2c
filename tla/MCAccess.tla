------------------------------ MODULE MCAccess ------------------------------
EXTENDS Access, TLC
CONSTANTS note, policy, viewer, editor, b1, b2, x, c, named, line, q1, q2, e1
Given ==
    [o \in {named, line} |->
        IF o = named THEN [level |-> "write", cap |-> 0, role |-> viewer]
        ELSE [level |-> "read", cap |-> 0, role |-> None]]
Question(action, entity, type, level) ==
    [known |-> TRUE, domain |-> TRUE, action |-> action, entity |-> entity, type |-> type, level |-> level]
Put ==
    {Question("view", TRUE, policy, None), Question("edit", TRUE, policy, 1),
     [Question("view", FALSE, None, None) EXCEPT !.domain = FALSE],
     [Question("view", FALSE, None, None) EXCEPT !.known = FALSE]}
RoleDoes == [r \in {viewer, editor} |-> IF r = viewer THEN {"view"} ELSE {"view", "edit"}]
RoleTypes == [r \in {viewer, editor} |-> IF r = viewer THEN {} ELSE {note}]
Setting(effect, types) == [acl |-> [user |-> "none", team |-> effect], scopes |-> types]
Installed == {Setting("deny", {}), Setting("deny", {note}), Setting("allow", {note})}
Expiring == {"never", "later", "past"}
\* With evaluations: read grants of either cap and either role in the domain, for good; without: either
\* level and either scope of one role.
Reached ==
    [asked_of \in BOOLEAN |->
        IF asked_of
        THEN [grants |-> [level : {"read"}, cap : {0, 1}, expiry : Expiring],
              bindings |-> [role : {viewer, editor}, scope : {"domain"}, expiry : {"never"}], edits |-> 2]
        ELSE [grants |-> [level : {"read", "write"}, cap : {0}, expiry : Expiring],
              bindings |-> [role : {viewer}, scope : {"global", "domain"}, expiry : Expiring], edits |-> 2]]
Symmetry == Permutations({q1, q2}) \cup Permutations({b1, b2})
=============================================================================
