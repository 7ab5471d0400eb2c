----------------------------- MODULE MCBuilders -----------------------------
EXTENDS Builders, TLC
CONSTANTS s1, s2, a, b, x, y, q1, q2
\* Both builders on one role of scope "global"; Role Builder on two roles of both scopes.
Keyed1 == {e \in Edits : /\ {e.scope, e.claims} \subseteq {"global", None} /\ e.override # TRUE
                         /\ Cardinality(e.keys) <= 1}
Work ==
    {[scenarios |-> {s1, s2}, roles |-> {r}, edits |-> Keyed1] : r \in {a, b}}
    \cup {[scenarios |-> {}, roles |-> {a, b}, edits |-> {e \in Edits : e.keys = {}}]}
Symmetry == Permutations({s1, s2}) \cup Permutations({a, b}) \cup Permutations({x, y})
            \cup Permutations({q1, q2})
=============================================================================
