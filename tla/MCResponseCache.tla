------------------------- MODULE MCResponseCache -------------------------
(* One user's searches, domains and access, her own view of it and an administrator's. *)
EXTENDS ResponseCache, TLC

CONSTANTS u, admin, r1, r2, w1, w2

Key(ns, asker) == [ns |-> ns, asker |-> asker, target |-> u]
Asked == {Key("search-kw", u), Key("domains", u), Key("eff-access", u), Key("eff-access", admin)}

Work == {[keys |-> {Key("search-kw", u)}, calls |-> {"patch", "publish"}],
         [keys |-> {Key("search-kw", u)}, calls |-> {"publish", "quiet"}],
         [keys |-> {Key("eff-access", u), Key("eff-access", admin)}, calls |-> {"grant"}],
         [keys |-> {Key("domains", u)}, calls |-> {"grant", "quiet"}]}

Symmetry == Permutations(Readers) \cup Permutations(Writers)
=============================================================================
