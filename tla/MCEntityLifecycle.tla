------------------------- MODULE MCEntityLifecycle -------------------------
(* Two or three concurrent requests on one entity.                          *)
EXTENDS EntityLifecycle, TLC

Symmetry == Permutations(Requests)
=============================================================================
