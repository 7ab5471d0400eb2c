---------------------------- MODULE MCReviewFlow ----------------------------
(* Two requests on one entity, direct ones or approvals of its one task.     *)
EXTENDS ReviewFlow, TLC

Symmetry == Permutations(Requests)
=============================================================================
