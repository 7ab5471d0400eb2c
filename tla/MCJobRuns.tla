----------------------------- MODULE MCJobRuns -----------------------------
(* Small instances of JobRuns: one or two queued runs, one run executed      *)
(* inline, two workers.                                                      *)
EXTENDS JobRuns, TLC

Symmetry == Permutations(Workers)
=============================================================================
