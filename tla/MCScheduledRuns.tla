-------------------------- MODULE MCScheduledRuns --------------------------
(* Small instances of ScheduledRuns: one job that fires every minute, two   *)
(* overlapping ticks, two or three runs.                                    *)
EXTENDS ScheduledRuns, TLC

Symmetry == Permutations(Ticks) \cup Permutations(Runs)
=============================================================================
