------------------------------ MODULE MCIntake ------------------------------
EXTENDS Intake, TLC
CONSTANTS a1, a2, c, d, q1, q2
Symmetry == Permutations({a1, a2}) \cup Permutations({c, d}) \cup Permutations({q1, q2})
=============================================================================
