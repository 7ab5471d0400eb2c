---------------------------- MODULE MCOnboarding ----------------------------
(* One template, a role and a job to choose from.                           *)
EXTENDS Onboarding, TLC
CONSTANTS role, job
SomePresets == {role, job}
SomeJobs == {job}
SomeTemplates == [t \in {"minimal"} |-> {role, job}]
SomePatches ==
    {[gives |-> {"presets"}, presets |-> {job}, users |-> {}],
     [gives |-> {"presets", "assignment"}, presets |-> {role}, users |-> {"admin"}],
     [gives |-> {"assignment"}, presets |-> {}, users |-> {"owner"}]}
Symmetry == Permutations(Editors) \cup Permutations(Launches)
=============================================================================
