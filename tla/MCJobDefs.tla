------------------------------ MODULE MCJobDefs ------------------------------
EXTENDS JobDefs, TLC
CONSTANTS j1, j2, inbox, wiki, q1, q2, r1
Nothing == [feed |-> None, mode |-> None, review |-> None, trigger |-> None]
Asked ==
    {[Nothing EXCEPT !.feed = inbox], [Nothing EXCEPT !.feed = wiki],
     [Nothing EXCEPT !.mode = "auto_publish", !.review = FALSE], [Nothing EXCEPT !.review = TRUE],
     [Nothing EXCEPT !.mode = "reviewed_publish", !.trigger = "scheduled"]}
Made ==
    {[feed |-> inbox, mode |-> "reviewed_publish", review |-> TRUE, trigger |-> "manual"],
     [feed |-> None, mode |-> "draft_only", review |-> FALSE, trigger |-> "scheduled"]}
Symmetry == Permutations({q1, q2}) \cup Permutations({j1, j2})
=============================================================================
