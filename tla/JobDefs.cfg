SPECIFICATION Spec
CONSTANTS
    None = None
    j1 = j1
    j2 = j2
    inbox = inbox
    wiki = wiki
    q1 = q1
    q2 = q2
    r1 = r1
    Jobs = {j1, j2}
    Feeds = {inbox, wiki}
    Requests = {q1, q2}
    Runs = {r1}
    Creations <- Made
    Patches <- Asked
    MaxWrites = 3
SYMMETRY Symmetry
CHECK_DEADLOCK FALSE
INVARIANTS StoredDefinitionsAreValid SourcesFollowScope ReadsWereDeclared 
