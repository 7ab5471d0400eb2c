SPECIFICATION ReviewSpec
CONSTANTS
    Requests = {c1, c2}
    Tasks = {t}
    Decisions = {"rejected"}
    None = None
    Lifecycles = {"draft", "published"}
    TruthModes = {"derived", "canonical_in_platform", "canonical_external"}
    MaxVersions = 4
SYMMETRY Symmetry
INVARIANTS ProjectionLifecycleAgrees ApprovalPublishes
PROPERTIES LifecycleIsKept
