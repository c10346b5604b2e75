SPECIFICATION Spec
CONSTANTS
    Requests = {r1, r2}
    Claims = {c1, c2}
    Accomplishments = {a1}
    Series = {s1}
    None = None
    MaxCalls = 5
SYMMETRY Symmetry
INVARIANTS
    ConfirmedHasEvidence
    DraftsKeepEvidence
CHECK_DEADLOCK FALSE
