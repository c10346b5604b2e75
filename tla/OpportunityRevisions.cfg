\* Deadlock is not checked: behaviours end at MaxVersion.
SPECIFICATION RevisionSpec
CONSTANTS
    Postings = {p1}
    Tabs = {t1, t2}
    Workers = {w1, w2}
    NoPosting = NoPosting
    MaxVersion = 4
SYMMETRY Symmetry
INVARIANTS
    RowsAreCurrent
    HistoryIsComplete
PROPERTIES
    RowsFollowRevision
CHECK_DEADLOCK FALSE
