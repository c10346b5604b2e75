SPECIFICATION Spec
CONSTANTS
    Opportunities = {o1, o2}
    Contacts = {c1}
    Tasks = {t1}
    Requests = {r1, r2}
    None = None
    MaxEvents = 6
SYMMETRY Symmetry
INVARIANTS
    HistoryIsConnected
    RowFollowsHistory
    LinksResolve
PROPERTIES MeetingsSurvive
