SPECIFICATION ConnectorSpec
CONSTANTS
    a1 = a1
    Requests = {r1, r2}
    Accounts = {a1}
    ProviderOf <- MCProviderOf
    Calendars = {c1}
    States = {s1, s2}
    Digests = {d1}
    Tasks = {t1, t2}
    Events = {e1, e2}
    None = None
    New = New
    Out = Out
    StateTTL = 1
    TokenTTL = 1
    EMAIL_RETENTION_DAYS = 1
    MaxCalls = 5
    MaxTime = 3
SYMMETRY Symmetry
INVARIANTS
    MailIsForgotten
PROPERTIES
    GrantsAgree
    ForgottenOnlyByFailure
    DisconnectStopsImports
CHECK_DEADLOCK FALSE
