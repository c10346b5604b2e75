SPECIFICATION Spec
CONSTANTS
    h1 = h1
    h2 = h2
    slug = slug
    link = link
    Calls = {c1}
    Workspaces = {w1}
    Jobs = {h1, h2}
    ProviderOf <- MCProviderOf
    LinkOf <- MCLinkOf
    ExpiryOf <- MCExpiryOf
    Requests <- MCSearches
    Batteries = {}
    Geos = {slug}
    None = None
    TTL = 2
    LocationTTL = 2
    Backoff = 2
    Pace = 1
    Budget = 1
    MAX_PAGES = 1
    Slots = 1
    MaxRecords = 1
    MaxEvents = 5
    MaxTime = 2
SYMMETRY Symmetry
INVARIANT ExactPreview
CHECK_DEADLOCK FALSE
