------------------------------ MODULE Discovery ------------------------------
(* Public job discovery: the process-local cache of provider pages, the lock,  *)
(* pacing and back-off of each provider, batteries of searches, the tickets    *)
(* that authorise an import, and the import itself.                            *)
(*                                                                             *)
(* A provider's lock is held from the cache lookup to the answer: a lookup     *)
(* that ends at once is one step; one that sleeps or fetches is a step that    *)
(* takes the lock and a later one that gives it back, and whoever is between   *)
(* the two holds it. Time is counted in ticks.                                 *)
EXTENDS Integers, FiniteSets, SequencesExt

CONSTANTS
    Calls,       \* threads that serve requests
    Workspaces,
    Jobs,        \* listings of the providers, named by provider and identifier
    ProviderOf,  \* job -> the provider that lists it
    LinkOf,      \* job -> the link of its listing
    ExpiryOf,    \* job -> when its provider says it expires, or None
    Requests,    \* searches made alone
    Batteries,   \* batteries made: sequences of searches
    Geos,        \* location slugs of the Jobicy catalogue
    None,
    TTL, LocationTTL, Backoff, Pace, Budget,  \* periods, in ticks
    MAX_PAGES, Slots,                         \* sizes of the cache and of BATTERY_SLOTS
    MaxRecords,  \* bound: records in a provider's answer
    MaxEvents,   \* bound: calls, restarts of the process and edits of listings
    MaxTime      \* bound: ticks

Providers == {"himalayas", "jobicy", "getonbrd"}

\* A search: filters names the fields given besides query and location; page
\* counts the pages, by number or, where the provider is Jobicy, by cursor.
SearchRequest ==
    [provider : Providers, query : STRING, geo : Geos \cup {None},
     filters : SUBSET {"country", "worldwide", "seniority", "employment_type", "sort"},
     page : 1..100]

\* provider_filters: each provider takes its own filters and no other.
ProviderFilters(r) ==
    /\ r.provider = "himalayas" =>
        r.geo = None /\ ~ {"country", "worldwide"} \subseteq r.filters
    /\ r.provider = "getonbrd" => r.geo = None /\ r.filters \subseteq {"country"}
    /\ r.provider = "jobicy" => r.filters = {}

\* BatteryRequest: distinct searches for at most six terms.
BatteryRequest(b) ==
    /\ b \in Seq(SearchRequest)
    /\ Len(b) \in 1..18
    /\ IsInjective(b)
    /\ Cardinality({b[i].query : i \in DOMAIN b}) <= 6

ASSUME RequestAssumption ==
    /\ \A r \in Requests \cup UNION {ToSet(b) : b \in Batteries} :
        r \in SearchRequest /\ ProviderFilters(r)
    /\ \A b \in Batteries : BatteryRequest(b)

ASSUME JobAssumption ==
    /\ ProviderOf \in [Jobs -> Providers]
    /\ \A i, j \in Jobs : LinkOf[i] = LinkOf[j] => ProviderOf[i] = ProviderOf[j]
    /\ \A j \in Jobs : ExpiryOf[j] # None =>
        ExpiryOf[j] \in Nat /\ ProviderOf[j] = "himalayas"

ASSUME PeriodAssumption ==
    /\ {TTL, LocationTTL, Backoff, Pace, Budget, MAX_PAGES, Slots} \subseteq Nat \ {0}
    /\ Pace <= 10

ASSUME BoundAssumption == {MaxRecords, MaxEvents, MaxTime} \subseteq Nat

VARIABLES
    now,
    posted,   \* job -> edition of its listing at the provider
    cache,    \* the process's DiscoveryCache
    call,     \* thread -> the call it serves
    worker,   \* thread -> provider -> the source worker of its call
    tickets,  \* tickets given to callers, each with the edition it was shown with
    saved,    \* opportunities imported, oldest first
    made      \* calls, restarts and edits so far

vars == <<now, posted, cache, call, worker, tickets, saved, made>>

Listing == [job : Jobs, edition : Nat, retrieved : Nat]

SearchPage == [key : SearchRequest, until : Nat, jobs : Seq(Listing)]

\* pages are ordered from the least to the most recently used.
DiscoveryCache ==
    [pages : Seq(SearchPage), last_fetch : [Providers -> Int],
     source_errors : [Providers -> Nat], location_error : Nat,
     locations : [until : Nat, slugs : SUBSET Geos] \cup {None}]

EmptyCache ==
    [pages |-> <<>>, last_fetch |-> [p \in Providers |-> -10],
     source_errors |-> [p \in Providers |-> 0], location_error |-> 0, locations |-> None]

Ticket == [workspace : Workspaces, key : SearchRequest, job : Jobs, expires : Nat,
           shown : Nat]

SearchCoverage ==
    [search : SearchRequest, status : {"ok", "error", "not_run"}, jobs : Seq(Listing)]

\* What is left to search, what was found, and how many times the location of
\* the search at hand is still to be checked.
Worker == [todo : Seq(SearchRequest), found : Seq(SearchCoverage), checks : 0..2,
           step : {"next", "ready", "catalogue", "pacing", "fetching"}]

Resting == [todo |-> <<>>, found |-> <<>>, checks |-> 0, step |-> "next"]

Call == [kind : {"idle", "search", "battery", "catalogue", "resolved", "saving"},
         workspace : Workspaces \cup {None}, started : Nat, searches : Seq(SearchRequest),
         ticket : Ticket \cup {None}, listing : Listing \cup {None}, existing : BOOLEAN]

Idle == [kind |-> "idle", workspace |-> None, started |-> 0, searches |-> <<>>,
         ticket |-> None, listing |-> None, existing |-> FALSE]

Import == [workspace : Workspaces, listing : Listing, ticket : Ticket, at : Nat]

Init ==
    /\ now = 0
    /\ posted = [j \in Jobs |-> 0]
    /\ cache = EmptyCache
    /\ call = [c \in Calls |-> Idle]
    /\ worker = [c \in Calls |-> [p \in Providers |-> Resting]]
    /\ tickets = {}
    /\ saved = <<>>
    /\ made = 0

-----------------------------------------------------------------------------
\* The cache.

\* The elements of a sequence that are in S, in their order.
Kept(seq, S) ==
    FoldLeft(LAMBDA kept, x : IF x \in S THEN Append(kept, x) ELSE kept, <<>>, seq)

Live == Kept(cache.pages, {page \in ToSet(cache.pages) : page.until > now})

Hits(key) == {page \in ToSet(Live) : page.key = key}

\* _get: expired pages go, and the page asked for becomes the last to leave.
Get(key) ==
    Kept(Live, {page \in ToSet(Live) : page.key # key}) \o SetToSeq(Hits(key))

\* Mutated Store: no page ever leaves.
StoreUnbounded(page) == Append(cache.pages, page)

\* The page replaces the one under its key in place, and the oldest ones leave.
Store(page) ==
    LET pages == IF \E q \in ToSet(cache.pages) : q.key = page.key
                 THEN [i \in DOMAIN cache.pages |->
                        IF cache.pages[i].key = page.key THEN page ELSE cache.pages[i]]
                 ELSE Append(cache.pages, page)
        excess == IF Len(pages) > MAX_PAGES THEN Len(pages) - MAX_PAGES ELSE 0
    IN  SubSeq(pages, excess + 1, Len(pages))

\* Mutated Busy: a battery sleeps without the provider's lock.
BusyUnlessSleeping(p) ==
    \E c \in Calls : worker[c][p].step \in {"catalogue", "fetching"}

Busy(p) == \E c \in Calls : worker[c][p].step \in {"catalogue", "pacing", "fetching"}

Blocked(p) == cache.source_errors[p] > now

TooSoon(p) == now - cache.last_fetch[p] < Pace

-----------------------------------------------------------------------------
\* Requests, and the workers that carry them out.

\* The searches of a call at one provider, in their order.
Group(searches, p) == Kept(searches, {r \in ToSet(searches) : r.provider = p})

Begin(c, kind, w, searches) ==
    /\ call[c] = Idle
    /\ made < MaxEvents
    /\ made' = made + 1
    /\ call' = [call EXCEPT ![c] = [Idle EXCEPT !.kind = kind, !.workspace = w,
                    !.started = IF kind = "battery" THEN now ELSE 0,
                    !.searches = searches]]
    /\ worker' = [worker EXCEPT ![c] =
                    [p \in Providers |-> [Resting EXCEPT !.todo = Group(searches, p)]]]
    /\ UNCHANGED <<now, posted, cache, tickets, saved>>

Search(c, w, r) == Begin(c, "search", w, <<r>>)

\* A battery takes one of the slots, or is refused at once.
SearchBattery(c, w, b) ==
    /\ Cardinality({d \in Calls : call[d].kind = "battery"}) < Slots
    /\ Begin(c, "battery", w, b)

\* The catalogue of capabilities shows the Jobicy locations.
Catalog(c) ==
    /\ call[c] = Idle
    /\ made < MaxEvents
    /\ made' = made + 1
    /\ call' = [call EXCEPT ![c] = [Idle EXCEPT !.kind = "catalogue"]]
    /\ worker' = [worker EXCEPT ![c]["jobicy"] =
                    [Resting EXCEPT !.checks = 1, !.step = "ready"]]
    /\ UNCHANGED <<now, posted, cache, tickets, saved>>

Ready(c, p) == worker[c][p].step = "ready" /\ ~ Busy(p)

Answered(c, p, status, jobs) ==
    worker' = [worker EXCEPT ![c][p] =
        [todo |-> Tail(@.todo), checks |-> 0, step |-> "next",
         found |-> Append(@.found,
             [search |-> Head(@.todo), status |-> status, jobs |-> jobs])]]

\* A worker takes its next search, unless its battery's time is over. The search
\* endpoint checks a location before it calls the cache, which checks it again.
TakeNext(c, p) ==
    /\ worker[c][p].todo # <<>>
    /\ worker[c][p].step = "next"
    /\ IF call[c].kind = "battery" /\ now - call[c].started >= Budget
       THEN Answered(c, p, "not_run", <<>>)
       ELSE worker' = [worker EXCEPT ![c][p] = [@ EXCEPT !.step = "ready",
                !.checks = IF Head(worker[c][p].todo).geo = None THEN 0
                           ELSE IF call[c].kind = "search" THEN 2 ELSE 1]]
    /\ UNCHANGED <<now, posted, cache, call, tickets, saved, made>>

\* The answer of the catalogue: a search of an unknown location ends there, and
\* so does the call that only asked for the catalogue.
Checked(c, slugs) ==
    LET w == worker[c]["jobicy"] IN
    IF w.todo = <<>> THEN worker' = [worker EXCEPT ![c]["jobicy"] = Resting]
    ELSE IF Head(w.todo).geo \notin slugs THEN Answered(c, "jobicy", "error", <<>>)
    ELSE worker' = [worker EXCEPT ![c]["jobicy"] =
                        [w EXCEPT !.step = "ready", !.checks = w.checks - 1]]

\* jobicy_locations, where it does not fetch: the cached answer or the last failure.
KnownLocations(c) ==
    /\ Ready(c, "jobicy") /\ worker[c]["jobicy"].checks > 0
    /\ \/ /\ cache.locations # None
          /\ cache.locations.until > now
          /\ Checked(c, cache.locations.slugs)
       \/ /\ cache.locations # None => cache.locations.until <= now
          /\ cache.location_error > now
          /\ Checked(c, {})
    /\ UNCHANGED <<now, posted, cache, call, tickets, saved, made>>

FetchLocations(c) ==
    /\ Ready(c, "jobicy") /\ worker[c]["jobicy"].checks > 0
    /\ cache.locations # None => cache.locations.until <= now
    /\ cache.location_error <= now
    /\ worker' = [worker EXCEPT ![c]["jobicy"].step = "catalogue"]
    /\ UNCHANGED <<now, posted, cache, call, tickets, saved, made>>

\* The provider answers with a catalogue, or with what is none, or not at all.
LocationsArrive(c) ==
    /\ worker[c]["jobicy"].step = "catalogue"
    /\ \/ \E slugs \in SUBSET Geos \ {{}} :
            /\ cache' = [cache EXCEPT !.location_error = 0,
                    !.locations = [until |-> now + LocationTTL, slugs |-> slugs]]
            /\ Checked(c, slugs)
       \/ cache' = [cache EXCEPT !.location_error = 0] /\ Checked(c, {})
       \/ cache' = [cache EXCEPT !.location_error = now + Backoff] /\ Checked(c, {})
    /\ UNCHANGED <<now, posted, call, tickets, saved, made>>

\* The worker may search: its location is known and its turn at the provider has come.
Searching(c, p) ==
    Ready(c, p) /\ worker[c][p].todo # <<>> /\ worker[c][p].checks = 0

ServeCached(c, p) ==
    /\ Searching(c, p)
    /\ \E page \in Hits(Head(worker[c][p].todo)) :
        /\ cache' = [cache EXCEPT !.pages = Get(page.key)]
        /\ Answered(c, p, "ok", page.jobs)
    /\ UNCHANGED <<now, posted, call, tickets, saved, made>>

\* The provider failed a while ago, or a single search comes too soon after a fetch.
Refuse(c, p) ==
    /\ Searching(c, p)
    /\ Hits(Head(worker[c][p].todo)) = {}
    /\ Blocked(p) \/ (TooSoon(p) /\ call[c].kind # "battery")
    /\ cache' = [cache EXCEPT !.pages = Live]
    /\ Answered(c, p, "error", <<>>)
    /\ UNCHANGED <<now, posted, call, tickets, saved, made>>

\* A battery sleeps, with the provider's lock, until it may fetch.
Sleep(c, p) ==
    /\ Searching(c, p)
    /\ Hits(Head(worker[c][p].todo)) = {}
    /\ ~ Blocked(p) /\ TooSoon(p) /\ call[c].kind = "battery"
    /\ cache' = [cache EXCEPT !.pages = Live]
    /\ worker' = [worker EXCEPT ![c][p].step = "pacing"]
    /\ UNCHANGED <<now, posted, call, tickets, saved, made>>

\* Mutated StartFetch: the sleeper takes the lock again, which is not reentrant.
StartFetchRelocking(c, p) ==
    /\ worker[c][p].step \in {"ready", "pacing"}
    /\ ~ Busy(p)
    /\ worker[c][p].todo # <<>> /\ worker[c][p].checks = 0
    /\ Hits(Head(worker[c][p].todo)) = {}
    /\ ~ Blocked(p) /\ ~ TooSoon(p)
    /\ cache' = [cache EXCEPT !.pages = Live, !.last_fetch[p] = now]
    /\ worker' = [worker EXCEPT ![c][p].step = "fetching"]
    /\ UNCHANGED <<now, posted, call, tickets, saved, made>>

StartFetch(c, p) ==
    /\ \/ /\ Searching(c, p)
          /\ Hits(Head(worker[c][p].todo)) = {}
          /\ ~ Blocked(p)
          /\ cache' = [cache EXCEPT !.pages = Live, !.last_fetch[p] = now]
       \/ /\ worker[c][p].step = "pacing"
          /\ cache' = [cache EXCEPT !.last_fetch[p] = now]
    /\ ~ TooSoon(p)
    /\ worker' = [worker EXCEPT ![c][p].step = "fetching"]
    /\ UNCHANGED <<now, posted, call, tickets, saved, made>>

\* fetch_json fails: nobody asks the provider again for a while.
FetchFails(c, p) ==
    /\ worker[c][p].step = "fetching"
    /\ cache' = [cache EXCEPT !.source_errors[p] = now + Backoff]
    /\ Answered(c, p, "error", <<>>)
    /\ UNCHANGED <<now, posted, call, tickets, saved, made>>

\* normalize: a record without a safe link, an identifier, a title and a text (None
\* here) and an expired listing are skipped; a listing is taken once.
Usable(r) == r # None /\ (ExpiryOf[r] # None => ExpiryOf[r] > now)

Taken(jobs, r) ==
    IF Usable(r) /\ \A l \in ToSet(jobs) : l.job # r
    THEN Append(jobs, [job |-> r, edition |-> posted[r], retrieved |-> now])
    ELSE jobs

Normalized(records) == FoldLeft(Taken, <<>>, records)

Records(p) == BoundedSeq({j \in Jobs : ProviderOf[j] = p} \cup {None}, MaxRecords)

\* The provider answers: a page is kept; an answer that is none, or that has
\* records and no usable one, is an error that blocks nobody.
FetchAnswers(c, p) ==
    /\ worker[c][p].step = "fetching"
    /\ \E records \in Records(p) :
        LET jobs == Normalized(records)
            key == Head(worker[c][p].todo)
        IN  IF records # <<>> /\ jobs = <<>>
            THEN Answered(c, p, "error", <<>>) /\ UNCHANGED cache
            ELSE /\ cache' = [cache EXCEPT !.pages =
                        Store([key |-> key, until |-> now + TTL, jobs |-> jobs])]
                 /\ Answered(c, p, "ok", jobs)
    /\ UNCHANGED <<now, posted, call, tickets, saved, made>>

-----------------------------------------------------------------------------
\* The end of a call: what it shows, and the tickets it gives.

Done(c, kind) ==
    /\ call[c].kind = kind
    /\ \A p \in Providers : worker[c][p].todo = <<>> /\ worker[c][p].step = "next"

\* dict.fromkeys: the providers of the searches in order of first mention.
ProviderOrder(searches) ==
    FoldLeft(LAMBDA ps, r : IF Contains(ps, r.provider) THEN ps ELSE Append(ps, r.provider),
             <<>>, searches)

Coverage(c) ==
    FlattenSeq([i \in DOMAIN ProviderOrder(call[c].searches) |->
                    worker[c][ProviderOrder(call[c].searches)[i]].found])

\* query_identity: the search without its place among the pages.
QueryIdentity(r) == [r EXCEPT !.page = 1]

\* Mutated Offers: a link that is there already keeps the query that found it first.
OffersOfFirstQuery(coverage) ==
    LET add(verdict, offers, l) ==
            IF \E o \in offers : LinkOf[o.listing.job] = LinkOf[l.job] THEN offers
            ELSE offers \cup {[listing |-> l, key |-> verdict.search,
                               queries |-> {QueryIdentity(verdict.search)}]}
        merge(offers, verdict) ==
            FoldLeft(LAMBDA acc, l : add(verdict, acc, l), offers, verdict.jobs)
    IN  FoldLeft(merge, {}, coverage)

\* execute_battery: one offer for each link, under the job that came first, with
\* the page it came from and the queries that found it.
Offered(verdict, offers, l) ==
    LET same == {o \in offers : LinkOf[o.listing.job] = LinkOf[l.job]}
        offer == IF same = {}
                 THEN [listing |-> l, key |-> verdict.search, queries |-> {}]
                 ELSE CHOOSE o \in same : TRUE
    IN  (offers \ same) \cup {[offer EXCEPT !.queries = @ \cup {QueryIdentity(verdict.search)}]}

Merged(offers, verdict) ==
    FoldLeft(LAMBDA acc, l : Offered(verdict, acc, l), offers, verdict.jobs)

Offers(coverage) == FoldLeft(Merged, {}, coverage)

\* issue_ticket for each offer of a search or of a battery.
Issue(c, offers) ==
    /\ tickets' = tickets \cup
        {[workspace |-> call[c].workspace, key |-> o.key, job |-> o.listing.job,
          expires |-> now + TTL, shown |-> o.listing.edition] : o \in offers}
    /\ call' = [call EXCEPT ![c] = Idle]
    /\ worker' = [worker EXCEPT ![c] = [p \in Providers |-> Resting]]
    /\ UNCHANGED <<now, posted, cache, saved, made>>

\* A search shows its page as it is.
FinishSearch(c) ==
    /\ Done(c, "search")
    /\ LET verdict == Coverage(c)[1] IN
        Issue(c, {[listing |-> l, key |-> verdict.search] : l \in ToSet(verdict.jobs)})

FinishBattery(c) ==
    /\ Done(c, "battery")
    /\ Issue(c, Offers(Coverage(c)))

FinishCatalog(c) ==
    /\ Done(c, "catalogue")
    /\ Issue(c, {})

-----------------------------------------------------------------------------
\* The import of a previewed listing.

\* resolve_ticket: the ticket's own workspace shows it while it is valid, and the
\* listing is still in the page it was signed for, and has not expired.
Resolve(c, t) ==
    /\ call[c] = Idle
    /\ made < MaxEvents
    /\ t.expires > now
    /\ cache' = [cache EXCEPT !.pages = Get(t.key)]
    /\ LET found == {l \in UNION {ToSet(page.jobs) : page \in Hits(t.key)} :
                        l.job = t.job /\ (ExpiryOf[l.job] # None => ExpiryOf[l.job] > now)}
       IN  IF found = {} THEN UNCHANGED call
           ELSE \E l \in found :
                call' = [call EXCEPT ![c] = [Idle EXCEPT !.kind = "resolved",
                            !.workspace = t.workspace, !.started = now,
                            !.ticket = t, !.listing = l]]
    /\ made' = made + 1
    /\ UNCHANGED <<now, posted, worker, tickets, saved>>

\* Mutated LockWorkspace: the link is looked for without the row's lock.
LookForLink(c) ==
    /\ call[c].kind = "resolved"
    /\ call' = [call EXCEPT ![c].kind = "saving",
            ![c].existing = \E s \in ToSet(saved) :
                /\ s.workspace = call[c].workspace
                /\ LinkOf[s.listing.job] = LinkOf[call[c].listing.job]]
    /\ UNCHANGED <<now, posted, cache, worker, tickets, saved, made>>

\* db.refresh(workspace, with_for_update) and the look for the link.
LockWorkspace(c) ==
    /\ call[c].kind = "resolved"
    /\ \A d \in Calls : call[d].kind = "saving" => call[d].workspace # call[c].workspace
    /\ call' = [call EXCEPT ![c].kind = "saving",
            ![c].existing = \E s \in ToSet(saved) :
                /\ s.workspace = call[c].workspace
                /\ LinkOf[s.listing.job] = LinkOf[call[c].listing.job]]
    /\ UNCHANGED <<now, posted, cache, worker, tickets, saved, made>>

CommitImport(c) ==
    /\ call[c].kind = "saving"
    /\ saved' = IF call[c].existing THEN saved
                ELSE Append(saved, [workspace |-> call[c].workspace,
                        listing |-> call[c].listing, ticket |-> call[c].ticket,
                        at |-> call[c].started])
    /\ call' = [call EXCEPT ![c] = Idle]
    /\ UNCHANGED <<now, posted, cache, worker, tickets, made>>

-----------------------------------------------------------------------------
\* The world.

\* A sleeping worker wakes up, whatever the bound on time.
Tick ==
    /\ \/ now < MaxTime
       \/ \E c \in Calls, p \in Providers : worker[c][p].step = "pacing" /\ TooSoon(p)
    /\ now' = now + 1
    /\ UNCHANGED <<posted, cache, call, worker, tickets, saved, made>>

\* The provider's listing changes; its identifier and its link do not.
EditListing(j) ==
    /\ made < MaxEvents
    /\ made' = made + 1
    /\ posted' = [posted EXCEPT ![j] = @ + 1]
    /\ UNCHANGED <<now, cache, call, worker, tickets, saved>>

\* The process is started again: the cache and the calls are gone, tickets and
\* opportunities are not.
Restart ==
    /\ made < MaxEvents
    /\ made' = made + 1
    /\ cache' = EmptyCache
    /\ call' = [c \in Calls |-> Idle]
    /\ worker' = [c \in Calls |-> [p \in Providers |-> Resting]]
    /\ UNCHANGED <<now, posted, tickets, saved>>

CallStep(c) ==
    \/ \E p \in Providers :
        \/ TakeNext(c, p) \/ ServeCached(c, p) \/ Refuse(c, p) \/ Sleep(c, p)
        \/ StartFetch(c, p) \/ FetchFails(c, p) \/ FetchAnswers(c, p)
    \/ KnownLocations(c) \/ FetchLocations(c) \/ LocationsArrive(c)
    \/ FinishSearch(c) \/ FinishBattery(c) \/ FinishCatalog(c)
    \/ LockWorkspace(c) \/ CommitImport(c)

Next ==
    \/ \E c \in Calls :
        \/ \E w \in Workspaces, r \in Requests : Search(c, w, r)
        \/ \E w \in Workspaces, b \in Batteries : SearchBattery(c, w, b)
        \/ Catalog(c)
        \/ \E t \in tickets : Resolve(c, t)
        \/ CallStep(c)
    \/ \E j \in Jobs : EditListing(j)
    \/ Tick
    \/ Restart

Spec == Init /\ [][Next]_vars

-----------------------------------------------------------------------------
\* Properties.

\* The type invariant: the cache holds at most MAX_PAGES pages, one for each key.
TypeOK ==
    /\ now \in Nat
    /\ posted \in [Jobs -> Nat]
    /\ cache \in DiscoveryCache
    /\ Len(cache.pages) <= MAX_PAGES
    /\ IsInjective([i \in DOMAIN cache.pages |-> cache.pages[i].key])
    /\ call \in [Calls -> Call]
    /\ worker \in [Calls -> [Providers -> Worker]]
    /\ tickets \subseteq Ticket
    /\ saved \in Seq(Import)
    /\ made \in 0..MaxEvents

\* An import is what its ticket authorises: the listing the ticket names, in the
\* ticket's workspace, before the ticket's end, read from the provider less than
\* TTL ago, not expired; and a link is imported once into a workspace, whatever
\* imports overlap (resolve_ticket, DiscoveryCache.job, import_preview).
ImportIsAuthorised ==
    /\ \A s \in ToSet(saved) :
        /\ s.listing.job = s.ticket.job /\ s.workspace = s.ticket.workspace
        /\ s.at < s.ticket.expires
        /\ s.at < s.listing.retrieved + TTL
        /\ ExpiryOf[s.listing.job] # None => s.at < ExpiryOf[s.listing.job]
    /\ \A i, j \in DOMAIN saved :
        /\ saved[i].workspace = saved[j].workspace
        /\ LinkOf[saved[i].listing.job] = LinkOf[saved[j].listing.job]
        => i = j

\* The provider is asked for pages by one worker at a time, at least Pace after
\* it was last asked for one, and not within Backoff of a page it failed to give,
\* however many searches and batteries overlap and whoever sleeps
\* (DiscoveryCache.search). The requests for the Jobicy catalogue are neither
\* counted here nor spared: see EveryRequestIsSpared.
ProviderIsSpared ==
    [][\A p \in Providers :
        cache'.last_fetch[p] > cache.last_fetch[p] =>
            /\ now >= cache.last_fetch[p] + Pace
            /\ now >= cache.source_errors[p]
            /\ \A c \in Calls : worker[c][p].step # "fetching"]_vars

\* A finished battery accounts for each of its searches once, and each listing of
\* a search that succeeded is offered, by its link, with that search among its
\* queries, under a ticket that opens the page it was found in (execute_battery).
BatteryHidesNothing ==
    \A c \in Calls : Done(c, "battery") =>
        LET coverage == Coverage(c)
            offers == Offers(coverage)
        IN  /\ Len(coverage) = Len(call[c].searches)
            /\ {coverage[i].search : i \in DOMAIN coverage} = ToSet(call[c].searches)
            /\ \A v \in ToSet(coverage) : \A l \in ToSet(v.jobs) :
                \E o \in offers : /\ LinkOf[o.listing.job] = LinkOf[l.job]
                                  /\ QueryIdentity(v.search) \in o.queries
            /\ \A o \in offers : \E v \in ToSet(coverage) :
                v.search = o.key /\ Contains(v.jobs, o.listing)

\* A worker can go on now, or when it wakes up: no lock stands in its way.
Free(c, p) ==
    LET w == worker[c][p] IN
    \/ w.step = "next" /\ w.todo # <<>>
    \/ Ready(c, p) /\ p = "jobicy" /\ w.checks > 0
    \/ Searching(c, p)
    \/ w.step = "catalogue" /\ p = "jobicy"
    \/ w.step \in {"pacing", "fetching"}

\* A call can go on: a worker of it can, or its end, or its import.
CanGoOn(c) ==
    \/ \E p \in Providers : Free(c, p)
    \/ \E kind \in {"search", "battery", "catalogue"} : Done(c, kind)
    \/ /\ call[c].kind = "resolved"
       /\ \A d \in Calls : call[d].kind = "saving" => call[d].workspace # call[c].workspace
    \/ call[c].kind = "saving"

\* While a call is open, some call can go on.
SomeoneCanGoOn == (\E c \in Calls : call[c] # Idle) => \E c \in Calls : CanGoOn(c)

\* No call is stuck: while one is open, a thread can go on, or time can until a
\* sleeper wakes up. Nobody waits for a provider's lock that is not given back, for
\* the catalogue while holding its lock, or for a workspace (search,
\* jobicy_locations, execute_battery, import_preview).
NoCallIsStuck ==
    /\ SomeoneCanGoOn
    /\ \A c \in Calls : CanGoOn(c) => ENABLED (Tick \/ CallStep(c))

\* "Sign a 15-minute reference binding approval to this workspace and exact
\* preview" (issue_ticket): what is saved is the edition that was shown.
ExactPreview == \A s \in ToSet(saved) : s.listing.edition = s.ticket.shown

\* "one new provider fetch per second per process" (the feature design) and
\* "serialized/rate-spaced requests per provider and thirty-second failure
\* backoff" (the runbook): Jobicy is asked, for a page or for its catalogue, at
\* least Pace after a page was asked for and not within Backoff of a failure of
\* either.
EveryRequestIsSpared ==
    [][\A c \in Calls :
        /\ worker'[c]["jobicy"].step \in {"catalogue", "fetching"}
        /\ worker'[c]["jobicy"].step # worker[c]["jobicy"].step
        => ~ TooSoon("jobicy") /\ ~ Blocked("jobicy") /\ cache.location_error <= now]_vars

=============================================================================
