------------------------------ MODULE Connectors ------------------------------
(* One workspace's grants at its calendar and mail providers, and what the     *)
(* synchronizations that use them exchange: authorization by a one-time state, *)
(* refresh of an expired token, the calendar pushed and imported, recruiting   *)
(* mail imported and forgotten, and disconnection, all overlapping.            *)
(*                                                                             *)
(* A request reads in one step and commits in another; what it does at the     *)
(* provider in between happens at once and stays if the request fails. A       *)
(* refreshed token is flushed, so the connection's row stays locked until the  *)
(* synchronization ends. A commit that updates a row which is gone fails.      *)
(* Time is counted in ticks.                                                   *)
EXTENDS Integers, FiniteSets, Functions

CONSTANTS
    Requests,   \* requests in progress
    Accounts,   \* accounts at the providers
    ProviderOf, \* account -> its provider
    Calendars,  \* resources of a calendar service
    States,     \* authorizations
    Digests,    \* mail threads at the providers
    Tasks,      \* identifiers of career tasks
    Events,     \* identifiers of calendar events
    None,
    New, Out,   \* a thread without a row, and one not fetched
    StateTTL, TokenTTL, EMAIL_RETENTION_DAYS, \* periods, in ticks
    MaxCalls,   \* bound: requests and changes at the providers
    MaxTime     \* bound: ticks

ASSUME ConnectorAssumption ==
    /\ ProviderOf \in [Accounts -> {"google", "microsoft"}]
    /\ {StateTTL, TokenTTL, EMAIL_RETENTION_DAYS} \subseteq Nat \ {0}

Services == {"calendar", "email"}

VARIABLES
    now,
    authorizations, \* state -> the services asked for, or None
    connections,    \* account -> its stored grant, or None
    rows,           \* rows inserted so far: identifies connections and threads
    remote,         \* account -> calendar -> the events at the provider
    tasks,          \* identifier -> career task, or None
    threads,        \* digest -> the mail thread kept, or None
    request,        \* request -> what it does
    callsMade

connectorVars == <<now, authorizations, connections, rows, remote, tasks, threads, request, callsMade>>

OAuthAuthorization ==
    [services : SUBSET Services, expires_at : Nat, consumed : BOOLEAN]

\* services is what the seeker asked for, scopes what the provider said it granted;
\* token and refresh are what the stored tokens are for.
ExternalConnection ==
    [id : Nat, services : SUBSET Services, scopes : SUBSET Services,
     token : SUBSET Services, refresh : (SUBSET Services) \cup {None},
     token_expires_at : Nat]

\* task is the careertwinTaskId of an event that CareerTwin made.
CalendarEvent == [id : Events, timed : BOOLEAN, task : Tasks \cup {None}]

\* contact holds the identifiers of the task's events, by provider.
CareerTask ==
    [scheduled : BOOLEAN, completed : BOOLEAN,
     contact : [Range(ProviderOf) -> Events \cup {None}]]

\* reviews counts the follow-up tasks made for the thread.
EmailThread == [id : Nat, imported : Nat, retention_until : Nat, reviews : Nat]

\* conn is the row a request has read; locked says that it has flushed it. found
\* holds the rows read, posted the events created, per task.
Request ==
    [kind : {"none", "callback", "exchanged", "calendar", "pushing", "email", "fetched"},
     account : Accounts \cup {None}, state : States \cup {None},
     conn : ExternalConnection \cup {None}, locked : BOOLEAN,
     calendar : Calendars \cup {None}, todo : SUBSET Tasks,
     found : [Tasks -> CareerTask \cup {None}],
     posted : [Tasks -> Events \cup {None}],
     mail : [Digests -> EmailThread \cup {New, Out}]]

\* None, New and Out are no values of the program.
ASSUME NoneAssumption ==
    /\ None \notin OAuthAuthorization /\ None \notin ExternalConnection
    /\ None \notin CareerTask /\ None \notin EmailThread

ASSUME TimeAssumption == MaxTime \in Nat

Resting ==
    [kind |-> "none", account |-> None, state |-> None, conn |-> None,
     locked |-> FALSE, calendar |-> None, todo |-> {},
     found |-> [t \in Tasks |-> None], posted |-> [t \in Tasks |-> None],
     mail |-> [d \in Digests |-> Out]]

ConnectorInit ==
    /\ now = 0
    /\ authorizations = [s \in States |-> None]
    /\ connections = [a \in Accounts |-> None]
    /\ rows = 0
    /\ remote = [a \in Accounts |-> [c \in Calendars |-> {}]]
    /\ tasks = [t \in Tasks |-> None]
    /\ threads = [d \in Digests |-> None]
    /\ request = [r \in Requests |-> Resting]
    /\ callsMade = 0

Call ==
    /\ callsMade < MaxCalls
    /\ callsMade' = callsMade + 1

\* One of the requests has flushed the connection's row and not ended.
LockedBy(rs, a) == \E q \in rs : request[q].locked /\ request[q].account = a

Locked(r, a) == LockedBy(Requests \ {r}, a)

\* Mutated RowStays: any row of the account will do.
RowExists(r) == connections[request[r].account] # None

\* The row that the request has read is still there.
RowStays(r) ==
    LET a == request[r].account IN
    connections[a] # None /\ connections[a].id = request[r].conn.id

-----------------------------------------------------------------------------
\* Authorization.

Authorize(s, services) ==
    /\ Call
    /\ authorizations[s] = None
    /\ authorizations' = [authorizations EXCEPT ![s] =
         [services |-> services, expires_at |-> now + StateTTL, consumed |-> FALSE]]
    /\ UNCHANGED <<now, connections, rows, remote, tasks, threads, request>>

Valid(s) ==
    /\ authorizations[s] # None
    /\ ~ authorizations[s].consumed
    /\ authorizations[s].expires_at > now

\* The provider sends the seeker back with the state.
BeginCallback(r, s, a) ==
    /\ Call
    /\ request[r].kind = "none"
    /\ Valid(s)
    /\ request' = [request EXCEPT ![r] =
         [Resting EXCEPT !.kind = "callback", !.account = a, !.state = s]]
    /\ UNCHANGED <<now, authorizations, connections, rows, remote, tasks, threads>>

\* The code is exchanged and the account's connection looked up.
Exchange(r) ==
    /\ request[r].kind = "callback"
    /\ request' = [request EXCEPT ![r].kind = "exchanged",
                                  ![r].conn = connections[request[r].account]]
    /\ UNCHANGED <<now, authorizations, connections, rows, remote, tasks, threads, callsMade>>

\* A provider that returns no refresh token leaves the one that was read.
RefreshToken(r, granted, renewed) ==
    IF renewed THEN granted
    ELSE IF request[r].conn = None THEN None ELSE request[r].conn.refresh

\* Mutated Granted: a renewed grant keeps the scopes of the first.
GrantedAgain(r, granted, renewed) ==
    LET asked == authorizations[request[r].state].services
        old == request[r].conn
        row == connections[request[r].account]
    IN  IF old = None
        THEN [id |-> rows + 1, services |-> asked, scopes |-> granted, token |-> granted,
              refresh |-> RefreshToken(r, granted, renewed), token_expires_at |-> now + TokenTTL]
        ELSE [row EXCEPT !.token = granted, !.refresh = RefreshToken(r, granted, renewed),
                         !.token_expires_at = now + TokenTTL]

\* A new row, or the columns of the row read that the new grant changes.
Granted(r, granted, renewed) ==
    LET asked == authorizations[request[r].state].services
        old == request[r].conn
        row == connections[request[r].account]
    IN  IF old = None
        THEN [id |-> rows + 1, services |-> asked, scopes |-> granted, token |-> granted,
              refresh |-> RefreshToken(r, granted, renewed), token_expires_at |-> now + TokenTTL]
        ELSE [row EXCEPT !.token = granted, !.refresh = RefreshToken(r, granted, renewed),
                         !.token_expires_at = now + TokenTTL,
                         !.scopes = IF granted = old.scopes THEN @ ELSE granted,
                         !.services = IF asked = old.services THEN @ ELSE asked]

\* The seeker may grant less than was asked, and the provider return no refresh token.
CommitCallback(r, granted, renewed) ==
    LET a == request[r].account IN
    /\ request[r].kind = "exchanged"
    /\ granted \subseteq authorizations[request[r].state].services
    /\ ~ Locked(r, a)
    /\ IF request[r].conn = None THEN connections[a] = None ELSE RowStays(r)
    /\ connections' = [connections EXCEPT ![a] = Granted(r, granted, renewed)]
    /\ rows' = IF request[r].conn = None THEN rows + 1 ELSE rows
    /\ authorizations' = [authorizations EXCEPT ![request[r].state].consumed = TRUE]
    /\ request' = [request EXCEPT ![r] = Resting]
    /\ UNCHANGED <<now, remote, tasks, threads, callsMade>>

Disconnect(a) ==
    /\ Call
    /\ connections[a] # None
    /\ ~ LockedBy(Requests, a)
    /\ connections' = [connections EXCEPT ![a] = None]
    /\ UNCHANGED <<now, authorizations, rows, remote, tasks, threads, request>>

-----------------------------------------------------------------------------
\* Synchronization: the connection is read and shows the service.

BeginSync(r, a, kind, calendar) ==
    /\ Call
    /\ request[r].kind = "none"
    /\ connections[a] # None
    /\ kind \in connections[a].services
    /\ request' = [request EXCEPT ![r] =
         [Resting EXCEPT !.kind = kind, !.account = a, !.conn = connections[a],
                         !.calendar = calendar]]
    /\ UNCHANGED <<now, authorizations, connections, rows, remote, tasks, threads>>

Fresh(r) == request[r].locked \/ request[r].conn.token_expires_at > now

\* access_token: a token for what the kept refresh token is for replaces the stored
\* one. The commit that makes it visible follows, and nobody else writes the row
\* before it. Without a refresh token the request fails.
Refresh(r) ==
    /\ request[r].kind \in {"calendar", "email"}
    /\ ~ Fresh(r)
    /\ request[r].conn.refresh # None
    /\ ~ Locked(r, request[r].account)
    /\ RowStays(r)
    /\ request' = [request EXCEPT ![r].locked = TRUE,
                                  ![r].conn.token = request[r].conn.refresh,
                                  ![r].conn.token_expires_at = now + TokenTTL]
    /\ UNCHANGED <<now, authorizations, connections, rows, remote, tasks, threads, callsMade>>

\* The provider refuses a token that is not for the service.
Admitted(r) == Fresh(r) /\ request[r].kind \in request[r].conn.token

\* The row once the request has committed.
Synced(r) ==
    IF request[r].locked
    THEN [connections[request[r].account] EXCEPT
            !.token = request[r].conn.token,
            !.refresh = request[r].conn.refresh,
            !.token_expires_at = request[r].conn.token_expires_at]
    ELSE connections[request[r].account]

-----------------------------------------------------------------------------
\* Calendar.

Open(t) == tasks[t] # None /\ tasks[t].scheduled /\ ~ tasks[t].completed

ReadTasks(r) ==
    /\ request[r].kind = "calendar"
    /\ Admitted(r)
    /\ request' = [request EXCEPT ![r].kind = "pushing", ![r].todo = {t \in Tasks : Open(t)},
         ![r].found = [t \in Tasks |-> IF Open(t) THEN tasks[t] ELSE None]]
    /\ UNCHANGED <<now, authorizations, connections, rows, remote, tasks, threads, callsMade>>

EventOf(r, t) == request[r].found[t].contact[ProviderOf[request[r].account]]

Made == {e.id : e \in UNION {remote[a][c] : a \in Accounts, c \in Calendars}}

\* The event of a task is updated; an event this calendar does not have cannot be.
UpdateEvent(r, t) ==
    /\ t \in request[r].todo
    /\ \E e \in remote[request[r].account][request[r].calendar] : e.id = EventOf(r, t)
    /\ request' = [request EXCEPT ![r].todo = @ \ {t}]
    /\ UNCHANGED <<now, authorizations, connections, rows, remote, tasks, threads, callsMade>>

\* A task without one gets an event.
PostEvent(r, t, e) ==
    /\ t \in request[r].todo
    /\ EventOf(r, t) = None
    /\ e \notin Made
    /\ remote' = [remote EXCEPT ![request[r].account][request[r].calendar] =
                    @ \cup {[id |-> e, timed |-> TRUE, task |-> t]}]
    /\ request' = [request EXCEPT ![r].todo = @ \ {t}, ![r].posted[t] = e]
    /\ UNCHANGED <<now, authorizations, connections, rows, tasks, threads, callsMade>>

\* The events that the tasks read hold, at either provider.
Known(r) ==
    Range(request[r].posted)
    \cup UNION {Range(request[r].found[t].contact) :
                   t \in {u \in Tasks : request[r].found[u] # None}}

Strangers(r) ==
    {e \in remote[request[r].account][request[r].calendar] : e.id \notin Known(r)}

\* Mutated Pushed: the identifiers of the events created are not kept.
PushedNowhere(r) == tasks

\* The tasks with the events created for them.
Pushed(r) ==
    [t \in Tasks |->
        IF request[r].posted[t] = None THEN tasks[t]
        ELSE [tasks[t] EXCEPT !.contact =
                [request[r].found[t].contact EXCEPT
                   ![ProviderOf[request[r].account]] = request[r].posted[t]]]]

\* An imported event becomes a task; one for whole days is not scheduled.
Imported(r, e) ==
    [scheduled |-> e.timed, completed |-> FALSE,
     contact |-> [p \in Range(ProviderOf) |->
                    IF p = ProviderOf[request[r].account] THEN e.id ELSE None]]

\* The tasks read and pushed are all there are; the events of the calendar that
\* none of them holds become tasks.
CommitCalendar(r) ==
    /\ request[r].kind = "pushing"
    /\ request[r].todo = {}
    /\ ~ Locked(r, request[r].account)
    /\ RowStays(r)
    /\ \E new \in Injection(Strangers(r), {t \in Tasks : tasks[t] = None}) :
        tasks' = [t \in Tasks |->
                    IF t \in Range(new)
                    THEN Imported(r, CHOOSE e \in Strangers(r) : new[e] = t)
                    ELSE Pushed(r)[t]]
    /\ connections' = [connections EXCEPT ![request[r].account] = Synced(r)]
    /\ request' = [request EXCEPT ![r] = Resting]
    /\ UNCHANGED <<now, authorizations, rows, remote, threads, callsMade>>

AddTask(t) ==
    /\ Call
    /\ tasks[t] = None
    /\ tasks' = [tasks EXCEPT ![t] =
         [scheduled |-> TRUE, completed |-> FALSE,
          contact |-> [p \in Range(ProviderOf) |-> None]]]
    /\ UNCHANGED <<now, authorizations, connections, rows, remote, threads, request>>

CompleteTask(t) ==
    /\ Call
    /\ tasks[t] # None
    /\ ~ tasks[t].completed
    /\ tasks' = [tasks EXCEPT ![t].completed = TRUE]
    /\ UNCHANGED <<now, authorizations, connections, rows, remote, threads, request>>

\* The seeker makes an event in the provider's own calendar.
AddEvent(a, c, e, timed) ==
    /\ Call
    /\ e \notin Made
    /\ remote' = [remote EXCEPT ![a][c] = @ \cup {[id |-> e, timed |-> timed, task |-> None]}]
    /\ UNCHANGED <<now, authorizations, connections, rows, tasks, threads, request>>

-----------------------------------------------------------------------------
\* Mail.

\* The threads the provider has are fetched and their rows looked up.
Fetch(r, ds) ==
    /\ request[r].kind = "email"
    /\ Admitted(r)
    /\ request' = [request EXCEPT ![r].kind = "fetched",
         ![r].mail = [d \in Digests |->
            IF d \notin ds THEN Out ELSE IF threads[d] = None THEN New ELSE threads[d]]]
    /\ UNCHANGED <<now, authorizations, connections, rows, remote, tasks, threads, callsMade>>

\* Mutated Thread: an update starts the retention anew.
ThreadKeptOn(d, found, review) ==
    IF found = Out THEN threads[d]
    ELSE IF found = New
    THEN [id |-> rows + 1, imported |-> now, retention_until |-> now + EMAIL_RETENTION_DAYS,
          reviews |-> IF review THEN 1 ELSE 0]
    ELSE [threads[d] EXCEPT !.retention_until = now + EMAIL_RETENTION_DAYS]

\* A thread found new gets a row; another keeps its date and gets the review task
\* that it did not have when it was read.
Thread(d, found, review) ==
    IF found = Out THEN threads[d]
    ELSE IF found = New
    THEN [id |-> rows + 1, imported |-> now, retention_until |-> now + EMAIL_RETENTION_DAYS,
          reviews |-> IF review THEN 1 ELSE 0]
    ELSE [threads[d] EXCEPT !.reviews = IF review /\ found.reviews = 0 THEN @ + 1 ELSE @]

\* No row was inserted or deleted where the synchronization read otherwise.
MailStays(r) ==
    \A d \in Digests :
        /\ request[r].mail[d] = New => threads[d] = None
        /\ request[r].mail[d] \notin {New, Out} =>
            threads[d] # None /\ threads[d].id = request[r].mail[d].id

CommitEmail(r, review) ==
    /\ request[r].kind = "fetched"
    /\ ~ Locked(r, request[r].account)
    /\ RowStays(r)
    /\ MailStays(r)
    /\ threads' = [d \in Digests |-> Thread(d, request[r].mail[d], review)]
    /\ rows' = rows + 1
    /\ connections' = [connections EXCEPT ![request[r].account] = Synced(r)]
    /\ request' = [request EXCEPT ![r] = Resting]
    /\ UNCHANGED <<now, authorizations, remote, tasks, callsMade>>

Expired(d) == threads[d] # None /\ threads[d].retention_until < now

\* The worker's retention_sweep.
RetentionSweep ==
    /\ \E d \in Digests : Expired(d)
    /\ threads' = [d \in Digests |-> IF Expired(d) THEN None ELSE threads[d]]
    /\ UNCHANGED <<now, authorizations, connections, rows, remote, tasks, request, callsMade>>

-----------------------------------------------------------------------------
\* A provider refuses or does not answer, a commit fails, or the process ends:
\* the request's transaction is rolled back, the status it set included.
RollBack(r) ==
    /\ request[r].kind # "none"
    /\ request' = [request EXCEPT ![r] = Resting]
    /\ UNCHANGED <<now, authorizations, connections, rows, remote, tasks, threads, callsMade>>

Tick ==
    /\ now < MaxTime
    /\ now' = now + 1
    /\ UNCHANGED <<authorizations, connections, rows, remote, tasks, threads, request, callsMade>>

ConnectorNext ==
    \/ \E s \in States, services \in SUBSET Services \ {{}} : Authorize(s, services)
    \/ \E r \in Requests :
        \/ \E s \in States, a \in Accounts : BeginCallback(r, s, a)
        \/ Exchange(r)
        \/ \E granted \in SUBSET Services, renewed \in BOOLEAN : CommitCallback(r, granted, renewed)
        \/ \E a \in Accounts :
            \/ BeginSync(r, a, "email", None)
            \/ \E c \in Calendars : BeginSync(r, a, "calendar", c)
        \/ Refresh(r) \/ ReadTasks(r) \/ CommitCalendar(r)
        \/ \E t \in Tasks : UpdateEvent(r, t) \/ \E e \in Events : PostEvent(r, t, e)
        \/ \E ds \in SUBSET Digests : Fetch(r, ds)
        \/ \E review \in BOOLEAN : CommitEmail(r, review)
        \/ RollBack(r)
    \/ \E t \in Tasks : AddTask(t) \/ CompleteTask(t)
    \/ \E a \in Accounts :
        \/ Disconnect(a)
        \/ \E c \in Calendars, e \in Events, timed \in BOOLEAN : AddEvent(a, c, e, timed)
    \/ RetentionSweep \/ Tick

ConnectorSpec == ConnectorInit /\ [][ConnectorNext]_connectorVars

-----------------------------------------------------------------------------
\* Every variable has its type.
ConnectorTypeOK ==
    /\ now \in 0..MaxTime
    /\ authorizations \in [States -> OAuthAuthorization \cup {None}]
    /\ connections \in [Accounts -> ExternalConnection \cup {None}]
    /\ rows \in Nat
    /\ remote \in [Accounts -> [Calendars -> SUBSET CalendarEvent]]
    /\ tasks \in [Tasks -> CareerTask \cup {None}]
    /\ threads \in [Digests -> EmailThread \cup {None}]
    /\ request \in [Requests -> Request]

Torn(a) == connections[a] # None /\ connections[a].scopes # connections[a].token

\* The scopes a connection records are those its token is for. Two things only part
\* them: a request that commits over a grant newer than the one it read, as a refresh
\* writes the tokens alone and a new grant only what differs from the row it read; or
\* a refresh with a refresh token that an earlier grant, of other scopes, has left.
GrantsAgree ==
    [][\A a \in Accounts : Torn(a)' /\ ~ Torn(a) =>
        \E r \in Requests :
            /\ request[r].account = a
            /\ request'[r] = Resting
            /\ request[r].conn # None
            /\ \/ request[r].conn.scopes # connections[a].scopes
               \/ request[r].locked /\ request[r].conn.refresh # request[r].conn.scopes]_connectorVars

Held(t) == IF tasks[t] = None THEN {} ELSE Range(tasks[t].contact) \ {None}

KnownEvents ==
    (UNION {Held(t) : t \in Tasks})
    \cup (UNION {Range(request[r].posted) \ {None} : r \in Requests})

\* An event created at the provider stays known to its task. Its identifier is
\* forgotten in two cases only: the synchronization that created it fails
\* afterwards, whence the next one creates the event again (RetriesUpdate does not
\* hold), or another one, overlapping, has written the task since it was read.
ForgottenOnlyByFailure ==
    [][\A e \in KnownEvents \ KnownEvents' :
        \E r \in Requests, t \in Tasks :
            /\ request'[r] = Resting
            /\ request[r].posted[t] # None
            /\ \/ request[r].posted[t] = e /\ tasks' = tasks
               \/ tasks[t].contact # request[r].found[t].contact]_connectorVars

\* Mail and events enter the workspace only under the grant that the
\* synchronization began with: disconnecting stops one that is under way.
DisconnectStopsImports ==
    [][(\/ \E d \in Digests : threads'[d] \notin {threads[d], None}
        \/ \E t \in Tasks : tasks[t] = None /\ Held(t)' # {}) =>
        \E r \in Requests :
            /\ request'[r] = Resting /\ request[r].conn # None
            /\ connections[request[r].account] # None
            /\ connections[request[r].account].id = request[r].conn.id]_connectorVars

\* However often a mail thread is synchronized, once it is older than the
\* retention period the worker's next sweep removes it.
MailIsForgotten ==
    \A d \in Digests : threads[d] # None /\ threads[d].imported + EMAIL_RETENTION_DAYS < now
        => Expired(d)

\* No account has two events of one task (services/calendar_connector.py:3-5: "retries
\* update instead of duplicating events").
RetriesUpdate ==
    \A a \in Accounts : \A e, f \in UNION Range(remote[a]) :
        e.task # None /\ e.task = f.task => e = f

\* A token is for no service that the connection does not show: renewing a grant for
\* fewer services leaves no access to the others (ADR 0024: "explicit service
\* selection, and the narrow delegated scopes").
TokenIsNarrow ==
    \A a \in Accounts : connections[a] # None => connections[a].token \subseteq connections[a].services

\* No two tasks stand for one event of a provider (sync_calendar: "import
\* external events idempotently").
ImportIsIdempotent ==
    \A t, u \in Tasks : t # u => Held(t) \cap Held(u) = {}

=============================================================================
