------------------------------- MODULE Accounts -------------------------------
(* Accounts, their browser sessions and the files of their workspaces          *)
(* (api/auth.py, api/admin.py, services/security.py, services/blob.py). A      *)
(* request reads when it begins and writes when it commits; files are written  *)
(* and removed at once, and no rollback brings them back.                      *)
EXTENDS Naturals, Sequences, FiniteSets

CONSTANTS
    Requests,           \* requests that may be under way at once
    Users,              \* accounts, invited or not yet
    Superusers,         \* which of them are superusers
    Passwords,
    Contents,           \* what may be uploaded
    SessionHours,
    None,               \* not invited; no session; nothing read
    Gone,               \* purged
    MaxTime, MaxCalls   \* bounds

ASSUME AccountsAssumption ==
    /\ Superusers \subseteq Users
    /\ SessionHours \in Nat \ {0}
    /\ MaxTime \in Nat /\ MaxCalls \in Nat

VARIABLES
    now,
    users,              \* an account's row, None or Gone
    sessions,           \* rows in the order they were inserted; None once deleted
    sources,            \* what an account has stored sources of
    files,              \* and what its workspace has files of
    request,            \* what each request has read
    calls

vars == <<now, users, sessions, sources, files, request, calls>>

\* A hash is stale when it was made at a lower cost than hashes are made at now.
User == [is_active : BOOLEAN, password : Passwords, stale : BOOLEAN]

ASSUME NullAssumption == None \notin User /\ Gone \notin User

AuthSession ==
    [user : Users, expires_at : 0..(MaxTime + SessionHours), revoked : BOOLEAN]

Request ==
    [kind : {"none", "login", "changing", "changed", "disabling", "revoking",
             "purging", "emptied", "uploading", "inserted", "stored",
             "capturing", "captured"},
     actor : Users \cup {None},     \* whose session it was made with
     user : Users \cup {None},      \* whose account it is about
     password : Passwords \cup {None},  \* verified by a log-in; the new one of a change
     rehash : BOOLEAN,              \* whether the log-in found its hash stale
     content : Contents \cup {None},
     seen : SUBSET Nat,             \* sessions it has read and will revoke
     since : Nat]                   \* sessions inserted when it began

Resting ==
    [kind |-> "none", actor |-> None, user |-> None, password |-> None,
     rehash |-> FALSE, content |-> None, seen |-> {}, since |-> 0]

Exists(u) == users[u] \notin {None, Gone}
Active(u) == Exists(u) /\ users[u].is_active

\* resolve_session
Usable(i) ==
    /\ sessions[i] # None
    /\ ~ sessions[i].revoked
    /\ sessions[i].expires_at > now
    /\ Active(sessions[i].user)

\* Somebody operates the system from the start, perhaps since an earlier release.
Init ==
    /\ now = 0
    /\ \E p \in Passwords, old \in SUBSET Superusers :
         users = [u \in Users |->
             IF u \in Superusers THEN [is_active |-> TRUE, password |-> p, stale |-> u \in old]
             ELSE None]
    /\ sessions = <<>>
    /\ sources = [u \in Users |-> {}]
    /\ files = [u \in Users |-> {}]
    /\ request = [r \in Requests |-> Resting]
    /\ calls = 0

Call == calls < MaxCalls /\ calls' = calls + 1

Begin(r, read) ==
    /\ Call
    /\ request[r].kind = "none"
    /\ request' = [request EXCEPT ![r] = [read EXCEPT !.since = Len(sessions)]]
    /\ UNCHANGED <<now, users, sessions, sources, files>>

\* A request that fails, at any time, leaves what it had not written.
RollBack(r) ==
    /\ request[r].kind # "none"
    /\ request' = [request EXCEPT ![r] = Resting]
    /\ UNCHANGED <<now, users, sessions, sources, files, calls>>

-----------------------------------------------------------------------------
(* Sessions.                                                                   *)

BeginLogin(r, u, p) ==
    /\ Active(u)
    /\ users[u].password = p
    /\ Begin(r, [Resting EXCEPT !.kind = "login", !.user = u, !.password = p,
                                !.rehash = users[u].stale])

\* The password it has verified, hashed anew, is written by primary key, over
\* whatever password the account has by then.
Rehashed(r) ==
    IF request[r].rehash
    THEN [users EXCEPT ![request[r].user].password = request[r].password,
                       ![request[r].user].stale = FALSE]
    ELSE users

\* The time of the login is written too, so the account must still be there; it
\* need not be active any more, nor have the password that was verified.
CommitLogin(r) ==
    LET u == request[r].user IN
    /\ request[r].kind = "login"
    /\ Exists(u)
    /\ users' = Rehashed(r)
    /\ sessions' = Append(sessions,
         [user |-> u, expires_at |-> now + SessionHours, revoked |-> FALSE])
    /\ request' = [request EXCEPT ![r] = Resting]
    /\ UNCHANGED <<now, sources, files, calls>>

Logout(i) ==
    /\ Call
    /\ Usable(i)
    /\ sessions' = [sessions EXCEPT ![i].revoked = TRUE]
    /\ UNCHANGED <<now, users, sources, files, request>>

\* Mutated Unrevoked: all but the first session, the one the request came with.
UnrevokedOthers(u) ==
    {i \in DOMAIN sessions \ {1} :
        sessions[i] # None /\ sessions[i].user = u /\ ~ sessions[i].revoked}

\* The sessions that revoke_all_sessions and change_password go over, expired
\* ones included.
Unrevoked(u) ==
    {i \in DOMAIN sessions :
        sessions[i] # None /\ sessions[i].user = u /\ ~ sessions[i].revoked}

\* Writing a row that was deleted meanwhile fails.
Revoke(r) ==
    /\ \A i \in request[r].seen : sessions[i] # None
    /\ sessions' = [i \in DOMAIN sessions |->
         IF i \in request[r].seen THEN [sessions[i] EXCEPT !.revoked = TRUE] ELSE sessions[i]]
    /\ request' = [request EXCEPT ![r] = Resting]
    /\ UNCHANGED <<now, sources, files, calls>>

\* The password is verified, and the new one hashed, before the sessions are
\* read; both are written together.
BeginChange(r, i, p) ==
    /\ Usable(i)
    /\ users[sessions[i].user].password # p
    /\ Begin(r, [Resting EXCEPT !.kind = "changing", !.actor = sessions[i].user,
                                !.user = sessions[i].user, !.password = p])

ReadSessions(r) ==
    /\ request[r].kind = "changing"
    /\ request' = [request EXCEPT ![r].kind = "changed", ![r].seen = Unrevoked(request[r].user)]
    /\ UNCHANGED <<now, users, sessions, sources, files, calls>>

CommitChange(r) ==
    /\ request[r].kind = "changed"
    /\ Exists(request[r].user)
    /\ users' = [users EXCEPT ![request[r].user].password = request[r].password,
                              ![request[r].user].stale = FALSE]
    /\ Revoke(r)

Tick ==
    /\ now < MaxTime
    /\ now' = now + 1
    /\ UNCHANGED <<users, sessions, sources, files, request, calls>>

RetentionSweep ==
    LET expired == {i \in DOMAIN sessions : sessions[i] # None /\ sessions[i].expires_at < now} IN
    /\ expired # {}
    /\ sessions' = [i \in DOMAIN sessions |-> IF i \in expired THEN None ELSE sessions[i]]
    /\ UNCHANGED <<now, users, sources, files, request, calls>>

-----------------------------------------------------------------------------
(* Administration, with the session of a superuser.                            *)

Administers(i) == Usable(i) /\ sessions[i].user \in Superusers

AddUser(i, u, p) ==
    /\ Call
    /\ Administers(i)
    /\ users[u] = None
    /\ users' = [users EXCEPT ![u] = [is_active |-> TRUE, password |-> p, stale |-> FALSE]]
    /\ UNCHANGED <<now, sessions, sources, files, request>>

\* Mutated Target: any account, one's own included.
AnyTarget(i, u) == Exists(u)

\* A superuser neither disables nor purges the own account.
Target(i, u) == Exists(u) /\ u # sessions[i].user

\* An account that is not active is not written again.
BeginDisable(r, i, u) ==
    /\ Administers(i)
    /\ Target(i, u)
    /\ Begin(r, [Resting EXCEPT !.kind = IF Active(u) THEN "disabling" ELSE "revoking",
                                !.actor = sessions[i].user,
                                !.user = u, !.seen = Unrevoked(u)])

CommitDisable(r) ==
    /\ request[r].kind = "disabling"
    /\ Exists(request[r].user)
    /\ users' = [users EXCEPT ![request[r].user].is_active = FALSE]
    /\ Revoke(r)

RestoreUser(i, u) ==
    /\ Call
    /\ Administers(i)
    /\ Exists(u)
    /\ users' = [users EXCEPT ![u].is_active = TRUE]
    /\ UNCHANGED <<now, sessions, sources, files, request>>

BeginRevoke(r, i, u) ==
    /\ Administers(i)
    /\ Exists(u)
    /\ Begin(r, [Resting EXCEPT !.kind = "revoking", !.actor = sessions[i].user,
                                !.user = u, !.seen = Unrevoked(u)])

CommitRevoke(r) ==
    /\ request[r].kind = "revoking"
    /\ UNCHANGED users
    /\ Revoke(r)

BeginPurge(r, i, u) ==
    /\ Administers(i)
    /\ Target(i, u)
    /\ Begin(r, [Resting EXCEPT !.kind = "purging", !.actor = sessions[i].user, !.user = u])

\* delete_workspace removes the files one by one, and may stop at any of them.
RemoveFiles(r) ==
    LET u == request[r].user IN
    /\ request[r].kind = "purging"
    /\ \E left \in SUBSET files[u] :
          /\ files' = [files EXCEPT ![u] = left]
          /\ request' = [request EXCEPT ![r] =
               IF left = {} THEN [@ EXCEPT !.kind = "emptied"] ELSE Resting]
    /\ UNCHANGED <<now, users, sessions, sources, calls>>

\* The rows go after the files, once no insert below the account is open.
CommitPurge(r) ==
    LET u == request[r].user IN
    /\ request[r].kind = "emptied"
    /\ \A q \in Requests : request[q].kind \in {"inserted", "stored"} => request[q].user # u
    /\ users' = [users EXCEPT ![u] = Gone]
    /\ sessions' = [i \in DOMAIN sessions |->
         IF sessions[i] # None /\ sessions[i].user = u THEN None ELSE sessions[i]]
    /\ sources' = [sources EXCEPT ![u] = {}]
    /\ request' = [request EXCEPT ![r] = Resting]
    /\ UNCHANGED <<now, files, calls>>

-----------------------------------------------------------------------------
(* Documents. A profile document has its source inserted before its file is    *)
(* stored, and so keeps the account from going; a captured opportunity has it  *)
(* inserted afterwards.                                                        *)

BeginUpload(r, i, kind, c) ==
    /\ Usable(i)
    /\ Begin(r, [Resting EXCEPT !.kind = kind, !.actor = sessions[i].user,
                                !.user = sessions[i].user, !.content = c])

InsertSource(r) ==
    /\ request[r].kind = "uploading"
    /\ Exists(request[r].user)
    /\ request' = [request EXCEPT ![r].kind = "inserted"]
    /\ UNCHANGED <<now, users, sessions, sources, files, calls>>

\* Mutated Storing: a profile document is stored before its source is inserted.
StoringFirst == {"uploading", "capturing"}

Storing == {"inserted", "capturing"}

\* One file for one content.
StoreFile(r) ==
    /\ request[r].kind \in Storing
    /\ files' = [files EXCEPT ![request[r].user] = @ \cup {request[r].content}]
    /\ request' = [request EXCEPT ![r].kind =
         IF @ = "inserted" THEN "stored" ELSE "captured"]
    /\ UNCHANGED <<now, users, sessions, sources, calls>>

CommitUpload(r) ==
    /\ request[r].kind \in {"stored", "captured"}
    /\ Exists(request[r].user)
    /\ sources' = [sources EXCEPT ![request[r].user] = @ \cup {request[r].content}]
    /\ request' = [request EXCEPT ![r] = Resting]
    /\ UNCHANGED <<now, users, sessions, files, calls>>

Next ==
    \/ Tick
    \/ RetentionSweep
    \/ \E i \in DOMAIN sessions :
          \/ Logout(i)
          \/ \E u \in Users : RestoreUser(i, u) \/ \E p \in Passwords : AddUser(i, u, p)
    \/ \E r \in Requests :
          \/ \E u \in Users, p \in Passwords : BeginLogin(r, u, p)
          \/ \E i \in DOMAIN sessions :
                \/ \E p \in Passwords : BeginChange(r, i, p)
                \/ \E u \in Users :
                      BeginDisable(r, i, u) \/ BeginRevoke(r, i, u) \/ BeginPurge(r, i, u)
                \/ \E kind \in {"uploading", "capturing"}, c \in Contents :
                      BeginUpload(r, i, kind, c)
          \/ CommitLogin(r)
          \/ ReadSessions(r)
          \/ CommitChange(r)
          \/ CommitDisable(r)
          \/ CommitRevoke(r)
          \/ RemoveFiles(r)
          \/ CommitPurge(r)
          \/ InsertSource(r)
          \/ StoreFile(r)
          \/ CommitUpload(r)
          \/ RollBack(r)

Spec == Init /\ [][Next]_vars

-----------------------------------------------------------------------------

TypeOK ==
    /\ now \in 0..MaxTime
    /\ users \in [Users -> User \cup {None, Gone}]
    /\ sessions \in Seq(AuthSession \cup {None})
    /\ sources \in [Users -> SUBSET Contents]
    /\ files \in [Users -> SUBSET Contents]
    /\ request \in [Requests -> Request]
    /\ calls \in 0..MaxCalls

Dead(i) ==
    \/ sessions[i] = None
    \/ sessions[i].revoked
    \/ sessions[i].expires_at <= now

PasswordChanges(u) == users'[u].password # users[u].password

IsDisabled(u) == users[u].is_active /\ ~ users'[u].is_active

\* A log-in that found the hash stale puts back the password it had verified; the
\* hash is stale no more, another request has replaced the password meanwhile.
RestoresPassword(r) ==
    /\ request[r].kind = "login" /\ request[r].rehash
    /\ ~ users[request[r].user].stale
    /\ users'[request[r].user].password = request[r].password

\* When the password of an account becomes another or the account is disabled,
\* none of the sessions that the account had when the request began can be used any
\* more. Only one thing else changes a password: a log-in under way across a change
\* undoes it (services/security.py:88), and revokes nothing. It disables nobody.
RevocationReachesAll ==
    [][\A u \in Users :
         /\ Exists(u) /\ Exists(u)'
         /\ PasswordChanges(u) \/ IsDisabled(u)
         => \E r \in Requests :
              /\ request[r].user = u
              /\ request'[r] = Resting
              /\ \/ \A i \in 1..request[r].since :
                       sessions[i] # None /\ sessions[i].user = u => Dead(i)'
                 \/ RestoresPassword(r) /\ ~ IsDisabled(u)]_vars

ActiveSuperusers == {u \in Superusers : Active(u)}

\* The last active superuser is disabled or purged only by a request of one who
\* was disabled or purged while it was under way.
SuperusersGoOnlyTogether ==
    [][ActiveSuperusers # {} /\ ActiveSuperusers' = {} =>
         \E r \in Requests :
            /\ request'[r] = Resting
            /\ request[r].actor \in Superusers \ ActiveSuperusers]_vars

\* Once an account is purged, the only request that still stores a file for it
\* is a captured opportunity, whose source is inserted after its file.
OnlyCapturesOutlivePurge ==
    [][\A u \in Users :
         users[u] = Gone /\ ~ (files'[u] \subseteq files[u]) =>
            \E r \in Requests : request[r].kind = "capturing" /\ request[r].user = u]_vars

\* A password that was replaced opens no session any more.
OldPasswordOpensNothing ==
    [][\A r \in Requests :
         request[r].kind = "login" /\ Len(sessions') > Len(sessions) /\ request'[r] = Resting =>
            users[request[r].user].password = request[r].password]_vars

\* Only the request that replaces a password changes it.
ChangeIsKept ==
    [][\A u \in Users :
         Exists(u) /\ Exists(u)' /\ PasswordChanges(u) =>
            \E r \in Requests : request[r].kind = "changed" /\ request[r].user = u]_vars

\* A purge erases the files of the account as well as its rows.
PurgeErasesFiles ==
    \A u \in Users :
        users[u] = Gone /\ (\A r \in Requests : request[r].user # u) => files[u] = {}

=============================================================================
