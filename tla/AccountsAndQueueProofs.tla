----------------------- MODULE AccountsAndQueueProofs -----------------------
(* Proofs about accounts and their sessions (Accounts), for any number of     *)
(* accounts, sessions and overlapping requests, and about the queue of the    *)
(* sources their holders upload (SourceQueue), for every set of sources and   *)
(* workers, every batch size and every number of process starts.              *)
(* Accounts: a session row never comes back to life, so what a request has    *)
(* read as alive is all that can be alive when it commits; a stale hash is    *)
(* still of the password that a log-in verified; an administrator             *)
(* never acts on the own account; and an account below which a source has     *)
(* been inserted stays until that request ends.                               *)
(* The queue: the inductive invariant says which worker answers for a row     *)
(* that is being processed, and that a row nobody requeued has the status of  *)
(* its only holder.                                                           *)
EXTENDS Accounts, SourceQueue, SequenceTheorems, TLAPS

-----------------------------------------------------------------------------
\* Accounts and sessions.

Administrative == {"disabling", "purging", "emptied"}
Uploading == {"uploading", "inserted", "stored", "capturing", "captured"}
Pinning == {"inserted", "stored"}

\* What a request was made with.
Asked(q) ==
    /\ q.kind # "none" => q.user \in Users
    /\ q.kind \in Administrative => q.actor \in Superusers /\ q.actor # q.user
    /\ q.kind \in Uploading => q.content \in Contents
    /\ q.kind \in {"login", "changing", "changed"} => q.password \in Passwords

\* Of the sessions that were there when it began, those of its account that
\* can be used still are among those it will revoke.
Covers(q) ==
    /\ q.since <= Len(sessions)
    /\ q.kind \in {"changed", "disabling"} =>
         \A i \in 1..q.since :
            sessions[i] # None /\ sessions[i].user = q.user => Dead(i) \/ i \in q.seen

\* A source inserted below an account keeps the account.
Pins(q) == q.kind \in Pinning => Exists(q.user)

\* While a hash stays stale, its password is the one that was verified.
Verified(q) ==
    q.kind = "login" /\ Exists(q.user) /\ users[q.user].stale =>
        users[q.user].password = q.password

RequestInv ==
    \A r \in Requests :
        Asked(request[r]) /\ Covers(request[r]) /\ Pins(request[r]) /\ Verified(request[r])

IInv == TypeOK /\ RequestInv

\* A map over a sequence is a sequence.
LEMMA MapType ==
    ASSUME NEW S, NEW s \in Seq(S), NEW t,
           t = [i \in DOMAIN s |-> t[i]], \A i \in DOMAIN s : t[i] \in S
    PROVE  t \in Seq(S) /\ Len(t) = Len(s) /\ DOMAIN t = DOMAIN s
<1>1. Len(s) \in Nat /\ DOMAIN s = 1..Len(s)
  BY LenProperties
<1>2. t \in [1..Len(s) -> S]
  BY <1>1
<1>3. t \in Seq(S)
  BY <1>1, <1>2, SeqDef
<1>4. QED
  BY <1>1, <1>2, <1>3, LenProperties

-----------------------------------------------------------------------------
(* What a step does to sessions.                                               *)

\* No session comes back, changes hands or is forgotten by its position.
Ages ==
    /\ sessions' \in Seq(AuthSession \cup {None})
    /\ Len(sessions) <= Len(sessions')
    /\ \A i \in DOMAIN sessions :
         /\ i \in DOMAIN sessions'
         /\ sessions[i] = None => sessions'[i] = None
         /\ sessions'[i] # None => sessions'[i].user = sessions[i].user
         /\ Dead(i) => Dead(i)'

\* Time only passes.
LEMMA TimePasses ==
    TypeOK /\ [Next]_vars => now' \in 0..MaxTime /\ now <= now'
<1> USE AccountsAssumption DEF TypeOK
<1>1. TypeOK /\ UNCHANGED now => now' \in 0..MaxTime /\ now <= now'
  OBVIOUS
<1>2. TypeOK /\ Tick => now' \in 0..MaxTime /\ now <= now'
  BY DEF Tick
<1>3. Next => Tick \/ UNCHANGED now
  BY DEF Next, RetentionSweep, Logout, RestoreUser, AddUser, BeginLogin, Begin,
         BeginChange, BeginDisable, BeginRevoke, BeginPurge, BeginUpload, CommitLogin,
         ReadSessions, CommitChange, Revoke, CommitDisable, CommitRevoke, RemoveFiles,
         CommitPurge, InsertSource, StoreFile, CommitUpload, RollBack
<1>4. QED
  BY <1>1, <1>2, <1>3 DEF vars

\* Replacing rows by revoked ones, or by none, ages them.
LEMMA RowsAge ==
    ASSUME TypeOK, now' = now, DOMAIN sessions' = DOMAIN sessions,
           sessions' = [i \in DOMAIN sessions |-> sessions'[i]],
           \A i \in DOMAIN sessions :
              \/ sessions'[i] = sessions[i]
              \/ sessions'[i] = None
              \/ sessions[i] # None /\ sessions'[i] = [sessions[i] EXCEPT !.revoked = TRUE]
    PROVE  Ages
<1>1. \A i \in DOMAIN sessions : sessions[i] \in AuthSession \cup {None}
  BY ElementOfSeq, LenProperties DEF TypeOK
<1>2. \A i \in DOMAIN sessions : sessions'[i] \in AuthSession \cup {None}
  BY <1>1 DEF AuthSession
<1>3. sessions' \in Seq(AuthSession \cup {None}) /\ Len(sessions') = Len(sessions)
  BY <1>2, MapType DEF TypeOK
<1>4. \A i \in DOMAIN sessions : Dead(i) => Dead(i)'
  BY <1>1 DEF Dead, AuthSession
<1>5. ASSUME NEW i \in DOMAIN sessions
      PROVE  /\ sessions[i] = None => sessions'[i] = None
             /\ sessions'[i] # None => sessions'[i].user = sessions[i].user
  BY <1>1 DEF AuthSession
<1>6. QED
  BY <1>3, <1>4, <1>5, LenProperties DEF Ages, TypeOK

\* Revoking the sessions that a request has seen ages them.
LEMMA RevokeAges == ASSUME TypeOK, NEW r \in Requests, Revoke(r) PROVE Ages
<1>1. \A i \in DOMAIN sessions :
         \/ sessions'[i] = sessions[i]
         \/ sessions[i] # None /\ sessions'[i] = [sessions[i] EXCEPT !.revoked = TRUE]
  BY DEF Revoke
<1>2. QED
  BY <1>1, RowsAge DEF Revoke

\* Every step ages the sessions.
LEMMA SessionsAge == IInv /\ [Next]_vars => Ages
<1> SUFFICES ASSUME TypeOK, RequestInv, [Next]_vars PROVE Ages
  BY DEF IInv
<1>1. CASE sessions' = sessions
  <2>1. \A i \in DOMAIN sessions : Dead(i) => Dead(i)'
    BY <1>1, TimePasses, AccountsAssumption, ElementOfSeq, LenProperties
    DEF Dead, TypeOK, AuthSession
  <2>2. QED
    BY <1>1, <2>1, LenProperties DEF Ages, TypeOK
<1>2. ASSUME NEW r \in Requests, CommitLogin(r) PROVE Ages
  <2> DEFINE row == [user |-> request[r].user, expires_at |-> now + SessionHours,
                     revoked |-> FALSE]
  <2>1. row \in AuthSession
    BY <1>2, AccountsAssumption DEF CommitLogin, RequestInv, Asked, TypeOK, AuthSession
  <2>2. sessions' = Append(sessions, row) /\ now' = now
    BY <1>2 DEF CommitLogin
  <2>3. /\ sessions' \in Seq(AuthSession \cup {None})
        /\ Len(sessions') = Len(sessions) + 1
        /\ \A i \in DOMAIN sessions : sessions'[i] = sessions[i]
    BY <2>1, <2>2, AppendProperties, LenProperties DEF TypeOK
  <2>4. QED
    BY <2>2, <2>3, LenProperties DEF Ages, Dead, TypeOK
<1>3. ASSUME NEW i \in DOMAIN sessions, Logout(i) PROVE Ages
  BY <1>3, RowsAge DEF Logout, Usable
<1>4. ASSUME NEW r \in Requests, CommitChange(r) \/ CommitDisable(r) \/ CommitRevoke(r)
      PROVE  Ages
  BY <1>4, RevokeAges DEF CommitChange, CommitDisable, CommitRevoke
<1>5. ASSUME RetentionSweep PROVE Ages
  BY <1>5, RowsAge DEF RetentionSweep
<1>6. ASSUME NEW r \in Requests, CommitPurge(r) PROVE Ages
  BY <1>6, RowsAge DEF CommitPurge
<1>7. QED
  BY <1>1, <1>2, <1>3, <1>4, <1>5, <1>6
  DEF Next, vars, Tick, RestoreUser, AddUser, BeginLogin, Begin, BeginChange,
      BeginDisable, BeginRevoke, BeginPurge, BeginUpload, ReadSessions, RemoveFiles,
      InsertSource, StoreFile, CommitUpload, RollBack

-----------------------------------------------------------------------------
(* What a step does to accounts and files.                                     *)

\* An account stays unless a request purges it, and then no source is pinned to
\* it; it is no longer active only if a request has disabled or purged it.
LEMMA AccountsStay ==
    ASSUME TypeOK, RequestInv, Next, NEW u \in Users, Exists(u)
    PROVE  \/ Exists(u)' /\ (users'[u].is_active \/ ~ users[u].is_active)
           \/ \E r \in Requests :
                /\ CommitDisable(r) /\ request[r].user = u
                /\ Exists(u)'
           \/ \E r \in Requests : CommitPurge(r) /\ request[r].user = u
<1>0. users[u] \in User /\ \A v \in Users : users[v] \in User \cup {None, Gone}
  BY DEF TypeOK, Exists
<1> DEFINE Stays == Exists(u)' /\ (users'[u].is_active \/ ~ users[u].is_active)
<1>1. CASE users' = users
  BY <1>1 DEF Exists
<1>2. ASSUME NEW i \in DOMAIN sessions, NEW v \in Users, RestoreUser(i, v) PROVE Stays
  <2>1. CASE v = u
    <3>1. users'[u] = [users[u] EXCEPT !.is_active = TRUE]
      BY <1>2, <2>1 DEF RestoreUser, TypeOK
    <3>2. QED
      BY <3>1, <1>0, NullAssumption DEF Exists, User
  <2>2. CASE v # u
    BY <1>2, <2>2 DEF RestoreUser, TypeOK, Exists
  <2>3. QED
    BY <2>1, <2>2
<1>3. ASSUME NEW i \in DOMAIN sessions, NEW v \in Users, NEW p \in Passwords, AddUser(i, v, p)
      PROVE  Stays
  <2>1. v # u
    BY <1>3 DEF AddUser, Exists
  <2>2. QED
    BY <1>3, <2>1 DEF AddUser, TypeOK, Exists
<1>4. ASSUME NEW r \in Requests, CommitChange(r) PROVE Stays
  <2>1. CASE request[r].user = u
    <3>1. users'[u] = [users[u] EXCEPT !.password = request[r].password, !.stale = FALSE]
      BY <1>4, <2>1 DEF CommitChange, TypeOK
    <3>2. request[r].password \in Passwords
      BY <1>4 DEF CommitChange, RequestInv, Asked
    <3>3. QED
      BY <3>1, <3>2, <1>0, NullAssumption DEF Exists, User
  <2>2. CASE request[r].user # u
    BY <1>4, <2>2 DEF CommitChange, TypeOK, Exists
  <2>3. QED
    BY <2>1, <2>2
<1>5. ASSUME NEW r \in Requests, CommitDisable(r)
      PROVE  Stays \/ (request[r].user = u /\ Exists(u)')
  <2>1. CASE request[r].user = u
    <3>1. users'[u] = [users[u] EXCEPT !.is_active = FALSE]
      BY <1>5, <2>1 DEF CommitDisable, TypeOK
    <3>2. QED
      BY <3>1, <2>1, <1>0, NullAssumption DEF Exists, User
  <2>2. CASE request[r].user # u
    BY <1>5, <2>2 DEF CommitDisable, TypeOK, Exists
  <2>3. QED
    BY <2>1, <2>2
<1>6. ASSUME NEW r \in Requests, CommitPurge(r) PROVE Stays \/ request[r].user = u
  BY <1>6 DEF CommitPurge, TypeOK, Exists
<1>7. ASSUME NEW r \in Requests, CommitLogin(r) PROVE Stays
  <2> DEFINE written == [users EXCEPT ![request[r].user].password = request[r].password,
                                      ![request[r].user].stale = FALSE]
  <2>0. users' = users \/ users' = written
    BY <1>7 DEF CommitLogin, Rehashed
  <2> SUFFICES ASSUME users' = written PROVE Stays
    BY <2>0 DEF Exists
  <2>1. CASE request[r].user = u
    <3>1. users'[u] = [users[u] EXCEPT !.password = request[r].password, !.stale = FALSE]
      BY <2>1 DEF TypeOK
    <3>2. request[r].password \in Passwords
      BY <1>7 DEF CommitLogin, RequestInv, Asked
    <3>3. QED
      BY <3>1, <3>2, <1>0, NullAssumption DEF Exists, User
  <2>2. CASE request[r].user # u
    BY <2>2 DEF TypeOK, Exists
  <2>3. QED
    BY <2>1, <2>2
<1>8. QED
  BY <1>1, <1>2, <1>3, <1>4, <1>5, <1>6, <1>7
  DEF Next, Tick, RetentionSweep, Logout, BeginLogin, Begin, BeginChange, BeginDisable,
      BeginRevoke, BeginPurge, BeginUpload, ReadSessions, CommitRevoke,
      RemoveFiles, InsertSource, StoreFile, CommitUpload, RollBack

\* The accounts keep their type.
LEMMA UsersType == IInv /\ Next => users' \in [Users -> User \cup {None, Gone}]
<1> SUFFICES ASSUME TypeOK, RequestInv, Next
             PROVE  users' \in [Users -> User \cup {None, Gone}]
  BY DEF IInv
<1>1. CASE users' = users
  BY <1>1 DEF TypeOK
<1>2. ASSUME NEW i \in DOMAIN sessions, NEW v \in Users, RestoreUser(i, v)
      PROVE  users' \in [Users -> User \cup {None, Gone}]
  <2>1. [users[v] EXCEPT !.is_active = TRUE] \in User
    BY <1>2 DEF RestoreUser, Exists, User, TypeOK
  <2>2. QED
    BY <1>2, <2>1 DEF RestoreUser, TypeOK
<1>3. ASSUME NEW i \in DOMAIN sessions, NEW v \in Users, NEW p \in Passwords, AddUser(i, v, p)
      PROVE  users' \in [Users -> User \cup {None, Gone}]
  BY <1>3 DEF AddUser, User, TypeOK
<1>4. ASSUME NEW r \in Requests, CommitChange(r)
      PROVE  users' \in [Users -> User \cup {None, Gone}]
  <2> DEFINE u == request[r].user
  <2>1. u \in Users /\ request[r].password \in Passwords
    BY <1>4 DEF CommitChange, RequestInv, Asked
  <2>2. [users[u] EXCEPT !.password = request[r].password, !.stale = FALSE] \in User
    BY <1>4, <2>1 DEF CommitChange, Exists, User, TypeOK
  <2>3. QED
    BY <1>4, <2>1, <2>2 DEF CommitChange, TypeOK
<1>5. ASSUME NEW r \in Requests, CommitDisable(r)
      PROVE  users' \in [Users -> User \cup {None, Gone}]
  <2> DEFINE u == request[r].user
  <2>1. u \in Users
    BY <1>5 DEF CommitDisable, RequestInv, Asked
  <2>2. [users[u] EXCEPT !.is_active = FALSE] \in User
    BY <1>5, <2>1 DEF CommitDisable, Exists, User, TypeOK
  <2>3. QED
    BY <1>5, <2>1, <2>2 DEF CommitDisable, TypeOK
<1>6. ASSUME NEW r \in Requests, CommitPurge(r)
      PROVE  users' \in [Users -> User \cup {None, Gone}]
  BY <1>6 DEF CommitPurge, TypeOK
<1>7. ASSUME NEW r \in Requests, CommitLogin(r)
      PROVE  users' \in [Users -> User \cup {None, Gone}]
  <2> DEFINE u == request[r].user
  <2>1. u \in Users /\ request[r].password \in Passwords
    BY <1>7 DEF CommitLogin, RequestInv, Asked
  <2>2. [users[u] EXCEPT !.password = request[r].password, !.stale = FALSE] \in User
    BY <1>7, <2>1 DEF CommitLogin, Exists, User, TypeOK
  <2>3. QED
    BY <1>7, <2>1, <2>2 DEF CommitLogin, Rehashed, TypeOK
<1>8. QED
  BY <1>1, <1>2, <1>3, <1>4, <1>5, <1>6, <1>7
  DEF Next, Tick, RetentionSweep, Logout, BeginLogin, Begin, BeginChange, BeginDisable,
      BeginRevoke, BeginPurge, BeginUpload, ReadSessions, CommitRevoke,
      RemoveFiles, InsertSource, StoreFile, CommitUpload, RollBack

\* A hash that is stale after a step was stale before it, and of the same password.
LEMMA HashesAge ==
    ASSUME TypeOK, RequestInv, Next, NEW u \in Users, Exists(u)', users'[u].stale
    PROVE  Exists(u) /\ users[u].stale /\ users'[u].password = users[u].password
<1> DEFINE Ours == Exists(u) /\ users[u].stale /\ users'[u].password = users[u].password
<1>0. \A v \in Users : users[v] \in User \cup {None, Gone}
  BY DEF TypeOK
<1>1. CASE users'[u] = users[u]
  BY <1>1 DEF Exists
<1>2. ASSUME NEW i \in DOMAIN sessions, NEW v \in Users, RestoreUser(i, v) PROVE Ours
  <2> SUFFICES ASSUME v = u PROVE Ours
    BY <1>1, <1>2 DEF RestoreUser, TypeOK
  <2>1. Exists(u) /\ users'[u] = [users[u] EXCEPT !.is_active = TRUE] /\ users[u] \in User
    BY <1>0, <1>2 DEF RestoreUser, TypeOK, Exists
  <2>2. QED
    BY <2>1 DEF User
<1>3. ASSUME NEW i \in DOMAIN sessions, NEW v \in Users, NEW p \in Passwords, AddUser(i, v, p)
      PROVE  Ours
  <2>1. v = u => ~ users'[u].stale
    BY <1>3 DEF AddUser, TypeOK
  <2>2. QED
    BY <1>1, <1>3, <2>1 DEF AddUser, TypeOK
<1>4. ASSUME NEW r \in Requests, CommitDisable(r) PROVE Ours
  <2> SUFFICES ASSUME request[r].user = u PROVE Ours
    BY <1>1, <1>4 DEF CommitDisable, TypeOK
  <2>1. Exists(u) /\ users'[u] = [users[u] EXCEPT !.is_active = FALSE] /\ users[u] \in User
    BY <1>0, <1>4 DEF CommitDisable, TypeOK, Exists
  <2>2. QED
    BY <2>1 DEF User
<1>5. ASSUME NEW r \in Requests, CommitChange(r) \/ CommitLogin(r) PROVE Ours
  <2> DEFINE written == [users EXCEPT ![request[r].user].password = request[r].password,
                                      ![request[r].user].stale = FALSE]
  <2>0. Exists(request[r].user) /\ (users' = users \/ users' = written)
    BY <1>5 DEF CommitChange, CommitLogin, Rehashed
  <2> SUFFICES ASSUME request[r].user = u, users' = written PROVE FALSE
    BY <1>1, <2>0 DEF TypeOK
  <2>1. users'[u] = [users[u] EXCEPT !.password = request[r].password, !.stale = FALSE]
        /\ users[u] \in User
    BY <1>0, <2>0 DEF TypeOK, Exists
  <2>2. QED
    BY <2>1 DEF User
<1>6. ASSUME NEW r \in Requests, CommitPurge(r) PROVE Ours
  BY <1>1, <1>6 DEF CommitPurge, TypeOK, Exists
<1>7. QED
  BY <1>1, <1>2, <1>3, <1>4, <1>5, <1>6
  DEF Next, Tick, RetentionSweep, Logout, BeginLogin, Begin, BeginChange, BeginDisable,
      BeginRevoke, BeginPurge, BeginUpload, ReadSessions, CommitRevoke,
      RemoveFiles, InsertSource, StoreFile, CommitUpload, RollBack

\* The stored sources and files keep their type.
LEMMA FilesType ==
    IInv /\ Next => /\ sources' \in [Users -> SUBSET Contents]
                    /\ files' \in [Users -> SUBSET Contents]
<1> SUFFICES ASSUME TypeOK, RequestInv, Next
             PROVE  /\ sources' \in [Users -> SUBSET Contents]
                    /\ files' \in [Users -> SUBSET Contents]
  BY DEF IInv
<1>1. CASE sources' = sources /\ files' = files
  BY <1>1 DEF TypeOK
<1>2. ASSUME NEW r \in Requests, CommitPurge(r) \/ CommitUpload(r)
      PROVE  sources' \in [Users -> SUBSET Contents] /\ files' = files
  <2>1. CASE CommitPurge(r)
    BY <2>1 DEF CommitPurge, TypeOK
  <2>2. CASE CommitUpload(r)
    BY <2>2 DEF CommitUpload, TypeOK, RequestInv, Asked, Uploading
  <2>3. QED
    BY <1>2, <2>1, <2>2
<1>3. ASSUME NEW r \in Requests, StoreFile(r)
      PROVE  files' \in [Users -> SUBSET Contents] /\ sources' = sources
  BY <1>3 DEF StoreFile, Storing, TypeOK, RequestInv, Asked, Uploading
<1>4. ASSUME NEW r \in Requests, RemoveFiles(r)
      PROVE  files' \in [Users -> SUBSET Contents] /\ sources' = sources
  BY <1>4 DEF RemoveFiles, TypeOK
<1>5. QED
  BY <1>1, <1>2, <1>3, <1>4
  DEF Next, TypeOK, Tick, RetentionSweep, Logout, BeginLogin, Begin, BeginChange,
      BeginDisable, BeginRevoke, BeginPurge, BeginUpload, CommitLogin, ReadSessions,
      CommitRevoke, CommitChange, CommitDisable, Revoke, RestoreUser, AddUser,
      InsertSource, RollBack

-----------------------------------------------------------------------------
(* What a step does to requests.                                               *)

\* What a request may find when it begins.
Fresh(q) ==
    /\ q \in Request
    /\ Asked(q)
    /\ q.kind \in {"login", "changing", "disabling", "revoking", "purging", "uploading",
                   "capturing"}
    /\ q.kind = "disabling" => q.seen = Unrevoked(q.user)
    /\ Verified(q)

\* The sessions read are positions.
LEMMA UnrevokedType == TypeOK => \A u : Unrevoked(u) \in SUBSET Nat
BY LenProperties DEF TypeOK, Unrevoked

\* Every handler begins with what is true of what it has read.
LEMMA BeginsFresh ==
    ASSUME TypeOK, NEW r \in Requests,
           \/ \E u \in Users, p \in Passwords : BeginLogin(r, u, p)
           \/ \E i \in DOMAIN sessions :
                \/ \E p \in Passwords : BeginChange(r, i, p)
                \/ \E u \in Users :
                      BeginDisable(r, i, u) \/ BeginRevoke(r, i, u) \/ BeginPurge(r, i, u)
                \/ \E kind \in {"uploading", "capturing"}, c \in Contents :
                      BeginUpload(r, i, kind, c)
    PROVE  \E q : Fresh(q) /\ Begin(r, q)
<1>0. \A i \in DOMAIN sessions : sessions[i] # None => sessions[i].user \in Users
  BY ElementOfSeq, LenProperties DEF TypeOK, AuthSession
<1>1. Superusers \subseteq Users
  BY AccountsAssumption
<1>2. ASSUME NEW u \in Users, NEW p \in Passwords, BeginLogin(r, u, p)
      PROVE  \E q : Fresh(q) /\ Begin(r, q)
  <2> DEFINE q == [Resting EXCEPT !.kind = "login", !.user = u, !.password = p,
                                  !.rehash = users[u].stale]
  <2>0. users[u].password = p /\ users[u].stale \in BOOLEAN
    BY <1>2 DEF BeginLogin, Active, Exists, TypeOK, User
  <2>1. Fresh(q)
    BY <2>0 DEF Fresh, Request, Resting, Asked, Administrative, Uploading, Verified
  <2>2. QED
    BY <2>1, <1>2 DEF BeginLogin
<1>3. ASSUME NEW i \in DOMAIN sessions, NEW p \in Passwords, BeginChange(r, i, p)
      PROVE  \E q : Fresh(q) /\ Begin(r, q)
  <2> DEFINE q == [Resting EXCEPT !.kind = "changing", !.actor = sessions[i].user,
                                  !.user = sessions[i].user, !.password = p]
  <2>1. Fresh(q)
    BY <1>0, <1>3 DEF BeginChange, Usable, Fresh, Request, Resting, Asked,
                      Administrative, Uploading, Verified
  <2>2. QED
    BY <2>1, <1>3 DEF BeginChange
<1>4. ASSUME NEW i \in DOMAIN sessions, NEW u \in Users, BeginDisable(r, i, u)
      PROVE  \E q : Fresh(q) /\ Begin(r, q)
  <2> DEFINE q == [Resting EXCEPT !.kind = IF Active(u) THEN "disabling" ELSE "revoking",
                                  !.actor = sessions[i].user,
                                  !.user = u, !.seen = Unrevoked(u)]
  <2>1. Fresh(q)
    BY <1>0, <1>1, <1>4, UnrevokedType
    DEF BeginDisable, Administers, Usable, Target, Fresh, Request, Resting, Asked,
        Administrative, Uploading, Verified
  <2>2. QED
    BY <2>1, <1>4 DEF BeginDisable
<1>5. ASSUME NEW i \in DOMAIN sessions, NEW u \in Users, BeginRevoke(r, i, u)
      PROVE  \E q : Fresh(q) /\ Begin(r, q)
  <2> DEFINE q == [Resting EXCEPT !.kind = "revoking", !.actor = sessions[i].user,
                                  !.user = u, !.seen = Unrevoked(u)]
  <2>1. Fresh(q)
    BY <1>0, <1>5, UnrevokedType
    DEF BeginRevoke, Administers, Usable, Fresh, Request, Resting, Asked,
        Administrative, Uploading, Verified
  <2>2. QED
    BY <2>1, <1>5 DEF BeginRevoke
<1>6. ASSUME NEW i \in DOMAIN sessions, NEW u \in Users, BeginPurge(r, i, u)
      PROVE  \E q : Fresh(q) /\ Begin(r, q)
  <2> DEFINE q == [Resting EXCEPT !.kind = "purging", !.actor = sessions[i].user, !.user = u]
  <2>1. Fresh(q)
    BY <1>0, <1>1, <1>6
    DEF BeginPurge, Administers, Usable, Target, Fresh, Request, Resting, Asked,
        Administrative, Uploading, Verified
  <2>2. QED
    BY <2>1, <1>6 DEF BeginPurge
<1>7. ASSUME NEW i \in DOMAIN sessions, NEW kind \in {"uploading", "capturing"},
             NEW c \in Contents, BeginUpload(r, i, kind, c)
      PROVE  \E q : Fresh(q) /\ Begin(r, q)
  <2> DEFINE q == [Resting EXCEPT !.kind = kind, !.actor = sessions[i].user,
                                  !.user = sessions[i].user, !.content = c]
  <2>1. Fresh(q)
    BY <1>0, <1>7 DEF BeginUpload, Usable, Fresh, Request, Resting, Asked,
                      Administrative, Uploading, Verified
  <2>2. QED
    BY <2>1, <1>7 DEF BeginUpload
<1>8. QED
  BY <1>2, <1>3, <1>4, <1>5, <1>6, <1>7

\* A step of Next is the beginning of a request, the next step of one, its end, or
\* leaves the requests alone.
Advances(r) ==
    \/ ReadSessions(r)
    \/ RemoveFiles(r)
    \/ InsertSource(r)
    \/ StoreFile(r)

Ends(r) ==
    \/ CommitLogin(r) \/ CommitChange(r) \/ CommitDisable(r) \/ CommitRevoke(r)
    \/ CommitPurge(r) \/ CommitUpload(r) \/ RollBack(r)

LEMMA RequestSteps ==
    ASSUME TypeOK, Next
    PROVE  \/ \E r \in Requests : \E q : Fresh(q) /\ Begin(r, q)
           \/ \E r \in Requests : Advances(r)
           \/ \E r \in Requests :
                Ends(r) /\ request' = [request EXCEPT ![r] = Resting]
           \/ UNCHANGED request
<1>1. CASE \E r \in Requests :
             \/ \E u \in Users, p \in Passwords : BeginLogin(r, u, p)
             \/ \E i \in DOMAIN sessions :
                  \/ \E p \in Passwords : BeginChange(r, i, p)
                  \/ \E u \in Users :
                        BeginDisable(r, i, u) \/ BeginRevoke(r, i, u) \/ BeginPurge(r, i, u)
                  \/ \E kind \in {"uploading", "capturing"}, c \in Contents :
                        BeginUpload(r, i, kind, c)
  BY <1>1, BeginsFresh
<1>2. CASE \E r \in Requests : Advances(r)
  BY <1>2
<1>3. CASE \E r \in Requests : Ends(r)
  BY <1>3 DEF Ends, CommitLogin, CommitChange, CommitDisable, CommitRevoke, Revoke,
              CommitPurge, CommitUpload, RollBack
<1>4. CASE UNCHANGED request
  BY <1>4
<1>5. QED
  BY <1>1, <1>2, <1>3, <1>4
  DEF Next, Advances, Ends, Tick, RetentionSweep, Logout, RestoreUser, AddUser

\* A session that could be used and is not among those read is not covered by
\* accident: later steps only make fewer usable.
LEMMA CoversStays ==
    ASSUME TypeOK, Ages, NEW q \in Request, Covers(q)
    PROVE  Covers(q)'
<1>1. q.since \in Nat /\ q.since <= Len(sessions) /\ Len(sessions) \in Nat
  BY LenProperties DEF Covers, Request, TypeOK
<1>2. Len(sessions') \in Nat /\ Len(sessions) <= Len(sessions')
  BY LenProperties DEF Ages
<1>3. \A i \in 1..q.since : i \in DOMAIN sessions
  BY <1>1, LenProperties DEF TypeOK
<1>4. ASSUME q.kind \in {"changed", "disabling"}, NEW i \in 1..q.since,
             sessions'[i] # None, sessions'[i].user = q.user
      PROVE  Dead(i)' \/ i \in q.seen
  <2>1. sessions[i] # None /\ sessions[i].user = q.user
    BY <1>3, <1>4 DEF Ages
  <2>2. Dead(i) \/ i \in q.seen
    BY <2>1, <1>4 DEF Covers
  <2>3. QED
    BY <2>2, <1>3 DEF Ages
<1>5. QED
  BY <1>1, <1>2, <1>4 DEF Covers

\* An account to which a request has pinned a source stays.
LEMMA PinsStay ==
    ASSUME TypeOK, RequestInv, Next, NEW s \in Requests, NEW q, q = request[s]
    PROVE  Pins(q)'
<1> SUFFICES ASSUME q.kind \in Pinning, NEW u, u = q.user PROVE Exists(u)'
  BY DEF Pins
<1>1. u \in Users /\ Exists(u)
  BY DEF RequestInv, Asked, Pins, Pinning
<1>2. ASSUME NEW r \in Requests, CommitPurge(r) PROVE request[r].user # u
  BY <1>2 DEF CommitPurge, Pinning
<1>3. QED
  BY <1>1, <1>2, AccountsStay

\* What was verified is still what a stale hash is of.
LEMMA VerifiedStays ==
    ASSUME TypeOK, RequestInv, Next, NEW s \in Requests, NEW q, q = request[s]
    PROVE  Verified(q)'
<1> SUFFICES ASSUME q.kind = "login", NEW u, u = q.user, Exists(u)', users'[u].stale
             PROVE  users'[u].password = q.password
  BY DEF Verified
<1>1. u \in Users /\ Verified(q)
  BY DEF RequestInv, Asked
<1>2. QED
  BY <1>1, HashesAge DEF Verified

\* What the invariant says of a request, with the value the request has.
Fits(q) == q \in Request /\ Asked(q) /\ Covers(q) /\ Pins(q) /\ Verified(q)

\* The requests, those that go on and the one that takes the step, stay what the
\* invariant says.
LEMMA RequestStays ==
    ASSUME TypeOK, RequestInv, Next, Ages, NEW s \in Requests, NEW n, n = request'[s]
    PROVE  Fits(n)'
<1> PICK m : m = request[s]
  OBVIOUS
<1>1. m \in Request /\ Asked(m) /\ Covers(m) /\ Pins(m) /\ Verified(m)
  BY DEF TypeOK, RequestInv
<1>2. Covers(m)' /\ Pins(m)' /\ Verified(m)'
  BY <1>1, CoversStays, PinsStay, VerifiedStays
<1>3. m = n => Fits(n)'
  BY <1>1, <1>2 DEF Fits, Asked
<1>4. n = Resting => Fits(n)'
  <2> SUFFICES ASSUME n = Resting PROVE Fits(n)'
    OBVIOUS
  <2>1. n \in Request /\ Asked(n)
    BY DEF Resting, Request, Asked, Administrative, Uploading
  <2>2. Covers(n)' /\ Pins(n)' /\ Verified(n)'
    BY LenProperties DEF Covers, Pins, Verified, Resting, Pinning, Ages
  <2>3. QED
    BY <2>1, <2>2 DEF Fits, Asked
<1>5. ASSUME NEW r \in Requests, NEW q, Fresh(q), Begin(r, q) PROVE m = n \/ Fits(n)'
  <2> SUFFICES ASSUME m # n PROVE Fits(n)'
    OBVIOUS
  <2>0. sessions' = sessions /\ now' = now /\ users' = users
        /\ n = [q EXCEPT !.since = Len(sessions)]
    BY <1>5 DEF Begin, TypeOK
  <2>1. Len(sessions) \in Nat /\ DOMAIN sessions = 1..Len(sessions)
    BY LenProperties DEF TypeOK
  <2>2. n \in Request /\ n.since = Len(sessions) /\ n.kind = q.kind /\ n.seen = q.seen
        /\ n.user = q.user /\ n.actor = q.actor /\ n.content = q.content
        /\ n.password = q.password
    BY <2>0, <2>1, <1>5 DEF Fresh, Request
  <2>3. Asked(n)
    BY <2>2, <1>5 DEF Fresh, Asked
  <2>4. Covers(n)'
    BY <2>0, <2>1, <2>2, <1>5 DEF Covers, Fresh, Unrevoked, Dead
  <2>5. Pins(n)' /\ Verified(n)'
    BY <2>0, <2>2, <1>5 DEF Pins, Pinning, Fresh, Verified, Exists
  <2>6. QED
    BY <2>2, <2>3, <2>4, <2>5 DEF Fits, Asked
<1>6. ASSUME NEW r \in Requests, ReadSessions(r) PROVE m = n \/ Fits(n)'
  <2> SUFFICES ASSUME m # n PROVE Fits(n)'
    OBVIOUS
  <2>0. /\ sessions' = sessions /\ now' = now /\ m.kind = "changing"
        /\ n = [m EXCEPT !.kind = "changed", !.seen = Unrevoked(m.user)]
    BY <1>6 DEF ReadSessions, TypeOK
  <2>1. Len(sessions) \in Nat /\ DOMAIN sessions = 1..Len(sessions)
    BY LenProperties DEF TypeOK
  <2> PICK revoked \in SUBSET Nat : revoked = Unrevoked(m.user)
    BY UnrevokedType
  <2>2. n \in Request /\ n.since = m.since /\ n.kind = "changed"
        /\ n.seen = revoked /\ n.user = m.user /\ n.password = m.password
    BY <1>1, <2>0 DEF Request
  <2>3. Asked(n)
    BY <1>1, <2>0, <2>2 DEF Asked, Administrative, Uploading
  <2>4. m.since <= Len(sessions) /\ m.since \in Nat
    BY <1>1 DEF Covers, Request
  <2>5. Covers(n)'
    BY <2>0, <2>1, <2>2, <2>4 DEF Covers, Unrevoked, Dead
  <2>6. Pins(n)' /\ Verified(n)'
    BY <2>2 DEF Pins, Pinning, Verified
  <2>7. QED
    BY <2>2, <2>3, <2>5, <2>6 DEF Fits, Asked
<1>7. ASSUME NEW r \in Requests, RemoveFiles(r) PROVE m = n \/ Fits(n)'
  <2> SUFFICES ASSUME m # n, n # Resting PROVE Fits(n)'
    BY <1>4
  <2>0. m.kind = "purging" /\ n = [m EXCEPT !.kind = "emptied"]
    BY <1>7 DEF RemoveFiles, TypeOK
  <2>1. n \in Request /\ n.kind = "emptied" /\ n.user = m.user /\ n.actor = m.actor
        /\ n.since = m.since
    BY <1>1, <2>0 DEF Request
  <2>2. Asked(n)
    BY <1>1, <2>0, <2>1 DEF Asked, Administrative, Uploading
  <2>3. Covers(n)' /\ Pins(n)' /\ Verified(n)'
    BY <1>2, <2>0, <2>1 DEF Verified, Covers, Pins, Pinning
  <2>4. QED
    BY <2>1, <2>2, <2>3 DEF Fits, Asked
<1>8. ASSUME NEW r \in Requests, InsertSource(r) PROVE m = n \/ Fits(n)'
  <2> SUFFICES ASSUME m # n PROVE Fits(n)'
    OBVIOUS
  <2>0. /\ m.kind = "uploading" /\ users' = users /\ Exists(m.user)
        /\ n = [m EXCEPT !.kind = "inserted"]
    BY <1>8 DEF InsertSource, TypeOK
  <2>1. n \in Request /\ n.kind = "inserted" /\ n.user = m.user /\ n.content = m.content
        /\ n.since = m.since
    BY <1>1, <2>0 DEF Request
  <2>2. Asked(n)
    BY <1>1, <2>0, <2>1 DEF Asked, Administrative, Uploading
  <2>3. Covers(n)' /\ Pins(n)' /\ Verified(n)'
    BY <1>2, <2>0, <2>1 DEF Verified, Covers, Pins, Exists
  <2>4. QED
    BY <2>1, <2>2, <2>3 DEF Fits, Asked
<1>9. ASSUME NEW r \in Requests, StoreFile(r) PROVE m = n \/ Fits(n)'
  <2> SUFFICES ASSUME m # n PROVE Fits(n)'
    OBVIOUS
  <2>0. /\ m.kind \in {"inserted", "capturing"}
        /\ n = [m EXCEPT !.kind = IF m.kind = "inserted" THEN "stored" ELSE "captured"]
    BY <1>9 DEF StoreFile, Storing, TypeOK
  <2>1. /\ n \in Request /\ n.kind \in {"stored", "captured"} /\ n.user = m.user
        /\ n.content = m.content /\ n.since = m.since
        /\ n.kind = "stored" => m.kind = "inserted"
    BY <1>1, <2>0 DEF Request
  <2>2. Asked(n)
    BY <1>1, <2>0, <2>1 DEF Asked, Administrative, Uploading
  <2>3. Covers(n)' /\ Pins(n)' /\ Verified(n)'
    BY <1>2, <2>0, <2>1 DEF Verified, Covers, Pins, Pinning
  <2>4. QED
    BY <2>1, <2>2, <2>3 DEF Fits, Asked
<1>10. ASSUME NEW r \in Requests, request' = [request EXCEPT ![r] = Resting]
       PROVE  m = n \/ n = Resting
  BY <1>10 DEF TypeOK
<1>11. QED
  BY <1>3, <1>4, <1>5, <1>6, <1>7, <1>8, <1>9, <1>10, RequestSteps DEF Advances

-----------------------------------------------------------------------------
(* Theorems.                                                                   *)

LEMMA InitInv == Init => IInv
<1> SUFFICES ASSUME Init PROVE IInv
  OBVIOUS
<1>1. sessions = <<>> /\ <<>> \in Seq(AuthSession \cup {None}) /\ Len(sessions) = 0
  BY EmptySeq DEF Init
<1>2. Resting \in Request /\ Asked(Resting)
  BY DEF Resting, Request, Asked, Administrative, Uploading
<1>3. Covers(Resting) /\ Pins(Resting) /\ Verified(Resting)
  BY <1>1 DEF Covers, Pins, Verified, Resting, Pinning
<1>4. \A r \in Requests : request[r] = Resting
  BY DEF Init
<1>5. TypeOK
  BY <1>1, <1>2, AccountsAssumption DEF Init, TypeOK, User
<1>6. QED
  BY <1>2, <1>3, <1>4, <1>5 DEF IInv, RequestInv

\* The bound on calls is kept.
LEMMA CallsType == TypeOK /\ Next => calls' \in 0..MaxCalls
<1>1. Next => Call \/ UNCHANGED calls
  BY DEF Next, Tick, RetentionSweep, Logout, RestoreUser, AddUser, BeginLogin, Begin,
         BeginChange, BeginDisable, BeginRevoke, BeginPurge, BeginUpload, CommitLogin,
         ReadSessions, CommitChange, Revoke, CommitDisable, CommitRevoke, RemoveFiles,
         CommitPurge, InsertSource, StoreFile, CommitUpload, RollBack
<1>2. TypeOK /\ Call => calls' \in 0..MaxCalls
  BY AccountsAssumption DEF TypeOK, Call
<1>3. TypeOK /\ UNCHANGED calls => calls' \in 0..MaxCalls
  BY DEF TypeOK
<1>4. QED
  BY <1>1, <1>2, <1>3

\* Requests are never added to.
LEMMA RequestsDomain == TypeOK /\ Next => request' = [r \in Requests |-> request'[r]]
BY RequestSteps
DEF TypeOK, Begin, Advances, ReadSessions, RemoveFiles, InsertSource, StoreFile

LEMMA InvStep == IInv /\ [Next]_vars => IInv'
<1> SUFFICES ASSUME IInv, [Next]_vars PROVE IInv'
  OBVIOUS
<1>1. CASE Next
  <2>1. Ages
    BY SessionsAge
  <2>2. \A s \in Requests : \A n : n = request'[s] => Fits(n)'
    BY <1>1, <2>1, RequestStays DEF IInv
  <2>3. request' \in [Requests -> Request]
    BY <1>1, <2>2, RequestsDomain DEF IInv, Fits
  <2>4. RequestInv'
    BY <2>2 DEF RequestInv, Fits, Asked, Covers, Pins, Verified
  <2>5. TypeOK'
    BY <1>1, <2>1, <2>3, TimePasses, UsersType, FilesType, CallsType
    DEF IInv, TypeOK, Ages
  <2>6. QED
    BY <2>4, <2>5 DEF IInv
<1>2. CASE UNCHANGED vars
  BY <1>2 DEF vars, IInv, TypeOK, RequestInv, Asked, Covers, Pins, Verified, Exists, Dead
<1>3. QED
  BY <1>1, <1>2

\* The inductive invariant: who may be acted on, which sessions a request will
\* revoke, and which accounts a source is pinned to.
THEOREM Invariance == Spec => []IInv
<1> QED
  BY InitInv, InvStep, PTL DEF Spec

\* Rows, sessions, files and requests keep their types.
THEOREM TypeCorrect == Spec => []TypeOK
<1>1. IInv => TypeOK
  BY DEF IInv
<1> QED
  BY <1>1, Invariance, PTL

\* A request that commits its revocations leaves no session of its account that was
\* there when it began.
LEMMA RevokesAll ==
    ASSUME IInv, Ages, NEW r \in Requests, Revoke(r),
           request[r].kind \in {"changed", "disabling"},
           NEW i \in 1..request[r].since, sessions[i] # None,
           sessions[i].user = request[r].user
    PROVE  Dead(i)'
<1>1. request[r].since \in Nat /\ request[r].since <= Len(sessions)
  BY DEF IInv, TypeOK, RequestInv, Covers, Request
<1>2. i \in DOMAIN sessions /\ sessions[i] \in AuthSession
  BY <1>1, LenProperties, ElementOfSeq DEF IInv, TypeOK
<1>3. CASE Dead(i)
  BY <1>2, <1>3 DEF Ages
<1>4. CASE i \in request[r].seen
  <2>1. sessions'[i] = [sessions[i] EXCEPT !.revoked = TRUE]
    BY <1>2, <1>4 DEF Revoke
  <2>2. QED
    BY <1>2, <2>1 DEF Dead, AuthSession
<1>5. QED
  BY <1>3, <1>4 DEF IInv, RequestInv, Covers

\* change_password, disable_user and authenticate: whoever changes the password or
\* disables the account leaves none of the sessions that were there, or is a log-in
\* that puts back a password replaced under it.
THEOREM RevocationReachesAllAlways == Spec => RevocationReachesAll
<1> DEFINE Reached ==
      \A u \in Users :
         /\ Exists(u) /\ Exists(u)'
         /\ PasswordChanges(u) \/ IsDisabled(u)
         => \E r \in Requests :
              /\ request[r].user = u
              /\ request'[r] = Resting
              /\ \/ \A i \in 1..request[r].since :
                       sessions[i] # None /\ sessions[i].user = u => Dead(i)'
                 \/ RestoresPassword(r) /\ ~ IsDisabled(u)
<1>1. IInv /\ [Next]_vars => Reached
  <2> SUFFICES ASSUME IInv, [Next]_vars, NEW u \in Users, Exists(u), Exists(u)',
                      PasswordChanges(u) \/ IsDisabled(u)
               PROVE  \E r \in Requests :
                        /\ request[r].user = u
                        /\ request'[r] = Resting
                        /\ \/ \A i \in 1..request[r].since :
                                 sessions[i] # None /\ sessions[i].user = u => Dead(i)'
                           \/ RestoresPassword(r) /\ ~ IsDisabled(u)
    OBVIOUS
  <2>0. users[u] \in User /\ Ages /\ TypeOK /\ RequestInv
    BY SessionsAge DEF Exists, IInv, TypeOK
  <2>1. users'[u] # users[u]
    BY DEF PasswordChanges, IsDisabled
  <2>2. ASSUME NEW i \in DOMAIN sessions, NEW v \in Users, RestoreUser(i, v) PROVE FALSE
    <3>1. users'[u] = [users[u] EXCEPT !.is_active = TRUE]
      BY <2>0, <2>1, <2>2 DEF RestoreUser, TypeOK
    <3>2. users'[u].is_active /\ users'[u].password = users[u].password
      BY <3>1, <2>0 DEF User
    <3>3. QED
      BY <3>2 DEF PasswordChanges, IsDisabled
  <2>3. ASSUME NEW i \in DOMAIN sessions, NEW v \in Users, NEW p \in Passwords,
               AddUser(i, v, p)
        PROVE  FALSE
    BY <2>0, <2>1, <2>3 DEF AddUser, TypeOK, Exists
  <2>4. ASSUME NEW r \in Requests, CommitPurge(r) PROVE FALSE
    BY <2>0, <2>1, <2>4 DEF CommitPurge, TypeOK, Exists
  <2>5. PICK r \in Requests : CommitChange(r) \/ CommitDisable(r) \/ CommitLogin(r)
    BY <2>1, <2>2, <2>3, <2>4
    DEF Next, vars, Tick, RetentionSweep, Logout, BeginLogin, Begin, BeginChange,
        BeginDisable, BeginRevoke, BeginPurge, BeginUpload, ReadSessions,
        CommitRevoke, RemoveFiles, InsertSource, StoreFile, CommitUpload, RollBack
  <2>6. request[r].user = u
    BY <2>0, <2>1, <2>5 DEF CommitChange, CommitDisable, CommitLogin, Rehashed, TypeOK
  <2>7. request'[r] = Resting
    BY <2>0, <2>5 DEF CommitChange, CommitDisable, CommitLogin, Revoke, TypeOK
  <2>8. CASE CommitChange(r) \/ CommitDisable(r)
    <3>1. Revoke(r) /\ request[r].kind \in {"changed", "disabling"}
      BY <2>8 DEF CommitChange, CommitDisable
    <3>2. QED
      BY <2>0, <2>6, <2>7, <3>1, RevokesAll
  <2>9. CASE CommitLogin(r)
    <3>1. /\ request[r].kind = "login" /\ request[r].rehash
          /\ users' = [users EXCEPT ![u].password = request[r].password, ![u].stale = FALSE]
      BY <2>1, <2>6, <2>9 DEF CommitLogin, Rehashed
    <3>2. users'[u] = [users[u] EXCEPT !.password = request[r].password, !.stale = FALSE]
      BY <2>0, <3>1 DEF TypeOK
    <3>3. users'[u].password = request[r].password /\ users'[u].is_active = users[u].is_active
      BY <2>0, <3>2 DEF User
    <3>4. ~ IsDisabled(u) /\ PasswordChanges(u)
      BY <3>3 DEF IsDisabled
    <3>5. ~ users[u].stale
      BY <2>0, <2>6, <3>1, <3>3, <3>4 DEF RequestInv, Verified, PasswordChanges
    <3>6. RestoresPassword(r)
      BY <2>6, <3>1, <3>3, <3>5 DEF RestoresPassword
    <3>7. QED
      BY <2>6, <2>7, <3>4, <3>6
  <2>10. QED
    BY <2>5, <2>8, <2>9
<1>2. QED
  BY <1>1, Invariance, PTL DEF Spec, RevocationReachesAll

\* disable_user and purge_user: the last superuser goes only by the request of one
\* who is gone already.
THEOREM SuperusersGoOnlyTogetherAlways == Spec => SuperusersGoOnlyTogether
<1> DEFINE Together ==
      ActiveSuperusers # {} /\ ActiveSuperusers' = {} =>
         \E r \in Requests :
            /\ request'[r] = Resting
            /\ request[r].actor \in Superusers \ ActiveSuperusers
<1>1. IInv /\ [Next]_vars => Together
  <2> SUFFICES ASSUME IInv, [Next]_vars, NEW u \in Superusers, Active(u),
                      ActiveSuperusers' = {}
               PROVE  \E r \in Requests :
                        /\ request'[r] = Resting
                        /\ request[r].actor \in Superusers \ ActiveSuperusers
    BY DEF ActiveSuperusers
  <2>0. TypeOK /\ RequestInv /\ u \in Users /\ Superusers \subseteq Users
    BY AccountsAssumption DEF IInv
  <2>1. \A v \in Superusers : ~ Active(v)'
    BY DEF ActiveSuperusers
  <2>2. Next
    BY <2>1 DEF vars, Active, Exists
  <2>3. PICK r \in Requests : (CommitDisable(r) \/ CommitPurge(r)) /\ request[r].user = u
    BY <2>0, <2>1, <2>2, AccountsStay DEF Active
  <2>4. request[r].actor \in Superusers /\ request[r].actor # u
    BY <2>0, <2>3 DEF RequestInv, Asked, Administrative, CommitDisable, CommitPurge
  <2>5. users'[request[r].actor] = users[request[r].actor]
    BY <2>0, <2>3, <2>4 DEF CommitDisable, CommitPurge, TypeOK
  <2>6. ~ Active(request[r].actor)
    <3>1. PICK v \in Superusers : v = request[r].actor
      BY <2>4
    <3>2. ~ Active(v)' /\ users'[v] = users[v]
      BY <2>1, <2>5, <3>1
    <3>3. QED
      BY <3>1, <3>2 DEF Active, Exists
  <2>7. request'[r] = Resting
    BY <2>0, <2>3 DEF CommitDisable, CommitPurge, Revoke, TypeOK
  <2>8. QED
    BY <2>4, <2>6, <2>7 DEF ActiveSuperusers
<1>2. QED
  BY <1>1, Invariance, PTL DEF Spec, SuperusersGoOnlyTogether

\* purge_user against upload_source and capture_opportunity_file: only the latter
\* stores a file below an account that is gone.
THEOREM OnlyCapturesOutlivePurgeAlways == Spec => OnlyCapturesOutlivePurge
<1> DEFINE Outlives ==
      \A u \in Users :
         users[u] = Gone /\ ~ (files'[u] \subseteq files[u]) =>
            \E r \in Requests : request[r].kind = "capturing" /\ request[r].user = u
<1>1. IInv /\ [Next]_vars => Outlives
  <2> SUFFICES ASSUME IInv, [Next]_vars, NEW u \in Users, users[u] = Gone,
                      ~ (files'[u] \subseteq files[u])
               PROVE  \E r \in Requests : request[r].kind = "capturing" /\ request[r].user = u
    OBVIOUS
  <2>0. TypeOK /\ RequestInv
    BY DEF IInv
  <2>1. ASSUME NEW r \in Requests, RemoveFiles(r) PROVE FALSE
    BY <2>0, <2>1 DEF RemoveFiles, TypeOK
  <2>2. \E r \in Requests : StoreFile(r)
    BY <2>1
    DEF Next, vars, Tick, RetentionSweep, Logout, BeginLogin, Begin, BeginChange,
        BeginDisable, BeginRevoke, BeginPurge, BeginUpload, CommitLogin, ReadSessions,
        CommitRevoke, CommitChange, CommitDisable, Revoke, RestoreUser, AddUser,
        CommitPurge, InsertSource, CommitUpload, RollBack
  <2>3. PICK r \in Requests : StoreFile(r)
    BY <2>2
  <2>4. request[r].user = u
    BY <2>0, <2>3 DEF StoreFile, TypeOK
  <2>5. request[r].kind # "inserted"
    BY <2>0, <2>4 DEF RequestInv, Pins, Pinning, Exists
  <2>6. QED
    BY <2>3, <2>4, <2>5 DEF StoreFile, Storing
<1>2. QED
  BY <1>1, Invariance, PTL DEF Spec, OnlyCapturesOutlivePurge

-----------------------------------------------------------------------------
\* The queue of sources.

\* A row that was never inserted has no document and no holder.
AbsentInv ==
    \A s \in Sources :
        status[s] = "absent" => ~stored[s] /\ \A w \in Workers : ~Holds(w, s)

\* Unless it was requeued, a held row is still marked as being processed.
HolderInv ==
    \A w \in Workers : \A s \in Sources :
        Holds(w, s) /\ s \notin requeued => status[s] \in {"processing", "deleted"}

\* A worker does not have the source it is processing in its batch as well.
JobInv == \A w \in Workers : job[w] \notin batch[w]

\* Worker w will write a settled status to s, or hand it over at its exit.
Answers(w, s) == s \in batch[w] \/ (job[w] = s /\ loaded[w] = "processing")

\* A row being processed is answered for, unless a process took it with it.
AnswerInv ==
    \A s \in Sources :
        status[s] = "processing" /\ stored[s] /\ s \notin dropped
            => \E w \in Workers : Answers(w, s)

QueueIInv ==
    /\ QueueTypeOK
    /\ AbsentInv
    /\ HolderInv
    /\ ExclusiveProcessing
    /\ JobInv
    /\ AnswerInv

(***************************************************************************)
(* Type correctness.                                                       *)
(***************************************************************************)

\* Every step keeps the types of the columns and of the processes' memory.
LEMMA TypeStep == QueueTypeOK /\ AbsentInv /\ [QueueNext]_queueVars => QueueTypeOK'
<1> SUFFICES ASSUME QueueTypeOK, AbsentInv, [QueueNext]_queueVars PROVE QueueTypeOK'
  OBVIOUS
<1> USE DEF QueueTypeOK, Present, Settled, Missing, rowVars, workerVars
<1>1. ASSUME NEW s \in Sources, Capture(s) PROVE QueueTypeOK'
  BY <1>1 DEF Capture, Write
<1>2. ASSUME NEW s \in Sources, Snapshot(s) PROVE QueueTypeOK'
  BY <1>2 DEF Snapshot, Write
<1>3. ASSUME NEW s \in Sources, Retry(s) PROVE QueueTypeOK'
  BY <1>3 DEF Retry, Write
<1>4. ASSUME NEW s \in Sources, Age(s) PROVE QueueTypeOK'
  BY <1>4 DEF Age
<1>5. ASSUME ImportProfile PROVE QueueTypeOK'
  <2>1. PICK new \in SUBSET {s \in Sources : status[s] = "absent"},
             st \in Present, replace \in BOOLEAN :
           /\ status' = [s \in Sources |->
                           IF s \in new THEN st
                           ELSE IF replace /\ status[s] # "absent" THEN "deleted"
                           ELSE status[s]]
           /\ stale' = [s \in Sources |-> IF s \in new THEN FALSE ELSE stale[s]]
           /\ UNCHANGED <<stored, workerVars, boots, requeued, dropped>>
    BY <1>5, Zenon DEF ImportProfile
  <2>2. status' \in [Sources -> Present \cup Missing]
    BY <2>1
  <2>3. stale' \in [Sources -> BOOLEAN]
    BY <2>1
  <2>4. QED
    BY <2>1, <2>2, <2>3
<1>6. ASSUME NEW w \in Workers, BootWorker(w) PROVE QueueTypeOK'
  BY <1>6, BoundsAssumption DEF BootWorker
<1>7. ASSUME NEW w \in Workers, RecoverCommit(w) PROVE QueueTypeOK'
  BY <1>7 DEF RecoverCommit
<1>8. ASSUME NEW w \in Workers, Exit(w) PROVE QueueTypeOK'
  BY <1>8 DEF Exit
<1>9. ASSUME NEW w \in Workers, ClaimSources(w) PROVE QueueTypeOK'
  <2>1. PICK claimed \in SUBSET Sources :
           /\ status' = [s \in Sources |->
                           IF s \in claimed THEN "processing" ELSE status[s]]
           /\ stale' = [s \in Sources |-> IF s \in claimed THEN FALSE ELSE stale[s]]
           /\ batch' = [batch EXCEPT ![w] = claimed]
    BY <1>9 DEF ClaimSources
  <2>2. QED
    BY <1>9, <2>1 DEF ClaimSources
<1>10. ASSUME NEW w \in Workers, NEW s \in Sources, NotFound(w, s) PROVE QueueTypeOK'
  BY <1>10 DEF NotFound
<1>11. ASSUME NEW w \in Workers, NEW s \in Sources, TakeUp(w, s) PROVE QueueTypeOK'
  <2>1. status[s] \in Present
    BY <1>11 DEF TakeUp, AbsentInv
  <2>2. QED
    BY <1>11, <2>1 DEF TakeUp
<1>12. ASSUME NEW w \in Workers, NEW s \in Sources, NEW st \in Settled,
              Finish(w, s, st)
       PROVE QueueTypeOK'
  BY <1>12 DEF Finish, Write
<1>13. CASE UNCHANGED queueVars
  BY <1>13 DEF queueVars
<1>14. QED
  BY <1>1, <1>2, <1>3, <1>4, <1>5, <1>6, <1>7, <1>8, <1>9, <1>10, <1>11, <1>12,
     <1>13 DEF QueueNext, Process, RecoverFails, StopWorker, FinishFails

(***************************************************************************)
(* The inductive invariant.                                                *)
(***************************************************************************)

\* The empty queue satisfies the invariant.
LEMMA QueueInitInv == QueueInit => QueueIInv
BY SourceAssumption, BoundsAssumption
   DEF QueueInit, QueueIInv, QueueTypeOK, AbsentInv, HolderInv, ExclusiveProcessing, JobInv, AnswerInv,
       Holds, Present, Settled, Missing

\* Every step preserves it: one step of the proof per action of QueueNext.
LEMMA QueueInvStep == QueueIInv /\ [QueueNext]_queueVars => QueueIInv'
<1> SUFFICES ASSUME QueueIInv, [QueueNext]_queueVars PROVE QueueIInv'
  OBVIOUS
<1>0. QueueTypeOK'
  BY TypeStep DEF QueueIInv
<1> DEFINE Rest == AbsentInv /\ HolderInv /\ ExclusiveProcessing /\ JobInv
                  /\ AnswerInv
<1> SUFFICES Rest'
  BY <1>0 DEF QueueIInv
<1> USE <1>0, SourceAssumption DEF QueueIInv, QueueTypeOK, AbsentInv, HolderInv,
        ExclusiveProcessing, JobInv, AnswerInv, Answers, Holds, Settled, Present, Missing,
        rowVars, workerVars
<1>1. ASSUME NEW s \in Sources, Capture(s) PROVE Rest'
  BY <1>1 DEF Capture, Write
<1>2. ASSUME NEW s \in Sources, Snapshot(s) PROVE Rest'
  BY <1>2 DEF Snapshot, Write
<1>3. ASSUME NEW s \in Sources, Retry(s) PROVE Rest'
  BY <1>3 DEF Retry, Write, HeldNow
<1>4. ASSUME NEW s \in Sources, Age(s) PROVE Rest'
  BY <1>4 DEF Age
<1>5. ASSUME ImportProfile PROVE Rest'
  BY <1>5 DEF ImportProfile
<1>6. ASSUME NEW w \in Workers, BootWorker(w) PROVE Rest'
  BY <1>6 DEF BootWorker
<1>7. ASSUME NEW w \in Workers, RecoverCommit(w) PROVE Rest'
  BY <1>7 DEF RecoverCommit, HeldNow
<1>8. ASSUME NEW w \in Workers, Exit(w) PROVE Rest'
  BY <1>8 DEF Exit
<1>9. ASSUME NEW w \in Workers, ClaimSources(w) PROVE Rest'
  <2>1. PICK claimed \in SUBSET Sources :
           /\ \A s \in claimed : status[s] = "pending"
           /\ status' = [s \in Sources |->
                           IF s \in claimed THEN "processing" ELSE status[s]]
           /\ batch' = [batch EXCEPT ![w] = claimed]
           /\ UNCHANGED <<stored, pc, job, loaded, seen, requeued, dropped>>
           /\ batch[w] = {} /\ job[w] = NoSource
    BY <1>9 DEF ClaimSources
  <2>2. AbsentInv' /\ HolderInv' /\ JobInv' /\ AnswerInv'
    BY <2>1
  <2>3. ExclusiveProcessing'
    BY <2>1
  <2>4. QED
    BY <2>2, <2>3
<1>10. ASSUME NEW w \in Workers, NEW s \in Sources, NotFound(w, s) PROVE Rest'
  BY <1>10 DEF NotFound
<1>11. ASSUME NEW w \in Workers, NEW s \in Sources, TakeUp(w, s) PROVE Rest'
  BY <1>11 DEF TakeUp
<1>12. ASSUME NEW w \in Workers, NEW s \in Sources, NEW st \in Settled,
              Finish(w, s, st)
       PROVE Rest'
  <2>1. /\ job[w] = s /\ status[s] # "deleted"
        /\ job' = [job EXCEPT ![w] = NoSource]
        /\ status' = [status EXCEPT ![s] = IF loaded[w] = st THEN status[s] ELSE st]
        /\ UNCHANGED <<stored, pc, batch, loaded, seen, boots, requeued, dropped>>
    BY <1>12 DEF Finish, Write
  <2>2. AbsentInv' /\ ExclusiveProcessing' /\ JobInv'
    BY <2>1
  <2>3. HolderInv'
    BY <2>1
  <2>4. ASSUME NEW t \in Sources, status'[t] = "processing", stored'[t],
               t \notin dropped'
        PROVE \E v \in Workers : Answers(v, t)'
    <3>1. status[t] = "processing" /\ stored[t] /\ t \notin dropped
      BY <2>1, <2>4
    <3>2. PICK v \in Workers : Answers(v, t)
      BY <3>1
    <3>3. CASE v # w \/ t \in batch[v]
      BY <2>1, <3>2, <3>3
    <3>4. CASE v = w /\ t \notin batch[v]
      <4>1. t = s /\ loaded[w] = "processing"
        BY <2>1, <3>2, <3>4
      <4>2. status'[s] = st
        BY <2>1, <4>1
      <4>3. QED
        BY <4>1, <4>2, <2>4
    <3>5. QED
      BY <3>3, <3>4
  <2>5. QED
    BY <2>2, <2>3, <2>4
<1>13. CASE UNCHANGED queueVars
  BY <1>13 DEF queueVars
<1>14. QED
  BY <1>1, <1>2, <1>3, <1>4, <1>5, <1>6, <1>7, <1>8, <1>9, <1>10, <1>11, <1>12,
     <1>13 DEF QueueNext, Process, RecoverFails, StopWorker, FinishFails

\* The invariant holds in every reachable state.
THEOREM QueueInvariance == QueueSpec => []QueueIInv
BY QueueInitInv, QueueInvStep, PTL DEF QueueSpec

(***************************************************************************)
(* The properties of SourceQueue.                                          *)
(***************************************************************************)

\* The columns of a source and the memory of a worker keep their types.
THEOREM QueueTypeCorrect == QueueSpec => []QueueTypeOK
<1>1. QueueIInv => QueueTypeOK
  BY DEF QueueIInv
<1>2. QED
  BY <1>1, QueueInvariance, PTL

\* No two workers have one source in their hands, except after a requeue.
THEOREM ExclusiveProcessingAlways == QueueSpec => []ExclusiveProcessing
<1>1. QueueIInv => ExclusiveProcessing
  BY DEF QueueIInv
<1>2. QED
  BY <1>1, QueueInvariance, PTL

\* A source that is shown as processing has a worker, or had one that ended.
THEOREM NoLeakAlways == QueueSpec => []NoLeak
<1>1. QueueIInv => NoLeak
  BY DEF QueueIInv, NoLeak, AnswerInv, Answers, HeldNow, Holds
<1>2. QED
  BY <1>1, QueueInvariance, PTL

\* A settled status is left for the queue or by deletion, or after a requeue.
THEOREM SettledIsKeptAlways == QueueSpec => SettledIsKept
<1> DEFINE Kept == \A s \in Sources :
          status[s] \in Settled /\ status'[s] # status[s]
              => \/ status'[s] \in {"pending", "deleted"}
                 \/ s \in requeued
<1>1. QueueIInv /\ [QueueNext]_queueVars => [Kept]_queueVars
  <2> SUFFICES ASSUME QueueIInv, QueueNext PROVE Kept
    BY DEF Kept
  <2> USE DEF QueueIInv, QueueTypeOK, HolderInv, Holds, Settled, Present, Missing,
              rowVars, workerVars
  <2>1. ASSUME NEW s \in Sources, Capture(s) \/ Snapshot(s) \/ Retry(s) \/ Age(s)
        PROVE Kept
    BY <2>1 DEF Capture, Snapshot, Retry, Age, Write
  <2>2. ASSUME ImportProfile PROVE Kept
    BY <2>2 DEF ImportProfile
  <2>3. ASSUME NEW w \in Workers, BootWorker(w) PROVE Kept
    BY <2>3 DEF BootWorker
  <2>4. ASSUME NEW w \in Workers, RecoverCommit(w) PROVE Kept
    BY <2>4 DEF RecoverCommit
  <2>5. ASSUME NEW w \in Workers, Exit(w) PROVE Kept
    BY <2>5 DEF Exit
  <2>6. ASSUME NEW w \in Workers, ClaimSources(w) PROVE Kept
    BY <2>6 DEF ClaimSources
  <2>7. ASSUME NEW w \in Workers, NEW s \in Sources, NotFound(w, s) \/ TakeUp(w, s)
        PROVE Kept
    BY <2>7 DEF NotFound, TakeUp
  <2>8. ASSUME NEW w \in Workers, NEW s \in Sources, NEW st \in Settled,
               Finish(w, s, st)
        PROVE Kept
    BY <2>8 DEF Finish, Write
  <2>9. QED
    BY <2>1, <2>2, <2>3, <2>4, <2>5, <2>6, <2>7, <2>8
       DEF QueueNext, Process, RecoverFails, StopWorker, FinishFails
<1>2. QED
  BY <1>1, QueueInvariance, PTL DEF QueueSpec, SettledIsKept

=============================================================================
