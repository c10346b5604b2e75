------------------------------- MODULE Pipeline -------------------------------
(* The candidate's pipeline: applications with their stage and its history,    *)
(* contacts, and tasks of the career calendar.                                 *)
(*                                                                             *)
(* An action is a transaction at its commit. A stage change reads the          *)
(* application without a lock and writes the row by its key later, so it is    *)
(* two steps. The other handlers read only to refuse; what they insert or      *)
(* write is decided at their commit, by foreign keys, by the unique constraint *)
(* on (workspace_id, opportunity_id), and by a row that is there or not: one   *)
(* step, and a refused or failed request is none.                              *)
EXTENDS Naturals, Sequences, FiniteSets

CONSTANTS
    Opportunities, \* saved opportunities; each identifies its only application
    Contacts,      \* identities of contacts rows
    Tasks,         \* identities of career_tasks rows
    Requests,      \* concurrent stage changes
    None,          \* a null column, or a row that is not there
    MaxEvents      \* bound: changes are asked for up to so many events

ASSUME BoundAssumption == MaxEvents \in Nat

VARIABLES
    saved,       \* opportunities that are not deleted
    application, \* opportunity -> row of applications, or None
    history,     \* opportunity -> stage_events of its application, oldest first
    contact,     \* contact -> [application] or None
    task,        \* task -> [application, contact, done] or None
    request      \* request -> the stage change it has checked, or None

vars == <<saved, application, history, contact, task, request>>

\* TRANSITIONS: the stages that may follow each stage.
Transitions ==
    [saved     |-> {"preparing", "withdrawn"},
     preparing |-> {"saved", "applied", "withdrawn"},
     applied   |-> {"screening", "interview", "rejected", "withdrawn"},
     screening |-> {"interview", "offer", "rejected", "withdrawn"},
     interview |-> {"interview", "offer", "rejected", "withdrawn"},
     offer     |-> {"accepted", "rejected", "withdrawn"},
     accepted  |-> {},
     withdrawn |-> {},
     rejected  |-> {}]

Stages == {"saved", "preparing", "applied", "screening", "interview", "offer",
           "accepted", "withdrawn", "rejected"}

Terminal == {"accepted", "withdrawn", "rejected"}

\* A row of applications: its stage, and whether applied_at and closed_at are set.
Application == [stage : Stages, applied : BOOLEAN, closed : BOOLEAN]

\* A row of stage_events; from_stage is null in the first one.
Event == [from : Stages \cup {None}, to : Stages]

Contact == [application : Opportunities \cup {None}]

Task == [application : Opportunities \cup {None},
         contact : Contacts \cup {None}, done : BOOLEAN]

Change == [application : Opportunities, from : Stages, to : Stages]

ASSUME NullAssumption ==
    /\ None \notin Opportunities \cup Contacts \cup Stages
    /\ None \notin Application
    /\ None \notin Contact
    /\ None \notin Task
    /\ None \notin Change

TypeOK ==
    /\ saved \subseteq Opportunities
    /\ application \in [Opportunities -> Application \cup {None}]
    /\ history \in [Opportunities -> Seq(Event)]
    /\ contact \in [Contacts -> Contact \cup {None}]
    /\ task \in [Tasks -> Task \cup {None}]
    /\ request \in [Requests -> Change \cup {None}]

Init ==
    /\ saved = Opportunities
    /\ application = [o \in Opportunities |-> None]
    /\ history = [o \in Opportunities |-> <<>>]
    /\ contact = [c \in Contacts |-> None]
    /\ task = [t \in Tasks |-> None]
    /\ request = [r \in Requests |-> None]

\* The foreign keys: an application, or a contact, that a row may refer to.
LinkableApplications == {o \in Opportunities : application[o] # None} \cup {None}
LinkableContacts == {c \in Contacts : contact[c] # None} \cup {None}

\* The bound on events: changes are only asked for while there are fewer.
Room ==
    Cardinality({e \in Opportunities \X (1..MaxEvents) : e[2] <= Len(history[e[1]])})
        < MaxEvents

(***************************************************************************)
(* Applications.                                                           *)
(***************************************************************************)

\* create_application starts the row and its history.
CreateApplication(o) ==
    /\ o \in saved
    /\ application[o] = None
    /\ application' = [application EXCEPT ![o] =
          [stage |-> "saved", applied |-> FALSE, closed |-> FALSE]]
    /\ history' = [history EXCEPT ![o] = <<[from |-> None, to |-> "saved"]>>]
    /\ UNCHANGED <<saved, contact, task, request>>

\* Mutated ReadStage: the transition is not looked up.
ReadAnyStage(r, o) ==
    /\ request[r] = None
    /\ application[o] # None
    /\ Room
    /\ \E to \in Stages :
          request' = [request EXCEPT ![r] =
              [application |-> o, from |-> application[o].stage, to |-> to]]
    /\ UNCHANGED <<saved, application, history, contact, task>>

\* change_stage reads the application and accepts a legal transition.
ReadStage(r, o) ==
    /\ request[r] = None
    /\ application[o] # None
    /\ Room
    /\ \E to \in Transitions[application[o].stage] :
          request' = [request EXCEPT ![r] =
              [application |-> o, from |-> application[o].stage, to |-> to]]
    /\ UNCHANGED <<saved, application, history, contact, task>>

\* Mutated Changed: the stage it was asked for is always written.
ChangedAlways(row, change) ==
    [stage   |-> change.to,
     applied |-> row.applied \/ change.to = "applied",
     closed  |-> row.closed \/ change.to \in Terminal]

\* What a change writes into the row: the columns it has changed. Another
\* interview writes none.
Changed(row, change) ==
    [stage   |-> IF change.from = change.to THEN row.stage ELSE change.to,
     applied |-> row.applied \/ change.to = "applied",
     closed  |-> row.closed \/ change.to \in Terminal]

\* change_stage commits the row and appends the event.
CommitStage(r, o) ==
    /\ request[r] # None
    /\ request[r].application = o
    /\ application[o] # None
    /\ application' = [application EXCEPT ![o] = Changed(@, request[r])]
    /\ history' = [history EXCEPT ![o] =
          Append(@, [from |-> request[r].from, to |-> request[r].to])]
    /\ request' = [request EXCEPT ![r] = None]
    /\ UNCHANGED <<saved, contact, task>>

\* The transaction fails: the application is gone, or the process ends.
AbortStage(r) ==
    /\ request[r] # None
    /\ request' = [request EXCEPT ![r] = None]
    /\ UNCHANGED <<saved, application, history, contact, task>>

(***************************************************************************)
(* Contacts and tasks.                                                     *)
(***************************************************************************)

\* create_contact.
CreateContact(c) ==
    /\ contact[c] = None
    /\ \E a \in LinkableApplications :
          contact' = [contact EXCEPT ![c] = [application |-> a]]
    /\ UNCHANGED <<saved, application, history, task, request>>

\* update_contact may link the contact to another application, whatever tasks
\* refer to it.
UpdateContact(c) ==
    /\ contact[c] # None
    /\ \E a \in LinkableApplications :
          contact' = [contact EXCEPT ![c].application = a]
    /\ UNCHANGED <<saved, application, history, task, request>>

\* What the foreign keys of tasks do when contacts are deleted, on tasks of
\* applications that remain: the link is set to null.
Unlinked(row, gone) ==
    IF row # None /\ row.contact \in gone THEN [row EXCEPT !.contact = None] ELSE row

\* Mutated DeleteContact: its tasks are deleted with it.
DeleteWithTasks(c) ==
    /\ contact[c] # None
    /\ contact' = [contact EXCEPT ![c] = None]
    /\ task' = [t \in Tasks |->
          IF task[t] # None /\ task[t].contact = c THEN None ELSE task[t]]
    /\ UNCHANGED <<saved, application, history, request>>

\* delete_contact retains meetings with a cleared link.
DeleteContact(c) ==
    /\ contact[c] # None
    /\ contact' = [contact EXCEPT ![c] = None]
    /\ task' = [t \in Tasks |-> Unlinked(task[t], {c})]
    /\ UNCHANGED <<saved, application, history, request>>

\* The contact belongs to no application, or the task does not name another.
Belongs(c, a) ==
    c # None /\ a # None => contact[c].application \in {None, a}

\* create_task. A contact that is moved between its check and the insertion
\* leaves what moving it afterwards leaves.
CreateTask(t) ==
    /\ task[t] = None
    /\ \E a \in LinkableApplications, c \in LinkableContacts :
          /\ Belongs(c, a)
          /\ task' = [task EXCEPT ![t] =
                [application |-> a, contact |-> c, done |-> FALSE]]
    /\ UNCHANGED <<saved, application, history, contact, request>>

\* calendar_import adds a task without links for every event it does not know;
\* recommendation_task adds one.
ImportTasks(new) ==
    /\ new # {}
    /\ \A t \in new : task[t] = None
    /\ task' = [t \in Tasks |->
          IF t \in new THEN [application |-> None, contact |-> None, done |-> FALSE]
                       ELSE task[t]]
    /\ UNCHANGED <<saved, application, history, contact, request>>

\* complete_task.
CompleteTask(t) ==
    /\ task[t] # None
    /\ task' = [task EXCEPT ![t].done = TRUE]
    /\ UNCHANGED <<saved, application, history, contact, request>>

(***************************************************************************)
(* delete_opportunity deletes the application with its events, contacts    *)
(* and tasks (ON DELETE CASCADE), and clears links to those contacts.      *)
(***************************************************************************)

ContactsOf(o) == {c \in Contacts : contact[c] # None /\ contact[c].application = o}

\* Mutated DeleteOpportunity: links to the contacts it deletes are not cleared.
DeleteUncleared(o) ==
    /\ o \in saved
    /\ saved' = saved \ {o}
    /\ application' = [application EXCEPT ![o] = None]
    /\ history' = [history EXCEPT ![o] = <<>>]
    /\ contact' = [c \in Contacts |-> IF c \in ContactsOf(o) THEN None ELSE contact[c]]
    /\ task' = [t \in Tasks |->
          IF task[t] # None /\ task[t].application = o THEN None ELSE task[t]]
    /\ UNCHANGED request

DeleteOpportunity(o) ==
    /\ o \in saved
    /\ saved' = saved \ {o}
    /\ application' = [application EXCEPT ![o] = None]
    /\ history' = [history EXCEPT ![o] = <<>>]
    /\ contact' = [c \in Contacts |-> IF c \in ContactsOf(o) THEN None ELSE contact[c]]
    /\ task' = [t \in Tasks |->
          IF task[t] # None /\ task[t].application = o
              THEN None ELSE Unlinked(task[t], ContactsOf(o))]
    /\ UNCHANGED request

Next ==
    \/ \E o \in Opportunities :
          \/ CreateApplication(o) \/ DeleteOpportunity(o)
          \/ \E r \in Requests : ReadStage(r, o) \/ CommitStage(r, o)
    \/ \E r \in Requests : AbortStage(r)
    \/ \E c \in Contacts : CreateContact(c) \/ UpdateContact(c) \/ DeleteContact(c)
    \/ \E t \in Tasks : CreateTask(t) \/ CompleteTask(t)
    \/ \E new \in SUBSET Tasks : ImportTasks(new)

Spec == Init /\ [][Next]_vars

(***************************************************************************)
(* Safety.                                                                 *)
(***************************************************************************)

\* The history of every application starts at "saved", each event is a legal
\* transition, and it leaves a stage that an earlier event has reached: overlapping
\* requests may branch the history, but never invent a stage.
HistoryIsConnected ==
    \A o \in Opportunities : \A i \in DOMAIN history[o] :
        LET e == history[o][i] IN
        IF i = 1
            THEN e = [from |-> None, to |-> "saved"]
            ELSE /\ e.to \in Transitions[e.from]
                 /\ \E j \in 1..(i - 1) : history[o][j].to = e.from

\* The index of an event that moves to another stage; none does after it.
LastMove(h, i) == h[i].from # h[i].to /\ \A j \in (i + 1)..Len(h) : h[j].from = h[j].to

\* However requests overlap, the row is what the history says: its stage is where the
\* last event that moves has moved to, and it has an application or closing date
\* exactly if some event applied or closed.
RowFollowsHistory ==
    \A o \in Opportunities : application[o] # None =>
        /\ \E i \in DOMAIN history[o] :
              LastMove(history[o], i) /\ history[o][i].to = application[o].stage
        /\ application[o].applied <=>
              \E i \in DOMAIN history[o] : history[o][i].to = "applied"
        /\ application[o].closed <=>
              \E i \in DOMAIN history[o] : history[o][i].to \in Terminal

\* Deleting an opportunity or a contact leaves nothing that refers to what is gone:
\* events, contacts and tasks only name rows that are there.
LinksResolve ==
    /\ \A o \in Opportunities : application[o] = None => history[o] = <<>>
    /\ \A o \in Opportunities : application[o] # None => o \in saved
    /\ \A c \in Contacts : contact[c] # None =>
          contact[c].application \in LinkableApplications
    /\ \A t \in Tasks : task[t] # None =>
          /\ task[t].application \in LinkableApplications
          /\ task[t].contact \in LinkableContacts

\* A task or meeting disappears only with its application. While it is there it stays
\* with that application and stays done, and loses its contact only when the contact
\* is deleted, never to get another.
MeetingsSurvive ==
    [][\A t \in Tasks : task[t] # None =>
          IF task'[t] = None
              THEN \E o \in saved \ saved' : task[t].application = o
              ELSE /\ task'[t].application = task[t].application
                   /\ task[t].done => task'[t].done
                   /\ task'[t].contact # task[t].contact =>
                         /\ task'[t].contact = None
                         /\ contact'[task[t].contact] = None]_vars

\* ADR 0015: terminal states are intentionally closed. A change that was checked
\* before another request closed the application reopens it.
TerminalStaysClosed ==
    [][\A o \in Opportunities :
          application[o] # None /\ application'[o] # None
              => (application[o].stage \in Terminal
                      => application'[o].stage = application[o].stage)]_vars

=============================================================================
