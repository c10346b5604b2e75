-------------------------- MODULE OpportunityProofs --------------------------
(* Proofs about opportunities: their applications (Pipeline) and their         *)
(* versions and requirements (OpportunityRevisions), for any number of rows,   *)
(* of overlapping requests and of workers.                                     *)
(* Applications: a request that is still open has checked a stage which the    *)
(* history of its application had reached, and histories only grow while       *)
(* their application is there; an identity that was deleted never comes back.  *)
(* Versions: a writer whose revision is not taken yet has read the newest      *)
(* version, because every version from 2 on is recorded; while the version     *)
(* has not moved the requirement rows can only have shrunk since it read them; *)
(* so it deletes all of them and adds its own.                                 *)
EXTENDS Pipeline, OpportunityRevisions, TLAPS

-----------------------------------------------------------------------------
\* Applications.

\* An open request is a legal transition from a stage in the history of its
\* application, or the opportunity has been deleted since.
RequestInv ==
    \A r \in Requests : request[r] # None =>
        LET o == request[r].application IN
        /\ request[r].to \in Transitions[request[r].from]
        /\ application[o] = None => o \notin saved
        /\ application[o] # None =>
              \E j \in DOMAIN history[o] : history[o][j].to = request[r].from

IInv ==
    /\ TypeOK
    /\ HistoryIsConnected
    /\ RowFollowsHistory
    /\ LinksResolve
    /\ RequestInv

\* The steps on contacts and tasks.
Side ==
    \/ \E c \in Contacts : CreateContact(c) \/ UpdateContact(c) \/ DeleteContact(c)
    \/ \E t \in Tasks : CreateTask(t) \/ CompleteTask(t)
    \/ \E new \in SUBSET Tasks : ImportTasks(new)

\* Steps on contacts and tasks leave applications, histories and requests alone.
LEMMA SideFrame ==
    ASSUME Side
    PROVE  UNCHANGED <<saved, application, history, request>>
BY DEF Side, CreateContact, UpdateContact, DeleteContact, CreateTask, CompleteTask,
   ImportTasks

\* What follows a stage is a stage.
LEMMA TransitionsType ==
    \A s \in Stages : Transitions[s] \in SUBSET Stages
BY DEF Transitions, Stages

\* A changed row is a row.
LEMMA ChangedType ==
    ASSUME NEW row \in Application, NEW q \in Change
    PROVE  Changed(row, q) \in Application
BY DEF Application, Change, Changed

\* A task whose contact is gone is a task, linked to the same application.
LEMMA UnlinkedType ==
    ASSUME NEW row \in Task \cup {None}, NEW gone
    PROVE  /\ Unlinked(row, gone) \in Task \cup {None}
           /\ Unlinked(row, gone) = None <=> row = None
BY NullAssumption DEF Unlinked, Task

\* Only a link to a contact that is gone is cleared, and nothing else.
LEMMA UnlinkedFields ==
    ASSUME NEW row \in Task, NEW gone
    PROVE  /\ Unlinked(row, gone).application = row.application
           /\ Unlinked(row, gone).done = row.done
           /\ row.contact \in gone => Unlinked(row, gone).contact = None
           /\ row.contact \notin gone => Unlinked(row, gone).contact = row.contact
<1>1. row # None
  BY NullAssumption
<1>2. CASE row.contact \in gone
  <2>1. Unlinked(row, gone) = [row EXCEPT !.contact = None]
    BY <1>1, <1>2 DEF Unlinked
  <2>2. QED
    BY <1>2, <2>1 DEF Task
<1>3. CASE row.contact \notin gone
  BY <1>3 DEF Unlinked
<1>4. QED
  BY <1>2, <1>3

(***************************************************************************)
(* Type correctness.                                                       *)
(***************************************************************************)

\* Every step keeps the types of the tables and of the open requests.
LEMMA TypeStep == TypeOK /\ [Next]_vars => TypeOK'
<1> SUFFICES ASSUME TypeOK, [Next]_vars PROVE TypeOK'
  OBVIOUS
<1> USE DEF TypeOK
<1>1. ASSUME NEW o \in Opportunities, CreateApplication(o) PROVE TypeOK'
  <2>1. /\ [stage |-> "saved", applied |-> FALSE, closed |-> FALSE] \in Application
        /\ [from |-> None, to |-> "saved"] \in Event
    BY DEF Application, Event, Stages
  <2>2. <<[from |-> None, to |-> "saved"]>> \in Seq(Event)
    BY <2>1
  <2>3. QED
    BY <1>1, <2>1, <2>2 DEF CreateApplication
<1>2. ASSUME NEW o \in Opportunities, DeleteOpportunity(o) PROVE TypeOK'
  <2>1. task' \in [Tasks -> Task \cup {None}]
    BY <1>2, UnlinkedType DEF DeleteOpportunity
  <2>2. <<>> \in Seq(Event)
    OBVIOUS
  <2>3. QED
    BY <1>2, <2>1, <2>2 DEF DeleteOpportunity
<1>3. ASSUME NEW r \in Requests, NEW o \in Opportunities, ReadStage(r, o) PROVE TypeOK'
  <2>1. application[o] \in Application
    BY <1>3 DEF ReadStage
  <2>2. PICK to \in Transitions[application[o].stage] :
           request' = [request EXCEPT ![r] =
              [application |-> o, from |-> application[o].stage, to |-> to]]
    BY <1>3 DEF ReadStage
  <2>3. application[o].stage \in Stages /\ to \in Stages
    BY <2>1, <2>2, TransitionsType DEF Application
  <2>4. [application |-> o, from |-> application[o].stage, to |-> to] \in Change
    BY <2>3 DEF Change
  <2>5. QED
    BY <1>3, <2>2, <2>4 DEF ReadStage
<1>4. ASSUME NEW r \in Requests, NEW o \in Opportunities, CommitStage(r, o) PROVE TypeOK'
  <2>1. request[r] \in Change /\ application[o] \in Application
    BY <1>4 DEF CommitStage
  <2>2. [from |-> request[r].from, to |-> request[r].to] \in Event
    BY <2>1 DEF Change, Event
  <2>3. Changed(application[o], request[r]) \in Application
    BY <2>1, ChangedType
  <2>4. Append(history[o], [from |-> request[r].from, to |-> request[r].to]) \in Seq(Event)
    BY <2>2
  <2>5. QED
    BY <1>4, <2>3, <2>4 DEF CommitStage
<1>5. ASSUME NEW r \in Requests, AbortStage(r) PROVE TypeOK'
  BY <1>5 DEF AbortStage
<1>6. ASSUME NEW c \in Contacts, CreateContact(c) PROVE TypeOK'
  BY <1>6 DEF CreateContact, LinkableApplications, Contact
<1>7. ASSUME NEW c \in Contacts, UpdateContact(c) PROVE TypeOK'
  BY <1>7 DEF UpdateContact, LinkableApplications, Contact
<1>8. ASSUME NEW c \in Contacts, DeleteContact(c) PROVE TypeOK'
  <2>1. task' \in [Tasks -> Task \cup {None}]
    BY <1>8, UnlinkedType DEF DeleteContact
  <2>2. QED
    BY <1>8, <2>1 DEF DeleteContact
<1>9. ASSUME NEW t \in Tasks, CreateTask(t) PROVE TypeOK'
  BY <1>9 DEF CreateTask, LinkableApplications, LinkableContacts, Task
<1>10. ASSUME NEW t \in Tasks, CompleteTask(t) PROVE TypeOK'
  BY <1>10 DEF CompleteTask, Task
<1>11. ASSUME NEW new \in SUBSET Tasks, ImportTasks(new) PROVE TypeOK'
  BY <1>11 DEF ImportTasks, Task
<1>12. CASE UNCHANGED vars
  BY <1>12 DEF vars
<1>13. QED
  BY <1>1, <1>2, <1>3, <1>4, <1>5, <1>6, <1>7, <1>8, <1>9, <1>10, <1>11, <1>12
     DEF Next

\* The tables keep their types: rows are complete, and links name identities.
THEOREM TypeCorrect == Spec => []TypeOK
<1>1. Init => TypeOK
  BY DEF Init, TypeOK
<1>2. QED
  BY <1>1, TypeStep, PTL DEF Spec

(***************************************************************************)
(* The history.                                                            *)
(***************************************************************************)

\* The events of an application after a change are those before it and one more.
LEMMA AppendedEvents ==
    ASSUME NEW h \in Seq(Event), NEW e \in Event
    PROVE  /\ Len(Append(h, e)) = Len(h) + 1
           /\ DOMAIN Append(h, e) = DOMAIN h \cup {Len(h) + 1}
           /\ DOMAIN h = 1..Len(h)
           /\ Len(h) \in Nat
           /\ \A i \in DOMAIN h : Append(h, e)[i] = h[i]
           /\ Append(h, e)[Len(h) + 1] = e
OBVIOUS

\* What a change commits: its request, a row and an event of the right types, and
\* where the history of the application is left.
LEMMA CommitFacts ==
    ASSUME IInv, NEW r \in Requests, NEW o \in Opportunities, CommitStage(r, o)
    PROVE  LET q == request[r]
               e == [from |-> q.from, to |-> q.to]
           IN /\ q \in Change
              /\ application[o] \in Application
              /\ e \in Event
              /\ history[o] \in Seq(Event)
              /\ q.to \in Transitions[q.from]
              /\ \E j \in DOMAIN history[o] : history[o][j].to = q.from
              /\ history' = [history EXCEPT ![o] = Append(history[o], e)]
              /\ application' = [application EXCEPT ![o] = Changed(application[o], q)]
<1>1. request[r] \in Change /\ application[o] \in Application
  BY DEF CommitStage, IInv, TypeOK
<1>2. [from |-> request[r].from, to |-> request[r].to] \in Event
  BY <1>1 DEF Change, Event
<1>3. history[o] \in Seq(Event)
  BY DEF IInv, TypeOK
<1>4. /\ request[r].to \in Transitions[request[r].from]
      /\ \E j \in DOMAIN history[o] : history[o][j].to = request[r].from
  BY DEF CommitStage, IInv, RequestInv
<1>5. QED
  BY <1>1, <1>2, <1>3, <1>4 DEF CommitStage

\* A history with one more legal event, from a stage it has reached, is connected.
LEMMA HistoryStep == IInv /\ [Next]_vars => HistoryIsConnected'
<1> SUFFICES ASSUME IInv, [Next]_vars PROVE HistoryIsConnected'
  OBVIOUS
<1>1. ASSUME NEW o \in Opportunities, CreateApplication(o) PROVE HistoryIsConnected'
  BY <1>1 DEF CreateApplication, HistoryIsConnected, IInv, TypeOK
<1>2. ASSUME NEW o \in Opportunities, DeleteOpportunity(o) PROVE HistoryIsConnected'
  BY <1>2 DEF DeleteOpportunity, HistoryIsConnected, IInv, TypeOK
<1>3. ASSUME NEW r \in Requests, NEW o \in Opportunities, CommitStage(r, o)
      PROVE HistoryIsConnected'
  <2> DEFINE q == request[r]
             e == [from |-> q.from, to |-> q.to]
             h == history[o]
             n == Len(h) + 1
  <2>1. /\ h \in Seq(Event) /\ e \in Event
        /\ q.to \in Transitions[q.from]
        /\ \E j \in DOMAIN h : h[j].to = q.from
        /\ history' = [history EXCEPT ![o] = Append(h, e)]
    BY <1>3, CommitFacts
  <2>2. e.from = q.from /\ e.to = q.to
    OBVIOUS
  <2> HIDE DEF e, q, h
  <2>3. /\ DOMAIN Append(h, e) = DOMAIN h \cup {n}
        /\ DOMAIN h = 1..Len(h) /\ Len(h) \in Nat
        /\ \A i \in DOMAIN h : Append(h, e)[i] = h[i]
        /\ Append(h, e)[n] = e
    BY <2>1, AppendedEvents
  <2>4. history'[o] = Append(h, e)
    BY <2>1 DEF IInv, TypeOK
  <2>5. ASSUME NEW p \in Opportunities, NEW i \in DOMAIN history'[p]
        PROVE  IF i = 1
                 THEN history'[p][i] = [from |-> None, to |-> "saved"]
                 ELSE /\ history'[p][i].to \in Transitions[history'[p][i].from]
                      /\ \E j \in 1..(i - 1) : history'[p][j].to = history'[p][i].from
    <3>1. CASE p # o
      BY <3>1, <2>1, <2>5 DEF IInv, HistoryIsConnected, TypeOK
    <3>2. CASE p = o /\ i = n
      BY <3>2, <2>1, <2>2, <2>3, <2>4
    <3>3. CASE p = o /\ i \in DOMAIN h
      <4>1. IF i = 1 THEN h[i] = [from |-> None, to |-> "saved"]
              ELSE /\ h[i].to \in Transitions[h[i].from]
                   /\ \E j \in 1..(i - 1) : h[j].to = h[i].from
        BY <3>3 DEF IInv, HistoryIsConnected, h
      <4>2. \A j \in 1..(i - 1) : j \in DOMAIN h
        BY <3>3, <2>3
      <4>3. QED
        BY <3>3, <4>1, <4>2, <2>3, <2>4
    <3>4. QED
      BY <3>1, <3>2, <3>3, <2>3, <2>4, <2>5
  <2>6. QED
    BY <2>5 DEF HistoryIsConnected
<1>4. ASSUME UNCHANGED history PROVE HistoryIsConnected'
  BY <1>4 DEF IInv, HistoryIsConnected
<1>5. QED
  BY <1>1, <1>2, <1>3, <1>4, SideFrame DEF Next, Side, ReadStage, AbortStage, vars

\* The row and its history move together.
LEMMA RowStep == IInv /\ [Next]_vars => RowFollowsHistory'
<1> SUFFICES ASSUME IInv, [Next]_vars PROVE RowFollowsHistory'
  OBVIOUS
<1>1. ASSUME NEW o \in Opportunities, CreateApplication(o) PROVE RowFollowsHistory'
  <2> DEFINE h == <<[from |-> None, to |-> "saved"]>>
  <2>1. /\ history' = [history EXCEPT ![o] = h]
        /\ application' = [application EXCEPT ![o] =
              [stage |-> "saved", applied |-> FALSE, closed |-> FALSE]]
    BY <1>1 DEF CreateApplication
  <2>2. DOMAIN h = {1} /\ h[1] = [from |-> None, to |-> "saved"] /\ Len(h) = 1
    OBVIOUS
  <2>3. LastMove(h, 1)
    BY <2>2, NullAssumption DEF LastMove, Stages
  <2>4. h[1].to = "saved"
    BY <2>2
  <2> HIDE DEF h
  <2>5. history'[o] = h /\ application'[o].stage = "saved"
        /\ application'[o].applied = FALSE /\ application'[o].closed = FALSE
    BY <2>1 DEF IInv, TypeOK
  <2>6. \A p \in Opportunities \ {o} :
           application'[p] = application[p] /\ history'[p] = history[p]
    BY <2>1 DEF IInv, TypeOK
  <2>7. "saved" \notin Terminal /\ "saved" # "applied"
    BY DEF Terminal
  <2>8. QED
    BY <2>2, <2>3, <2>4, <2>5, <2>6, <2>7 DEF RowFollowsHistory, IInv
<1>2. ASSUME NEW o \in Opportunities, DeleteOpportunity(o) PROVE RowFollowsHistory'
  BY <1>2 DEF DeleteOpportunity, RowFollowsHistory, IInv, TypeOK
<1>3. ASSUME NEW r \in Requests, NEW o \in Opportunities, CommitStage(r, o)
      PROVE RowFollowsHistory'
  <2> DEFINE q == request[r]
             e == [from |-> q.from, to |-> q.to]
             h == history[o]
             n == Len(h) + 1
             row == Changed(application[o], q)
  <2>1. /\ q \in Change /\ application[o] \in Application
        /\ h \in Seq(Event) /\ e \in Event
        /\ history' = [history EXCEPT ![o] = Append(h, e)]
        /\ application' = [application EXCEPT ![o] = row]
    BY <1>3, CommitFacts
  <2>2. e.from = q.from /\ e.to = q.to
    OBVIOUS
  <2>3. /\ row.stage = IF q.from = q.to THEN application[o].stage ELSE q.to
        /\ row.applied <=> application[o].applied \/ q.to = "applied"
        /\ row.closed <=> application[o].closed \/ q.to \in Terminal
    BY DEF Changed
  <2>4. /\ \E i \in DOMAIN h : LastMove(h, i) /\ h[i].to = application[o].stage
        /\ application[o].applied <=> \E i \in DOMAIN h : h[i].to = "applied"
        /\ application[o].closed <=> \E i \in DOMAIN h : h[i].to \in Terminal
    BY <1>3 DEF IInv, RowFollowsHistory, CommitStage
  <2> HIDE DEF e, q, h, row
  <2>5. /\ DOMAIN Append(h, e) = DOMAIN h \cup {n}
        /\ Len(Append(h, e)) = n
        /\ DOMAIN h = 1..Len(h) /\ Len(h) \in Nat
        /\ \A i \in DOMAIN h : Append(h, e)[i] = h[i]
        /\ Append(h, e)[n] = e
    BY <2>1, AppendedEvents
  <2>6. history'[o] = Append(h, e) /\ application'[o] = row
    BY <2>1 DEF IInv, TypeOK
  <2>7. \E i \in DOMAIN history'[o] :
           LastMove(history'[o], i) /\ history'[o][i].to = application'[o].stage
    <3>1. CASE q.from = q.to
      <4>1. PICK i \in DOMAIN h : LastMove(h, i) /\ h[i].to = application[o].stage
        BY <2>4
      <4>2. LastMove(Append(h, e), i)
        BY <3>1, <4>1, <2>2, <2>5 DEF LastMove
      <4>3. Append(h, e)[i].to = row.stage
        BY <3>1, <4>1, <2>3, <2>5
      <4>4. QED
        BY <4>2, <4>3, <2>5, <2>6
    <3>2. CASE q.from # q.to
      <4>1. LastMove(Append(h, e), n)
        BY <3>2, <2>2, <2>5 DEF LastMove
      <4>2. QED
        BY <3>2, <4>1, <2>2, <2>3, <2>5, <2>6
    <3>3. QED
      BY <3>1, <3>2
  <2>8. application'[o].applied <=>
           \E i \in DOMAIN history'[o] : history'[o][i].to = "applied"
    BY <2>2, <2>3, <2>4, <2>5, <2>6
  <2>9. application'[o].closed <=>
           \E i \in DOMAIN history'[o] : history'[o][i].to \in Terminal
    BY <2>2, <2>3, <2>4, <2>5, <2>6
  <2>10. \A p \in Opportunities \ {o} :
            application'[p] = application[p] /\ history'[p] = history[p]
    BY <2>1 DEF IInv, TypeOK
  <2>11. QED
    BY <2>7, <2>8, <2>9, <2>10 DEF IInv, RowFollowsHistory
<1>4. ASSUME UNCHANGED <<application, history>> PROVE RowFollowsHistory'
  BY <1>4 DEF IInv, RowFollowsHistory
<1>5. QED
  BY <1>1, <1>2, <1>3, <1>4, SideFrame DEF Next, Side, ReadStage, AbortStage, vars

(***************************************************************************)
(* Links.                                                                  *)
(***************************************************************************)

\* The foreign keys leave no link to a row that is gone.
LEMMA LinksStep == IInv /\ [Next]_vars => LinksResolve'
<1> SUFFICES ASSUME IInv, [Next]_vars PROVE LinksResolve'
  OBVIOUS
<1>0. TypeOK /\ LinksResolve
  BY DEF IInv
<1> USE DEF LinksResolve, LinkableApplications, LinkableContacts
<1>1. ASSUME NEW o \in Opportunities, CreateApplication(o) PROVE LinksResolve'
  <2>1. [stage |-> "saved", applied |-> FALSE, closed |-> FALSE] \in Application
    BY DEF Application, Stages
  <2>2. [stage |-> "saved", applied |-> FALSE, closed |-> FALSE] # None
    BY <2>1, NullAssumption
  <2>3. QED
    BY <1>0, <1>1, <2>2 DEF CreateApplication, TypeOK
<1>2. ASSUME NEW o \in Opportunities, DeleteOpportunity(o) PROVE LinksResolve'
  <2>1. \A p \in Opportunities : /\ application'[p] = None => history'[p] = <<>>
                                 /\ application'[p] # None => p \in saved'
    BY <1>0, <1>2 DEF DeleteOpportunity, TypeOK
  <2>2. \A c \in Contacts : contact'[c] # None =>
           /\ contact'[c] = contact[c]
           /\ contact[c].application # o
    BY <1>2 DEF DeleteOpportunity, ContactsOf
  <2>3. \A p \in Opportunities \ {o} : application'[p] = application[p]
    BY <1>0, <1>2 DEF DeleteOpportunity, TypeOK
  <2>4. \A c \in Contacts \ ContactsOf(o) : contact'[c] = contact[c]
    BY <1>2 DEF DeleteOpportunity
  <2>5. ASSUME NEW t \in Tasks, task'[t] # None
        PROVE  /\ task[t] # None
               /\ task'[t].application = task[t].application
               /\ task[t].application # o
               /\ \/ task'[t].contact = None
                  \/ /\ task'[t].contact = task[t].contact
                     /\ task[t].contact \notin ContactsOf(o)
    <3>1. /\ task[t] # None /\ task[t].application # o
          /\ task'[t] = Unlinked(task[t], ContactsOf(o))
      BY <1>2, <2>5 DEF DeleteOpportunity, Unlinked
    <3>2. task[t] \in Task
      BY <1>0, <3>1 DEF TypeOK
    <3>3. /\ task'[t].application = task[t].application
          /\ task[t].contact \in ContactsOf(o) => task'[t].contact = None
          /\ task[t].contact \notin ContactsOf(o) => task'[t].contact = task[t].contact
      BY <3>1, <3>2, UnlinkedFields
    <3>4. QED
      BY <3>1, <3>3
  <2>6. QED
    BY <1>0, <2>1, <2>2, <2>3, <2>4, <2>5 DEF TypeOK, Contact
<1>3. ASSUME NEW r \in Requests, NEW o \in Opportunities, CommitStage(r, o)
      PROVE LinksResolve'
  <2>1. /\ application[o] # None
        /\ history' = [history EXCEPT ![o] =
              Append(@, [from |-> request[r].from, to |-> request[r].to])]
        /\ application' = [application EXCEPT ![o] = Changed(application[o], request[r])]
        /\ UNCHANGED <<saved, contact, task>>
    BY <1>3 DEF CommitStage
  <2>2. Changed(application[o], request[r]) # None
    <3>1. application[o] \in Application /\ request[r] \in Change
      BY <1>3, CommitFacts
    <3>2. QED
      BY <3>1, ChangedType, NullAssumption
  <2>3. \A p \in Opportunities :
           /\ application'[p] = None <=> application[p] = None
           /\ application[p] = None => history'[p] = history[p]
    BY <1>0, <2>1, <2>2 DEF TypeOK
  <2>4. QED
    BY <1>0, <2>1, <2>3
<1>4. ASSUME NEW c \in Contacts, CreateContact(c) PROVE LinksResolve'
  BY <1>0, <1>4, NullAssumption DEF CreateContact, TypeOK, Contact
<1>5. ASSUME NEW c \in Contacts, UpdateContact(c) PROVE LinksResolve'
  <2>1. PICK a \in LinkableApplications :
           contact' = [contact EXCEPT ![c] = [contact[c] EXCEPT !.application = a]]
    BY <1>5 DEF UpdateContact
  <2>2. contact[c] \in Contact /\ contact[c] # None
    BY <1>0, <1>5 DEF UpdateContact, TypeOK
  <2>3. [contact[c] EXCEPT !.application = a] \in Contact
        /\ [contact[c] EXCEPT !.application = a].application = a
    BY <2>2 DEF Contact
  <2>4. \A d \in Contacts : /\ contact'[d] # None <=> contact[d] # None
                            /\ d # c => contact'[d] = contact[d]
    BY <1>0, <2>1, <2>2, <2>3, NullAssumption DEF TypeOK
  <2>5. contact'[c].application = a
    BY <1>0, <2>1, <2>3 DEF TypeOK
  <2>6. UNCHANGED <<saved, application, history, task>>
    BY <1>5 DEF UpdateContact
  <2>7. QED
    BY <1>0, <2>1, <2>4, <2>5, <2>6
<1>6. ASSUME NEW c \in Contacts, DeleteContact(c) PROVE LinksResolve'
  <2>1. ASSUME NEW t \in Tasks, task'[t] # None
        PROVE  /\ task[t] # None
               /\ task'[t].application = task[t].application
               /\ \/ task'[t].contact = None
                  \/ task'[t].contact = task[t].contact /\ task[t].contact # c
    <3>1. task'[t] = Unlinked(task[t], {c}) /\ task[t] # None
      BY <1>6, <2>1 DEF DeleteContact, Unlinked
    <3>2. task[t] \in Task
      BY <1>0, <3>1 DEF TypeOK
    <3>3. /\ task'[t].application = task[t].application
          /\ task[t].contact \in {c} => task'[t].contact = None
          /\ task[t].contact \notin {c} => task'[t].contact = task[t].contact
      BY <3>1, <3>2, UnlinkedFields
    <3>4. QED
      BY <3>1, <3>3
  <2>2. QED
    BY <1>0, <1>6, <2>1 DEF DeleteContact, TypeOK
<1>7. ASSUME NEW t \in Tasks, CreateTask(t) PROVE LinksResolve'
  BY <1>0, <1>7 DEF CreateTask, TypeOK
<1>8. ASSUME NEW t \in Tasks, CompleteTask(t) PROVE LinksResolve'
  <2>1. task[t] \in Task /\ task[t] # None
    BY <1>0, <1>8 DEF CompleteTask, TypeOK
  <2>2. \A u \in Tasks : /\ task'[u] # None => task[u] # None
                         /\ task[u] # None =>
                               /\ task'[u].application = task[u].application
                               /\ task'[u].contact = task[u].contact
    BY <1>0, <1>8, <2>1 DEF CompleteTask, TypeOK, Task
  <2>3. QED
    BY <1>0, <1>8, <2>2 DEF CompleteTask
<1>9. ASSUME NEW new \in SUBSET Tasks, ImportTasks(new) PROVE LinksResolve'
  BY <1>0, <1>9 DEF ImportTasks
<1>10. ASSUME UNCHANGED <<saved, application, history, contact, task>>
       PROVE LinksResolve'
  BY <1>0, <1>10
<1>11. QED
  BY <1>1, <1>2, <1>3, <1>4, <1>5, <1>6, <1>7, <1>8, <1>9, <1>10
     DEF Next, ReadStage, AbortStage, vars

(***************************************************************************)
(* Open requests.                                                          *)
(***************************************************************************)

\* What a request has checked stays true of the history while its application lives.
LEMMA RequestStep == IInv /\ [Next]_vars => RequestInv'
<1> SUFFICES ASSUME IInv, [Next]_vars PROVE RequestInv'
  OBVIOUS
<1>0. TypeOK /\ RequestInv /\ RowFollowsHistory
  BY DEF IInv
<1>1. ASSUME NEW o \in Opportunities, CreateApplication(o) PROVE RequestInv'
  BY <1>0, <1>1 DEF CreateApplication, RequestInv, TypeOK
<1>2. ASSUME NEW o \in Opportunities, DeleteOpportunity(o) PROVE RequestInv'
  <2>1. \A r \in Requests : request[r] # None => request[r].application \in Opportunities
    BY <1>0 DEF TypeOK, Change
  <2>2. QED
    BY <1>0, <1>2, <2>1 DEF DeleteOpportunity, RequestInv, TypeOK
<1>3. ASSUME NEW r \in Requests, NEW o \in Opportunities, ReadStage(r, o)
      PROVE RequestInv'
  <2>1. PICK to \in Transitions[application[o].stage] :
           request' = [request EXCEPT ![r] =
              [application |-> o, from |-> application[o].stage, to |-> to]]
    BY <1>3 DEF ReadStage
  <2>2. \E j \in DOMAIN history[o] : history[o][j].to = application[o].stage
    BY <1>0, <1>3 DEF ReadStage, RowFollowsHistory
  <2>3. QED
    BY <1>0, <1>3, <2>1, <2>2 DEF ReadStage, RequestInv, TypeOK
<1>4. ASSUME NEW r \in Requests, NEW o \in Opportunities, CommitStage(r, o)
      PROVE RequestInv'
  <2> DEFINE q == request[r]
             e == [from |-> q.from, to |-> q.to]
             h == history[o]
             row == Changed(application[o], q)
  <2>1. /\ h \in Seq(Event) /\ e \in Event
        /\ history' = [history EXCEPT ![o] = Append(h, e)]
        /\ application' = [application EXCEPT ![o] = row]
        /\ application[o] # None
    BY <1>4, CommitFacts DEF CommitStage
  <2>2. \A s \in Requests : request'[s] # None => request'[s] = request[s]
    BY <1>0, <1>4 DEF CommitStage, TypeOK
  <2>3. UNCHANGED saved
    BY <1>4 DEF CommitStage
  <2>4. row # None
    <3>1. application[o] \in Application /\ q \in Change
      BY <1>4, CommitFacts
    <3>2. QED
      BY <3>1, ChangedType, NullAssumption
  <2> HIDE DEF e, h, q, row
  <2>5. /\ DOMAIN h \subseteq DOMAIN Append(h, e)
        /\ \A i \in DOMAIN h : Append(h, e)[i] = h[i]
    BY <2>1, AppendedEvents
  <2>6. history'[o] = Append(h, e) /\ application'[o] # None
        /\ \A p \in Opportunities \ {o} :
              application'[p] = application[p] /\ history'[p] = history[p]
    BY <1>0, <2>1, <2>4 DEF TypeOK
  <2>7. ASSUME NEW s \in Requests, request'[s] # None
        PROVE  LET p == request'[s].application IN
               /\ request'[s].to \in Transitions[request'[s].from]
               /\ application'[p] = None => p \notin saved'
               /\ application'[p] # None =>
                     \E j \in DOMAIN history'[p] : history'[p][j].to = request'[s].from
    <3> DEFINE p == request[s].application
    <3>1. request'[s] = request[s] /\ p \in Opportunities
      BY <1>0, <2>2, <2>7 DEF TypeOK, Change
    <3>2. /\ request[s].to \in Transitions[request[s].from]
          /\ application[p] = None => p \notin saved
          /\ application[p] # None =>
                \E j \in DOMAIN history[p] : history[p][j].to = request[s].from
      BY <1>0, <2>7, <3>1 DEF RequestInv
    <3>3. CASE p = o
      BY <3>1, <3>2, <3>3, <2>1, <2>5, <2>6 DEF h
    <3>4. CASE p # o
      BY <3>1, <3>2, <3>4, <2>3, <2>6
    <3>5. QED
      BY <3>3, <3>4
  <2>8. QED
    BY <2>7 DEF RequestInv
<1>5. ASSUME NEW r \in Requests, AbortStage(r) PROVE RequestInv'
  BY <1>0, <1>5 DEF AbortStage, RequestInv, TypeOK
<1>6. ASSUME UNCHANGED <<saved, application, history, request>> PROVE RequestInv'
  BY <1>0, <1>6 DEF RequestInv
<1>7. QED
  BY <1>1, <1>2, <1>3, <1>4, <1>5, <1>6, SideFrame DEF Next, Side, vars

(***************************************************************************)
(* Theorems.                                                               *)
(***************************************************************************)

\* The invariant holds initially, and every step keeps it.
LEMMA Inductive == Spec => []IInv
<1>1. Init => IInv
  BY DEF Init, IInv, TypeOK, HistoryIsConnected, RowFollowsHistory, LinksResolve,
         RequestInv
<1>2. IInv /\ [Next]_vars => IInv'
  BY TypeStep, HistoryStep, RowStep, LinksStep, RequestStep DEF IInv
<1>3. QED
  BY <1>1, <1>2, PTL DEF Spec

\* change_stage: overlapping requests branch a history but never invent a stage.
THEOREM HistoryIsConnectedAlways == Spec => []HistoryIsConnected
<1>1. IInv => HistoryIsConnected
  BY DEF IInv
<1>2. QED
  BY <1>1, Inductive, PTL

\* change_stage: the row is what its history says.
THEOREM RowFollowsHistoryAlways == Spec => []RowFollowsHistory
<1>1. IInv => RowFollowsHistory
  BY DEF IInv
<1>2. QED
  BY <1>1, Inductive, PTL

\* Deletions of opportunities and contacts leave no dangling link.
THEOREM LinksResolveAlways == Spec => []LinksResolve
<1>1. IInv => LinksResolve
  BY DEF IInv
<1>2. QED
  BY <1>1, Inductive, PTL

\* No handler but the cascade of delete_opportunity takes a task or meeting away, and
\* only deleting a contact clears a link to it.
LEMMA MeetingsStep ==
    IInv /\ [Next]_vars =>
        \A t \in Tasks : task[t] # None =>
          IF task'[t] = None
              THEN \E o \in saved \ saved' : task[t].application = o
              ELSE /\ task'[t].application = task[t].application
                   /\ task[t].done => task'[t].done
                   /\ task'[t].contact # task[t].contact =>
                         /\ task'[t].contact = None
                         /\ contact'[task[t].contact] = None
<1> SUFFICES ASSUME IInv, [Next]_vars, NEW t \in Tasks, task[t] # None
             PROVE  IF task'[t] = None
                      THEN \E o \in saved \ saved' : task[t].application = o
                      ELSE /\ task'[t].application = task[t].application
                           /\ task[t].done => task'[t].done
                           /\ task'[t].contact # task[t].contact =>
                                 /\ task'[t].contact = None
                                 /\ contact'[task[t].contact] = None
  OBVIOUS
<1>0. TypeOK /\ task[t] \in Task
  BY DEF IInv, TypeOK
<1>1. ASSUME UNCHANGED task
      PROVE  task'[t] # None /\ task'[t] = task[t]
  BY <1>1
<1>2. ASSUME NEW o \in Opportunities, DeleteOpportunity(o), task[t].application = o
      PROVE  task'[t] = None /\ o \in saved \ saved'
  BY <1>2 DEF DeleteOpportunity
<1>3. ASSUME NEW o \in Opportunities, DeleteOpportunity(o), task[t].application # o
      PROVE  /\ task'[t] # None
             /\ task'[t].application = task[t].application
             /\ task'[t].done = task[t].done
             /\ task'[t].contact # task[t].contact =>
                   task'[t].contact = None /\ contact'[task[t].contact] = None
  <2>1. task'[t] = Unlinked(task[t], ContactsOf(o))
    BY <1>3 DEF DeleteOpportunity
  <2>2. \A c \in ContactsOf(o) : contact'[c] = None
    BY <1>3 DEF DeleteOpportunity, ContactsOf
  <2>3. QED
    BY <1>0, <2>1, <2>2, UnlinkedFields, UnlinkedType
<1>4. ASSUME NEW c \in Contacts, DeleteContact(c)
      PROVE  /\ task'[t] # None
             /\ task'[t].application = task[t].application
             /\ task'[t].done = task[t].done
             /\ task'[t].contact # task[t].contact =>
                   task'[t].contact = None /\ contact'[task[t].contact] = None
  <2>1. task'[t] = Unlinked(task[t], {c})
    BY <1>4 DEF DeleteContact
  <2>2. \A d \in {c} : contact'[d] = None
    BY <1>0, <1>4 DEF DeleteContact, TypeOK
  <2>3. QED
    BY <1>0, <2>1, <2>2, UnlinkedFields, UnlinkedType
<1>5. ASSUME NEW u \in Tasks, CreateTask(u)
      PROVE  task'[t] # None /\ task'[t] = task[t]
  BY <1>0, <1>5 DEF CreateTask, TypeOK
<1>6. ASSUME NEW u \in Tasks, CompleteTask(u)
      PROVE  /\ task'[t] # None
             /\ task'[t].application = task[t].application
             /\ task[t].done => task'[t].done
             /\ task'[t].contact = task[t].contact
  <2>1. [task[t] EXCEPT !.done = TRUE] \in Task
    BY <1>0 DEF Task
  <2>2. CASE u = t
    <3>1. task'[t] = [task[t] EXCEPT !.done = TRUE]
      BY <1>0, <1>6, <2>2 DEF CompleteTask, TypeOK
    <3>2. task'[t] # None
      BY <2>1, <3>1, NullAssumption
    <3>3. QED
      BY <1>0, <3>1, <3>2 DEF Task
  <2>3. CASE u # t
    BY <1>0, <1>6, <2>3 DEF CompleteTask, TypeOK
  <2>4. QED
    BY <2>2, <2>3
<1>7. ASSUME NEW new \in SUBSET Tasks, ImportTasks(new)
      PROVE  task'[t] # None /\ task'[t] = task[t]
  BY <1>0, <1>7 DEF ImportTasks
<1>8. CASE UNCHANGED task
  BY <1>1, <1>8
<1>9. QED
  BY <1>2, <1>3, <1>4, <1>5, <1>6, <1>7, <1>8
     DEF Next, CreateApplication, ReadStage, CommitStage, AbortStage, CreateContact,
         UpdateContact, vars

\* Tasks and meetings outlive everything but their application.
THEOREM MeetingsSurviveAlways == Spec => MeetingsSurvive
<1>1. IInv /\ [Next]_vars =>
        [\A t \in Tasks : task[t] # None =>
          IF task'[t] = None
              THEN \E o \in saved \ saved' : task[t].application = o
              ELSE /\ task'[t].application = task[t].application
                   /\ task[t].done => task'[t].done
                   /\ task'[t].contact # task[t].contact =>
                         /\ task'[t].contact = None
                         /\ contact'[task[t].contact] = None]_vars
  BY MeetingsStep
<1>2. QED
  BY <1>1, Inductive, PTL DEF Spec, MeetingsSurvive

-----------------------------------------------------------------------------
\* Versions and requirements.

\* Rows and history exist only for an open posting, whose versions start at 1.
PostingInv ==
    \A p \in Postings :
        /\ state[p] = "open" => version[p] >= 1
        /\ state[p] = "absent" => ~sourced[p] /\ version[p] = 0
        /\ state[p] # "open" => rows[p] = {} /\ snapshots[p] = {}

\* An edit knows a version that is not ahead; at the newest version it has read
\* every row that is left.
TabInv ==
    \A t \in Tabs : \A p \in Postings : editing[t] = p =>
        /\ state[p] # "absent"
        /\ readVersion[t] >= 1
        /\ readVersion[t] <= version[p]
        /\ readVersion[t] = version[p] => rows[p] \subseteq readRows[t]

\* The same for an extraction, whose target are rows of the version it read.
ReadInv ==
    \A w \in Workers : \A p \in Postings :
        job[w] = p /\ phase[w] \in {"deleting", "proposing"} =>
            /\ base[w] >= 1
            /\ base[w] <= version[p]
            /\ target[w] \subseteq {base[w]}
            /\ base[w] = version[p] => rows[p] \subseteq target[w]

\* What an extraction has deleted is what is left of its target, and the row
\* locks keep it so.
EraseInv ==
    /\ \A w \in Workers : /\ phase[w] # "proposing" => erased[w] = {}
                          /\ job[w] = NoPosting => phase[w] = "idle"
    /\ \A w \in Workers : \A p \in Postings :
          job[w] = p =>
            /\ phase[w] # "idle" /\ state[p] # "absent"
            /\ erased[w] \subseteq rows[p]
            /\ phase[w] = "proposing" => target[w] \cap rows[p] \subseteq erased[w]

\* No row is locked by two transactions.
LockInv ==
    \A v, w \in Workers : v # w /\ job[v] = job[w] => erased[v] \cap erased[w] = {}

RevisionInv ==
    /\ RevisionTypeOK
    /\ PostingInv
    /\ HistoryIsComplete
    /\ RowsAreCurrent
    /\ CurrentIsRecorded
    /\ TabInv
    /\ ReadInv
    /\ EraseInv
    /\ LockInv

(***************************************************************************)
(* Type correctness.                                                       *)
(***************************************************************************)

\* The rows of a revision, and a recorded revision, have their types.
LEMMA RowsOfType ==
    ASSUME NEW v \in Nat, NEW r \in RowsOf(v)
    PROVE  r \in SUBSET Nat /\ r \subseteq {v} /\ <<v, r>> \in Nat \X SUBSET Nat
BY DEF RowsOf

\* Every step keeps the types of the tables and of the open transactions.
LEMMA RevisionTypeStep == RevisionTypeOK /\ [RevisionNext]_revisionVars => RevisionTypeOK'
<1> SUFFICES ASSUME RevisionTypeOK, [RevisionNext]_revisionVars PROVE RevisionTypeOK'
  OBVIOUS
<1> USE DEF RevisionTypeOK, postingVars, tabVars, workerVars
<1>1. ASSUME NEW p \in Postings, Create(p) PROVE RevisionTypeOK'
  <2>1. PICK r \in RowsOf(1) : /\ rows' = [rows EXCEPT ![p] = r]
                              /\ snapshots' = [snapshots EXCEPT ![p] = {<<1, r>>}]
    BY <1>1 DEF Create
  <2>2. QED
    BY <1>1, <2>1, RowsOfType DEF Create
<1>2. ASSUME NEW p \in Postings, CaptureDocument(p) PROVE RevisionTypeOK'
  BY <1>2 DEF CaptureDocument
<1>3. ASSUME NEW p \in Postings, DeletePosting(p) PROVE RevisionTypeOK'
  BY <1>3 DEF DeletePosting
<1>4. ASSUME NEW t \in Tabs, NEW p \in Postings, ReadForEdit(t, p) PROVE RevisionTypeOK'
  BY <1>4 DEF ReadForEdit
<1>5. ASSUME NEW t \in Tabs, NEW p \in Postings, CommitEdit(t, p) PROVE RevisionTypeOK'
  <2> DEFINE next == readVersion[t] + 1
  <2>1. PICK r \in RowsOf(next) :
           /\ rows' = [rows EXCEPT ![p] = (@ \ readRows[t]) \cup r]
           /\ snapshots' = [snapshots EXCEPT ![p] = @ \cup {<<next, r>>}]
    BY <1>5 DEF CommitEdit
  <2>2. next \in Nat
    OBVIOUS
  <2> HIDE DEF next
  <2>3. /\ rows' \in [Postings -> SUBSET Nat]
        /\ snapshots' \in [Postings -> SUBSET (Nat \X SUBSET Nat)]
    BY <2>1, <2>2, RowsOfType
  <2>4. QED
    BY <1>5, <2>2, <2>3 DEF CommitEdit, EndEdit, next
<1>6. ASSUME NEW t \in Tabs, NEW p \in Postings, RejectEdit(t, p) PROVE RevisionTypeOK'
  BY <1>6 DEF RejectEdit, EndEdit
<1>7. ASSUME NEW w \in Workers, NEW p \in Postings, OpenSource(w, p) PROVE RevisionTypeOK'
  BY <1>7 DEF OpenSource
<1>8. ASSUME NEW w \in Workers, NEW p \in Postings, ReadOpportunity(w, p) PROVE RevisionTypeOK'
  BY <1>8 DEF ReadOpportunity
<1>9. ASSUME NEW w \in Workers, NEW p \in Postings, EraseRequirements(w, p)
      PROVE RevisionTypeOK'
  BY <1>9 DEF EraseRequirements
<1>10. ASSUME NEW w \in Workers, NEW p \in Postings, CommitExtraction(w, p)
       PROVE RevisionTypeOK'
  <2> DEFINE next == base[w] + 1
  <2>1. PICK r \in RowsOf(next) :
           /\ rows' = [rows EXCEPT ![p] = (@ \ erased[w]) \cup r]
           /\ snapshots' = [snapshots EXCEPT ![p] = @ \cup {<<next, r>>}]
    BY <1>10 DEF CommitExtraction
  <2>2. next \in Nat
    OBVIOUS
  <2> HIDE DEF next
  <2>3. /\ rows' \in [Postings -> SUBSET Nat]
        /\ snapshots' \in [Postings -> SUBSET (Nat \X SUBSET Nat)]
    BY <2>1, <2>2, RowsOfType
  <2>4. QED
    BY <1>10, <2>2, <2>3 DEF CommitExtraction, Release, next
<1>11. ASSUME NEW w \in Workers, NEW p \in Postings, FailExtraction(w, p)
       PROVE RevisionTypeOK'
  BY <1>11 DEF FailExtraction, Release
<1>12. ASSUME NEW w \in Workers, NEW p \in Postings, AbortExtraction(w, p)
       PROVE RevisionTypeOK'
  BY <1>12 DEF AbortExtraction, Release
<1>13. CASE UNCHANGED revisionVars
  BY <1>13 DEF revisionVars
<1>14. QED
  BY <1>1, <1>2, <1>3, <1>4, <1>5, <1>6, <1>7, <1>8, <1>9, <1>10, <1>11, <1>12,
     <1>13 DEF RevisionNext, Edit, Extract

(***************************************************************************)
(* The inductive invariant.                                                *)
(***************************************************************************)

\* A locked row is one that some transaction on the posting has deleted.
LEMMA LockedRow ==
    ASSUME NEW p \in Postings, NEW x
    PROVE  x \in Locked(p) <=> \E u \in Workers : job[u] = p /\ x \in erased[u]
BY DEF Locked

\* Whoever finds the next revision free has read the newest one.
LEMMA FreeRevisionIsNext ==
    ASSUME RevisionTypeOK, HistoryIsComplete, NEW p \in Postings, state[p] = "open",
           NEW k \in Nat, k >= 1, k <= version[p], ~Recorded(p, k + 1)
    PROVE  k = version[p]
<1>1. SUFFICES ASSUME k < version[p] PROVE FALSE
  BY DEF RevisionTypeOK
<1>2. k + 1 \in 2..version[p]
  BY <1>1 DEF RevisionTypeOK
<1>3. QED
  BY <1>2 DEF HistoryIsComplete

\* The empty tables satisfy the invariant.
LEMMA RevisionInitInv == RevisionInit => RevisionInv
BY PostingAssumption
   DEF RevisionInit, RevisionInv, RevisionTypeOK, PostingInv, HistoryIsComplete, RowsAreCurrent,
       CurrentIsRecorded, TabInv, ReadInv, EraseInv, LockInv, Recorded

\* The steps that write neither an opportunity nor its requirements preserve
\* what is said about them.
LEMMA TablesKept ==
    ASSUME RevisionInv, UNCHANGED postingVars
    PROVE  PostingInv' /\ HistoryIsComplete' /\ RowsAreCurrent' /\ CurrentIsRecorded'
BY DEF RevisionInv, PostingInv, HistoryIsComplete, RowsAreCurrent, CurrentIsRecorded,
       Recorded, postingVars

\* Revision n of p, with rows r, replaces the requirements x that its writer
\* has deleted: the common part of CommitEdit and CommitExtraction.
Publish(p, n, x, r) ==
    /\ state[p] = "open"
    /\ version' = [version EXCEPT ![p] = n]
    /\ rows' = [rows EXCEPT ![p] = (@ \ x) \cup r]
    /\ snapshots' = [snapshots EXCEPT ![p] = @ \cup {<<n, r>>}]
    /\ UNCHANGED <<state, sourced>>

\* Publishing the next version after deleting every row keeps the tables right.
LEMMA PublishKept ==
    ASSUME RevisionInv, RevisionTypeOK', NEW p \in Postings, NEW x \in SUBSET Nat,
           NEW r \in RowsOf(version[p] + 1), rows[p] \subseteq x,
           Publish(p, version[p] + 1, x, r)
    PROVE  PostingInv' /\ HistoryIsComplete' /\ RowsAreCurrent' /\ CurrentIsRecorded'
<1> DEFINE n == version[p] + 1
<1> USE DEF RevisionInv, RevisionTypeOK
<1>a. version[p] \in Nat /\ n \in Nat
  OBVIOUS
<1>b. r \subseteq {n}
  BY <1>a, RowsOfType
<1>c. version'[p] = n
  BY DEF Publish
<1>d. rows'[p] = r
  BY DEF Publish
<1>0. n \in Nat /\ r \subseteq {n} /\ version'[p] = n /\ rows'[p] = r
  BY <1>a, <1>b, <1>c, <1>d
<1>1. snapshots'[p] = snapshots[p] \cup {<<n, r>>}
  BY DEF Publish
<1>2. \A q \in Postings : q # p => /\ version'[q] = version[q] /\ rows'[q] = rows[q]
                                 /\ snapshots'[q] = snapshots[q]
  BY DEF Publish
<1>3. state' = state /\ sourced' = sourced /\ state[p] = "open"
  BY DEF Publish
<1>4. PostingInv'
  BY <1>0, <1>2, <1>3 DEF PostingInv
<1>5. RowsAreCurrent'
  BY <1>0, <1>2 DEF RowsAreCurrent
<1>6. CurrentIsRecorded'
  BY <1>0, <1>1, <1>2 DEF CurrentIsRecorded
<1>7. HistoryIsComplete'
  <2> SUFFICES ASSUME NEW q \in Postings, state'[q] = "open"
               PROVE  /\ \A v \in 2..version'[q] : Recorded(q, v)'
                      /\ \A s \in snapshots'[q] : s[1] \in 1..version'[q]
                      /\ \A s1, s2 \in snapshots'[q] : s1[1] = s2[1] => s1 = s2
    BY DEF HistoryIsComplete
  <2>1. CASE q # p
    BY <1>2, <1>3, <2>1 DEF HistoryIsComplete, Recorded
  <2>2. CASE q = p
    <3>n. \A v \in 2..n : v # n => v \in 2..version[p]
      <4> DEFINE m == version[p]
      <4>1. m \in Nat
        BY <1>a
      <4> HIDE DEF m
      <4>2. \A v \in 2..(m + 1) : v # m + 1 => v \in 2..m
        BY <4>1
      <4>3. QED
        BY <4>2 DEF m
    <3> HIDE DEF n
    <3> DEFINE new == <<n, r>>
    <3>a. new[1] = n
      OBVIOUS
    <3>b. new \in snapshots'[p] /\ snapshots[p] \subseteq snapshots'[p]
      BY <1>1
    <3>c. \A s \in snapshots'[p] : s \in snapshots[p] \/ s = new
      BY <1>1
    <3> HIDE DEF new
    <3>1. \A s \in snapshots[p] : s[1] \in 1..version[p]
      BY <1>3 DEF HistoryIsComplete
    <3>2. \A v \in 2..n : Recorded(p, v)'
      <4> TAKE v \in 2..n
      <4>1. CASE v = n
        BY <3>a, <3>b, <4>1 DEF Recorded
      <4>2. CASE v # n
        <5>1. v \in 2..version[p]
          BY <3>n, <4>2
        <5>2. Recorded(p, v)
          BY <1>3, <5>1 DEF HistoryIsComplete
        <5>3. PICK s \in snapshots[p] : s[1] = v
          BY <5>2 DEF Recorded
        <5>4. s \in snapshots'[p]
          BY <3>b
        <5>5. QED
          BY <5>3, <5>4 DEF Recorded
      <4>3. QED
        BY <4>1, <4>2
    <3>3. \A s \in snapshots'[p] : s[1] \in 1..n
      BY <1>0, <3>a, <3>c, <3>1 DEF n
    <3>4. \A s1, s2 \in snapshots'[p] : s1[1] = s2[1] => s1 = s2
      <4> TAKE s1, s2 \in snapshots'[p]
      <4>1. CASE s1 \in snapshots[p] /\ s2 \in snapshots[p]
        BY <1>3, <4>1 DEF HistoryIsComplete
      <4>2. \A s \in snapshots[p] : s[1] # n
        BY <3>1 DEF n
      <4>3. QED
        BY <3>a, <3>c, <4>1, <4>2
    <3>5. QED
      BY <1>0, <2>2, <3>2, <3>3, <3>4
  <2>3. QED
    BY <2>1, <2>2
<1>8. QED
  BY <1>4, <1>5, <1>6, <1>7

\* Transactions whose posting and tables a step leaves alone keep their facts.
LEMMA TabsKept ==
    ASSUME TabInv, UNCHANGED <<tabVars, state, version>>,
           \A p \in Postings : rows'[p] \subseteq rows[p]
    PROVE  TabInv'
BY DEF TabInv, tabVars

LEMMA ReadsKept ==
    ASSUME ReadInv, UNCHANGED <<workerVars, version>>,
           \A p \in Postings : rows'[p] \subseteq rows[p]
    PROVE  ReadInv'
BY DEF ReadInv, workerVars

\* The edits that are open when a revision is published have read an older one.
LEMMA PublishTabs ==
    ASSUME RevisionInv, RevisionTypeOK', NEW p \in Postings, NEW x \in SUBSET Nat,
           NEW r \in RowsOf(version[p] + 1),
           Publish(p, version[p] + 1, x, r),
           NEW t \in Tabs, NEW q \in Postings, editing[t] = q
    PROVE  /\ state'[q] # "absent"
           /\ readVersion[t] >= 1
           /\ readVersion[t] <= version'[q]
           /\ readVersion[t] = version'[q] => rows'[q] \subseteq readRows[t]
<1>1. /\ state[q] # "absent" /\ readVersion[t] >= 1 /\ readVersion[t] <= version[q]
      /\ readVersion[t] = version[q] => rows[q] \subseteq readRows[t]
  BY DEF RevisionInv, TabInv
<1>2. readVersion[t] \in Nat /\ version[q] \in Nat
  BY DEF RevisionInv, RevisionTypeOK
<1>3. CASE q # p
  <2>1. state'[q] = state[q] /\ version'[q] = version[q] /\ rows'[q] = rows[q]
    BY <1>3 DEF Publish, RevisionInv, RevisionTypeOK
  <2>2. QED
    BY <1>1, <2>1
<1>4. CASE q = p
  <2>1. state'[q] = state[q] /\ version'[q] = version[q] + 1
    BY <1>4 DEF Publish, RevisionInv, RevisionTypeOK
  <2>2. QED
    BY <1>1, <1>2, <2>1
<1>5. QED
  BY <1>3, <1>4

\* So have the other extractions, and they have locked none of its rows.
LEMMA PublishReads ==
    ASSUME RevisionInv, RevisionTypeOK', NEW p \in Postings, NEW x \in SUBSET Nat,
           NEW r \in RowsOf(version[p] + 1), rows[p] \subseteq x,
           Publish(p, version[p] + 1, x, r),
           NEW w \in Workers, NEW q \in Postings, job[w] = q
    PROVE  /\ state'[q] # "absent"
           /\ phase[w] \in {"deleting", "proposing"} =>
                 /\ base[w] <= version'[q]
                 /\ base[w] = version'[q] => rows'[q] \subseteq target[w]
           /\ phase[w] = "proposing" => target[w] \cap rows'[q] \subseteq erased[w]
<1>1. /\ state[q] # "absent"
      /\ phase[w] = "proposing" => target[w] \cap rows[q] \subseteq erased[w]
  BY DEF RevisionInv, EraseInv
<1>2. phase[w] \in {"deleting", "proposing"} =>
          /\ base[w] <= version[q] /\ target[w] \subseteq {base[w]}
          /\ base[w] = version[q] => rows[q] \subseteq target[w]
  BY DEF RevisionInv, ReadInv
<1>3. base[w] \in Nat /\ version[q] \in Nat
  BY DEF RevisionInv, RevisionTypeOK
<1>4. CASE q # p
  <2>1. state'[q] = state[q] /\ version'[q] = version[q] /\ rows'[q] = rows[q]
    BY <1>4 DEF Publish, RevisionInv, RevisionTypeOK
  <2>2. QED
    BY <1>1, <1>2, <2>1
<1>5. CASE q = p
  <2>1. /\ state'[q] = state[q] /\ version'[q] = version[q] + 1
        /\ rows'[q] = (rows[q] \ x) \cup r
    BY <1>5 DEF Publish, RevisionInv, RevisionTypeOK
  <2>2. rows'[q] \subseteq {version[q] + 1}
    <3>1. version[q] + 1 \in Nat /\ r \in RowsOf(version[q] + 1)
      BY <1>3, <1>5
    <3>2. r \subseteq {version[q] + 1}
      BY <3>1, RowsOfType
    <3>3. QED
      BY <1>5, <2>1, <3>2
  <2>3. ASSUME phase[w] = "proposing" PROVE target[w] \cap rows'[q] = {}
    BY <1>2, <1>3, <2>2, <2>3
  <2>4. ASSUME phase[w] \in {"deleting", "proposing"}
        PROVE  base[w] <= version'[q] /\ base[w] # version'[q]
    BY <1>2, <1>3, <2>1, <2>4
  <2>5. QED
    BY <1>1, <2>1, <2>3, <2>4
<1>6. QED
  BY <1>4, <1>5

\* The seeker's commit publishes the next version, and nobody else has locked
\* a row of it.
LEMMA CommitEditPublishes ==
    ASSUME RevisionInv, NEW t \in Tabs, NEW p \in Postings, CommitEdit(t, p)
    PROVE  /\ \E r \in RowsOf(version[p] + 1) :
                 Publish(p, version[p] + 1, readRows[t], r)
           /\ rows[p] \subseteq readRows[t]
           /\ readRows[t] \in SUBSET Nat
           /\ \A u \in Workers : job[u] = p => erased[u] = {}
<1>1. readVersion[t] \in Nat /\ version[p] \in Nat /\ readRows[t] \in SUBSET Nat
  BY DEF RevisionInv, RevisionTypeOK
<1>2. /\ readVersion[t] >= 1 /\ readVersion[t] <= version[p]
      /\ readVersion[t] = version[p] => rows[p] \subseteq readRows[t]
  BY DEF RevisionInv, TabInv, CommitEdit
<1>3. state[p] = "open" /\ ~Recorded(p, readVersion[t] + 1)
  BY DEF CommitEdit
<1>4. readVersion[t] = version[p]
  BY <1>1, <1>2, <1>3, FreeRevisionIsNext DEF RevisionInv
<1>5. \E r \in RowsOf(version[p] + 1) : Publish(p, version[p] + 1, readRows[t], r)
  BY <1>4 DEF CommitEdit, Publish
<1>6. ASSUME NEW u \in Workers, job[u] = p PROVE erased[u] = {}
  <2>1. erased[u] \subseteq rows[p]
    BY <1>6 DEF RevisionInv, EraseInv
  <2>2. readRows[t] \cap Locked(p) = {}
    BY DEF CommitEdit
  <2>3. QED
    BY <1>2, <1>4, <1>6, <2>1, <2>2, LockedRow
<1>7. QED
  BY <1>1, <1>2, <1>4, <1>5, <1>6

\* So does an extraction, which has deleted and locked every row itself.
LEMMA CommitExtractionPublishes ==
    ASSUME RevisionInv, NEW w \in Workers, NEW p \in Postings, CommitExtraction(w, p)
    PROVE  /\ \E r \in RowsOf(version[p] + 1) :
                 Publish(p, version[p] + 1, erased[w], r)
           /\ rows[p] \subseteq erased[w]
           /\ erased[w] \in SUBSET Nat
           /\ \A u \in Workers \ {w} : job[u] = p => erased[u] = {}
<1>1. base[w] \in Nat /\ version[p] \in Nat /\ erased[w] \in SUBSET Nat
  BY DEF RevisionInv, RevisionTypeOK
<1>2. /\ base[w] >= 1 /\ base[w] <= version[p]
      /\ base[w] = version[p] => rows[p] \subseteq target[w]
  BY DEF RevisionInv, ReadInv, CommitExtraction
<1>3. state[p] = "open" /\ ~Recorded(p, base[w] + 1)
  BY DEF CommitExtraction
<1>4. base[w] = version[p]
  BY <1>1, <1>2, <1>3, FreeRevisionIsNext DEF RevisionInv
<1>5. \E r \in RowsOf(version[p] + 1) : Publish(p, version[p] + 1, erased[w], r)
  BY <1>4 DEF CommitExtraction, Publish
<1>6. rows[p] \subseteq erased[w]
  BY <1>2, <1>4 DEF RevisionInv, EraseInv, CommitExtraction
<1>7. ASSUME NEW u \in Workers \ {w}, job[u] = p PROVE erased[u] = {}
  <2>1. erased[u] \subseteq rows[p]
    BY <1>7 DEF RevisionInv, EraseInv
  <2>2. erased[u] \cap erased[w] = {}
    BY <1>7 DEF RevisionInv, LockInv, CommitExtraction
  <2>3. QED
    BY <1>6, <2>1, <2>2
<1>8. QED
  BY <1>1, <1>5, <1>6, <1>7

\* Every step preserves the invariant.
LEMMA RevisionInvStep == RevisionInv /\ [RevisionNext]_revisionVars => RevisionInv'
<1> SUFFICES ASSUME RevisionInv, [RevisionNext]_revisionVars PROVE RevisionInv'
  OBVIOUS
<1>0. RevisionTypeOK'
  BY RevisionTypeStep DEF RevisionInv
<1> USE <1>0
<1>1. ASSUME NEW p \in Postings, Create(p) PROVE RevisionInv'
  <2>1. PICK r \in RowsOf(1) : /\ rows' = [rows EXCEPT ![p] = r]
                              /\ snapshots' = [snapshots EXCEPT ![p] = {<<1, r>>}]
    BY <1>1 DEF Create
  <2>2. /\ state[p] = "absent" /\ state'[p] = "open" /\ version'[p] = 1
        /\ rows'[p] = r /\ snapshots'[p] = {<<1, r>>} /\ r \subseteq {1}
    BY <1>1, <2>1, RowsOfType DEF Create, RevisionInv, RevisionTypeOK
  <2>3. /\ \A q \in Postings : q # p =>
              /\ state'[q] = state[q] /\ version'[q] = version[q]
              /\ rows'[q] = rows[q] /\ snapshots'[q] = snapshots[q]
        /\ sourced' = sourced
    BY <1>1, <2>1 DEF Create, RevisionInv, RevisionTypeOK
  <2>4. UNCHANGED <<tabVars, workerVars>>
    BY <1>1 DEF Create
  <2>a. PostingInv' /\ RowsAreCurrent'
    <3>1. PostingInv'
      BY <2>2, <2>3 DEF RevisionInv, PostingInv
    <3>2. \A q \in Postings : q # p => rows'[q] \subseteq {version'[q]}
      BY <2>3 DEF RevisionInv, RowsAreCurrent
    <3>3. rows'[p] \subseteq {version'[p]}
      BY <2>2
    <3>4. QED
      BY <3>1, <3>2, <3>3 DEF RowsAreCurrent
  <2>b. CurrentIsRecorded'
    <3>1. \A q \in Postings : q # p /\ rows'[q] # {} => <<version'[q], rows'[q]>> \in snapshots'[q]
      BY <2>3 DEF RevisionInv, CurrentIsRecorded
    <3>2. <<version'[p], rows'[p]>> \in snapshots'[p]
      BY <2>2
    <3>3. QED
      BY <3>1, <3>2 DEF CurrentIsRecorded
  <2>5. PostingInv' /\ RowsAreCurrent' /\ CurrentIsRecorded'
    BY <2>a, <2>b
  <2>6. HistoryIsComplete'
    <3>1. \A s \in snapshots'[p] : s = <<1, r>> /\ s[1] = 1
      BY <2>2
    <3>2. \A s \in snapshots'[p] : s[1] \in 1..version'[p]
      BY <2>2, <3>1
    <3>3. \A v \in 2..version'[p] : Recorded(p, v)'
      BY <2>2
    <3>4. QED
      BY <2>2, <2>3, <3>1, <3>2, <3>3 DEF RevisionInv, HistoryIsComplete, Recorded
  <2>7. TabInv'
    BY <2>2, <2>3, <2>4 DEF RevisionInv, TabInv, tabVars
  <2>8. ReadInv' /\ EraseInv' /\ LockInv'
    BY <2>2, <2>3, <2>4 DEF RevisionInv, ReadInv, EraseInv, LockInv, workerVars
  <2>9. QED
    BY <2>5, <2>6, <2>7, <2>8 DEF RevisionInv
<1>2. ASSUME NEW p \in Postings, CaptureDocument(p) PROVE RevisionInv'
  <2>1. PICK recorded \in {{}, {<<1, {}>>}} :
           snapshots' = [snapshots EXCEPT ![p] = recorded]
    BY <1>2 DEF CaptureDocument
  <2>2. /\ state[p] = "absent" /\ state'[p] = "open" /\ version'[p] = 1
        /\ rows'[p] = {} /\ snapshots'[p] = recorded /\ rows' = rows
    BY <1>2, <2>1 DEF CaptureDocument, RevisionInv, RevisionTypeOK, PostingInv
  <2>3. \A q \in Postings : q # p =>
              /\ state'[q] = state[q] /\ version'[q] = version[q]
              /\ sourced'[q] = sourced[q] /\ snapshots'[q] = snapshots[q]
    BY <1>2, <2>1 DEF CaptureDocument, RevisionInv, RevisionTypeOK
  <2>4. UNCHANGED <<tabVars, workerVars>>
    BY <1>2 DEF CaptureDocument
  <2>a. PostingInv' /\ RowsAreCurrent'
    BY <2>2, <2>3 DEF RevisionInv, PostingInv, RowsAreCurrent
  <2>b. CurrentIsRecorded'
    BY <2>2, <2>3 DEF RevisionInv, CurrentIsRecorded
  <2>5. PostingInv' /\ RowsAreCurrent' /\ CurrentIsRecorded'
    BY <2>a, <2>b
  <2>6. HistoryIsComplete'
    <3>1. \A s \in snapshots'[p] : s = <<1, {}>> /\ s[1] = 1
      <4>1. recorded \subseteq {<<1, {}>>}
        BY <2>1
      <4>2. QED
        BY <2>2, <4>1
    <3>2. \A s \in snapshots'[p] : s[1] \in 1..version'[p]
      BY <2>2, <3>1
    <3>3. \A v \in 2..version'[p] : Recorded(p, v)'
      BY <2>2
    <3>4. \A s1, s2 \in snapshots'[p] : s1[1] = s2[1] => s1 = s2
      BY <3>1
    <3>5. ASSUME NEW q \in Postings, q # p, state'[q] = "open"
          PROVE  /\ \A v \in 2..version'[q] : Recorded(q, v)'
                 /\ \A s \in snapshots'[q] : s[1] \in 1..version'[q]
                 /\ \A s1, s2 \in snapshots'[q] : s1[1] = s2[1] => s1 = s2
      BY <2>3, <3>5 DEF RevisionInv, HistoryIsComplete, Recorded
    <3>6. QED
      BY <3>2, <3>3, <3>4, <3>5 DEF HistoryIsComplete
  <2>7. TabInv'
    BY <2>2, <2>3, <2>4 DEF RevisionInv, TabInv, tabVars
  <2>8. ReadInv' /\ EraseInv' /\ LockInv'
    BY <2>2, <2>3, <2>4 DEF RevisionInv, ReadInv, EraseInv, LockInv, workerVars
  <2>9. QED
    BY <2>5, <2>6, <2>7, <2>8 DEF RevisionInv
<1>3. ASSUME NEW p \in Postings, DeletePosting(p) PROVE RevisionInv'
  <2>1. /\ state[p] = "open" /\ state'[p] = "deleted" /\ rows'[p] = {}
        /\ snapshots'[p] = {}
        /\ \A q \in Postings : q # p =>
              /\ state'[q] = state[q] /\ rows'[q] = rows[q]
              /\ snapshots'[q] = snapshots[q]
        /\ UNCHANGED <<sourced, version, tabVars, workerVars>>
    BY <1>3 DEF DeletePosting, RevisionInv, RevisionTypeOK
  <2>2. ASSUME NEW u \in Workers, job[u] = p PROVE erased[u] = {}
    <3>1. erased[u] \subseteq rows[p] /\ rows[p] \cap Locked(p) = {}
      BY <1>3, <2>2 DEF DeletePosting, RevisionInv, EraseInv
    <3>2. QED
      BY <2>2, <3>1, LockedRow
  <2>3. PostingInv' /\ RowsAreCurrent' /\ CurrentIsRecorded'
    BY <2>1 DEF RevisionInv, PostingInv, RowsAreCurrent, CurrentIsRecorded
  <2>4. HistoryIsComplete'
    BY <2>1 DEF RevisionInv, HistoryIsComplete, Recorded
  <2>5. TabInv'
    BY <2>1 DEF RevisionInv, TabInv, tabVars
  <2>6. ReadInv' /\ LockInv'
    BY <2>1 DEF RevisionInv, ReadInv, LockInv, workerVars
  <2>7. EraseInv'
    BY <2>1, <2>2 DEF RevisionInv, EraseInv, workerVars
  <2>8. QED
    BY <2>3, <2>4, <2>5, <2>6, <2>7 DEF RevisionInv
<1>4. ASSUME NEW t \in Tabs, NEW p \in Postings, ReadForEdit(t, p) PROVE RevisionInv'
  <2>1. UNCHANGED postingVars /\ UNCHANGED workerVars /\ state[p] = "open"
    BY <1>4 DEF ReadForEdit
  <2>2. PostingInv' /\ HistoryIsComplete' /\ RowsAreCurrent' /\ CurrentIsRecorded'
    BY <2>1, TablesKept
  <2>3. TabInv'
    BY <1>4, <2>1 DEF ReadForEdit, RevisionInv, RevisionTypeOK, TabInv, PostingInv, postingVars
  <2>4. ReadInv' /\ EraseInv' /\ LockInv'
    BY <2>1 DEF RevisionInv, ReadInv, EraseInv, LockInv, postingVars, workerVars
  <2>5. QED
    BY <2>2, <2>3, <2>4 DEF RevisionInv
<1>5. ASSUME NEW t \in Tabs, NEW p \in Postings, CommitEdit(t, p) PROVE RevisionInv'
  <2>1. PICK r \in RowsOf(version[p] + 1) :
           Publish(p, version[p] + 1, readRows[t], r)
    BY <1>5, CommitEditPublishes
  <2>2. rows[p] \subseteq readRows[t] /\ readRows[t] \in SUBSET Nat
    BY <1>5, CommitEditPublishes
  <2>3. PostingInv' /\ HistoryIsComplete' /\ RowsAreCurrent' /\ CurrentIsRecorded'
    BY <2>1, <2>2, PublishKept
  <2>4. /\ editing' = [editing EXCEPT ![t] = NoPosting]
        /\ UNCHANGED <<readVersion, readRows, workerVars>>
    BY <1>5 DEF CommitEdit, EndEdit
  <2>5. \A u \in Tabs : \A q \in Postings : editing'[u] = q => editing[u] = q
    BY <2>4, PostingAssumption DEF RevisionInv, RevisionTypeOK
  <2>6. TabInv'
    BY <2>1, <2>2, <2>4, <2>5, PublishTabs DEF TabInv
  <2>7. ReadInv'
    BY <2>1, <2>2, <2>4, PublishReads DEF RevisionInv, ReadInv, workerVars
  <2>8. ASSUME NEW u \in Workers, NEW q \in Postings, job[u] = q
        PROVE  erased[u] \subseteq rows'[q]
    <3>1. CASE q = p
      BY <1>5, <2>8, <3>1, CommitEditPublishes
    <3>2. CASE q # p
      BY <2>1, <2>8, <3>2 DEF Publish, RevisionInv, RevisionTypeOK, EraseInv
    <3>3. QED
      BY <3>1, <3>2
  <2>9. EraseInv' /\ LockInv'
    <3>1. LockInv'
      BY <2>4 DEF RevisionInv, LockInv, workerVars
    <3>2. ASSUME NEW u \in Workers, NEW q \in Postings, job[u] = q
          PROVE  /\ state'[q] # "absent"
                 /\ phase[u] = "proposing" => target[u] \cap rows'[q] \subseteq erased[u]
      BY <2>1, <2>2, <3>2, PublishReads
    <3>3. EraseInv'
      BY <2>4, <2>8, <3>2 DEF RevisionInv, EraseInv, workerVars
    <3>4. QED
      BY <3>1, <3>3
  <2>10. QED
    BY <2>3, <2>6, <2>7, <2>9 DEF RevisionInv
<1>6. ASSUME NEW t \in Tabs, NEW p \in Postings, RejectEdit(t, p) PROVE RevisionInv'
  <2>1. UNCHANGED postingVars /\ UNCHANGED workerVars
    BY <1>6 DEF RejectEdit, EndEdit
  <2>2. PostingInv' /\ HistoryIsComplete' /\ RowsAreCurrent' /\ CurrentIsRecorded'
    BY <2>1, TablesKept
  <2>3. TabInv'
    BY <1>6, <2>1, PostingAssumption
       DEF RejectEdit, EndEdit, RevisionInv, RevisionTypeOK, TabInv, postingVars
  <2>4. ReadInv' /\ EraseInv' /\ LockInv'
    BY <2>1 DEF RevisionInv, ReadInv, EraseInv, LockInv, postingVars, workerVars
  <2>5. QED
    BY <2>2, <2>3, <2>4 DEF RevisionInv
<1>7. ASSUME NEW w \in Workers, NEW p \in Postings, OpenSource(w, p) PROVE RevisionInv'
  <2>1. UNCHANGED postingVars /\ UNCHANGED tabVars
    BY <1>7 DEF OpenSource
  <2>2. PostingInv' /\ HistoryIsComplete' /\ RowsAreCurrent' /\ CurrentIsRecorded'
    BY <2>1, TablesKept
  <2>3. TabInv'
    BY <2>1, TabsKept DEF RevisionInv, postingVars
  <2>4. phase[w] = "idle" /\ erased[w] = {} /\ state[p] # "absent"
    BY <1>7 DEF OpenSource, RevisionInv, EraseInv, PostingInv
  <2>5. ReadInv'
    BY <1>7, <2>1 DEF OpenSource, RevisionInv, RevisionTypeOK, ReadInv, postingVars
  <2>6. EraseInv'
    BY <1>7, <2>1, <2>4, PostingAssumption
       DEF OpenSource, RevisionInv, RevisionTypeOK, EraseInv, postingVars
  <2>7. LockInv'
    BY <1>7, <2>4 DEF OpenSource, RevisionInv, RevisionTypeOK, LockInv
  <2>8. QED
    BY <2>2, <2>3, <2>5, <2>6, <2>7 DEF RevisionInv
<1>8. ASSUME NEW w \in Workers, NEW p \in Postings, ReadOpportunity(w, p) PROVE RevisionInv'
  <2>1. UNCHANGED postingVars /\ UNCHANGED <<tabVars, job, erased>>
    BY <1>8 DEF ReadOpportunity
  <2>2. PostingInv' /\ HistoryIsComplete' /\ RowsAreCurrent' /\ CurrentIsRecorded'
    BY <2>1, TablesKept
  <2>3. TabInv' /\ LockInv'
    BY <2>1, TabsKept DEF RevisionInv, LockInv, postingVars
  <2>4. /\ job[w] = p /\ base'[w] = version[p] /\ target'[w] = rows[p]
        /\ version[p] >= 1 /\ rows[p] \subseteq {version[p]}
    BY <1>8 DEF ReadOpportunity, RevisionInv, RevisionTypeOK, PostingInv, RowsAreCurrent
  <2>5. ReadInv'
    BY <1>8, <2>1, <2>4 DEF ReadOpportunity, RevisionInv, RevisionTypeOK, ReadInv, postingVars
  <2>6. EraseInv'
    BY <1>8, <2>1, PostingAssumption
       DEF ReadOpportunity, RevisionInv, RevisionTypeOK, EraseInv, postingVars
  <2>7. QED
    BY <2>2, <2>3, <2>5, <2>6 DEF RevisionInv
<1>9. ASSUME NEW w \in Workers, NEW p \in Postings, EraseRequirements(w, p)
      PROVE RevisionInv'
  <2>1. UNCHANGED postingVars /\ UNCHANGED <<tabVars, job, base, target>>
    BY <1>9 DEF EraseRequirements
  <2>2. PostingInv' /\ HistoryIsComplete' /\ RowsAreCurrent' /\ CurrentIsRecorded'
    BY <2>1, TablesKept
  <2>3. TabInv'
    BY <2>1, TabsKept DEF RevisionInv, postingVars
  <2>4. /\ job[w] = p /\ phase[w] = "deleting" /\ target[w] \cap Locked(p) = {}
        /\ erased' = [erased EXCEPT ![w] = target[w] \cap rows[p]]
        /\ phase' = [phase EXCEPT ![w] = "proposing"]
    BY <1>9 DEF EraseRequirements
  <2>5. ReadInv'
    BY <2>1, <2>4 DEF RevisionInv, RevisionTypeOK, ReadInv, postingVars
  <2>6. EraseInv'
    BY <2>1, <2>4, PostingAssumption DEF RevisionInv, RevisionTypeOK, EraseInv, postingVars
  <2>7. \A u \in Workers \ {w} : job[u] = p => erased[u] \cap target[w] = {}
    BY <2>4, LockedRow
  <2>8. LockInv'
    BY <2>1, <2>4, <2>7 DEF RevisionInv, RevisionTypeOK, LockInv
  <2>9. QED
    BY <2>2, <2>3, <2>5, <2>6, <2>8 DEF RevisionInv
<1>10. ASSUME NEW w \in Workers, NEW p \in Postings, CommitExtraction(w, p)
       PROVE RevisionInv'
  <2>1. PICK r \in RowsOf(version[p] + 1) :
           Publish(p, version[p] + 1, erased[w], r)
    BY <1>10, CommitExtractionPublishes
  <2>2. rows[p] \subseteq erased[w] /\ erased[w] \in SUBSET Nat
    BY <1>10, CommitExtractionPublishes
  <2>3. PostingInv' /\ HistoryIsComplete' /\ RowsAreCurrent' /\ CurrentIsRecorded'
    BY <2>1, <2>2, PublishKept
  <2>4. /\ job' = [job EXCEPT ![w] = NoPosting]
        /\ phase' = [phase EXCEPT ![w] = "idle"]
        /\ erased' = [erased EXCEPT ![w] = {}]
        /\ UNCHANGED <<tabVars, base, target>>
    BY <1>10 DEF CommitExtraction, Release
  <2>5. TabInv'
    BY <2>1, <2>2, <2>4, PublishTabs DEF TabInv, tabVars
  <2>6. \A u \in Workers : \A q \in Postings : job'[u] = q =>
           u # w /\ job[u] = q /\ phase'[u] = phase[u] /\ erased'[u] = erased[u]
    BY <2>4, PostingAssumption DEF RevisionInv, RevisionTypeOK
  <2>7. ReadInv'
    BY <2>1, <2>2, <2>4, <2>6, PublishReads DEF RevisionInv, ReadInv
  <2>8. ASSUME NEW u \in Workers \ {w}, NEW q \in Postings, job[u] = q
        PROVE  erased[u] \subseteq rows'[q]
    <3>1. CASE q = p
      BY <1>10, <2>8, <3>1, CommitExtractionPublishes
    <3>2. CASE q # p
      BY <2>1, <2>8, <3>2 DEF Publish, RevisionInv, RevisionTypeOK, EraseInv
    <3>3. QED
      BY <3>1, <3>2
  <2>9. \A u \in Workers : /\ phase'[u] # "proposing" => erased'[u] = {}
                           /\ job'[u] = NoPosting => phase'[u] = "idle"
    BY <2>4 DEF RevisionInv, RevisionTypeOK, EraseInv
  <2>10. EraseInv'
    <3>1. ASSUME NEW u \in Workers, NEW q \in Postings, job[u] = q
          PROVE  /\ state'[q] # "absent"
                 /\ phase[u] = "proposing" => target[u] \cap rows'[q] \subseteq erased[u]
      BY <2>1, <2>2, <3>1, PublishReads
    <3>2. QED
      BY <2>4, <2>6, <2>8, <2>9, <3>1 DEF RevisionInv, EraseInv
  <2>11. LockInv'
    BY <2>4 DEF RevisionInv, RevisionTypeOK, LockInv
  <2>12. QED
    BY <2>3, <2>5, <2>7, <2>10, <2>11 DEF RevisionInv
<1>11. ASSUME NEW w \in Workers, NEW p \in Postings, FailExtraction(w, p)
       PROVE RevisionInv'
  <2>1. /\ job[w] = p
        /\ rows' = [rows EXCEPT ![p] = @ \ erased[w]]
        /\ job' = [job EXCEPT ![w] = NoPosting]
        /\ phase' = [phase EXCEPT ![w] = "idle"]
        /\ erased' = [erased EXCEPT ![w] = {}]
        /\ UNCHANGED <<tabVars, base, target, state, sourced, version, snapshots>>
    BY <1>11 DEF FailExtraction, Release
  <2>2. \A q \in Postings : rows'[q] = IF q = p THEN rows[p] \ erased[w] ELSE rows[q]
    BY <2>1 DEF RevisionInv, RevisionTypeOK
  <2>3. PostingInv' /\ RowsAreCurrent'
    BY <2>1, <2>2 DEF RevisionInv, PostingInv, RowsAreCurrent
  <2>4. HistoryIsComplete'
    BY <2>1 DEF RevisionInv, HistoryIsComplete, Recorded
  <2>5. CurrentIsRecorded'
    <3>1. rows[p] \subseteq {version[p]}
      BY DEF RevisionInv, RowsAreCurrent
    <3>2. rows'[p] # {} => rows'[p] = rows[p]
      BY <2>2, <3>1
    <3>3. QED
      BY <2>1, <2>2, <3>2 DEF RevisionInv, CurrentIsRecorded
  <2>6. TabInv'
    BY <2>1, <2>2, TabsKept DEF RevisionInv
  <2>7. \A u \in Workers : \A q \in Postings : job'[u] = q =>
           u # w /\ job[u] = q /\ phase'[u] = phase[u] /\ erased'[u] = erased[u]
    BY <2>1, PostingAssumption DEF RevisionInv, RevisionTypeOK
  <2>8. ReadInv'
    BY <2>1, <2>2, <2>7 DEF RevisionInv, ReadInv
  <2>9. ASSUME NEW u \in Workers, u # w, job[u] = p
        PROVE  erased[u] \subseteq rows'[p]
    BY <2>1, <2>2, <2>9 DEF RevisionInv, EraseInv, LockInv
  <2>10. \A u \in Workers : /\ phase'[u] # "proposing" => erased'[u] = {}
                            /\ job'[u] = NoPosting => phase'[u] = "idle"
    BY <2>1 DEF RevisionInv, RevisionTypeOK, EraseInv
  <2>11. EraseInv'
    BY <2>1, <2>2, <2>7, <2>9, <2>10 DEF RevisionInv, EraseInv
  <2>12. LockInv'
    BY <2>1 DEF RevisionInv, RevisionTypeOK, LockInv
  <2>13. QED
    BY <2>3, <2>4, <2>5, <2>6, <2>8, <2>11, <2>12 DEF RevisionInv
<1>12. ASSUME NEW w \in Workers, NEW p \in Postings, AbortExtraction(w, p)
       PROVE RevisionInv'
  <2>1. /\ UNCHANGED postingVars
        /\ job' = [job EXCEPT ![w] = NoPosting]
        /\ phase' = [phase EXCEPT ![w] = "idle"]
        /\ erased' = [erased EXCEPT ![w] = {}]
        /\ UNCHANGED <<tabVars, base, target>>
    BY <1>12 DEF AbortExtraction, Release
  <2>2. PostingInv' /\ HistoryIsComplete' /\ RowsAreCurrent' /\ CurrentIsRecorded'
    BY <2>1, TablesKept
  <2>3. TabInv'
    BY <2>1, TabsKept DEF RevisionInv, postingVars
  <2>4. \A u \in Workers : \A q \in Postings : job'[u] = q =>
           u # w /\ job[u] = q /\ phase'[u] = phase[u] /\ erased'[u] = erased[u]
    BY <2>1, PostingAssumption DEF RevisionInv, RevisionTypeOK
  <2>5. ReadInv'
    BY <2>1, <2>4 DEF RevisionInv, ReadInv, postingVars
  <2>6. \A u \in Workers : /\ phase'[u] # "proposing" => erased'[u] = {}
                           /\ job'[u] = NoPosting => phase'[u] = "idle"
    BY <2>1 DEF RevisionInv, RevisionTypeOK, EraseInv
  <2>7. EraseInv'
    BY <2>1, <2>4, <2>6 DEF RevisionInv, EraseInv, postingVars
  <2>8. LockInv'
    BY <2>1 DEF RevisionInv, RevisionTypeOK, LockInv
  <2>9. QED
    BY <2>2, <2>3, <2>5, <2>7, <2>8 DEF RevisionInv
<1>13. CASE UNCHANGED revisionVars
  BY <1>13, TablesKept
     DEF revisionVars, RevisionInv, postingVars, tabVars, workerVars, TabInv, ReadInv, EraseInv, LockInv
<1>14. QED
  BY <1>1, <1>2, <1>3, <1>4, <1>5, <1>6, <1>7, <1>8, <1>9, <1>10, <1>11, <1>12,
     <1>13 DEF RevisionNext, Edit, Extract

(***************************************************************************)
(* The theorems.                                                           *)
(***************************************************************************)

\* The invariant holds in every reachable state.
THEOREM RevisionInvariance == RevisionSpec => []RevisionInv
BY RevisionInitInv, RevisionInvStep, PTL DEF RevisionSpec

\* The tables and the open transactions keep their types.
THEOREM RevisionTypeCorrect == RevisionSpec => []RevisionTypeOK
<1>1. RevisionInv => RevisionTypeOK
  BY DEF RevisionInv
<1>2. QED
  BY <1>1, RevisionInvariance, PTL

\* The requirements of two revisions are never mixed.
THEOREM RowsAreCurrentAlways == RevisionSpec => []RowsAreCurrent
<1>1. RevisionInv => RowsAreCurrent
  BY DEF RevisionInv
<1>2. QED
  BY <1>1, RevisionInvariance, PTL

\* The history has every revision, once, up to the current one.
THEOREM HistoryIsCompleteAlways == RevisionSpec => []HistoryIsComplete
<1>1. RevisionInv => HistoryIsComplete
  BY DEF RevisionInv
<1>2. QED
  BY <1>1, RevisionInvariance, PTL

\* Requirements that are present are those recorded for the current version.
THEOREM CurrentIsRecordedAlways == RevisionSpec => []CurrentIsRecorded
<1>1. RevisionInv => CurrentIsRecorded
  BY DEF RevisionInv
<1>2. QED
  BY <1>1, RevisionInvariance, PTL

\* A publication adds exactly the next revision.
LEMMA PublishAdvances ==
    ASSUME RevisionInv, NEW p \in Postings, NEW x,
           NEW r \in RowsOf(version[p] + 1), Publish(p, version[p] + 1, x, r),
           NEW q \in Postings, snapshots'[q] # snapshots[q] \/ version'[q] # version[q]
                               \/ rows'[q] # rows[q]
    PROVE  RecordsNext(q) /\ version'[q] # version[q]
<1>1. q = p
  BY DEF Publish, RevisionInv, RevisionTypeOK
<1>2. version'[q] = version[q] + 1 /\ version[q] \in Nat
  BY <1>1 DEF Publish, RevisionInv, RevisionTypeOK
<1>3. snapshots'[q] = snapshots[q] \cup {<<version'[q], r>>}
  BY <1>1, <1>2 DEF Publish, RevisionInv, RevisionTypeOK
<1>4. QED
  BY <1>1, <1>2, <1>3 DEF RecordsNext

\* Whoever commits a revision had read the newest and adds the next one.
THEOREM RevisionsAdvanceAlways == RevisionSpec => RevisionsAdvance
<1> DEFINE Advance == \A p \in Postings :
          snapshots'[p] # snapshots[p] /\ state[p] = "open" /\ state'[p] = "open"
              => RecordsNext(p)
<1>1. RevisionInv /\ [RevisionNext]_revisionVars => [Advance]_revisionVars
  <2> SUFFICES ASSUME RevisionInv, RevisionNext PROVE Advance
    OBVIOUS
  <2> USE DEF RevisionInv, RevisionTypeOK
  <2>1. ASSUME NEW p \in Postings,
               Create(p) \/ CaptureDocument(p) \/ DeletePosting(p)
        PROVE  Advance
    BY <2>1 DEF Create, CaptureDocument, DeletePosting
  <2>2. ASSUME NEW t \in Tabs, NEW p \in Postings, ReadForEdit(t, p) \/ RejectEdit(t, p)
        PROVE  Advance
    BY <2>2 DEF ReadForEdit, RejectEdit, postingVars
  <2>3. ASSUME NEW t \in Tabs, NEW p \in Postings, CommitEdit(t, p) PROVE Advance
    BY <2>3, CommitEditPublishes, PublishAdvances
  <2>4. ASSUME NEW w \in Workers, NEW p \in Postings,
               \/ OpenSource(w, p) \/ ReadOpportunity(w, p) \/ EraseRequirements(w, p)
               \/ FailExtraction(w, p) \/ AbortExtraction(w, p)
        PROVE  Advance
    BY <2>4 DEF OpenSource, ReadOpportunity, EraseRequirements, FailExtraction,
                AbortExtraction, postingVars
  <2>5. ASSUME NEW w \in Workers, NEW p \in Postings, CommitExtraction(w, p)
        PROVE  Advance
    BY <2>5, CommitExtractionPublishes, PublishAdvances
  <2>6. QED
    BY <2>1, <2>2, <2>3, <2>4, <2>5 DEF RevisionNext, Edit, Extract
<1>2. QED
  BY <1>1, RevisionInvariance, PTL DEF RevisionSpec, RevisionsAdvance

\* Without a new revision only a failed extraction takes requirements away.
THEOREM RowsFollowRevisionAlways == RevisionSpec => RowsFollowRevision
<1> DEFINE Follow == \A p \in Postings :
          rows'[p] # rows[p] /\ version'[p] = version[p] /\ state'[p] = "open"
              => LosesErased(p)
<1>1. RevisionInv /\ [RevisionNext]_revisionVars => [Follow]_revisionVars
  <2> SUFFICES ASSUME RevisionInv, RevisionNext PROVE Follow
    OBVIOUS
  <2>1. ASSUME NEW p \in Postings, Create(p) PROVE Follow
    <3>1. version[p] = 0 /\ version'[p] = 1
      BY <2>1 DEF Create, RevisionInv, RevisionTypeOK, PostingInv
    <3>2. \A q \in Postings : q # p => rows'[q] = rows[q]
      BY <2>1 DEF Create, RevisionInv, RevisionTypeOK
    <3>3. QED
      BY <3>1, <3>2
  <2>2. ASSUME NEW p \in Postings, CaptureDocument(p) PROVE Follow
    BY <2>2 DEF CaptureDocument
  <2>3. ASSUME NEW p \in Postings, DeletePosting(p) PROVE Follow
    BY <2>3 DEF DeletePosting, RevisionInv, RevisionTypeOK
  <2>4. ASSUME NEW t \in Tabs, NEW p \in Postings, ReadForEdit(t, p) \/ RejectEdit(t, p)
        PROVE  Follow
    BY <2>4 DEF ReadForEdit, RejectEdit, postingVars
  <2>5. ASSUME NEW t \in Tabs, NEW p \in Postings, CommitEdit(t, p) PROVE Follow
    BY <2>5, CommitEditPublishes, PublishAdvances
  <2>6. ASSUME NEW w \in Workers, NEW p \in Postings,
               \/ OpenSource(w, p) \/ ReadOpportunity(w, p) \/ EraseRequirements(w, p)
               \/ AbortExtraction(w, p)
        PROVE  Follow
    BY <2>6 DEF OpenSource, ReadOpportunity, EraseRequirements, AbortExtraction,
                postingVars
  <2>7. ASSUME NEW w \in Workers, NEW p \in Postings, FailExtraction(w, p) PROVE Follow
    <3>1. job[w] = p /\ rows' = [rows EXCEPT ![p] = @ \ erased[w]]
      BY <2>7 DEF FailExtraction
    <3>2. erased[w] \subseteq rows[p] /\ rows[p] \subseteq {version[p]}
      BY <3>1 DEF RevisionInv, EraseInv, RowsAreCurrent
    <3>3. \A q \in Postings : rows'[q] = IF q = p THEN rows[p] \ erased[w] ELSE rows[q]
      BY <3>1 DEF RevisionInv, RevisionTypeOK
    <3>4. rows'[p] # rows[p] => rows'[p] = {} /\ erased[w] = rows[p]
      BY <3>2, <3>3
    <3>5. QED
      BY <3>1, <3>3, <3>4 DEF LosesErased
  <2>8. ASSUME NEW w \in Workers, NEW p \in Postings, CommitExtraction(w, p)
        PROVE  Follow
    BY <2>8, CommitExtractionPublishes, PublishAdvances
  <2>9. QED
    BY <2>1, <2>2, <2>3, <2>4, <2>5, <2>6, <2>7, <2>8 DEF RevisionNext, Edit, Extract
<1>2. QED
  BY <1>1, RevisionInvariance, PTL DEF RevisionSpec, RowsFollowRevision

=============================================================================
