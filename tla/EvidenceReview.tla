---------------------------- MODULE EvidenceReview ----------------------------
(* The evidence inbox: claims proposed by extraction, by connectors and by    *)
(* hand, the seeker's decisions about them, the skills that cite them, and    *)
(* the profile imports that replace everything.                               *)
(*                                                                            *)
(* A decision reads the claim without a lock and writes it by its identity. A *)
(* DELETE of claims (an extraction's, an import's) finds rows when it starts, *)
(* waits for the transactions that lock some of them, then deletes those that *)
(* still satisfy its condition and locks them until its transaction ends      *)
(* (READ COMMITTED). A step that meets locked rows is not enabled. A skill    *)
(* row that an import has deleted is locked the same way.                     *)
EXTENDS Naturals, FiniteSets

CONSTANTS
    Claims,     \* identities of evidence_claims rows
    Skills,     \* identities of skills rows
    Sources,    \* identities of sources rows
    Tabs,       \* concurrent requests of the seeker
    Workers,    \* worker processes
    NoSource    \* a claim without source; a worker without job

ASSUME NullAssumption == NoSource \notin Sources
ASSUME ActorAssumption == Tabs \cap Workers = {}

VARIABLES
    state,     \* claim -> state column; "absent" before, "deleted" after
    origin,    \* claim -> source_id column
    source,    \* source -> "absent", "stored" with a document, "bare", "deleted"
    skill,     \* skill -> "absent", "present" or "deleted"
    evidence,  \* skill -> claims linked in skill_evidence
    phase,     \* tab or worker -> where its request or transaction is
    picked,    \* tab -> claims it has read: to decide, or to cite
    job,       \* worker -> source whose document it is processing
    target,    \* tab or worker -> claims its DELETE has found
    erased,    \* tab or worker -> claims it has deleted, and locks
    cleared,   \* tab -> skills that its import has deleted
    redecided  \* history: claims whose decision replaced a decision

claimVars == <<state, origin, redecided>>
skillVars == <<skill, evidence>>
actorVars == <<phase, picked, job, target, erased, cleared>>
reviewVars == <<claimVars, source, skillVars, actorVars>>

Actors   == Tabs \cup Workers
Decided  == {"confirmed", "rejected"}
States   == {"proposed", "superseded"} \cup Decided
Existing == {c \in Claims : state[c] \in States}
Absent   == {c \in Claims : state[c] = "absent"}
Present(s) == source[s] \in {"stored", "bare"}

ReviewTypeOK ==
    /\ state \in [Claims -> States \cup {"absent", "deleted"}]
    /\ origin \in [Claims -> Sources \cup {NoSource}]
    /\ source \in [Sources -> {"absent", "stored", "bare", "deleted"}]
    /\ skill \in [Skills -> {"absent", "present", "deleted"}]
    /\ evidence \in [Skills -> SUBSET Claims]
    /\ phase \in [Actors -> {"idle", "deciding", "citing", "reading", "finding",
                             "holding"}]
    /\ picked \in [Tabs -> SUBSET Claims]
    /\ job \in [Workers -> Sources \cup {NoSource}]
    /\ target \in [Actors -> SUBSET Claims]
    /\ erased \in [Actors -> SUBSET Claims]
    /\ cleared \in [Tabs -> SUBSET Skills]
    /\ redecided \in SUBSET Claims

ReviewInit ==
    /\ state = [c \in Claims |-> "absent"]
    /\ origin = [c \in Claims |-> NoSource]
    /\ source = [s \in Sources |-> "absent"]
    /\ skill = [k \in Skills |-> "absent"]
    /\ evidence = [k \in Skills |-> {}]
    /\ phase = [a \in Actors |-> "idle"]
    /\ picked = [t \in Tabs |-> {}]
    /\ job = [w \in Workers |-> NoSource]
    /\ target = [a \in Actors |-> {}]
    /\ erased = [a \in Actors |-> {}]
    /\ cleared = [t \in Tabs |-> {}]
    /\ redecided = {}

\* Claims that the open transactions of others have deleted and lock.
LockedBy(others) == UNION {erased[a] : a \in others}

\* Actor a starts, or its request or transaction ends.
Enter(a, p) == phase' = [phase EXCEPT ![a] = p]
End(a) ==
    /\ phase' = [phase EXCEPT ![a] = "idle"]
    /\ erased' = [erased EXCEPT ![a] = {}]
    /\ target' = [target EXCEPT ![a] = {}]
    /\ picked' = [t \in Tabs |-> IF t = a THEN {} ELSE picked[t]]
    /\ cleared' = [t \in Tabs |-> IF t = a THEN {} ELSE cleared[t]]
    /\ job' = [w \in Workers |-> IF w = a THEN NoSource ELSE job[w]]

(***************************************************************************)
(* Where claims come from.                                                 *)
(***************************************************************************)

\* upload_source: a document is stored for the worker.
Upload(s) ==
    /\ source[s] = "absent"
    /\ source' = [source EXCEPT ![s] = "stored"]
    /\ UNCHANGED <<claimVars, skillVars, actorVars>>

\* Claims new are inserted as proposals of source s, or of none.
Propose(new, s) ==
    /\ state' = [c \in Claims |-> IF c \in new THEN "proposed" ELSE state[c]]
    /\ origin' = [c \in Claims |-> IF c \in new THEN s ELSE origin[c]]

\* propose_claim: by hand, about a source of the workspace or none.
ProposeClaim(c, s) ==
    /\ state[c] = "absent"
    /\ s = NoSource \/ (s \in Sources /\ Present(s))
    /\ Propose({c}, s)
    /\ UNCHANGED <<source, skillVars, actorVars, redecided>>

\* github_snapshot: a source without document, and its proposals.
GithubSnapshot(s) ==
    /\ source[s] = "absent"
    /\ source' = [source EXCEPT ![s] = "bare"]
    /\ \E new \in SUBSET Absent : Propose(new, s)
    /\ UNCHANGED <<skillVars, actorVars, redecided>>

(***************************************************************************)
(* decide_claim, add_skill and delete_skill.                               *)
(***************************************************************************)

ReadForDecision(t, c) ==
    /\ phase[t] = "idle"
    /\ state[c] = "proposed"
    /\ Enter(t, "deciding")
    /\ picked' = [picked EXCEPT ![t] = {c}]
    /\ UNCHANGED <<claimVars, source, skillVars, job, target, erased, cleared>>

\* The unit of work updates the row by its identity, whatever became of it.
CommitDecision(t, c) ==
    /\ phase[t] = "deciding"
    /\ picked[t] = {c}
    /\ c \notin LockedBy(Actors)
    /\ state[c] # "deleted"
    /\ \E verdict \in Decided : state' = [state EXCEPT ![c] = verdict]
    /\ redecided' = IF state[c] = "proposed" THEN redecided ELSE redecided \cup {c}
    /\ End(t)
    /\ UNCHANGED <<origin, source, skillVars>>

\* Mutated ReadForSkill: the cited claims need not be confirmed.
ReadAnyForSkill(t) ==
    /\ phase[t] = "idle"
    /\ \E cited \in SUBSET Existing : picked' = [picked EXCEPT ![t] = cited]
    /\ Enter(t, "citing")
    /\ UNCHANGED <<claimVars, source, skillVars, job, target, erased, cleared>>

\* Every cited claim is a confirmed one.
ReadForSkill(t) ==
    /\ phase[t] = "idle"
    /\ \E cited \in SUBSET {c \in Claims : state[c] = "confirmed"} :
          picked' = [picked EXCEPT ![t] = cited]
    /\ Enter(t, "citing")
    /\ UNCHANGED <<claimVars, source, skillVars, job, target, erased, cleared>>

\* The foreign keys of the links wait for locked claims and require their rows.
CommitSkill(t, k) ==
    /\ phase[t] = "citing"
    /\ skill[k] = "absent"
    /\ picked[t] \subseteq Existing \ LockedBy(Actors)
    /\ skill' = [skill EXCEPT ![k] = "present"]
    /\ evidence' = [evidence EXCEPT ![k] = picked[t]]
    /\ End(t)
    /\ UNCHANGED <<claimVars, source>>

DeleteSkill(k) ==
    /\ skill[k] = "present"
    /\ \A t \in Tabs : k \notin cleared[t]
    /\ skill' = [skill EXCEPT ![k] = "deleted"]
    /\ evidence' = [evidence EXCEPT ![k] = {}]
    /\ UNCHANGED <<claimVars, source, actorVars>>

\* A request fails, or a worker's process ends, and its transaction is rolled
\* back: a claim or the source it needs is gone, the name of the skill is taken,
\* the imported document is invalid, a deadlock, a crash.
Abort(a) ==
    /\ phase[a] # "idle"
    /\ End(a)
    /\ UNCHANGED <<claimVars, source, skillVars>>

(***************************************************************************)
(* process_source for a profile document, one transaction of worker w.     *)
(***************************************************************************)

\* retry_source allows any document to be processed at any time, also while
\* another worker is at it.
OpenSource(w, s) ==
    /\ phase[w] = "idle"
    /\ source[s] = "stored"
    /\ Enter(w, "reading")
    /\ job' = [job EXCEPT ![w] = s]
    /\ UNCHANGED <<claimVars, source, skillVars, picked, target, erased, cleared>>

\* The DELETE of the proposals of the source starts.
FindProposals(w) ==
    /\ phase[w] = "reading"
    /\ Enter(w, "finding")
    /\ target' = [target EXCEPT ![w] =
                     {c \in Claims : state[c] = "proposed" /\ origin[c] = job[w]}]
    /\ UNCHANGED <<claimVars, source, skillVars, picked, job, erased, cleared>>

\* Mutated EraseProposals: the claims are deleted by their identities.
EraseFound(w) ==
    /\ w \in Workers /\ phase[w] = "finding"
    /\ target[w] \cap LockedBy(Actors) = {}
    /\ Enter(w, "holding")
    /\ erased' = [erased EXCEPT ![w] = target[w] \cap Existing]
    /\ UNCHANGED <<claimVars, source, skillVars, picked, job, target, cleared>>

\* It ends with those that nobody has decided or deleted meanwhile.
EraseProposals(w) ==
    /\ w \in Workers /\ phase[w] = "finding"
    /\ target[w] \cap LockedBy(Actors) = {}
    /\ Enter(w, "holding")
    /\ erased' = [erased EXCEPT ![w] = {c \in target[w] : state[c] = "proposed"}]
    /\ UNCHANGED <<claimVars, source, skillVars, picked, job, target, cleared>>

\* The deletion of the claims gone is committed, and their links with them.
Unlink(gone) == evidence' = [k \in Skills |-> evidence[k] \ gone]

\* Mutated CommitProposals: the proposals that were there are kept.
CommitAdding(w) ==
    /\ w \in Workers /\ phase[w] = "holding"
    /\ source[job[w]] = "stored"
    /\ \E new \in SUBSET Absent : Propose(new, job[w])
    /\ End(w)
    /\ UNCHANGED <<source, skillVars, redecided>>

\* Extraction has succeeded: the new proposals take the place of the old ones.
CommitProposals(w) ==
    /\ w \in Workers /\ phase[w] = "holding"
    /\ source[job[w]] = "stored"
    /\ \E new \in SUBSET Absent :
          /\ state' = [c \in Claims |-> IF c \in erased[w] THEN "deleted"
                                        ELSE IF c \in new THEN "proposed" ELSE state[c]]
          /\ origin' = [c \in Claims |-> IF c \in new THEN job[w] ELSE origin[c]]
    /\ Unlink(erased[w])
    /\ End(w)
    /\ UNCHANGED <<source, skill, redecided>>

\* Reading or proposing raised: what has been done so far is committed.
FailExtraction(w) ==
    /\ w \in Workers /\ phase[w] \in {"reading", "holding"}
    /\ source[job[w]] = "stored"
    /\ state' = [c \in Claims |-> IF c \in erased[w] THEN "deleted" ELSE state[c]]
    /\ Unlink(erased[w])
    /\ End(w)
    /\ UNCHANGED <<origin, source, skill, redecided>>

(***************************************************************************)
(* import_profile_interchange, in a request of tab t.                      *)
(***************************************************************************)

\* Its DELETEs of skills, claims and sources start ...
StartImport(t) ==
    /\ phase[t] = "idle"
    /\ Enter(t, "finding")
    /\ target' = [target EXCEPT ![t] = Existing]
    /\ cleared' = [cleared EXCEPT ![t] = {k \in Skills : skill[k] = "present"}]
    /\ UNCHANGED <<claimVars, source, skillVars, picked, job, erased>>

\* ... and have waited for the claims that others had deleted.
EraseProfile(t) ==
    /\ t \in Tabs /\ phase[t] = "finding"
    /\ target[t] \cap LockedBy(Actors) = {}
    /\ Enter(t, "holding")
    /\ erased' = [erased EXCEPT ![t] = target[t] \cap Existing]
    /\ UNCHANGED <<claimVars, source, skillVars, picked, job, target, cleared>>

\* The rows of the document are written: its source s, claims new in the states
\* given, and skills added that cite the claims cited; the claims gone, the
\* sources closed and the skills dropped are deleted.
WriteProfile(gone, closed, dropped, s, new, given, added, cited) ==
    /\ state' = [c \in Claims |-> IF c \in gone THEN "deleted"
                                  ELSE IF c \in new THEN given[c] ELSE state[c]]
    /\ origin' = [c \in Claims |-> IF c \in new THEN s
                                   ELSE IF origin[c] \in closed THEN NoSource
                                   ELSE origin[c]]
    /\ source' = [x \in Sources |-> IF x = s THEN "bare"
                                    ELSE IF x \in closed THEN "deleted" ELSE source[x]]
    /\ skill' = [k \in Skills |-> IF k \in added THEN "present"
                                  ELSE IF k \in dropped THEN "deleted" ELSE skill[k]]
    /\ evidence' = [k \in Skills |-> IF k \in added THEN cited
                                     ELSE IF k \in dropped THEN {}
                                     ELSE evidence[k] \ gone]

\* A document brings claims in any state, no stored documents, and skills that
\* cite its confirmed claims.
Import(gone, closed, dropped) ==
    \E s \in {x \in Sources : source[x] = "absent"} \cup {NoSource},
       new \in SUBSET Absent,
       added \in SUBSET {k \in Skills : skill[k] = "absent"} :
    \E given \in [new -> States] :
    \E cited \in SUBSET {c \in new : given[c] = "confirmed"} :
        WriteProfile(gone, closed, dropped, s, new, given, added, cited)

CommitImport(t) ==
    /\ t \in Tabs /\ phase[t] = "holding"
    /\ Import(erased[t], {s \in Sources : Present(s)}, cleared[t])
    /\ End(t)
    /\ UNCHANGED redecided

\* An import may also be asked to delete nothing.
AppendImport == Import({}, {}, {}) /\ UNCHANGED <<redecided, actorVars>>

Decide(t, c) == ReadForDecision(t, c) \/ CommitDecision(t, c)

Curate(t) == ReadForSkill(t) \/ \E k \in Skills : CommitSkill(t, k)

Replace(t) == StartImport(t) \/ EraseProfile(t) \/ CommitImport(t)

Extract(w) ==
    \/ \E s \in Sources : OpenSource(w, s)
    \/ FindProposals(w) \/ EraseProposals(w)
    \/ CommitProposals(w) \/ FailExtraction(w)

ReviewNext ==
    \/ \E s \in Sources : Upload(s) \/ GithubSnapshot(s)
    \/ \E c \in Claims, s \in Sources \cup {NoSource} : ProposeClaim(c, s)
    \/ \E k \in Skills : DeleteSkill(k)
    \/ AppendImport
    \/ \E t \in Tabs : \/ Curate(t) \/ Replace(t)
                       \/ \E c \in Claims : Decide(t, c)
    \/ \E w \in Workers : Extract(w)
    \/ \E a \in Actors : Abort(a)

ReviewSpec == ReviewInit /\ [][ReviewNext]_reviewVars

(***************************************************************************)
(* Safety.                                                                 *)
(***************************************************************************)

\* The evidence of a skill exists and is confirmed, whatever was decided,
\* extracted or imported while it was being cited; the exception is a claim
\* that two overlapping requests decided.
SkillsRestOnConfirmed ==
    \A k \in Skills : \A c \in evidence[k] :
        state[c] = "confirmed" \/ (c \in redecided /\ state[c] \in Decided)

\* Only the import of a whole profile deletes a claim the seeker has decided,
\* and nothing makes it a proposal again: an extraction that had found it as a
\* proposal spares it.
DecisionsSurvive ==
    [][\A c \in Claims :
          state[c] \in Decided /\ state'[c] # state[c]
              => \/ \E t \in Tabs : c \in erased[t]
                 \/ c \in redecided' /\ state'[c] \in Decided]_reviewVars

\* Actor a ends a transaction that replaces claims: those it had found are
\* deleted, or an extraction leaves them to the decision of the seeker.
LeavesNone(a) ==
    phase[a] = "holding" /\ phase'[a] # "holding" /\ state' # state
        => \A c \in target[a] :
              state'[c] = "deleted" \/ (a \in Workers /\ state'[c] \in Decided)

\* A transaction that replaces claims leaves none of those it found: no
\* proposal of an earlier extraction, and no claim of the replaced profile.
ReplacementIsComplete == [][\A a \in Actors : LeavesNone(a)]_reviewVars

=============================================================================
