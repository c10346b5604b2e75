------------------------------- MODULE Matching -------------------------------
(* How well an opportunity is evidenced by a profile, and what is made of it:  *)
(* the calculation of services/matching.py, the runs it leaves, the            *)
(* recommendations regenerated from them and the alignments that aggregate     *)
(* them (api/matching.py, api/workspace.py).                                   *)
(*                                                                             *)
(* Fractions are hundredths, rounded down. What the text of a label says of    *)
(* the text of a record is a constant: its containment, and its similarity to  *)
(* a skill (taxonomy identifiers included) or to a field of the profile.       *)
EXTENDS Integers, Sequences, FiniteSets, SequencesExt, TLC

CONSTANTS
    Requests,           \* requests that may be under way at once
    Opportunities,
    Claims, Experiences, Educations, Skills,
    SkillRows,          \* what a skill may be given: level, confidence, evidence
    Fields,             \* texts for the seniority and the location of a profile
    Labels,             \* labels of requirements
    Containment,        \* [Labels -> [records -> 0..100]]
    Similarity,         \* [Labels -> [Skills \cup Fields -> 0..100]]
    Revisions,          \* [Opportunities -> lists of requirements, the first at first]
    Payloads,           \* fields a recommendation may be updated with
    None,
    MaxCalls,           \* bound: requests made
    MaxEdits            \* bound: how many of these edit the profile or an opportunity

Documents == Claims \cup Experiences \cup Educations
Records == Documents \cup Skills

Requirement ==
    [category : {"skill", "experience", "education", "seniority", "location", "other"},
     label : Labels,
     importance : {"required", "preferred", "eligibility"},
     weight : 0..10,
     minimum_level : (0..100) \cup {None}]

\* The row of a requirement: one of those that were written together.
RequirementId == [batch : Nat, index : Nat]

Recommendation ==
    [opportunity : Opportunities,
     requirement : RequirementId,
     kind : {"evidence", "capability", "presentation"},
     impact : {100, 72, 45},
     effort : 0..100,
     priority : 0..12000,
     status : {"suggested", "planned", "doing", "completed", "dismissed"},
     progress : 0..100]

ASSUME MatchingAssumption ==
    /\ IsFiniteSet(Records)
    /\ Containment \in [Labels -> [Records -> 0..100]]
    /\ Similarity \in [Labels -> [Skills \cup Fields -> 0..100]]
    /\ SkillRows \subseteq [level : 0..100, confidence : 0..100, evidence : SUBSET Claims]
    /\ \A o \in Opportunities :
          Revisions[o] \in Seq(Seq(Requirement)) /\ Revisions[o] # <<>>
    /\ \A payload \in Payloads :
          /\ "effort" \in DOMAIN payload => payload.effort \in 0..100
          /\ "progress" \in DOMAIN payload => payload.progress \in 0..100
          /\ "status" \in DOMAIN payload =>
                payload.status \in {"suggested", "planned", "doing", "completed", "dismissed"}
    /\ None \notin 0..100 /\ None \notin SkillRows /\ None \notin Recommendation
    /\ MaxEdits \in Nat

VARIABLES
    profile,            \* its revision, seniority and location
    documents,          \* confirmed claims, experiences and education records
    skills,             \* a skill's row, or None
    opportunities,      \* an opportunity's version and requirements, and how many
                        \* times their rows were written or erased (batch)
    runs,               \* match runs in the order they were created
    recommendations,    \* rows in the order they were created; None once deleted
    tasks,              \* recommendations that tasks were made of
    request,            \* what each request has read
    edits, calls

vars == <<profile, documents, skills, opportunities, runs, recommendations,
          tasks, request, edits, calls>>

-----------------------------------------------------------------------------
(* The calculation, of inputs [profile, documents, skills, opportunity].       *)

Confirmed(in) == in.documents \cap Claims
Held(rows) == {s \in Skills : rows[s] # None}
EvidenceIds(x, in) ==
    IF x \in Claims THEN {x}
    ELSE IF x \in Skills THEN in.skills[x].evidence \cap Confirmed(in) ELSE {}

\* What is shown of a requirement: record and wider are its explanation, the
\* record it names and whether that was found outside of the category.
Assessment ==
    [status : {"met", "partial", "missing", "unknown"},
     score : (0..100) \cup {None},
     evidence : SUBSET Claims,
     record : Records \cup {None},
     wider : BOOLEAN]

Judged(status, score, evidence, record) ==
    [status |-> status, score |-> score, evidence |-> evidence,
     record |-> record, wider |-> FALSE]

Missing == Judged("missing", 0, {}, None)
Unknown == Judged("unknown", None, {}, None)

\* The most similar skill, then the most confident, then the highest level.
Before(label, s, t, rows) ==
    LET a == rows[s]  b == rows[t] IN
    \/ Similarity[label][s] > Similarity[label][t]
    \/ /\ Similarity[label][s] = Similarity[label][t]
       /\ \/ a.confidence > b.confidence
          \/ a.confidence = b.confidence /\ a.level >= b.level

BestSkill(label, rows) ==
    CHOOSE s \in Held(rows) : \A t \in Held(rows) : Before(label, s, t, rows)

LevelFactor(minimum, level) ==
    IF minimum = None THEN 100
    ELSE Min({100, (100 * level) \div Max({minimum, 1})})

SkillAssessment(q, in) ==
    IF \A s \in Held(in.skills) : Similarity[q.label][s] < 55 THEN Missing
    ELSE LET s == BestSkill(q.label, in.skills)
             row == in.skills[s]
             score == (Similarity[q.label][s] * LevelFactor(q.minimum_level, row.level)
                       * (7000 + 30 * row.confidence)) \div 1000000
         IN  Judged(IF score >= 80 THEN "met" ELSE "partial", score, EvidenceIds(s, in), s)

\* Mutated TextAssessment: any record that covers half of the label will do.
TextAssessmentOfAny(label, corpus, in) ==
    IF \A x \in corpus : Containment[label][x] < 50 THEN Unknown
    ELSE LET x == CHOOSE x \in corpus : Containment[label][x] >= 50
         IN  Judged(IF Containment[label][x] >= 80 THEN "met" ELSE "partial",
                    Containment[label][x], EvidenceIds(x, in), x)

\* The record that covers most of the label; CHOOSE stands for the order of
\* their texts, which decides between equals.
TextAssessment(label, corpus, in) ==
    IF \A x \in corpus : Containment[label][x] < 50 THEN Unknown
    ELSE LET x == CHOOSE x \in corpus :
                      \A y \in corpus : Containment[label][x] >= Containment[label][y]
         IN  Judged(IF Containment[label][x] >= 80 THEN "met" ELSE "partial",
                    Containment[label][x], EvidenceIds(x, in), x)

\* A field left empty leaves no score; one too far from the label leaves its
\* similarity, though the status is unknown.
FieldAssessment(label, field, met, partial) ==
    IF field = None THEN Unknown
    ELSE LET similarity == Similarity[label][field] IN
         Judged(IF similarity >= met THEN "met"
                ELSE IF similarity >= partial THEN "partial" ELSE "unknown",
                similarity, {}, None)

GeneralCorpus(in) == in.documents \cup Held(in.skills)

Filed(q, in) ==
    CASE q.category = "skill" -> SkillAssessment(q, in)
      [] q.category = "experience" ->
             TextAssessment(q.label, in.documents \ Educations, in)
      [] q.category = "education" ->
             TextAssessment(q.label, in.documents \ Experiences, in)
      [] q.category = "seniority" ->
             FieldAssessment(q.label, in.profile.seniority, 75, 40)
      [] q.category = "location" ->
             FieldAssessment(q.label, in.profile.location, 65, 30)
      [] OTHER -> TextAssessment(q.label, GeneralCorpus(in), in)

Wider(q, in) == TextAssessment(q.label, GeneralCorpus(in), in)

\* What its category leaves unresolved is looked for in the whole profile.
Widened(q, in) ==
    /\ Filed(q, in).status \in {"unknown", "missing"}
    /\ Wider(q, in).status # "unknown"

Outcome(q, in) ==
    IF Widened(q, in) THEN [Wider(q, in) EXCEPT !.wider = TRUE] ELSE Filed(q, in)

Assess(in) ==
    [i \in DOMAIN in.opportunity.requirements |->
        Outcome(in.opportunity.requirements[i], in)]

Percent(n, d) == Max({0, Min({100, n \div d})})

\* What is unknown counts as nothing in the lower bound and fully in the upper.
\* There is a score when at least 35 % of the weight is known.
Bounds(requirements, assessments) ==
    LET Known == {i \in DOMAIN assessments : assessments[i].score # None}
        weight == [i \in DOMAIN requirements |-> requirements[i].weight]
        sum == SumFunction(weight)
        total == IF sum = 0 THEN 1 ELSE sum
        known == SumFunctionOnSet(weight, Known)
        weighted == SumFunction([i \in Known |-> weight[i] * assessments[i].score])
        coverage == Percent(100 * known, total)
    IN  [coverage |-> coverage,
         lower |-> Percent(weighted, total),
         upper |-> Percent(weighted + 100 * (total - known), total),
         score |-> IF coverage < 35 THEN None
                   ELSE IF known = 0 THEN 0 ELSE Percent(weighted, known)]

Eligibility(requirements, assessments) ==
    LET statuses == {assessments[i].status :
                        i \in {j \in DOMAIN requirements :
                                  requirements[j].importance = "eligibility"}}
    IN  IF "missing" \in statuses THEN "conflict"
        ELSE IF "unknown" \in statuses THEN "unknown" ELSE "eligible"

\* Mutated Digest: what the requirements come to is left out.
DigestOfInputs(in, assessments) ==
    [profile |-> in.profile,
     skills |-> in.skills,
     claims |-> Confirmed(in),
     version |-> in.opportunity.version]

\* What two calculations must share to be one. Experiences and education are in
\* it only by what they make of the requirements, and the explanations are not;
\* what a requirement says is in it by the row's identifier.
Digest(in, assessments) ==
    [profile |-> in.profile,
     skills |-> in.skills,
     claims |-> Confirmed(in),
     version |-> in.opportunity.version,
     requirements |-> [i \in DOMAIN assessments |->
         [id |-> [batch |-> in.opportunity.batch, index |-> i],
          status |-> assessments[i].status,
          score |-> assessments[i].score,
          evidence |-> assessments[i].evidence]]]

\* The run of an opportunity that a calculation makes.
Calculate(o, in) ==
    LET requirements == in.opportunity.requirements
        assessments == Assess(in)
    IN  [opportunity |-> o,
         input_digest |-> Digest(in, assessments),
         bounds |-> Bounds(requirements, assessments),
         eligibility |-> Eligibility(requirements, assessments),
         batch |-> in.opportunity.batch,
         requirements |-> requirements,
         assessments |-> assessments]

-----------------------------------------------------------------------------
(* Recommendations of a run, and the alignments over several runs.             *)

Priority(impact, effort) == impact * (120 - effort)

Gaps(run) == {i \in DOMAIN run.assessments : run.assessments[i].status # "met"}

\* The action that requirement i of a run calls for.
Suggestion(run, i) ==
    LET status == run.assessments[i].status
        required == run.requirements[i].importance # "preferred"
        impact == IF ~ required THEN 45 ELSE IF status = "missing" THEN 100 ELSE 72
        kind == IF status = "unknown" THEN "evidence"
                ELSE IF run.requirements[i].category = "skill" THEN "capability"
                ELSE "presentation"
        effort == CASE kind = "evidence" -> 25
                    [] kind = "presentation" -> 35
                    [] OTHER -> IF status = "missing" THEN 70 ELSE 45
    IN  [opportunity |-> run.opportunity,
         requirement |-> [batch |-> run.batch, index |-> i],
         kind |-> kind, impact |-> impact, effort |-> effort,
         priority |-> Priority(impact, effort),
         status |-> "suggested", progress |-> 0]

Precedes(run, i, j) ==
    LET a == Suggestion(run, i).priority  b == Suggestion(run, j).priority
    IN  a > b \/ (a = b /\ i < j)

\* One action for every requirement that is not met, the highest priority first.
Suggestions(run) ==
    LET order == CHOOSE s \in [1..Cardinality(Gaps(run)) -> Gaps(run)] :
                     \A k, l \in DOMAIN s : k < l => Precedes(run, s[k], s[l])
    IN  [k \in DOMAIN order |-> Suggestion(run, order[k])]

RunsOf(o) == {i \in DOMAIN runs : runs[i].opportunity = o}
Latest(o) == runs[Max(RunsOf(o))]
Matched == {o \in Opportunities : RunsOf(o) # {}}

Quotient(n, d, default) == IF d = 0 THEN default ELSE n \div d

Coverages(S) == SumFunction([o \in S |-> Latest(o).bounds.coverage])
Scores(S) == SumFunction([o \in S |-> Latest(o).bounds.score * Latest(o).bounds.coverage])
Scored == {o \in Matched : Latest(o).bounds.score # None}

\* Mutated PortfolioAlignment: the score is spread over what has none.
PortfolioAlignmentSpread ==
    [score |-> Quotient(Scores(Scored), Coverages(Matched), None),
     coverage |-> Quotient(Coverages(Matched), Cardinality(Matched), 0)]

\* The latest run of every opportunity, each score weighing its coverage.
PortfolioAlignment ==
    [score |-> Quotient(Scores(Scored), Coverages(Scored), None),
     coverage |-> Quotient(Coverages(Matched), Cardinality(Matched), 0)]

\* The same for the opportunities of a target set, under the user's weights.
TargetSetAlignment(target, weights) ==
    LET matched == target \cap Matched
        weight == [o \in matched |-> Max({0, weights[o]})]
        known == {o \in matched : Latest(o).bounds.score # None /\ weight[o] > 0}
        coverage == [o \in matched |-> Latest(o).bounds.coverage * weight[o]]
        weighted == [o \in known |-> Latest(o).bounds.score * coverage[o]]
    IN  [score |-> Quotient(SumFunction(weighted), SumFunctionOnSet(coverage, known), None),
         coverage |-> Quotient(SumFunction(coverage), SumFunction(weight), 0)]

\* And for the dashboard of the workspace.
GlobalAlignment ==
    LET latest == [o \in Matched |-> Latest(o).bounds]
        known == {o \in Matched : latest[o].score # None}
        sum == SumFunction([o \in known |-> latest[o].coverage])
        weighted == SumFunction([o \in known |-> latest[o].score * latest[o].coverage])
    IN  [score |-> Quotient(weighted, sum, None),
         coverage |-> Quotient(SumFunction([o \in Matched |-> latest[o].coverage]),
                               Cardinality(Matched), 0)]

-----------------------------------------------------------------------------
(* Requests. One that fails leaves nothing.                                    *)

Resting ==
    [kind |-> "none", opportunity |-> None, input |-> None, result |-> None,
     seen |-> {}, held |-> {}, row |-> 0, new |-> None, columns |-> {}, task |-> FALSE]

Init ==
    /\ profile = [revision |-> 1, seniority |-> None, location |-> None]
    /\ documents = {}
    /\ skills = [s \in Skills |-> None]
    /\ opportunities = [o \in Opportunities |->
         [version |-> 1, batch |-> 1, requirements |-> Revisions[o][1]]]
    /\ runs = <<>>
    /\ recommendations = <<>>
    /\ tasks = {}
    /\ request = [r \in Requests |-> Resting]
    /\ edits = 0
    /\ calls = 0

Call == calls < MaxCalls /\ calls' = calls + 1

Edit ==
    /\ Call
    /\ edits < MaxEdits
    /\ edits' = edits + 1
    /\ UNCHANGED <<runs, recommendations, tasks, request>>

UpdateProfile(seniority, location) ==
    /\ Edit
    /\ profile' = [revision |-> profile.revision + 1,
                   seniority |-> seniority, location |-> location]
    /\ UNCHANGED <<documents, skills, opportunities>>

\* A claim is confirmed once, and stays.
DecideClaim(c) ==
    /\ Edit
    /\ c \notin documents
    /\ documents' = documents \cup {c}
    /\ UNCHANGED <<profile, skills, opportunities>>

AddRecord(x) ==
    /\ Edit
    /\ x \notin documents
    /\ documents' = documents \cup {x}
    /\ UNCHANGED <<profile, skills, opportunities>>

DeleteRecord(x) ==
    /\ Edit
    /\ x \in documents
    /\ documents' = documents \ {x}
    /\ UNCHANGED <<profile, skills, opportunities>>

AddExperience(x) == x \in Experiences /\ AddRecord(x)
DeleteExperience(x) == x \in Experiences /\ DeleteRecord(x)
AddEducation(x) == x \in Educations /\ AddRecord(x)
DeleteEducation(x) == x \in Educations /\ DeleteRecord(x)

\* Its evidence are claims confirmed by now.
AddSkill(s, row) ==
    /\ Edit
    /\ skills[s] = None
    /\ row.evidence \subseteq documents
    /\ skills' = [skills EXCEPT ![s] = row]
    /\ UNCHANGED <<profile, documents, opportunities>>

DeleteSkill(s) ==
    /\ Edit
    /\ skills[s] # None
    /\ skills' = [skills EXCEPT ![s] = None]
    /\ UNCHANGED <<profile, documents, opportunities>>

\* An update, or an extraction that succeeds: new rows and a new version.
UpdateOpportunity(o, requirements) ==
    /\ Edit
    /\ opportunities' = [opportunities EXCEPT
         ![o] = [version |-> @.version + 1, batch |-> @.batch + 1,
                 requirements |-> requirements]]
    /\ UNCHANGED <<profile, documents, skills>>

\* An extraction that fails once it has erased the rows: they are gone, and the
\* version is what it was.
FailExtraction(o) ==
    /\ Edit
    /\ opportunities' = [opportunities EXCEPT
         ![o] = [version |-> @.version, batch |-> @.batch + 1, requirements |-> <<>>]]
    /\ UNCHANGED <<profile, documents, skills>>

Profiled == <<profile, documents, skills, opportunities, edits>>

\* The profile and the opportunity's own row are read first.
BeginRun(r, o) ==
    /\ Call
    /\ request[r].kind = "none"
    /\ request' = [request EXCEPT ![r] =
         [Resting EXCEPT !.kind = "reading", !.opportunity = o,
            !.input = [profile |-> profile, version |-> opportunities[o].version]]]
    /\ UNCHANGED <<Profiled, runs, recommendations, tasks>>

Input(r) ==
    [profile |-> request[r].input.profile,
     opportunity |-> [opportunities[request[r].opportunity]
                        EXCEPT !.version = request[r].input.version],
     documents |-> documents, skills |-> skills]

Existing(o, digest) ==
    {i \in RunsOf(o) : runs[i].input_digest = digest}

\* Then the requirements and the records, and a run of the same inputs, which is
\* the answer.
CalculateMatch(r) ==
    LET result == Calculate(request[r].opportunity, Input(r)) IN
    /\ request[r].kind = "reading"
    /\ request' = [request EXCEPT ![r] =
         IF Existing(result.opportunity, result.input_digest) # {} THEN Resting
         ELSE [@ EXCEPT !.kind = "calculated", !.input = None, !.result = result]]
    /\ UNCHANGED <<Profiled, runs, recommendations, tasks, calls>>

CommitRun(r) ==
    /\ request[r].kind = "calculated"
    /\ runs' = Append(runs, request[r].result)
    /\ request' = [request EXCEPT ![r] = Resting]
    /\ UNCHANGED <<Profiled, recommendations, tasks, calls>>

-----------------------------------------------------------------------------
\* Rows that other requests have written and not committed are waited for.

HeldByOthers(r) == UNION {request[q].held : q \in Requests \ {r}}

Suggested(o) ==
    {i \in DOMAIN recommendations :
        /\ recommendations[i] # None
        /\ recommendations[i].opportunity = o
        /\ recommendations[i].status = "suggested"}

\* Regenerating: the latest run is read, and the suggestions it will delete are
\* the ones to be seen by now.
BeginRegenerate(r, o) ==
    /\ Call
    /\ request[r].kind = "none"
    /\ o \in Matched
    /\ request' = [request EXCEPT ![r] =
         [Resting EXCEPT !.kind = "regenerating", !.opportunity = o,
            !.result = Latest(o), !.seen = Suggested(o),
            !.held = Suggested(o) \ HeldByOthers(r)]]
    /\ UNCHANGED <<Profiled, runs, recommendations, tasks>>

\* Mutated Deleted: what was seen is deleted, whatever became of it.
DeletedUnchecked(r) == request[r].seen

\* A row that had to be waited for is looked at again.
Deleted(r) == request[r].seen \cap Suggested(request[r].opportunity)

CommitRegenerate(r) ==
    /\ request[r].kind = "regenerating"
    /\ request[r].seen \cap HeldByOthers(r) = {}
    /\ recommendations' =
         [i \in DOMAIN recommendations |->
             IF i \in Deleted(r) THEN None ELSE recommendations[i]]
         \o Suggestions(request[r].result)
    /\ request' = [request EXCEPT ![r] = Resting]
    /\ UNCHANGED <<Profiled, runs, tasks, calls>>

\* The row as the update leaves it, and the columns in which that differs.
Updated(row, payload) ==
    LET Given(f) == IF f \in DOMAIN payload THEN payload[f] ELSE row[f] IN
    [row EXCEPT !.effort = Given("effort"),
                !.progress = Given("progress"),
                !.status = IF Given("progress") >= 100 THEN "completed" ELSE Given("status"),
                !.priority = Priority(row.impact, Given("effort"))]

Changes(row, new) == {f \in DOMAIN row : new[f] # row[f]}

Read(r, i, new, task) ==
    /\ Call
    /\ request[r].kind = "none"
    /\ request' = [request EXCEPT ![r] =
         [Resting EXCEPT !.kind = "updating", !.row = i, !.new = new,
            !.columns = Changes(recommendations[i], new), !.task = task]]
    /\ UNCHANGED <<Profiled, runs, recommendations, tasks>>

UpdateRecommendation(r, i, payload) ==
    /\ recommendations[i] # None
    /\ Read(r, i, Updated(recommendations[i], payload), FALSE)

\* A next action is made of it, and it is planned.
RecommendationTask(r, i) ==
    /\ recommendations[i] # None
    /\ Read(r, i, [recommendations[i] EXCEPT !.status = "planned"], TRUE)

\* The columns that changed are written, if the row is still there.
Flush(r) ==
    /\ request[r].kind = "updating"
    /\ request[r].columns = {} \/ request[r].row \notin HeldByOthers(r)
    /\ request' = [request EXCEPT ![r] =
         IF @.columns = {} THEN [@ EXCEPT !.kind = "flushed"]
         ELSE IF recommendations[@.row] = None THEN Resting
         ELSE [@ EXCEPT !.kind = "flushed", !.held = {request[r].row}]]
    /\ UNCHANGED <<Profiled, runs, recommendations, tasks, calls>>

Written(row, new, columns) ==
    [f \in DOMAIN row |-> IF f \in columns THEN new[f] ELSE row[f]]

CommitUpdate(r) ==
    LET i == request[r].row IN
    /\ request[r].kind = "flushed"
    /\ recommendations' =
         IF request[r].columns = {} THEN recommendations
         ELSE [recommendations EXCEPT ![i] = Written(@, request[r].new, request[r].columns)]
    /\ tasks' = IF request[r].task THEN tasks \cup {i} ELSE tasks
    /\ request' = [request EXCEPT ![r] = Resting]
    /\ UNCHANGED <<Profiled, runs, calls>>

Next ==
    \/ \E f, g \in Fields \cup {None} : UpdateProfile(f, g)
    \/ \E c \in Claims : DecideClaim(c)
    \/ \E x \in Experiences : AddExperience(x) \/ DeleteExperience(x)
    \/ \E x \in Educations : AddEducation(x) \/ DeleteEducation(x)
    \/ \E s \in Skills : DeleteSkill(s) \/ \E row \in SkillRows : AddSkill(s, row)
    \/ \E o \in Opportunities : \E i \in DOMAIN Revisions[o] :
           UpdateOpportunity(o, Revisions[o][i])
    \/ \E o \in Opportunities : FailExtraction(o)
    \/ \E r \in Requests :
          \/ \E o \in Opportunities : BeginRun(r, o) \/ BeginRegenerate(r, o)
          \/ CalculateMatch(r)
          \/ CommitRun(r)
          \/ CommitRegenerate(r)
          \/ \E i \in DOMAIN recommendations :
                 \/ RecommendationTask(r, i)
                 \/ \E payload \in Payloads : UpdateRecommendation(r, i, payload)
          \/ Flush(r)
          \/ CommitUpdate(r)

Spec == Init /\ [][Next]_vars

-----------------------------------------------------------------------------

Profile == [revision : Nat, seniority : Fields \cup {None}, location : Fields \cup {None}]

OpportunityRow == [version : Nat, batch : Nat, requirements : Seq(Requirement)]

Judgement ==
    [id : RequirementId,
     status : {"met", "partial", "missing", "unknown"},
     score : (0..100) \cup {None},
     evidence : SUBSET Claims]

MatchRun ==
    [opportunity : Opportunities,
     input_digest : [profile : Profile,
                     skills : [Skills -> SkillRows \cup {None}],
                     claims : SUBSET Claims,
                     version : Nat,
                     requirements : Seq(Judgement)],
     bounds : [coverage : 0..100, lower : 0..100, upper : 0..100,
               score : (0..100) \cup {None}],
     eligibility : {"conflict", "unknown", "eligible"},
     batch : Nat,
     requirements : Seq(Requirement),
     assessments : Seq(Assessment)]

Request ==
    [kind : {"none", "reading", "calculated", "regenerating", "updating", "flushed"},
     opportunity : Opportunities \cup {None},
     input : [profile : Profile, version : Nat] \cup {None},
     result : MatchRun \cup {None},
     seen : SUBSET Nat, held : SUBSET Nat,
     row : Nat, new : Recommendation \cup {None},
     columns : SUBSET {"effort", "status", "progress", "priority"},
     task : BOOLEAN]

TypeOK ==
    /\ profile \in Profile
    /\ documents \subseteq Documents
    /\ skills \in [Skills -> SkillRows \cup {None}]
    /\ opportunities \in [Opportunities -> OpportunityRow]
    /\ runs \in Seq(MatchRun)
    /\ recommendations \in Seq(Recommendation \cup {None})
    /\ tasks \subseteq DOMAIN recommendations
    /\ request \in [Requests -> Request]
    /\ edits \in Nat /\ calls \in Nat

\* The inputs that a calculation would have now.
Current(o) ==
    [profile |-> profile, opportunity |-> opportunities[o],
     documents |-> documents, skills |-> skills]

Rank == [conflict |-> 0, unknown |-> 1, eligible |-> 2]

\* One more confirmed claim, experience or education record never lowers what is
\* known of an opportunity, nor its eligibility. Its lower bound falls in one
\* case only: a requirement that the wider profile had answered finds the record
\* in its own category, and is judged there (services/matching.py:210).
EvidenceNeverHurts ==
    \A o \in Opportunities, x \in Documents :
        LET had == Current(o)
            has == [had EXCEPT !.documents = @ \cup {x}]
            now == Calculate(o, had)
            more == Calculate(o, has)
        IN  /\ more.bounds.coverage >= now.bounds.coverage
            /\ Rank[more.eligibility] >= Rank[now.eligibility]
            /\ \/ more.bounds.lower >= now.bounds.lower
               \/ \E i \in DOMAIN now.requirements :
                     LET q == now.requirements[i] IN Widened(q, had) /\ ~ Widened(q, has)

\* A run is answered in place of a calculation when their digests agree: then
\* they agree in score, bounds and eligibility, in what is required and how it
\* weighs, and the same actions follow from either, whatever was written in
\* between and whoever read half of it (run_match). Of the explanations this says
\* nothing: see ExplanationsAreCurrent.
DigestTellsResultsApart ==
    \A o \in Opportunities, i \in DOMAIN runs :
        LET now == Calculate(o, Current(o)) IN
        runs[i].opportunity = o /\ runs[i].input_digest = now.input_digest =>
            /\ runs[i].bounds = now.bounds
            /\ runs[i].eligibility = now.eligibility
            /\ runs[i].requirements = now.requirements
            /\ Gaps(runs[i]) = Gaps(now)
            /\ \A g \in Gaps(now) : Suggestion(runs[i], g) = Suggestion(now, g)

\* A recommendation that someone has chosen stays, however the regenerations
\* of its opportunity overlap with the choice.
ChosenActionsSurvive ==
    [][\A i \in DOMAIN recommendations :
         recommendations[i] # None /\ recommendations[i].status # "suggested"
            => recommendations'[i] # None]_vars

\* The portfolio, the dashboard and a target set of every opportunity with equal
\* weights show the same alignment.
AlignmentsAgree ==
    /\ PortfolioAlignment = GlobalAlignment
    /\ \A w \in 1..2 :
         PortfolioAlignment = TargetSetAlignment(Opportunities, [o \in Opportunities |-> w])

\* "Results are reproducible, testable, explainable" (ADR 0006), "for the current
\* canonical input revision" (run_match): a run that is answered for the inputs of
\* now explains itself by records that are there.
ExplanationsAreCurrent ==
    \A o \in Opportunities, i \in DOMAIN runs :
        runs[i].opportunity = o
        /\ runs[i].input_digest = Calculate(o, Current(o)).input_digest =>
            \A k \in DOMAIN runs[i].assessments :
                runs[i].assessments[k].record \in documents \cup Held(skills) \cup {None}

\* The run that a request answers with is the latest of its opportunity.
LatestIsCurrent ==
    [][\A r \in Requests :
         request[r].kind = "reading" /\ request'[r].kind = "none" =>
            Latest(request[r].opportunity).input_digest
              = Calculate(request[r].opportunity, Input(r)).input_digest]_vars

=============================================================================
