---------------------------- MODULE MatchingProofs ----------------------------
(* What Matching promises, proved for every profile, every list of             *)
(* requirements and any number of requests, edits and calls.                   *)
(*                                                                             *)
(* The calculation first: the assessment of a requirement and how it changes   *)
(* with one record more, then the bounds as sums over the requirements. Then   *)
(* the invariant IInv, one lemma for each step, and the properties.            *)
EXTENDS Matching, FoldLemmas

-----------------------------------------------------------------------------
\* What the calculation makes of one requirement.

Inputs ==
    [profile : Profile, opportunity : OpportunityRow,
     documents : SUBSET Documents, skills : [Skills -> SkillRows \cup {None}]]

\* What leaves a requirement open is worth less than what settles it.
Graded(a) ==
    /\ a \in Assessment
    /\ a.status \in {"unknown", "missing"} => a.score = None \/ a.score < 50
    /\ a.status \in {"met", "partial"} => a.score # None

\* b says of a requirement what a says, or more.
Better(a, b) ==
    /\ a.score # None => b.score # None /\ b.score >= a.score
    /\ b.status = "missing" => a.status = "missing"
    /\ b.status = "unknown" => a.status \in {"unknown", "missing"}

\* None is no value that it stands beside.
LEMMA NoneApart == None \notin 0..100 /\ None \notin SkillRows /\ None \notin Recommendation
BY MatchingAssumption

\* The records are finitely many.
LEMMA RecordsFinite ==
    /\ \A R \in SUBSET Records : IsFiniteSet(R)
    /\ IsFiniteSet(Skills)
<1>1. IsFiniteSet(Records) /\ Skills \subseteq Records
  BY MatchingAssumption DEF Records
<1>2. QED
  BY <1>1, FS_Subset

\* Three numbers from 0 to 100 as the digits of one, which they order.
Digits(a, b, c) == 10201 * a + 101 * b + c

\* Numbers so written are in the order of their digits, and are numbers.
LEMMA DigitsOrder ==
    ASSUME NEW a \in 0..100, NEW b \in 0..100, NEW c \in 0..100,
           NEW d \in 0..100, NEW e \in 0..100, NEW f \in 0..100,
           Digits(a, b, c) >= Digits(d, e, f)
    PROVE  a > d \/ (a = d /\ (b > e \/ (b = e /\ c >= f)))
BY SMT DEF Digits

LEMMA DigitsType ==
    ASSUME NEW a \in 0..100, NEW b \in 0..100, NEW c \in 0..100
    PROVE  Digits(a, b, c) \in Int
BY SMT DEF Digits

\* Among the skills held, one is the most similar, then the most confident, then
\* of the highest level.
LEMMA BestSkillIn ==
    ASSUME NEW label \in Labels, NEW rows \in [Skills -> SkillRows \cup {None}],
           Held(rows) # {}
    PROVE  BestSkill(label, rows) \in Held(rows)
<1> DEFINE H == Held(rows)
           key == [s \in H |-> Digits(Similarity[label][s], rows[s].confidence,
                                      rows[s].level)]
<1>1. \A s \in H : /\ Similarity[label][s] \in 0..100
                   /\ rows[s].confidence \in 0..100
                   /\ rows[s].level \in 0..100
  <2>1. TAKE s \in H
  <2>2. s \in Skills /\ rows[s] \in SkillRows
    BY DEF Held
  <2>3. rows[s].confidence \in 0..100 /\ rows[s].level \in 0..100
    BY <2>2, MatchingAssumption
  <2>4. Similarity[label][s] \in 0..100
    BY <2>2, MatchingAssumption
  <2>5. QED
    BY <2>3, <2>4
<1>2. IsFiniteSet(H)
  BY RecordsFinite, FS_Subset DEF Held
<1>3. key \in [H -> Int]
  BY <1>1, DigitsType
<1>4. PICK s \in H : \A t \in H : key[s] >= key[t]
  <2>1. H # {}
    OBVIOUS
  <2> HIDE DEF key, H
  <2>2. QED
    BY <1>2, <1>3, <2>1, GreatestOf
<1>5. \A t \in H : Before(label, s, t, rows)
  <2>1. TAKE t \in H
  <2>2. Digits(Similarity[label][s], rows[s].confidence, rows[s].level)
          >= Digits(Similarity[label][t], rows[t].confidence, rows[t].level)
    BY <1>4
  <2> DEFINE a == Similarity[label][s]  b == rows[s].confidence  c == rows[s].level
             d == Similarity[label][t]  e == rows[t].confidence  f == rows[t].level
  <2>3. a > d \/ (a = d /\ (b > e \/ (b = e /\ c >= f)))
    <3>1. /\ a \in 0..100 /\ b \in 0..100 /\ c \in 0..100
          /\ d \in 0..100 /\ e \in 0..100 /\ f \in 0..100
      BY <1>1
    <3> HIDE DEF a, b, c, d, e, f
    <3>2. Digits(a, b, c) >= Digits(d, e, f)
      BY <2>2 DEF a, b, c, d, e, f
    <3>3. QED
      BY <3>1, <3>2, DigitsOrder
  <2>4. QED
    BY <2>3 DEF Before
<1>6. QED
  BY <1>5 DEF BestSkill

\* The score of a skill: its similarity, its level and the confidence in it.
Product(a, b, c) == (a * b * (7000 + 30 * c)) \div 1000000

\* A product that is rounded down to hundredths stays within them.
LEMMA ScoreBounds ==
    ASSUME NEW a \in 0..100, NEW b \in 0..100, NEW c \in 0..100
    PROVE  Product(a, b, c) \in 0..100
<1>1. a * b \in Nat /\ a * b <= 10000
  <2>1. a * b >= 0 /\ a * b <= 100 * b
    BY Z3
  <2>2. QED
    BY <2>1
<1>2. PICK p \in Nat : p = a * b
  BY <1>1
<1>3. PICK q \in Nat : q = 7000 + 30 * c
  OBVIOUS
<1>4. p <= 10000 /\ q <= 10000
  BY <1>1, <1>2, <1>3
<1>5. p * q \in Nat /\ p * q <= 100000000
  <2>1. p * q >= 0 /\ p * q <= 10000 * q
    BY <1>4, Z3
  <2>2. QED
    BY <1>4, <2>1, Z3
<1>6. \A n \in Nat : n <= 100000000 => n \div 1000000 \in 0..100
  BY Z3
<1>7. QED
  BY <1>2, <1>3, <1>5, <1>6, Z3 DEF Product

\* A level that meets the minimum counts fully, a lower one in part.
LEMMA LevelFactorType ==
    ASSUME NEW m \in (0..100) \cup {None}, NEW l \in 0..100
    PROVE  LevelFactor(m, l) \in 0..100
<1>1. CASE m = None
  BY <1>1 DEF LevelFactor
<1>2. CASE m # None
  <2> DEFINE d == Max({m, 1})
             n == (100 * l) \div d
  <2>1. d \in Nat /\ d > 0
    <3>1. m \in 0..100
      BY <1>2
    <3>2. \E x \in {m, 1} : \A y \in {m, 1} : x >= y
      BY <3>1
    <3>3. d \in {m, 1} /\ d >= 1
      BY <3>2 DEF Max
    <3>4. QED
      BY <3>1, <3>3
  <2> HIDE DEF d
  <2>2. n \in Nat
    BY <2>1
  <2> HIDE DEF n
  <2>3. Min({100, n}) \in 0..100
    <3>1. \E x \in {100, n} : \A y \in {100, n} : x =< y
      BY <2>2
    <3>2. Min({100, n}) \in {100, n} /\ Min({100, n}) =< 100
      BY <3>1 DEF Min
    <3>3. QED
      BY <2>2, <3>2
  <2>4. QED
    BY <1>2, <2>3 DEF LevelFactor, d, n
<1>3. QED
  BY <1>1, <1>2

LEMMA EvidenceType ==
    ASSUME NEW in \in Inputs, NEW x \in in.documents \cup Held(in.skills)
    PROVE  EvidenceIds(x, in) \in SUBSET Claims
<1>1. in.documents \subseteq Documents
  BY DEF Inputs
<1>2. Confirmed(in) \subseteq Claims
  BY DEF Confirmed
<1>3. QED
  BY <1>2 DEF EvidenceIds

\* What is judged is an assessment, and stays one when it is found more widely.
LEMMA JudgedLaws ==
    ASSUME NEW status \in {"met", "partial", "missing", "unknown"},
           NEW score \in (0..100) \cup {None}, NEW evidence \in SUBSET Claims,
           NEW record \in Records \cup {None}
    PROVE  /\ Judged(status, score, evidence, record) \in Assessment
           /\ Judged(status, score, evidence, record).status = status
           /\ Judged(status, score, evidence, record).score = score
BY DEF Judged, Assessment

LEMMA WiderOf ==
    ASSUME NEW a \in Assessment
    PROVE  /\ [a EXCEPT !.wider = TRUE] \in Assessment
           /\ [a EXCEPT !.wider = TRUE].status = a.status
           /\ [a EXCEPT !.wider = TRUE].score = a.score
BY DEF Assessment

\* The assessment of a skill is graded, and does not depend on the documents
\* but in the evidence that it names.
LEMMA SkillLaws ==
    ASSUME NEW q \in Requirement, NEW in \in Inputs
    PROVE  Graded(SkillAssessment(q, in))
<1> DEFINE H == Held(in.skills)
<1>1. q.label \in Labels /\ q.minimum_level \in (0..100) \cup {None}
  BY DEF Requirement
<1>2. in.skills \in [Skills -> SkillRows \cup {None}]
  BY DEF Inputs
<1>3. CASE \A s \in H : Similarity[q.label][s] < 55
  <2>1. SkillAssessment(q, in) = Judged("missing", 0, {}, None)
    BY <1>3, Z3 DEF SkillAssessment, Missing
  <2>2. 0 \in (0..100) \cup {None} /\ {} \in SUBSET Claims
    OBVIOUS
  <2>3. QED
    BY <2>1, <2>2, JudgedLaws DEF Graded
<1>4. CASE \E s \in H : ~ (Similarity[q.label][s] < 55)
  <2> DEFINE s == BestSkill(q.label, in.skills)
             row == in.skills[s]
             score == Product(Similarity[q.label][s],
                              LevelFactor(q.minimum_level, row.level), row.confidence)
  <2>1. s \in H
    BY <1>1, <1>2, <1>4, BestSkillIn
  <2>2. row \in SkillRows /\ s \in Skills
    BY <1>2, <2>1 DEF Held
  <2>3. /\ row.level \in 0..100 /\ row.confidence \in 0..100
        /\ Similarity[q.label][s] \in 0..100
    BY <1>1, <2>2, MatchingAssumption
  <2>4. LevelFactor(q.minimum_level, row.level) \in 0..100
    BY <1>1, <2>3, LevelFactorType
  <2>5. score \in 0..100
    BY <2>3, <2>4, ScoreBounds
  <2>6. EvidenceIds(s, in) \in SUBSET Claims
    BY <2>1, EvidenceType
  <2> DEFINE status == IF score >= 80 THEN "met" ELSE "partial"
  <2>7. SkillAssessment(q, in) = Judged(status, score, EvidenceIds(s, in), s)
    BY <1>4, Z3 DEF SkillAssessment, Product
  <2>8. status \in {"met", "partial"} /\ s \in Records
    BY <2>2 DEF Records
  <2> HIDE DEF s, row, score, status
  <2>9. QED
    BY <2>5, <2>6, <2>7, <2>8, JudgedLaws, NoneApart DEF Graded
<1>5. QED
  BY <1>3, <1>4

\* The record that covers most of a label decides.
LEMMA TextLaws ==
    ASSUME NEW label \in Labels, NEW in \in Inputs,
           NEW corpus \in SUBSET (in.documents \cup Held(in.skills))
    PROVE  LET a == TextAssessment(label, corpus, in) IN
           /\ Graded(a)
           /\ a.status = "unknown" <=> \A x \in corpus : Containment[label][x] < 50
           /\ a.status = "unknown" => a.score = None
           /\ a.status # "unknown" =>
                 /\ a.status \in {"met", "partial"}
                 /\ a.score \in 50..100
                 /\ \A x \in corpus : a.score >= Containment[label][x]
                 /\ \E x \in corpus : a.score = Containment[label][x]
<1> DEFINE a == TextAssessment(label, corpus, in)
           C == Containment[label]
<1>1. corpus \subseteq Records
  <2>1. in.documents \subseteq Documents /\ Held(in.skills) \subseteq Skills
    BY DEF Inputs, Held
  <2>2. QED
    BY <2>1 DEF Records
<1>2. \A x \in corpus : C[x] \in 0..100
  BY <1>1, MatchingAssumption
<1>3. CASE \A x \in corpus : C[x] < 50
  <2>1. a = Unknown
    BY <1>3 DEF TextAssessment
  <2>2. QED
    BY <1>3, <2>1, JudgedLaws DEF Unknown, Graded
<1>4. CASE \E x \in corpus : ~ (C[x] < 50)
  <2> DEFINE k == [x \in corpus |-> C[x]]
             best == CHOOSE x \in corpus :
                        \A y \in corpus : Containment[label][x] >= Containment[label][y]
  <2>1. \E x \in corpus : \A y \in corpus : k[x] >= k[y]
    <3>1. IsFiniteSet(corpus)
      BY <1>1, RecordsFinite
    <3>2. k \in [corpus -> Int] /\ corpus # {}
      BY <1>2, <1>4
    <3> HIDE DEF k
    <3>3. QED
      BY <3>1, <3>2, GreatestOf
  <2>2. \E x \in corpus : \A y \in corpus : C[x] >= C[y]
    BY <2>1
  <2>3. best \in corpus /\ \A y \in corpus : C[best] >= C[y]
    BY <2>2
  <2> DEFINE status == IF C[best] >= 80 THEN "met" ELSE "partial"
  <2>4. a = Judged(status, C[best], EvidenceIds(best, in), best)
    BY <1>4 DEF TextAssessment
  <2> HIDE DEF best
  <2>5. C[best] \in 50..100
    BY <1>2, <1>4, <2>3
  <2>6. EvidenceIds(best, in) \in SUBSET Claims
    BY <2>3, EvidenceType
  <2>7. a \in Assessment /\ a.score = C[best] /\ a.status \in {"met", "partial"}
    <3>1. status \in {"met", "partial"} /\ best \in Records /\ C[best] \in 0..100
      BY <1>1, <2>3, <2>5
    <3> HIDE DEF status, a
    <3>2. QED
      BY <2>4, <2>6, <3>1, JudgedLaws
  <2>8. a.score # None /\ a.score \in 0..100
    BY <2>5, <2>7, NoneApart
  <2> HIDE DEF a
  <2>9. Graded(a)
    BY <2>7, <2>8 DEF Graded
  <2>10. QED
    BY <1>4, <2>3, <2>5, <2>7, <2>9 DEF a
<1>5. QED
  BY <1>3, <1>4

\* More records say more.
LEMMA TextGrows ==
    ASSUME NEW label \in Labels, NEW in \in Inputs, NEW more \in Inputs,
           NEW few \in SUBSET (in.documents \cup Held(in.skills)),
           NEW many \in SUBSET (more.documents \cup Held(more.skills)),
           few \subseteq many
    PROVE  Better(TextAssessment(label, few, in), TextAssessment(label, many, more))
<1> DEFINE a == TextAssessment(label, few, in)  b == TextAssessment(label, many, more)
<1>1. /\ a.status = "unknown" <=> \A x \in few : Containment[label][x] < 50
      /\ a.status = "unknown" => a.score = None
      /\ a.status # "unknown" =>
            /\ a.status \in {"met", "partial"}
            /\ \E x \in few : a.score = Containment[label][x]
  BY TextLaws
<1>2. /\ b.status = "unknown" <=> \A x \in many : Containment[label][x] < 50
      /\ b.status # "unknown" =>
            /\ b.status \in {"met", "partial"}
            /\ b.score \in 50..100
            /\ \A x \in many : b.score >= Containment[label][x]
  BY TextLaws
<1> HIDE DEF a, b
<1>3. b.status # "unknown" => b.score # None
  BY <1>2, NoneApart
<1>4. Better(a, b)
  BY <1>1, <1>2, <1>3 DEF Better
<1>5. QED
  BY <1>4 DEF a, b

\* A field of the profile is compared, or says nothing.
LEMMA FieldLaws ==
    ASSUME NEW label \in Labels, NEW field \in Fields \cup {None},
           NEW met \in Nat, NEW partial \in 0..50
    PROVE  Graded(FieldAssessment(label, field, met, partial))
<1>1. CASE field = None
  BY <1>1, JudgedLaws DEF FieldAssessment, Unknown, Graded
<1>2. CASE field # None
  <2>1. Similarity[label][field] \in 0..100
    BY <1>2, MatchingAssumption
  <2> DEFINE n == Similarity[label][field]
             status == IF n >= met THEN "met" ELSE IF n >= partial THEN "partial" ELSE "unknown"
  <2>2. FieldAssessment(label, field, met, partial) = Judged(status, n, {}, None)
    BY <1>2 DEF FieldAssessment
  <2>3. /\ status \in {"met", "partial", "unknown"}
        /\ status = "unknown" => n < 50
    BY <2>1
  <2> HIDE DEF n, status
  <2>4. {} \in SUBSET Claims /\ n \in 0..100
    BY <2>1 DEF n
  <2>5. QED
    BY <2>2, <2>3, <2>4, JudgedLaws, NoneApart DEF Graded
<1>3. QED
  BY <1>1, <1>2

\* The inputs, and the same with one document more.
With(in, x) == [in EXCEPT !.documents = @ \cup {x}]

\* Nothing else changes with one record more.
LEMMA WithLaws ==
    ASSUME NEW in \in Inputs, NEW x \in Documents
    PROVE  /\ With(in, x) \in Inputs
           /\ With(in, x).profile = in.profile
           /\ With(in, x).opportunity = in.opportunity
           /\ With(in, x).skills = in.skills
           /\ With(in, x).documents = in.documents \cup {x}
BY DEF With, Inputs

\* What a category says is an assessment, and worth less than half if it settles nothing.
LEMMA FiledLaws ==
    ASSUME NEW q \in Requirement, NEW in \in Inputs
    PROVE  Graded(Filed(q, in))
<1>1. /\ q.label \in Labels
      /\ q.category \in {"skill", "experience", "education", "seniority", "location", "other"}
  BY DEF Requirement
<1>2. in.profile.seniority \in Fields \cup {None} /\ in.profile.location \in Fields \cup {None}
  BY DEF Inputs, Profile
<1>3. CASE q.category = "skill"
  BY <1>3, SkillLaws DEF Filed
<1>4. CASE q.category = "experience"
  <2>1. Filed(q, in) = TextAssessment(q.label, in.documents \ Educations, in)
    BY <1>4 DEF Filed
  <2>2. QED
    BY <1>1, <2>1, TextLaws
<1>5. CASE q.category = "education"
  <2>1. Filed(q, in) = TextAssessment(q.label, in.documents \ Experiences, in)
    BY <1>5 DEF Filed
  <2>2. QED
    BY <1>1, <2>1, TextLaws
<1>6. CASE q.category = "seniority"
  <2>1. Filed(q, in) = FieldAssessment(q.label, in.profile.seniority, 75, 40)
    BY <1>6 DEF Filed
  <2>2. 75 \in Nat /\ 40 \in 0..50
    OBVIOUS
  <2>3. QED
    BY <1>1, <1>2, <2>1, <2>2, FieldLaws
<1>7. CASE q.category = "location"
  <2>1. Filed(q, in) = FieldAssessment(q.label, in.profile.location, 65, 30)
    BY <1>7 DEF Filed
  <2>2. 65 \in Nat /\ 30 \in 0..50
    OBVIOUS
  <2>3. QED
    BY <1>1, <1>2, <2>1, <2>2, FieldLaws
<1>8. CASE q.category = "other"
  <2>1. Filed(q, in) = TextAssessment(q.label, GeneralCorpus(in), in)
    BY <1>8 DEF Filed
  <2>2. QED
    BY <1>1, <2>1, TextLaws DEF GeneralCorpus
<1>9. QED
  BY <1>1, <1>3, <1>4, <1>5, <1>6, <1>7, <1>8

\* A document does not change what a requirement's own category says for the worse.
LEMMA FiledGrows ==
    ASSUME NEW q \in Requirement, NEW in \in Inputs, NEW x \in Documents
    PROVE  Better(Filed(q, in), Filed(q, With(in, x)))
<1> DEFINE more == With(in, x)
<1>1. /\ q.label \in Labels
      /\ q.category \in {"skill", "experience", "education", "seniority", "location", "other"}
  BY DEF Requirement
<1>2. /\ more \in Inputs
      /\ more.profile = in.profile /\ more.skills = in.skills
      /\ more.documents = in.documents \cup {x}
  BY WithLaws
<1>3. \A a : Graded(a) => Better(a, a)
  <2>1. TAKE a
  <2>2. ASSUME Graded(a) PROVE Better(a, a)
    <3>1. a.score \in (0..100) \cup {None} /\ a.status \in {"met", "partial", "missing", "unknown"}
      BY <2>2 DEF Graded, Assessment
    <3>2. QED
      BY <3>1 DEF Better
  <2>3. QED
    BY <2>2
<1> HIDE DEF more
<1>4. CASE q.category = "skill"
  <2>1. Filed(q, in) = SkillAssessment(q, in) /\ Filed(q, more) = SkillAssessment(q, more)
    BY <1>4 DEF Filed
  <2>2. /\ SkillAssessment(q, more).status = SkillAssessment(q, in).status
        /\ SkillAssessment(q, more).score = SkillAssessment(q, in).score
    BY <1>2, Z3 DEF SkillAssessment, Missing, Judged
  <2>3. SkillAssessment(q, in).score \in (0..100) \cup {None}
    BY SkillLaws DEF Graded, Assessment
  <2>4. QED
    BY <2>1, <2>2, <2>3 DEF Better, more
<1>5. CASE q.category = "experience"
  <2>1. /\ Filed(q, in) = TextAssessment(q.label, in.documents \ Educations, in)
        /\ Filed(q, more) = TextAssessment(q.label, more.documents \ Educations, more)
    BY <1>5 DEF Filed
  <2>2. QED
    BY <1>1, <1>2, <2>1, TextGrows DEF more
<1>6. CASE q.category = "education"
  <2>1. /\ Filed(q, in) = TextAssessment(q.label, in.documents \ Experiences, in)
        /\ Filed(q, more) = TextAssessment(q.label, more.documents \ Experiences, more)
    BY <1>6 DEF Filed
  <2>2. QED
    BY <1>1, <1>2, <2>1, TextGrows DEF more
<1>7. CASE q.category = "seniority" \/ q.category = "location"
  <2>1. Filed(q, more) = Filed(q, in)
    BY <1>2, <1>7 DEF Filed
  <2>2. QED
    BY <1>3, <2>1, FiledLaws DEF more
<1>8. CASE q.category = "other"
  <2>1. /\ Filed(q, in) = TextAssessment(q.label, GeneralCorpus(in), in)
        /\ Filed(q, more) = TextAssessment(q.label, GeneralCorpus(more), more)
    BY <1>8 DEF Filed
  <2>2. QED
    BY <1>1, <1>2, <2>1, TextGrows DEF more, GeneralCorpus
<1>9. QED
  BY <1>1, <1>4, <1>5, <1>6, <1>7, <1>8

\* What the wider profile says.
LEMMA WiderLaws ==
    ASSUME NEW q \in Requirement, NEW in \in Inputs
    PROVE  LET a == Wider(q, in) IN
           /\ Graded(a)
           /\ a.status # "unknown" => a.status \in {"met", "partial"} /\ a.score \in 50..100
<1>1. q.label \in Labels
  BY DEF Requirement
<1>2. GeneralCorpus(in) \in SUBSET (in.documents \cup Held(in.skills))
  BY DEF GeneralCorpus
<1> HIDE DEF Graded
<1>3. QED
  BY <1>1, <1>2, TextLaws DEF Wider

\* The wider profile only gains by one record more.
LEMMA WiderGrows ==
    ASSUME NEW q \in Requirement, NEW in \in Inputs, NEW x \in Documents
    PROVE  Better(Wider(q, in), Wider(q, With(in, x)))
<1>1. q.label \in Labels
  BY DEF Requirement
<1>2. /\ With(in, x) \in Inputs
      /\ With(in, x).skills = in.skills
      /\ With(in, x).documents = in.documents \cup {x}
  BY WithLaws
<1>3. /\ GeneralCorpus(in) \in SUBSET (in.documents \cup Held(in.skills))
      /\ GeneralCorpus(With(in, x)) \in SUBSET (With(in, x).documents \cup Held(With(in, x).skills))
      /\ GeneralCorpus(in) \subseteq GeneralCorpus(With(in, x))
  BY <1>2 DEF GeneralCorpus
<1>4. QED
  BY <1>1, <1>2, <1>3, TextGrows DEF Wider

\* So is what comes of both searches.
LEMMA OutcomeLaws ==
    ASSUME NEW q \in Requirement, NEW in \in Inputs
    PROVE  Graded(Outcome(q, in))
<1> DEFINE v == Wider(q, in)
<1>1. Graded(v) /\ Graded(Filed(q, in))
  BY WiderLaws, FiledLaws
<1> HIDE DEF v
<1>2. Graded([v EXCEPT !.wider = TRUE])
  BY <1>1, WiderOf DEF Graded
<1>3. QED
  BY <1>1, <1>2 DEF Outcome, v

\* Of a requirement, one more document keeps what is known and its eligibility,
\* and its score too, unless its own category takes over from the wider profile.
LEMMA OutcomeGrows ==
    ASSUME NEW q \in Requirement, NEW in \in Inputs, NEW x \in Documents
    PROVE  LET a == Outcome(q, in)  b == Outcome(q, With(in, x)) IN
           /\ a.score # None => b.score # None
           /\ b.status = "missing" => a.status = "missing"
           /\ b.status = "unknown" => a.status \in {"unknown", "missing"}
           /\ ~ (Widened(q, in) /\ ~ Widened(q, With(in, x))) => Better(a, b)
<1> DEFINE more == With(in, x)
           f == Filed(q, in)  g == Filed(q, more)
           v == [Wider(q, in) EXCEPT !.wider = TRUE]
           w == [Wider(q, more) EXCEPT !.wider = TRUE]
           a == Outcome(q, in)  b == Outcome(q, more)
<1>1. more \in Inputs
  BY WithLaws
<1>2. Graded(f) /\ Graded(g) /\ Better(f, g)
  BY <1>1, FiledLaws, FiledGrows
<1>3. /\ Graded(v) /\ Graded(w) /\ Better(v, w)
      /\ v.status # "unknown" => v.status \in {"met", "partial"} /\ v.score \in 50..100
      /\ w.status # "unknown" => w.status \in {"met", "partial"} /\ w.score \in 50..100
      /\ v.status = Wider(q, in).status /\ w.status = Wider(q, more).status
  <2> DEFINE y == Wider(q, in)  z == Wider(q, more)
  <2>1. /\ Graded(y) /\ Graded(z) /\ Better(y, z)
        /\ y.status # "unknown" => y.status \in {"met", "partial"} /\ y.score \in 50..100
        /\ z.status # "unknown" => z.status \in {"met", "partial"} /\ z.score \in 50..100
    BY <1>1, WiderLaws, WiderGrows
  <2> HIDE DEF y, z
  <2>2. y \in Assessment /\ z \in Assessment
    BY <2>1 DEF Graded
  <2> DEFINE yy == [y EXCEPT !.wider = TRUE]  zz == [z EXCEPT !.wider = TRUE]
  <2>3. /\ yy \in Assessment /\ yy.status = y.status /\ yy.score = y.score
        /\ zz \in Assessment /\ zz.status = z.status /\ zz.score = z.score
    BY <2>2, WiderOf
  <2> HIDE DEF yy, zz
  <2>4. /\ Graded(yy) /\ Graded(zz) /\ Better(yy, zz)
        /\ yy.status # "unknown" => yy.status \in {"met", "partial"} /\ yy.score \in 50..100
        /\ zz.status # "unknown" => zz.status \in {"met", "partial"} /\ zz.score \in 50..100
    BY <2>1, <2>3 DEF Graded, Better
  <2>5. yy = v /\ zz = w
    BY DEF yy, zz, y, z
  <2> HIDE DEF v, w
  <2>6. QED
    BY <2>3, <2>4, <2>5 DEF y, z
<1>4. a = IF f.status \in {"unknown", "missing"} /\ v.status # "unknown" THEN v ELSE f
  BY <1>3 DEF Outcome, Widened
<1>5. b = IF g.status \in {"unknown", "missing"} /\ w.status # "unknown" THEN w ELSE g
  BY <1>3 DEF Outcome, Widened
<1>6. /\ Widened(q, in) <=> f.status \in {"unknown", "missing"} /\ v.status # "unknown"
      /\ Widened(q, more) <=> g.status \in {"unknown", "missing"} /\ w.status # "unknown"
  BY <1>3 DEF Widened
<1> HIDE DEF f, g, v, w, a, b, more
<1>7. /\ f.status \in {"met", "partial", "missing", "unknown"} /\ f.score \in (0..100) \cup {None}
      /\ g.status \in {"met", "partial", "missing", "unknown"} /\ g.score \in (0..100) \cup {None}
      /\ v.status \in {"met", "partial", "missing", "unknown"} /\ v.score \in (0..100) \cup {None}
      /\ w.status \in {"met", "partial", "missing", "unknown"} /\ w.score \in (0..100) \cup {None}
  BY <1>2, <1>3 DEF Graded, Assessment
<1>8. CASE Widened(q, in) /\ Widened(q, more)
  <2>1. a = v /\ b = w
    BY <1>4, <1>5, <1>6, <1>8
  <2>2. QED
    BY <1>3, <2>1 DEF Better, a, b, more
<1>9. CASE Widened(q, in) /\ ~ Widened(q, more)
  <2>1. a = v /\ b = g
    BY <1>4, <1>5, <1>6, <1>9
  <2>2. w.status # "unknown" /\ v.status # "unknown"
    BY <1>3, <1>6, <1>9 DEF Better
  <2>3. g.status \in {"met", "partial"}
    BY <1>6, <1>7, <1>9, <2>2
  <2>4. b.score # None
    BY <1>2, <2>1, <2>3 DEF Graded
  <2>5. QED
    BY <1>9, <2>1, <2>3, <2>4 DEF a, b, more
<1>10. CASE ~ Widened(q, in) /\ Widened(q, more)
  <2>1. a = f /\ b = w
    BY <1>4, <1>5, <1>6, <1>10
  <2>2. f.status \in {"unknown", "missing"}
    BY <1>2, <1>6, <1>7, <1>10 DEF Better
  <2>3. f.score = None \/ f.score < 50
    BY <1>2, <2>2 DEF Graded
  <2>4. w.status \in {"met", "partial"} /\ w.score \in 50..100
    BY <1>3, <1>6, <1>10
  <2>5. w.score # None
    BY <2>4, NoneApart
  <2>6. Better(f, w)
    BY <1>7, <2>3, <2>4, <2>5 DEF Better
  <2>7. QED
    BY <2>1, <2>4, <2>5, <2>6 DEF a, b, more
<1>11. CASE ~ Widened(q, in) /\ ~ Widened(q, more)
  <2>1. a = f /\ b = g
    BY <1>4, <1>5, <1>6, <1>11
  <2>2. QED
    BY <1>2, <2>1 DEF Better, a, b, more
<1>12. QED
  BY <1>8, <1>9, <1>10, <1>11

-----------------------------------------------------------------------------
\* What the requirements come to.

\* A percentage is one, whatever it is made of, and grows with its part.
LEMMA PercentLaws ==
    ASSUME NEW d \in Nat, d > 0
    PROVE  /\ \A n \in Int : Percent(n, d) \in 0..100
           /\ \A n, m \in Int : n <= m => Percent(n, d) <= Percent(m, d)
<1>1. \A k \in Int : /\ Max({0, Min({100, k})}) =
                        IF k < 0 THEN 0 ELSE IF k > 100 THEN 100 ELSE k
  <2>1. TAKE k \in Int
  <2>2. Min({100, k}) = IF k > 100 THEN 100 ELSE k
    <3>1. \E x \in {100, k} : \A y \in {100, k} : x =< y
      OBVIOUS
    <3>2. Min({100, k}) \in {100, k} /\ \A y \in {100, k} : Min({100, k}) =< y
      BY <3>1 DEF Min
    <3>3. QED
      BY <3>2
  <2> DEFINE m == Min({100, k})
  <2>3. m \in Int
    BY <2>2
  <2> HIDE DEF m
  <2>4. Max({0, m}) = IF m < 0 THEN 0 ELSE m
    <3>1. \E x \in {0, m} : \A y \in {0, m} : x >= y
      BY <2>3
    <3>2. Max({0, m}) \in {0, m} /\ \A y \in {0, m} : Max({0, m}) >= y
      BY <3>1 DEF Max
    <3>3. QED
      BY <2>3, <3>2
  <2>5. QED
    BY <2>2, <2>4 DEF m
<1>2. ASSUME NEW n \in Int, NEW m \in Int, n <= m
      PROVE  n \div d <= m \div d
  BY <1>2, Z3
<1>3. \A n \in Int : n \div d \in Int
  OBVIOUS
<1>4. QED
  BY <1>1, <1>2, <1>3 DEF Percent

\* The parts of Bounds.
KnownOf(assessments) == {i \in DOMAIN assessments : assessments[i].score # None}
Weights(requirements) == [i \in DOMAIN requirements |-> requirements[i].weight]
Total(requirements) ==
    IF SumFunction(Weights(requirements)) = 0 THEN 1 ELSE SumFunction(Weights(requirements))
Points(requirements, assessments) ==
    [i \in KnownOf(assessments) |-> Weights(requirements)[i] * assessments[i].score]
KnownWeight(requirements, assessments) ==
    SumFunctionOnSet(Weights(requirements), KnownOf(assessments))

Assessed(R, A) == R \in Seq(Requirement) /\ A \in [DOMAIN R -> Assessment]

\* Bounds, of these parts.
LEMMA BoundsParts ==
    ASSUME NEW R, NEW A
    PROVE  LET known == KnownWeight(R, A)
               weighted == SumFunction(Points(R, A))
               coverage == Percent(100 * known, Total(R))
           IN  Bounds(R, A) =
                 [coverage |-> coverage,
                  lower |-> Percent(weighted, Total(R)),
                  upper |-> Percent(weighted + 100 * (Total(R) - known), Total(R)),
                  score |-> IF coverage < 35 THEN None
                            ELSE IF known = 0 THEN 0 ELSE Percent(weighted, known)]
BY DEF Bounds, KnownWeight, Points, Total, Weights, KnownOf

\* A sum of natural numbers is one.
LEMMA SumOfNaturals ==
    ASSUME NEW S, IsFiniteSet(S), NEW f \in [S -> Nat], NEW s \in SUBSET S
    PROVE  SumFunctionOnSet(f, s) \in Nat
<1>1. f \in [S -> Int]
  OBVIOUS
<1>2. SumFunctionOnSet(f, {}) = 0 /\ SumFunctionOnSet(f, s) \in Int
  BY <1>1, SumLaws
<1>3. SumFunctionOnSet(f, {}) <= SumFunctionOnSet(f, s)
  BY SumOfMore
<1>4. QED
  BY <1>2, <1>3

\* Weights and points are finitely many numbers, none of them negative.
LEMMA PartsType ==
    ASSUME NEW R, NEW A, Assessed(R, A)
    PROVE  /\ IsFiniteSet(DOMAIN R) /\ DOMAIN A = DOMAIN R
           /\ KnownOf(A) \in SUBSET DOMAIN R /\ IsFiniteSet(KnownOf(A))
           /\ Weights(R) \in [DOMAIN R -> Nat]
           /\ Points(R, A) \in [KnownOf(A) -> Nat]
           /\ Total(R) \in Nat /\ Total(R) > 0
           /\ KnownWeight(R, A) \in Nat
           /\ SumFunction(Points(R, A)) \in Nat
<1>1. R \in Seq(Requirement) /\ A \in [DOMAIN R -> Assessment]
  BY DEF Assessed
<1>2. IsFiniteSet(DOMAIN R) /\ DOMAIN A = DOMAIN R
  <2>1. Len(R) \in Nat /\ DOMAIN R = 1 .. Len(R)
    BY <1>1
  <2>2. IsFiniteSet(1 .. Len(R))
    BY <2>1, FS_Interval
  <2>3. QED
    BY <1>1, <2>1, <2>2
<1>3. KnownOf(A) \in SUBSET DOMAIN R /\ IsFiniteSet(KnownOf(A))
  <2>1. KnownOf(A) \in SUBSET DOMAIN R
    BY <1>2 DEF KnownOf
  <2>2. QED
    BY <1>2, <2>1, FS_Subset
<1>4. Weights(R) \in [DOMAIN R -> Nat]
  <2>1. \A i \in DOMAIN R : R[i] \in Requirement
    BY <1>1
  <2>2. QED
    BY <2>1 DEF Weights, Requirement
<1>5. Points(R, A) \in [KnownOf(A) -> Nat]
  <2>1. ASSUME NEW i \in KnownOf(A) PROVE Weights(R)[i] * A[i].score \in Nat
    <3>1. A[i] \in Assessment /\ A[i].score # None
      BY <1>1, <1>3 DEF KnownOf
    <3>2. A[i].score \in 0..100
      BY <3>1 DEF Assessment
    <3>3. Weights(R)[i] \in Nat
      BY <1>3, <1>4
    <3>4. \A m, n \in Nat : m * n \in Nat
      OBVIOUS
    <3>5. QED
      BY <3>2, <3>3, <3>4
  <2>2. QED
    BY <2>1 DEF Points
<1>6. \A S : \A f \in [S -> Nat] : IsFiniteSet(S) =>
         \A s \in SUBSET S : SumFunctionOnSet(f, s) \in Nat
  BY SumOfNaturals
<1>7. SumFunction(Weights(R)) \in Nat /\ SumFunction(Points(R, A)) \in Nat
  <2>1. DOMAIN Weights(R) = DOMAIN R /\ DOMAIN Points(R, A) = KnownOf(A)
    BY DEF Weights, Points
  <2>2. QED
    BY <1>2, <1>3, <1>4, <1>5, <1>6, <2>1 DEF SumFunction
<1>8. KnownWeight(R, A) \in Nat
  BY <1>2, <1>3, <1>4, <1>6 DEF KnownWeight
<1>9. Total(R) \in Nat /\ Total(R) > 0
  BY <1>7 DEF Total
<1>10. QED
  BY <1>2, <1>3, <1>4, <1>5, <1>7, <1>8, <1>9

\* Coverage, bounds and score are percentages.
LEMMA BoundsType ==
    ASSUME NEW R, NEW A, Assessed(R, A)
    PROVE  Bounds(R, A) \in [coverage : 0..100, lower : 0..100, upper : 0..100,
                             score : (0..100) \cup {None}]
<1> DEFINE known == KnownWeight(R, A)
           weighted == SumFunction(Points(R, A))
           total == Total(R)
<1>1. known \in Nat /\ weighted \in Nat /\ total \in Nat /\ total > 0
  BY PartsType
<1>2. Bounds(R, A) =
        [coverage |-> Percent(100 * known, total),
         lower |-> Percent(weighted, total),
         upper |-> Percent(weighted + 100 * (total - known), total),
         score |-> IF Percent(100 * known, total) < 35 THEN None
                   ELSE IF known = 0 THEN 0 ELSE Percent(weighted, known)]
  BY BoundsParts
<1> HIDE DEF known, weighted, total
<1>3. 100 * known \in Int /\ weighted + 100 * (total - known) \in Int
  BY <1>1
<1>4. /\ Percent(100 * known, total) \in 0..100
      /\ Percent(weighted, total) \in 0..100
      /\ Percent(weighted + 100 * (total - known), total) \in 0..100
  BY <1>1, <1>3, PercentLaws
<1>5. known # 0 => Percent(weighted, known) \in 0..100
  BY <1>1, PercentLaws
<1>6. QED
  BY <1>2, <1>4, <1>5

\* Assessments that know no less, and score what is known no less, have no less
\* coverage and no lower a bound.
LEMMA BoundsGrow ==
    ASSUME NEW R, NEW A, NEW B, Assessed(R, A), Assessed(R, B),
           \A i \in DOMAIN R : A[i].score # None => B[i].score # None
    PROVE  /\ Bounds(R, A).coverage <= Bounds(R, B).coverage
           /\ (\A i \in DOMAIN R : Better(A[i], B[i]))
                 => Bounds(R, A).lower <= Bounds(R, B).lower
<1>1. KnownOf(A) \subseteq KnownOf(B)
  BY PartsType DEF KnownOf
<1>2. KnownWeight(R, A) <= KnownWeight(R, B)
  BY <1>1, PartsType, SumOfMore DEF KnownWeight
<1>3. Bounds(R, A).coverage <= Bounds(R, B).coverage
  <2>1. /\ Bounds(R, A).coverage = Percent(100 * KnownWeight(R, A), Total(R))
        /\ Bounds(R, B).coverage = Percent(100 * KnownWeight(R, B), Total(R))
    BY BoundsParts
  <2>2. /\ KnownWeight(R, A) \in Nat /\ KnownWeight(R, B) \in Nat
        /\ Total(R) \in Nat /\ Total(R) > 0
    BY PartsType
  <2>3. /\ 100 * KnownWeight(R, A) \in Int /\ 100 * KnownWeight(R, B) \in Int
        /\ 100 * KnownWeight(R, A) <= 100 * KnownWeight(R, B)
    BY <1>2, <2>2
  <2>4. QED
    BY <2>1, <2>2, <2>3, PercentLaws
<1>4. ASSUME \A i \in DOMAIN R : Better(A[i], B[i])
      PROVE  Bounds(R, A).lower <= Bounds(R, B).lower
  <2> DEFINE K == KnownOf(A)  M == KnownOf(B)
             f == Points(R, A)  g == Points(R, B)
             h == [i \in K |-> g[i]]
  <2>1. /\ f \in [K -> Nat] /\ g \in [M -> Nat] /\ K \subseteq M
        /\ IsFiniteSet(K) /\ IsFiniteSet(M) /\ K \subseteq DOMAIN R
    BY <1>1, PartsType
  <2>2. \A i \in K : f[i] <= h[i]
    <3>1. TAKE i \in K
    <3>2. /\ A[i] \in Assessment /\ B[i] \in Assessment
          /\ A[i].score # None /\ B[i].score # None
          /\ B[i].score >= A[i].score
      BY <1>4, <2>1 DEF KnownOf, Assessed, Better
    <3>3. A[i].score \in 0..100 /\ B[i].score \in 0..100
      BY <3>2 DEF Assessment
    <3>4. Weights(R)[i] \in Nat
      BY <2>1, PartsType
    <3>5. \A w \in Nat : \A a, b \in 0..100 : b >= a => w * a <= w * b
      BY Z3
    <3>6. /\ f[i] = Weights(R)[i] * A[i].score
          /\ h[i] = Weights(R)[i] * B[i].score
      BY <2>1 DEF Points
    <3>7. QED
      BY <3>2, <3>3, <3>4, <3>5, <3>6
  <2> HIDE DEF f, g, K, M
  <2>3. /\ f \in [K -> Int] /\ h \in [K -> Int] /\ g \in [M -> Int]
    BY <2>1
  <2>4. SumFunctionOnSet(f, K) <= SumFunctionOnSet(h, K)
    <3> HIDE DEF h
    <3> QED
      BY <2>1, <2>2, <2>3, SumMonotone
  <2>5. SumFunctionOnSet(h, K) = SumFunctionOnSet(g, K)
    <3>1. K \in SUBSET (K \cap M) /\ \A i \in K : h[i] = g[i]
      BY <2>1
    <3> HIDE DEF h
    <3>2. QED
      BY <2>1, <2>3, <3>1, SumCongruent
  <2>6. SumFunctionOnSet(g, K) <= SumFunctionOnSet(g, M)
    <3>1. M \in SUBSET M /\ K \in SUBSET M
      BY <2>1
    <3>2. QED
      BY <2>1, <3>1, SumOfMore
  <2>7. SumFunction(f) = SumFunctionOnSet(f, K) /\ SumFunction(g) = SumFunctionOnSet(g, M)
    BY <2>1 DEF SumFunction
  <2>8. /\ SumFunctionOnSet(f, K) \in Int /\ SumFunctionOnSet(g, K) \in Int
        /\ SumFunctionOnSet(g, M) \in Int
    <3>1. K \in SUBSET K /\ M \in SUBSET M /\ K \in SUBSET M
      BY <2>1
    <3>2. QED
      BY <2>1, <2>3, <3>1, SumLaws
  <2>9. SumFunction(f) <= SumFunction(g) /\ SumFunction(f) \in Int /\ SumFunction(g) \in Int
    BY <2>4, <2>5, <2>6, <2>7, <2>8
  <2>10. /\ Bounds(R, A).lower = Percent(SumFunction(f), Total(R))
         /\ Bounds(R, B).lower = Percent(SumFunction(g), Total(R))
    BY BoundsParts DEF f, g
  <2>11. Total(R) \in Nat /\ Total(R) > 0
    BY PartsType
  <2>12. QED
    BY <2>9, <2>10, <2>11, PercentLaws
<1>5. QED
  BY <1>3, <1>4

\* What is eligible, unknown or in conflict.
LEMMA EligibilityGrows ==
    ASSUME NEW R, NEW A, NEW B, Assessed(R, A), Assessed(R, B),
           \A i \in DOMAIN R :
              /\ B[i].status = "missing" => A[i].status = "missing"
              /\ B[i].status = "unknown" => A[i].status \in {"unknown", "missing"}
    PROVE  /\ Eligibility(R, A) \in {"conflict", "unknown", "eligible"}
           /\ Rank[Eligibility(R, B)] >= Rank[Eligibility(R, A)]
<1> DEFINE E == {j \in DOMAIN R : R[j].importance = "eligibility"}
           Conflict(X) == \E i \in E : X[i].status = "missing"
           Open(X) == \E i \in E : X[i].status = "unknown"
<1>1. \A X : Eligibility(R, X) = IF Conflict(X) THEN "conflict"
                                 ELSE IF Open(X) THEN "unknown" ELSE "eligible"
  BY DEF Eligibility
<1>2. Conflict(B) => Conflict(A)
  OBVIOUS
<1>3. Open(B) => Open(A) \/ Conflict(A)
  OBVIOUS
<1> HIDE DEF Conflict, Open
<1>4. QED
  BY <1>1, <1>2, <1>3 DEF Rank

\* Bounds and eligibility are told by the scores and the statuses alone.
LEMMA VerdictsTell ==
    ASSUME NEW R, NEW A, NEW B, Assessed(R, A), Assessed(R, B),
           \A i \in DOMAIN R : A[i].score = B[i].score /\ A[i].status = B[i].status
    PROVE  Bounds(R, A) = Bounds(R, B) /\ Eligibility(R, A) = Eligibility(R, B)
<1>1. KnownOf(A) = KnownOf(B) /\ KnownOf(A) \subseteq DOMAIN R
  BY PartsType DEF KnownOf
<1>2. KnownWeight(R, A) = KnownWeight(R, B)
  BY <1>1 DEF KnownWeight
<1>3. Points(R, A) = Points(R, B)
  BY <1>1 DEF Points
<1>4. Bounds(R, A) = Bounds(R, B)
  BY <1>2, <1>3, BoundsParts
<1> DEFINE E == {j \in DOMAIN R : R[j].importance = "eligibility"}
           Conflict(X) == \E i \in E : X[i].status = "missing"
           Open(X) == \E i \in E : X[i].status = "unknown"
<1>5. \A X : Eligibility(R, X) = IF Conflict(X) THEN "conflict"
                                 ELSE IF Open(X) THEN "unknown" ELSE "eligible"
  BY DEF Eligibility
<1>6. Conflict(A) <=> Conflict(B)
  OBVIOUS
<1>7. Open(A) <=> Open(B)
  OBVIOUS
<1> HIDE DEF Conflict, Open
<1>8. QED
  BY <1>4, <1>5, <1>6, <1>7

-----------------------------------------------------------------------------
\* The calculation as a whole.

\* What the digest says of the requirements.
Judgements(batch, A) ==
    [i \in DOMAIN A |-> [id |-> [batch |-> batch, index |-> i], status |-> A[i].status,
                         score |-> A[i].score, evidence |-> A[i].evidence]]

LEMMA JudgementsType ==
    ASSUME NEW batch \in Nat, NEW A \in Seq(Assessment)
    PROVE  Judgements(batch, A) \in Seq(Judgement)
<1>1. DOMAIN A = 1 .. Len(A) /\ Len(A) \in Nat /\ \A i \in DOMAIN A : A[i] \in Assessment
  OBVIOUS
<1>2. ASSUME NEW i \in DOMAIN A
      PROVE  [id |-> [batch |-> batch, index |-> i], status |-> A[i].status,
              score |-> A[i].score, evidence |-> A[i].evidence] \in Judgement
  <2>1. A[i] \in Assessment /\ i \in Nat
    BY <1>1
  <2>2. [batch |-> batch, index |-> i] \in RequirementId
    BY <2>1 DEF RequirementId
  <2>3. QED
    BY <2>1, <2>2 DEF Assessment, Judgement
<1>3. Judgements(batch, A) \in [1 .. Len(A) -> Judgement]
  BY <1>1, <1>2 DEF Judgements
<1>4. QED
  BY <1>1, <1>3

\* Every requirement has its assessment.
LEMMA AssessedInputs ==
    ASSUME NEW in \in Inputs
    PROVE  /\ Assessed(in.opportunity.requirements, Assess(in))
           /\ Assess(in) \in Seq(Assessment)
           /\ in.opportunity.requirements \in Seq(Requirement)
<1> DEFINE R == in.opportunity.requirements
<1>1. R \in Seq(Requirement)
  BY DEF Inputs, OpportunityRow
<1>2. \A i \in DOMAIN R : Outcome(R[i], in) \in Assessment
  <2>1. TAKE i \in DOMAIN R
  <2>2. R[i] \in Requirement
    BY <1>1
  <2>3. QED
    BY <2>2, OutcomeLaws DEF Graded
<1>3. Assess(in) = [i \in DOMAIN R |-> Outcome(R[i], in)]
  BY DEF Assess
<1> HIDE DEF R
<1>4. Assess(in) \in [DOMAIN R -> Assessment]
  BY <1>2, <1>3
<1>5. Assess(in) \in Seq(Assessment)
  <2>1. Len(R) \in Nat /\ DOMAIN R = 1 .. Len(R)
    BY <1>1
  <2>2. Assess(in) \in [1 .. Len(R) -> Assessment]
    BY <1>4, <2>1
  <2>3. QED
    BY <2>1, <2>2
<1>6. QED
  BY <1>1, <1>4, <1>5 DEF Assessed, R

\* What is made of an opportunity in any profile: a document more does not hurt.
LEMMA DocumentsHelp ==
    ASSUME NEW o \in Opportunities, NEW in \in Inputs, NEW x \in Documents
    PROVE  LET now == Calculate(o, in)
               more == Calculate(o, With(in, x))
           IN  /\ more.bounds.coverage >= now.bounds.coverage
               /\ Rank[more.eligibility] >= Rank[now.eligibility]
               /\ \/ more.bounds.lower >= now.bounds.lower
                  \/ \E i \in DOMAIN now.requirements :
                        /\ Widened(now.requirements[i], in)
                        /\ ~ Widened(now.requirements[i], With(in, x))
<1> DEFINE has == With(in, x)
           R == in.opportunity.requirements
           A == Assess(in)  B == Assess(has)
<1>1. has \in Inputs /\ has.opportunity = in.opportunity
  BY WithLaws
<1>2. Assessed(R, A) /\ Assessed(R, B) /\ R \in Seq(Requirement)
  BY <1>1, AssessedInputs
<1>3. \A i \in DOMAIN R : A[i] = Outcome(R[i], in) /\ B[i] = Outcome(R[i], has)
  BY <1>1 DEF Assess
<1>4. /\ Calculate(o, in).bounds = Bounds(R, A)
      /\ Calculate(o, in).eligibility = Eligibility(R, A)
      /\ Calculate(o, in).requirements = R
      /\ Calculate(o, has).bounds = Bounds(R, B)
      /\ Calculate(o, has).eligibility = Eligibility(R, B)
  BY <1>1 DEF Calculate
<1> HIDE DEF R, A, B
<1>5. \A i \in DOMAIN R :
         /\ A[i].score # None => B[i].score # None
         /\ B[i].status = "missing" => A[i].status = "missing"
         /\ B[i].status = "unknown" => A[i].status \in {"unknown", "missing"}
         /\ ~ (Widened(R[i], in) /\ ~ Widened(R[i], has)) => Better(A[i], B[i])
  <2>1. TAKE i \in DOMAIN R
  <2>2. R[i] \in Requirement
    BY <1>2
  <2> HIDE DEF Better
  <2>3. QED
    BY <1>3, <2>2, OutcomeGrows
<1>6. Bounds(R, A).coverage <= Bounds(R, B).coverage
  BY <1>2, <1>5, BoundsGrow
<1>7. Rank[Eligibility(R, B)] >= Rank[Eligibility(R, A)]
  BY <1>2, <1>5, EligibilityGrows
<1>8. \/ Bounds(R, A).lower <= Bounds(R, B).lower
      \/ \E i \in DOMAIN R : Widened(R[i], in) /\ ~ Widened(R[i], has)
  <2>1. ASSUME \A i \in DOMAIN R : ~ (Widened(R[i], in) /\ ~ Widened(R[i], has))
        PROVE  Bounds(R, A).lower <= Bounds(R, B).lower
    <3>1. \A i \in DOMAIN R : Better(A[i], B[i])
      BY <1>5, <2>1
    <3>2. QED
      BY <1>2, <1>5, <3>1, BoundsGrow
  <2>2. QED
    BY <2>1
<1>9. /\ Bounds(R, A).coverage \in Int /\ Bounds(R, B).coverage \in Int
      /\ Bounds(R, A).lower \in Int /\ Bounds(R, B).lower \in Int
  <2> DEFINE Hundredths == [coverage : 0..100, lower : 0..100, upper : 0..100,
                            score : (0..100) \cup {None}]
  <2>1. \A b \in Hundredths : b.coverage \in Int /\ b.lower \in Int
    OBVIOUS
  <2>2. Bounds(R, A) \in Hundredths
    BY <1>2, BoundsType
  <2>3. Bounds(R, B) \in Hundredths
    BY <1>2, BoundsType
  <2> HIDE DEF Hundredths
  <2>4. QED
    BY <2>1, <2>2, <2>3
<1>10. QED
  BY <1>4, <1>6, <1>7, <1>8, <1>9 DEF has

\* A calculation makes a run.
LEMMA CalculateType ==
    ASSUME NEW o \in Opportunities, NEW in \in Inputs
    PROVE  Calculate(o, in) \in MatchRun
<1> DEFINE R == in.opportunity.requirements
           A == Assess(in)
<1>1. Assessed(R, A) /\ R \in Seq(Requirement) /\ A \in Seq(Assessment)
  BY AssessedInputs
<1>2. Bounds(R, A) \in [coverage : 0..100, lower : 0..100, upper : 0..100,
                        score : (0..100) \cup {None}]
  BY <1>1, BoundsType
<1>3. Eligibility(R, A) \in {"conflict", "unknown", "eligible"}
  BY DEF Eligibility
<1>4. Digest(in, A) \in [profile : Profile,
                         skills : [Skills -> SkillRows \cup {None}],
                         claims : SUBSET Claims,
                         version : Nat,
                         requirements : Seq(Judgement)]
  <2>1. /\ in.profile \in Profile /\ in.opportunity.version \in Nat
        /\ in.opportunity.batch \in Nat
        /\ in.skills \in [Skills -> SkillRows \cup {None}]
    BY DEF Inputs, OpportunityRow
  <2>2. Confirmed(in) \in SUBSET Claims
    BY DEF Confirmed
  <2> HIDE DEF A
  <2>3. Judgements(in.opportunity.batch, A) \in Seq(Judgement)
    BY <1>1, <2>1, JudgementsType
  <2>4. Digest(in, A) = [profile |-> in.profile, skills |-> in.skills,
                         claims |-> Confirmed(in), version |-> in.opportunity.version,
                         requirements |-> Judgements(in.opportunity.batch, A)]
    BY DEF Digest, Judgements
  <2>5. QED
    BY <2>1, <2>2, <2>3, <2>4
<1>5. Calculate(o, in) = [opportunity |-> o, input_digest |-> Digest(in, A),
                          bounds |-> Bounds(R, A), eligibility |-> Eligibility(R, A),
                          batch |-> in.opportunity.batch,
                          requirements |-> R, assessments |-> A]
  BY DEF Calculate
<1>6. in.opportunity.batch \in Nat
  BY DEF Inputs, OpportunityRow
<1> HIDE DEF R, A
<1>7. QED
  BY <1>1, <1>2, <1>3, <1>4, <1>5, <1>6 DEF MatchRun

-----------------------------------------------------------------------------
\* The inductive invariant: what each request goes on from is there, and rows of
\* requirements that were written together go on saying what they said.

Grounded(recs, q) ==
    /\ q.kind \in {"reading", "regenerating"} => q.opportunity \in Opportunities
    /\ q.kind = "reading" => q.input \in [profile : Profile, version : Nat]
    /\ q.kind \in {"calculated", "regenerating"} => q.result \in MatchRun
    /\ q.kind \in {"updating", "flushed"} =>
          q.row \in DOMAIN recs /\ q.new \in Recommendation
    /\ q.kind = "flushed" /\ q.columns # {} =>
          recs[q.row] # None /\ q.held = {q.row}

\* A batch of rows was written once; the version of its opportunity would not tell
\* them, which an extraction that fails erases without a new one.
Dated(rows, o, batch, requirements) ==
    /\ batch <= rows[o].batch
    /\ batch = rows[o].batch => requirements = rows[o].requirements

\* A run is what its requirements and assessments come to.
Sound(rows, run) ==
    /\ Assessed(run.requirements, run.assessments)
    /\ run.bounds = Bounds(run.requirements, run.assessments)
    /\ run.eligibility = Eligibility(run.requirements, run.assessments)
    /\ run.input_digest.requirements = Judgements(run.batch, run.assessments)
    /\ Dated(rows, run.opportunity, run.batch, run.requirements)

RequestsGrounded == \A r \in Requests : Grounded(recommendations, request[r])

RunsSound ==
    /\ \A i \in DOMAIN runs : Sound(opportunities, runs[i])
    /\ \A r \in Requests :
          request[r].kind = "calculated" => Sound(opportunities, request[r].result)

IInv == TypeOK /\ RequestsGrounded /\ RunsSound

\* What a calculation would read now is an input of one.
LEMMA CurrentType ==
    ASSUME TypeOK, NEW o \in Opportunities
    PROVE  Current(o) \in Inputs
BY DEF TypeOK, Current, Inputs

\* A run that is calculated from what was read is sound.
LEMMA CalculateSound ==
    ASSUME NEW o \in Opportunities, NEW in \in Inputs,
           Dated(opportunities, o, in.opportunity.batch, in.opportunity.requirements)
    PROVE  Sound(opportunities, Calculate(o, in))
<1>1. Digest(in, Assess(in)).requirements = Judgements(in.opportunity.batch, Assess(in))
  BY DEF Digest, Judgements
<1>2. /\ Calculate(o, in).opportunity = o
      /\ Calculate(o, in).input_digest = Digest(in, Assess(in))
      /\ Calculate(o, in).bounds = Bounds(in.opportunity.requirements, Assess(in))
      /\ Calculate(o, in).eligibility = Eligibility(in.opportunity.requirements, Assess(in))
      /\ Calculate(o, in).batch = in.opportunity.batch
      /\ Calculate(o, in).requirements = in.opportunity.requirements
      /\ Calculate(o, in).assessments = Assess(in)
  BY DEF Calculate
<1>3. Assessed(in.opportunity.requirements, Assess(in))
  BY AssessedInputs
<1>4. QED
  BY <1>1, <1>2, <1>3 DEF Sound

\* Requirements are written, or erased, as another batch.
LEMMA DatedStays ==
    ASSUME IInv, Next, NEW o \in Opportunities, NEW batch \in Nat, NEW requirements,
           Dated(opportunities, o, batch, requirements)
    PROVE  Dated(opportunities', o, batch, requirements)
<1>1. opportunities[o].batch \in Nat /\ opportunities \in [Opportunities -> OpportunityRow]
  BY DEF IInv, TypeOK, OpportunityRow
<1>2. CASE opportunities' = opportunities
  BY <1>2 DEF Dated
<1>3. ASSUME NEW p \in Opportunities, NEW row,
             row.batch = opportunities[p].batch + 1,
             opportunities' = [opportunities EXCEPT ![p] = row]
      PROVE  Dated(opportunities', o, batch, requirements)
  <2>1. CASE p = o
    <3>1. opportunities'[o].batch = opportunities[o].batch + 1
      BY <1>1, <1>3, <2>1
    <3>2. batch <= opportunities[o].batch
      BY DEF Dated
    <3>3. QED
      BY <1>1, <3>1, <3>2 DEF Dated
  <2>2. CASE p # o
    <3>1. opportunities'[o] = opportunities[o]
      BY <1>1, <1>3, <2>2
    <3>2. QED
      BY <3>1 DEF Dated
  <2>3. QED
    BY <2>1, <2>2
<1>4. ASSUME NEW p \in Opportunities, NEW i \in DOMAIN Revisions[p],
             UpdateOpportunity(p, Revisions[p][i])
      PROVE  Dated(opportunities', o, batch, requirements)
  <2> DEFINE row == [version |-> opportunities[p].version + 1,
                     batch |-> opportunities[p].batch + 1, requirements |-> Revisions[p][i]]
  <2>1. opportunities' = [opportunities EXCEPT ![p] = row]
    BY <1>4 DEF UpdateOpportunity
  <2>2. row.batch = opportunities[p].batch + 1
    OBVIOUS
  <2> HIDE DEF row
  <2>3. QED
    BY <1>3, <2>1, <2>2
<1>5. ASSUME NEW p \in Opportunities, FailExtraction(p)
      PROVE  Dated(opportunities', o, batch, requirements)
  <2> DEFINE row == [version |-> opportunities[p].version,
                     batch |-> opportunities[p].batch + 1, requirements |-> <<>>]
  <2>1. opportunities' = [opportunities EXCEPT ![p] = row]
    BY <1>5 DEF FailExtraction
  <2>2. row.batch = opportunities[p].batch + 1
    OBVIOUS
  <2> HIDE DEF row
  <2>3. QED
    BY <1>3, <2>1, <2>2
<1>6. QED
  BY <1>2, <1>4, <1>5 DEF Next, UpdateProfile, DecideClaim, AddExperience, DeleteExperience,
     AddEducation, DeleteEducation, AddRecord, DeleteRecord, AddSkill, DeleteSkill,
     BeginRun, CalculateMatch, CommitRun, BeginRegenerate, CommitRegenerate, Read,
     UpdateRecommendation, RecommendationTask, Flush, CommitUpdate, Profiled

-----------------------------------------------------------------------------
\* Recommendations.

\* The fields of a recommendation.
Needs == RequirementId
Kinds == {"evidence", "capability", "presentation"}
Impacts == {100, 72, 45}
Hundred == 0..100
Priorities == 0..12000
Statuses == {"suggested", "planned", "doing", "completed", "dismissed"}

\* A priority is what impact and effort allow.
LEMMA PriorityType ==
    ASSUME NEW impact \in Impacts, NEW effort \in Hundred
    PROVE  Priority(impact, effort) \in Priorities
<1>1. effort \in 0..100 /\ impact \in {100, 72, 45}
  BY DEF Hundred, Impacts
<1>2. 120 - effort \in 0..120
  BY <1>1
<1>3. \A n \in 0..120 : /\ 100 * n \in 0..12000
                        /\ 72 * n \in 0..12000
                        /\ 45 * n \in 0..12000
  BY Z3
<1>4. QED
  BY <1>1, <1>2, <1>3, Z3 DEF Priority, Priorities

LEMMA PrioritiesAreNumbers == Priorities \subseteq Nat
BY DEF Priorities

\* A recommendation, whatever its fields may be.
Rows(O, Q, K, A, E, P, S, G) ==
    [opportunity : O, requirement : Q, kind : K, impact : A, effort : E,
     priority : P, status : S, progress : G]

Made(o, q, k, a, e, p, s, g) ==
    [opportunity |-> o, requirement |-> q, kind |-> k, impact |-> a, effort |-> e,
     priority |-> p, status |-> s, progress |-> g]

\* A record of given fields, and the fields of a record.
LEMMA MadeIn ==
    ASSUME NEW O, NEW Q, NEW K, NEW A, NEW E, NEW P, NEW S, NEW G,
           NEW o \in O, NEW q \in Q, NEW k \in K, NEW a \in A,
           NEW e \in E, NEW p \in P, NEW s \in S, NEW g \in G
    PROVE  Made(o, q, k, a, e, p, s, g) \in Rows(O, Q, K, A, E, P, S, G)
BY DEF Made, Rows

LEMMA RowParts ==
    ASSUME NEW O, NEW Q, NEW K, NEW A, NEW E, NEW P, NEW S, NEW G,
           NEW row \in Rows(O, Q, K, A, E, P, S, G)
    PROVE  /\ row.opportunity \in O /\ row.requirement \in Q /\ row.kind \in K
           /\ row.impact \in A /\ row.effort \in E /\ row.priority \in P
           /\ row.status \in S /\ row.progress \in G
           /\ row = Made(row.opportunity, row.requirement, row.kind, row.impact,
                         row.effort, row.priority, row.status, row.progress)
           /\ DOMAIN row = {"opportunity", "requirement", "kind", "impact", "effort",
                            "priority", "status", "progress"}
BY DEF Made, Rows

\* Recommendations are such records.
LEMMA RecommendationRows ==
    Recommendation = Rows(Opportunities, Needs, Kinds, Impacts, Hundred, Priorities,
                          Statuses, Hundred)
BY DEF Recommendation, Rows, Needs, Kinds, Impacts, Hundred, Priorities, Statuses

LEMMA GivenValues ==
    "suggested" \in Statuses /\ "planned" \in Statuses /\ "completed" \in Statuses
    /\ 0 \in Hundred
BY DEF Statuses, Hundred

\* What a requirement calls for is a recommendation.
LEMMA SuggestionType ==
    ASSUME NEW run \in MatchRun, NEW i \in DOMAIN run.assessments
    PROVE  Suggestion(run, i) \in Recommendation
<1>1. run.opportunity \in Opportunities /\ run.batch \in Nat /\ i \in Nat
  <2>1. /\ run.assessments \in Seq(Assessment) /\ run.opportunity \in Opportunities
        /\ run.batch \in Nat
    BY DEF MatchRun
  <2>2. QED
    BY <2>1
<1> DEFINE s == Suggestion(run, i)
<1>2. s.impact \in {100, 72, 45} /\ s.effort \in 0..100
  <2>1. Suggestion(run, i).impact \in {100, 72, 45}
    BY DEF Suggestion
  <2>2. Suggestion(run, i).effort \in {25, 35, 70, 45}
    BY DEF Suggestion
  <2>3. QED
    BY <2>1, <2>2
<1>3. s.kind \in {"evidence", "capability", "presentation"}
  BY Z3 DEF Suggestion
<1>4. s = [opportunity |-> run.opportunity,
           requirement |-> [batch |-> run.batch, index |-> i],
           kind |-> s.kind, impact |-> s.impact, effort |-> s.effort,
           priority |-> Priority(s.impact, s.effort),
           status |-> "suggested", progress |-> 0]
  BY DEF Suggestion
<1> HIDE DEF s
<1>5. s.impact \in Impacts /\ s.effort \in Hundred /\ s.kind \in Kinds
  BY <1>2, <1>3 DEF Impacts, Hundred, Kinds
<1>6. s \in Recommendation
  <2>1. /\ s.kind \in Kinds /\ s.impact \in Impacts /\ s.effort \in Hundred
        /\ Priority(s.impact, s.effort) \in Priorities
        /\ [batch |-> run.batch, index |-> i] \in Needs
    <3>1. Priority(s.impact, s.effort) \in Priorities
      BY <1>5, PriorityType
    <3>2. [batch |-> run.batch, index |-> i] \in Needs
      BY <1>1 DEF Needs, RequirementId
    <3>3. QED
      BY <1>5, <3>1, <3>2
  <2>2. s = Made(run.opportunity, [batch |-> run.batch, index |-> i],
                 s.kind, s.impact, s.effort, Priority(s.impact, s.effort), "suggested", 0)
    BY <1>4 DEF Made
  <2> DEFINE q == [batch |-> run.batch, index |-> i]
             p == Priority(s.impact, s.effort)
  <2> HIDE DEF q, p
  <2>3. Made(run.opportunity, q, s.kind, s.impact, s.effort, p, "suggested", 0)
           \in Rows(Opportunities, Needs, Kinds, Impacts, Hundred, Priorities, Statuses, Hundred)
    BY <1>1, <2>1, GivenValues, MadeIn DEF q, p
  <2>4. QED
    BY <2>2, <2>3, RecommendationRows DEF q, p
<1>7. QED
  BY <1>6 DEF s

\* The suggestions of a run are a list of recommendations.
LEMMA SuggestionsType ==
    ASSUME NEW run \in MatchRun
    PROVE  Suggestions(run) \in Seq(Recommendation)
<1> DEFINE G == Gaps(run)
           n == Cardinality(G)
           R == {p \in G \X G : Precedes(run, p[1], p[2])}
           List(s) == \A k, l \in DOMAIN s : k < l => Precedes(run, s[k], s[l])
           order == CHOOSE s \in [1..n -> G] : List(s)
<1>1. G \subseteq DOMAIN run.assessments /\ IsFiniteSet(G) /\ G \subseteq Nat /\ n \in Nat
  <2>1. run.assessments \in Seq(Assessment)
    BY DEF MatchRun
  <2>2. Len(run.assessments) \in Nat /\ DOMAIN run.assessments = 1 .. Len(run.assessments)
    BY <2>1
  <2>3. IsFiniteSet(1 .. Len(run.assessments))
    BY <2>2, FS_Interval
  <2>4. G \subseteq DOMAIN run.assessments
    BY DEF Gaps
  <2>5. IsFiniteSet(G)
    BY <2>2, <2>3, <2>4, FS_Subset
  <2>6. QED
    BY <2>2, <2>4, <2>5, FS_CardinalityType
<1>2. \A i \in G : Suggestion(run, i) \in Recommendation /\ Suggestion(run, i).priority \in Nat
  <2>1. TAKE i \in G
  <2>2. Suggestion(run, i) \in Recommendation
    BY <1>1, SuggestionType
  <2>3. Suggestion(run, i).priority \in Priorities
    BY <2>2, RecommendationRows, RowParts
  <2>4. QED
    BY <2>2, <2>3, PrioritiesAreNumbers
<1> HIDE DEF G, n
<1>3. Orders(R, G)
  <2>1. ASSUME NEW x \in G, NEW y \in G, x # y PROVE <<x, y>> \in R \/ <<y, x>> \in R
    <3>1. x \in Nat /\ y \in Nat
      BY <1>1
    <3>2. Precedes(run, x, y) \/ Precedes(run, y, x)
      BY <1>2, <2>1, <3>1 DEF Precedes
    <3>3. QED
      BY <3>2
  <2>2. ASSUME NEW x \in G, NEW y \in G, NEW z \in G, <<x, y>> \in R, <<y, z>> \in R
        PROVE  <<x, z>> \in R
    <3>1. x \in Nat /\ y \in Nat /\ z \in Nat
      BY <1>1
    <3>2. Precedes(run, x, y) /\ Precedes(run, y, z)
      BY <2>2
    <3>3. Precedes(run, x, z)
      BY <1>2, <3>1, <3>2 DEF Precedes
    <3>4. QED
      BY <3>3
  <2> HIDE DEF R
  <2>3. QED
    BY <2>1, <2>2 DEF Orders
<1>4. \E s \in [1..n -> G] : List(s)
  <2>1. PICK s \in [1 .. n -> G] : \A k, l \in 1 .. n : k < l => <<s[k], s[l]>> \in R
    <3> HIDE DEF R
    <3> QED
      BY <1>1, <1>3, Sorted DEF n
  <2>2. List(s)
    BY <2>1
  <2>3. QED
    BY <2>2
<1>5. order \in [1 .. n -> G]
  <2> HIDE DEF List
  <2> QED
    BY <1>4
<1>6. Suggestions(run) = [k \in DOMAIN order |-> Suggestion(run, order[k])]
  BY DEF Suggestions, n, G
<1> HIDE DEF order
<1>7. Suggestions(run) \in [1 .. n -> Recommendation]
  BY <1>2, <1>5, <1>6
<1>8. QED
  BY <1>1, <1>7

Columns == {"effort", "status", "progress", "priority"}

\* An update leaves a recommendation, and changes only what may be changed.
LEMMA UpdatedType ==
    ASSUME NEW row \in Recommendation, NEW payload \in Payloads
    PROVE  /\ Updated(row, payload) \in Recommendation
           /\ Changes(row, Updated(row, payload)) \subseteq Columns
<1> DEFINE Given(f) == IF f \in DOMAIN payload THEN payload[f] ELSE row[f]
           effort == Given("effort")  progress == Given("progress")
           status == IF progress >= 100 THEN "completed" ELSE Given("status")
           priority == Priority(row.impact, effort)
           new == Updated(row, payload)
<1>1. /\ row.effort \in 0..100 /\ row.progress \in 0..100
      /\ row.status \in {"suggested", "planned", "doing", "completed", "dismissed"}
      /\ row.impact \in {100, 72, 45}
  BY DEF Recommendation
<1>2. /\ "effort" \in DOMAIN payload => payload.effort \in 0..100
      /\ "progress" \in DOMAIN payload => payload.progress \in 0..100
      /\ "status" \in DOMAIN payload =>
            payload.status \in {"suggested", "planned", "doing", "completed", "dismissed"}
  BY MatchingAssumption
<1>3. /\ effort \in 0..100 /\ progress \in 0..100
      /\ status \in {"suggested", "planned", "doing", "completed", "dismissed"}
  BY <1>1, <1>2
<1>4. effort \in Hundred /\ progress \in Hundred /\ status \in Statuses
  <2> HIDE DEF effort, progress, status
  <2> QED
    BY <1>3 DEF Hundred, Statuses
<1>5. new = [row EXCEPT !.effort = effort, !.progress = progress,
                        !.status = status, !.priority = priority]
  BY DEF Updated
<1>6. row.impact \in Impacts /\ priority \in Priorities
  <2> HIDE DEF effort
  <2>1. row.impact \in Impacts
    BY <1>1 DEF Impacts
  <2>2. QED
    BY <1>4, <2>1, PriorityType
<1> HIDE DEF effort, progress, status, priority, new
<1>7. /\ row.opportunity \in Opportunities /\ row.requirement \in Needs
      /\ row.kind \in Kinds /\ row.impact \in Impacts
      /\ row = Made(row.opportunity, row.requirement, row.kind, row.impact,
                    row.effort, row.priority, row.status, row.progress)
      /\ DOMAIN row = {"opportunity", "requirement", "kind", "impact", "effort",
                       "priority", "status", "progress"}
  BY RecommendationRows, RowParts
<1>8. new = Made(row.opportunity, row.requirement, row.kind, row.impact,
                 effort, priority, status, progress)
  BY <1>5, <1>7 DEF Made
<1>9. new \in Recommendation
  BY <1>4, <1>6, <1>7, <1>8, RecommendationRows, MadeIn
<1>10. Changes(row, new) \subseteq Columns
  BY <1>5, <1>7 DEF Changes, Columns
<1>11. QED
  BY <1>9, <1>10 DEF new

\* So does a task that is made of it.
LEMMA PlannedType ==
    ASSUME NEW row \in Recommendation
    PROVE  /\ [row EXCEPT !.status = "planned"] \in Recommendation
           /\ Changes(row, [row EXCEPT !.status = "planned"]) \subseteq Columns
<1> DEFINE new == [row EXCEPT !.status = "planned"]
<1>1. new \in Recommendation
  BY Z3 DEF Recommendation
<1>2. DOMAIN row = {"opportunity", "requirement", "kind", "impact", "effort",
                    "priority", "status", "progress"}
  BY DEF Recommendation
<1>3. Changes(row, new) \subseteq Columns
  BY <1>2 DEF Changes, Columns
<1>4. QED
  BY <1>1, <1>3

\* A row of which some columns are written is a row.
LEMMA WrittenType ==
    ASSUME NEW row \in Recommendation, NEW new \in Recommendation, NEW columns \in SUBSET Columns
    PROVE  Written(row, new, columns) \in Recommendation
<1> DEFINE w == Written(row, new, columns)
<1>1. DOMAIN row = {"opportunity", "requirement", "kind", "impact", "effort",
                    "priority", "status", "progress"}
  BY DEF Recommendation
<1>2. w = [f \in DOMAIN row |-> IF f \in columns THEN new[f] ELSE row[f]]
  BY DEF Written
<1> HIDE DEF w
<1>3. /\ w.opportunity \in {row.opportunity, new.opportunity}
      /\ w.requirement \in {row.requirement, new.requirement}
      /\ w.kind \in {row.kind, new.kind}
      /\ w.impact \in {row.impact, new.impact}
      /\ w.effort \in {row.effort, new.effort}
      /\ w.priority \in {row.priority, new.priority}
      /\ w.status \in {row.status, new.status}
      /\ w.progress \in {row.progress, new.progress}
  BY <1>1, <1>2
<1>4. w = [opportunity |-> w.opportunity, requirement |-> w.requirement, kind |-> w.kind,
           impact |-> w.impact, effort |-> w.effort, priority |-> w.priority,
           status |-> w.status, progress |-> w.progress]
  BY <1>1, <1>2
<1>5. w = Made(w.opportunity, w.requirement, w.kind, w.impact,
                w.effort, w.priority, w.status, w.progress)
  BY <1>4 DEF Made
<1>6. /\ w.opportunity \in Opportunities /\ w.requirement \in Needs
      /\ w.kind \in Kinds /\ w.impact \in Impacts /\ w.effort \in Hundred
      /\ w.priority \in Priorities /\ w.status \in Statuses /\ w.progress \in Hundred
  <2>1. \A r \in {row, new} :
           /\ r.opportunity \in Opportunities /\ r.requirement \in Needs
           /\ r.kind \in Kinds /\ r.impact \in Impacts /\ r.effort \in Hundred
           /\ r.priority \in Priorities /\ r.status \in Statuses /\ r.progress \in Hundred
    BY RecommendationRows, RowParts
  <2>2. QED
    BY <1>3, <2>1
<1>7. Made(w.opportunity, w.requirement, w.kind, w.impact,
           w.effort, w.priority, w.status, w.progress) \in Recommendation
  BY <1>6, RecommendationRows, MadeIn
<1>8. QED
  BY <1>5, <1>7 DEF w

-----------------------------------------------------------------------------
\* What the steps of a request leave in it.

\* A request that rests is one.
LEMMA RestingType == Resting \in Request
BY DEF Resting, Request

\* The latest run of an opportunity is one of its runs.
LEMMA LatestType ==
    ASSUME TypeOK, NEW o \in Matched
    PROVE  /\ Latest(o) \in MatchRun
           /\ Max(RunsOf(o)) \in DOMAIN runs
           /\ runs[Max(RunsOf(o))].opportunity = o
<1> DEFINE S == RunsOf(o)
<1>1. S # {} /\ S \subseteq DOMAIN runs
  BY DEF Matched, RunsOf
<1>2. runs \in Seq(MatchRun)
  BY DEF TypeOK
<1>3. DOMAIN runs = 1 .. Len(runs) /\ Len(runs) \in Nat
  BY <1>2
<1>4. IsFiniteSet(S) /\ S \subseteq Nat
  <2> HIDE DEF S
  <2>1. IsFiniteSet(1 .. Len(runs))
    BY <1>3, FS_Interval
  <2>2. QED
    BY <1>1, <1>3, <2>1, FS_Subset
<1>5. PICK x \in S : \A y \in S : x >= y
  <2> DEFINE k == [y \in S |-> y]
  <2>1. k \in [S -> Int]
    BY <1>4
  <2>2. \A y \in S : k[y] = y
    OBVIOUS
  <2> HIDE DEF k, S
  <2>3. PICK x \in S : \A y \in S : k[x] >= k[y]
    BY <1>1, <1>4, <2>1, GreatestOf
  <2>4. QED
    BY <2>2, <2>3
<1>6. Max(S) \in S
  <2> HIDE DEF S
  <2> QED
    BY <1>5 DEF Max
<1>7. QED
  BY <1>1, <1>2, <1>6 DEF Latest, RunsOf

\* A sound run stays sound.
LEMMA SoundStays ==
    ASSUME IInv, Next, NEW run \in MatchRun, Sound(opportunities, run)
    PROVE  Sound(opportunities', run)
<1>1. run.batch \in Nat /\ run.opportunity \in Opportunities
  BY DEF MatchRun
<1>2. Dated(opportunities, run.opportunity, run.batch, run.requirements)
  BY DEF Sound
<1>3. Dated(opportunities', run.opportunity, run.batch, run.requirements)
  BY <1>1, <1>2, DatedStays
<1>4. QED
  BY <1>3 DEF Sound

\* So do the runs that are there and what the requests hold.
LEMMA HeldStays ==
    ASSUME IInv, Next
    PROVE  /\ \A i \in DOMAIN runs : Sound(opportunities', runs[i])
           /\ \A r \in Requests :
                 request[r].kind = "calculated" => Sound(opportunities', request[r].result)
<1>1. ASSUME NEW i \in DOMAIN runs PROVE Sound(opportunities', runs[i])
  <2>1. runs[i] \in MatchRun
    BY DEF IInv, TypeOK
  <2>2. Sound(opportunities, runs[i])
    BY DEF IInv, RunsSound
  <2>3. QED
    BY <2>1, <2>2, SoundStays
<1>2. ASSUME NEW r \in Requests, request[r].kind = "calculated"
      PROVE  Sound(opportunities', request[r].result)
  <2>1. request[r].result \in MatchRun
    BY <1>2 DEF IInv, RequestsGrounded, Grounded
  <2>2. Sound(opportunities, request[r].result)
    BY <1>2 DEF IInv, RunsSound
  <2>3. QED
    BY <2>1, <2>2, SoundStays
<1>3. QED
  BY <1>1, <1>2

\* An edit leaves runs, recommendations and requests alone.
LEMMA EditStep ==
    ASSUME IInv, Next, Edit, profile' \in Profile, documents' \subseteq Documents,
           skills' \in [Skills -> SkillRows \cup {None}],
           opportunities' \in [Opportunities -> OpportunityRow]
    PROVE  IInv'
<1>1. /\ runs' = runs /\ recommendations' = recommendations /\ tasks' = tasks
      /\ request' = request /\ edits' = edits + 1 /\ calls' = calls + 1
  BY DEF Edit, Call
<1>2. TypeOK'
  BY <1>1 DEF IInv, TypeOK
<1>3. RequestsGrounded'
  BY <1>1 DEF IInv, RequestsGrounded
<1>4. RunsSound'
  BY <1>1, HeldStays DEF RunsSound
<1>5. QED
  BY <1>2, <1>3, <1>4 DEF IInv

\* A request's step changes what it holds, and takes no row from another.
LEMMA RequestStep ==
    ASSUME IInv, Next, UNCHANGED Profiled, calls' \in Nat,
           NEW r \in Requests, NEW q \in Request, request' = [request EXCEPT ![r] = q],
           Grounded(recommendations', q),
           q.kind = "calculated" => Sound(opportunities, q.result),
           runs' \in Seq(MatchRun), \A i \in DOMAIN runs' : Sound(opportunities, runs'[i]),
           recommendations' \in Seq(Recommendation \cup {None}),
           DOMAIN recommendations \subseteq DOMAIN recommendations',
           tasks' \subseteq DOMAIN recommendations',
           \A p \in Requests \ {r} :
              request[p].kind = "flushed" /\ request[p].columns # {} =>
                 recommendations'[request[p].row] # None
    PROVE  IInv'
<1>1. /\ profile' = profile /\ documents' = documents /\ skills' = skills
      /\ opportunities' = opportunities /\ edits' = edits
  BY DEF Profiled
<1>2. request \in [Requests -> Request]
  BY DEF IInv, TypeOK
<1>3. request' \in [Requests -> Request] /\ request'[r] = q
      /\ \A p \in Requests \ {r} : request'[p] = request[p]
  BY <1>2
<1>4. TypeOK'
  BY <1>1, <1>3 DEF IInv, TypeOK
<1>5. RequestsGrounded'
  <2> SUFFICES ASSUME NEW p \in Requests PROVE Grounded(recommendations', request'[p])
    BY DEF RequestsGrounded
  <2>1. CASE p = r
    BY <1>3, <2>1
  <2>2. CASE p # r
    <3>1. Grounded(recommendations, request[p])
      BY DEF IInv, RequestsGrounded
    <3>2. request'[p] = request[p]
      BY <1>3, <2>2
    <3>3. request[p].kind = "flushed" /\ request[p].columns # {} =>
             recommendations'[request[p].row] # None
      BY <2>2
    <3>4. QED
      BY <3>1, <3>2, <3>3 DEF Grounded
  <2>3. QED
    BY <2>1, <2>2
<1>6. RunsSound'
  <2>1. \A i \in DOMAIN runs' : Sound(opportunities', runs'[i])
    BY <1>1
  <2>2. ASSUME NEW p \in Requests
        PROVE  request'[p].kind = "calculated" => Sound(opportunities', request'[p].result)
    <3>1. CASE p = r
      BY <1>1, <1>3, <3>1
    <3>2. CASE p # r
      BY <1>3, <3>2, HeldStays
    <3>3. QED
      BY <3>1, <3>2
  <2>3. QED
    BY <2>1, <2>2 DEF RunsSound
<1>7. QED
  BY <1>4, <1>5, <1>6 DEF IInv

-----------------------------------------------------------------------------
\* The steps.

LEMMA ElementsOf ==
    ASSUME NEW S, NEW s \in Seq(S)
    PROVE  (\A i \in DOMAIN s : s[i] \in S) /\ (s # <<>> => 1 \in DOMAIN s)
OBVIOUS

\* Every revision of an opportunity is a list of requirements, and there is a first.
LEMMA RevisionsTyped ==
    ASSUME NEW o \in Opportunities
    PROVE  /\ \A i \in DOMAIN Revisions[o] : Revisions[o][i] \in Seq(Requirement)
           /\ 1 \in DOMAIN Revisions[o]
<1> DEFINE S == Seq(Requirement)
<1>1. Revisions[o] \in Seq(S) /\ Revisions[o] # <<>>
  BY MatchingAssumption
<1> HIDE DEF S
<1>2. (\A i \in DOMAIN Revisions[o] : Revisions[o][i] \in S) /\ 1 \in DOMAIN Revisions[o]
  BY <1>1, ElementsOf
<1>3. QED
  BY <1>2 DEF S

\* At first nothing is there.
LEMMA InitInv == Init => IInv
<1> SUFFICES ASSUME Init PROVE IInv
  OBVIOUS
<1>1. ASSUME NEW o \in Opportunities PROVE Revisions[o][1] \in Seq(Requirement)
  BY RevisionsTyped
<1>2. /\ request = [r \in Requests |-> Resting] /\ runs = <<>> /\ recommendations = <<>>
      /\ tasks = {} /\ documents = {} /\ edits = 0 /\ calls = 0
  BY DEF Init
<1>3. profile \in Profile
  BY DEF Init, Profile
<1>4. skills \in [Skills -> SkillRows \cup {None}]
  BY DEF Init
<1>5. opportunities \in [Opportunities -> OpportunityRow]
  BY <1>1 DEF Init, OpportunityRow
<1>6. request \in [Requests -> Request]
  BY <1>2, RestingType
<1>7. TypeOK
  BY <1>2, <1>3, <1>4, <1>5, <1>6 DEF TypeOK
<1>8. \A r \in Requests : request[r].kind = "none"
  BY <1>2 DEF Resting
<1>9. QED
  BY <1>2, <1>7, <1>8 DEF IInv, RequestsGrounded, RunsSound, Grounded

\* Edits of the profile and of opportunities.
LEMMA Edits ==
    ASSUME IInv, Next
    PROVE  /\ \A f, g \in Fields \cup {None} : UpdateProfile(f, g) => IInv'
           /\ \A c \in Claims : DecideClaim(c) => IInv'
           /\ \A x \in Experiences : AddExperience(x) \/ DeleteExperience(x) => IInv'
           /\ \A x \in Educations : AddEducation(x) \/ DeleteEducation(x) => IInv'
           /\ \A s \in Skills : DeleteSkill(s) => IInv'
           /\ \A s \in Skills, row \in SkillRows : AddSkill(s, row) => IInv'
           /\ \A o \in Opportunities : \A i \in DOMAIN Revisions[o] :
                 UpdateOpportunity(o, Revisions[o][i]) => IInv'
           /\ \A o \in Opportunities : FailExtraction(o) => IInv'
<1>1. /\ profile \in Profile /\ documents \subseteq Documents
      /\ skills \in [Skills -> SkillRows \cup {None}]
      /\ opportunities \in [Opportunities -> OpportunityRow]
  BY DEF IInv, TypeOK
<1>2. ASSUME NEW f \in Fields \cup {None}, NEW g \in Fields \cup {None}, UpdateProfile(f, g)
      PROVE  IInv'
  <2>1. profile' \in Profile
    BY <1>1, <1>2 DEF UpdateProfile, Profile
  <2>2. QED
    BY <1>1, <1>2, <2>1, EditStep DEF UpdateProfile
<1>3. ASSUME NEW c \in Claims, DecideClaim(c) PROVE IInv'
  BY <1>1, <1>3, EditStep DEF DecideClaim, Documents
<1>4. ASSUME NEW x \in Documents, AddRecord(x) \/ DeleteRecord(x) PROVE IInv'
  BY <1>1, <1>4, EditStep DEF AddRecord, DeleteRecord
<1>5. ASSUME NEW s \in Skills, DeleteSkill(s) PROVE IInv'
  BY <1>1, <1>5, EditStep DEF DeleteSkill
<1>6. ASSUME NEW s \in Skills, NEW row \in SkillRows, AddSkill(s, row) PROVE IInv'
  BY <1>1, <1>6, EditStep DEF AddSkill
<1>7. ASSUME NEW o \in Opportunities, NEW i \in DOMAIN Revisions[o],
             UpdateOpportunity(o, Revisions[o][i])
      PROVE  IInv'
  <2>1. Revisions[o][i] \in Seq(Requirement)
    BY RevisionsTyped
  <2>2. opportunities[o].version \in Nat /\ opportunities[o].batch \in Nat
    BY <1>1 DEF OpportunityRow
  <2>3. [version |-> opportunities[o].version + 1, batch |-> opportunities[o].batch + 1,
         requirements |-> Revisions[o][i]] \in OpportunityRow
    BY <2>1, <2>2 DEF OpportunityRow
  <2>4. opportunities' \in [Opportunities -> OpportunityRow]
    BY <1>1, <1>7, <2>3 DEF UpdateOpportunity
  <2>5. QED
    BY <1>1, <1>7, <2>4, EditStep DEF UpdateOpportunity
<1>8. ASSUME NEW o \in Opportunities, FailExtraction(o) PROVE IInv'
  <2> DEFINE row == [version |-> opportunities[o].version,
                     batch |-> opportunities[o].batch + 1, requirements |-> <<>>]
  <2>1. row \in OpportunityRow
    <3>1. opportunities[o] \in OpportunityRow /\ <<>> \in Seq(Requirement)
      BY <1>1
    <3>2. QED
      BY <3>1 DEF OpportunityRow
  <2>2. opportunities' = [opportunities EXCEPT ![o] = row]
    BY <1>8 DEF FailExtraction
  <2> HIDE DEF row
  <2>3. opportunities' \in [Opportunities -> OpportunityRow]
    BY <1>1, <2>1, <2>2
  <2>4. QED
    BY <1>1, <1>8, <2>3, EditStep DEF FailExtraction
<1>9. QED
  BY <1>2, <1>3, <1>4, <1>5, <1>6, <1>7, <1>8
  DEF AddExperience, DeleteExperience, AddEducation, DeleteEducation, Documents

\* What a step of a request leaves alone is typed and sound already.
LEMMA Kept ==
    ASSUME IInv
    PROVE  /\ runs \in Seq(MatchRun) /\ \A i \in DOMAIN runs : Sound(opportunities, runs[i])
           /\ recommendations \in Seq(Recommendation \cup {None})
           /\ tasks \subseteq DOMAIN recommendations
           /\ calls \in Nat
           /\ \A r \in Requests :
                 /\ request[r] \in Request
                 /\ Grounded(recommendations, request[r])
                 /\ request[r].kind = "flushed" /\ request[r].columns # {} =>
                       recommendations[request[r].row] # None
BY DEF IInv, TypeOK, RunsSound, RequestsGrounded, Grounded

\* A calculation begins by the profile and the version of now.
LEMMA BeginRunStep ==
    ASSUME IInv, Next, NEW r \in Requests, NEW o \in Opportunities, BeginRun(r, o)
    PROVE  IInv'
<1> DEFINE x == [profile |-> profile, version |-> opportunities[o].version]
           q == [Resting EXCEPT !.kind = "reading", !.opportunity = o, !.input = x]
<1>1. x \in [profile : Profile, version : Nat]
  <2>1. profile \in Profile /\ opportunities[o] \in OpportunityRow
    BY DEF IInv, TypeOK
  <2>2. QED
    BY <2>1 DEF OpportunityRow
<1>2. /\ request' = [request EXCEPT ![r] = q] /\ calls' = calls + 1
      /\ runs' = runs /\ recommendations' = recommendations /\ tasks' = tasks
      /\ UNCHANGED Profiled
  BY DEF BeginRun, Call
<1> HIDE DEF x
<1>3. q \in Request /\ q.kind = "reading" /\ q.opportunity = o /\ q.input = x
  BY <1>1 DEF Resting, Request
<1> HIDE DEF q
<1>4. Grounded(recommendations', q)
  BY <1>1, <1>3 DEF Grounded
<1>5. \A p \in Requests : request[p].kind = "flushed" /\ request[p].columns # {} =>
                            recommendations'[request[p].row] # None
  BY <1>2, Kept
<1>6. /\ runs' \in Seq(MatchRun) /\ \A i \in DOMAIN runs' : Sound(opportunities, runs'[i])
      /\ recommendations' \in Seq(Recommendation \cup {None}) /\ calls' \in Nat
      /\ tasks' \subseteq DOMAIN recommendations'
  BY <1>2, Kept
<1>7. q.kind # "calculated"
  BY <1>3
<1>8. QED
  BY <1>2, <1>3, <1>4, <1>5, <1>6, <1>7, RequestStep

\* What it makes of that is a sound run, or another run is the answer.
LEMMA CalculateMatchStep ==
    ASSUME IInv, Next, NEW r \in Requests, CalculateMatch(r)
    PROVE  IInv'
<1> DEFINE o == request[r].opportunity
           result == Calculate(o, Input(r))
           q == [request[r] EXCEPT !.kind = "calculated", !.input = None, !.result = result]
<1>1. request[r].kind = "reading"
  BY DEF CalculateMatch
<1>2. o \in Opportunities /\ request[r].input \in [profile : Profile, version : Nat]
  BY <1>1 DEF IInv, RequestsGrounded, Grounded
<1>3. /\ Input(r) \in Inputs
      /\ Dated(opportunities, o, Input(r).opportunity.batch, Input(r).opportunity.requirements)
  <2> DEFINE row == [opportunities[o] EXCEPT !.version = request[r].input.version]
  <2>1. /\ documents \in SUBSET Documents /\ skills \in [Skills -> SkillRows \cup {None}]
        /\ opportunities[o] \in OpportunityRow
    BY <1>2 DEF IInv, TypeOK
  <2>2. request[r].input.profile \in Profile /\ request[r].input.version \in Nat
    BY <1>2
  <2>3. /\ row \in OpportunityRow /\ row.batch = opportunities[o].batch
        /\ row.requirements = opportunities[o].requirements
    BY <2>1, <2>2 DEF OpportunityRow
  <2>4. opportunities[o].batch \in Nat
    BY <2>1 DEF OpportunityRow
  <2>5. Input(r) = [profile |-> request[r].input.profile, opportunity |-> row,
                    documents |-> documents, skills |-> skills]
    BY DEF Input
  <2> HIDE DEF row, o
  <2>6. Input(r) \in Inputs /\ Input(r).opportunity = row
    BY <2>1, <2>2, <2>3, <2>5 DEF Inputs
  <2>7. QED
    BY <2>3, <2>4, <2>6 DEF Dated
<1>4. result \in MatchRun /\ Sound(opportunities, result)
  BY <1>2, <1>3, CalculateType, CalculateSound
<1>5. /\ request' = [request EXCEPT ![r] =
           IF Existing(result.opportunity, result.input_digest) # {} THEN Resting ELSE q]
      /\ runs' = runs /\ recommendations' = recommendations /\ tasks' = tasks
      /\ UNCHANGED Profiled /\ calls' = calls
  BY DEF CalculateMatch
<1> HIDE DEF result
<1>6. q \in Request /\ q.kind = "calculated" /\ q.result = result
  <2>1. request[r] \in Request
    BY Kept
  <2>2. QED
    BY <1>4, <2>1 DEF Request
<1> HIDE DEF q, o
<1>7. Grounded(recommendations', q)
  BY <1>4, <1>6 DEF Grounded
<1>8. CASE Existing(result.opportunity, result.input_digest) = {}
  <2>1. request' = [request EXCEPT ![r] = q]
    BY <1>5, <1>8
  <2>2. QED
    BY <1>4, <1>5, <1>6, <1>7, <2>1, Kept, RequestStep
<1>9. CASE Existing(result.opportunity, result.input_digest) # {}
  <2>1. request' = [request EXCEPT ![r] = Resting]
    BY <1>5, <1>9
  <2>2. Resting.kind = "none"
    BY DEF Resting
  <2>3. Grounded(recommendations', Resting)
    BY <2>2 DEF Grounded
  <2>4. QED
    BY <1>5, <2>1, <2>2, <2>3, Kept, RequestStep, RestingType
<1>10. QED
  BY <1>8, <1>9

\* A request that is done holds nothing.
LEMMA RestingGrounded ==
    ASSUME NEW recs
    PROVE  Grounded(recs, Resting) /\ Resting.kind = "none"
BY DEF Grounded, Resting

\* The run that is stored is the one that was calculated.
LEMMA CommitRunStep ==
    ASSUME IInv, Next, NEW r \in Requests, CommitRun(r)
    PROVE  IInv'
<1> DEFINE result == request[r].result
<1>1. result \in MatchRun /\ Sound(opportunities, result)
  BY DEF CommitRun, IInv, RequestsGrounded, Grounded, RunsSound
<1>2. /\ request' = [request EXCEPT ![r] = Resting]
      /\ runs' = Append(runs, result)
      /\ recommendations' = recommendations /\ tasks' = tasks /\ calls' = calls
      /\ UNCHANGED Profiled
  BY DEF CommitRun
<1> HIDE DEF result
<1>3. runs \in Seq(MatchRun) /\ \A i \in DOMAIN runs : Sound(opportunities, runs[i])
  BY Kept
<1>4. runs' \in Seq(MatchRun)
  BY <1>1, <1>2, <1>3
<1>5. \A i \in DOMAIN runs' : Sound(opportunities, runs'[i])
  <2>1. ASSUME NEW i \in DOMAIN runs' PROVE (i \in DOMAIN runs /\ runs'[i] = runs[i]) \/ runs'[i] = result
    BY <1>1, <1>2, <1>3
  <2>2. QED
    BY <1>1, <1>3, <2>1
<1>6. QED
  BY <1>2, <1>4, <1>5, Kept, RequestStep, RestingType, RestingGrounded

\* A regeneration goes on from the latest run.
LEMMA BeginRegenerateStep ==
    ASSUME IInv, Next, NEW r \in Requests, NEW o \in Opportunities, BeginRegenerate(r, o)
    PROVE  IInv'
<1> DEFINE seen == Suggested(o)
           held == Suggested(o) \ HeldByOthers(r)
           run == Latest(o)
           q == [Resting EXCEPT !.kind = "regenerating", !.opportunity = o,
                   !.result = run, !.seen = seen, !.held = held]
<1>1. /\ request' = [request EXCEPT ![r] = q] /\ calls' = calls + 1 /\ o \in Matched
      /\ runs' = runs /\ recommendations' = recommendations /\ tasks' = tasks
      /\ UNCHANGED Profiled
  BY DEF BeginRegenerate, Call
<1>2. run \in MatchRun
  BY <1>1, LatestType DEF IInv
<1>3. seen \subseteq Nat /\ held \subseteq Nat
  <2>1. DOMAIN recommendations \subseteq Nat
    BY Kept
  <2>2. QED
    BY <2>1 DEF Suggested
<1> HIDE DEF run, seen, held
<1>4. q \in Request /\ q.kind = "regenerating" /\ q.opportunity = o /\ q.result = run
  BY <1>2, <1>3 DEF Resting, Request
<1> HIDE DEF q
<1>5. Grounded(recommendations', q)
  BY <1>2, <1>4 DEF Grounded
<1>6. \A p \in Requests : request[p].kind = "flushed" /\ request[p].columns # {} =>
                            recommendations'[request[p].row] # None
  BY <1>1, Kept
<1>7. /\ runs' \in Seq(MatchRun) /\ \A i \in DOMAIN runs' : Sound(opportunities, runs'[i])
      /\ recommendations' \in Seq(Recommendation \cup {None}) /\ calls' \in Nat
      /\ tasks' \subseteq DOMAIN recommendations'
  BY <1>1, Kept
<1>8. q.kind # "calculated" /\ q.kind # "reading"
  BY <1>4
<1>9. QED
  BY <1>1, <1>4, <1>5, <1>6, <1>7, <1>8, RequestStep

\* What a regeneration deletes, no other request holds: its row is there.
LEMMA CommitRegenerateStep ==
    ASSUME IInv, Next, NEW r \in Requests, CommitRegenerate(r)
    PROVE  IInv'
<1> DEFINE run == request[r].result
           kept == [i \in DOMAIN recommendations |->
                       IF i \in Deleted(r) THEN None ELSE recommendations[i]]
<1>1. request[r].kind = "regenerating" /\ request[r].seen \cap HeldByOthers(r) = {}
  BY DEF CommitRegenerate
<1>2. run \in MatchRun
  BY <1>1, Kept DEF Grounded
<1>3. Suggestions(run) \in Seq(Recommendation)
  BY <1>2, SuggestionsType
<1>4. recommendations \in Seq(Recommendation \cup {None})
  BY Kept
<1>5. /\ request' = [request EXCEPT ![r] = Resting]
      /\ recommendations' = kept \o Suggestions(run)
      /\ runs' = runs /\ tasks' = tasks /\ calls' = calls
      /\ UNCHANGED Profiled
  BY DEF CommitRegenerate
<1>6. /\ kept \in Seq(Recommendation \cup {None})
      /\ DOMAIN kept = DOMAIN recommendations
      /\ \A i \in DOMAIN recommendations : i \notin Deleted(r) => kept[i] = recommendations[i]
  <2> DEFINE R == Recommendation \cup {None}
  <2>1. recommendations \in Seq(R) /\ None \in R
    BY <1>4
  <2> HIDE DEF R
  <2>2. kept \in Seq(R)
    BY <2>1
  <2>3. QED
    BY <2>2 DEF R
<1> DEFINE new == Suggestions(run)
<1>7. new \in Seq(Recommendation)
  BY <1>3
<1> HIDE DEF run, kept, new
<1>8. /\ recommendations' \in Seq(Recommendation \cup {None})
      /\ DOMAIN recommendations \subseteq DOMAIN recommendations'
      /\ \A i \in DOMAIN recommendations : i \notin Deleted(r) =>
            recommendations'[i] = recommendations[i]
  <2> DEFINE R == Recommendation \cup {None}
  <2>1. new \in Seq(R)
    BY <1>7
  <2>2. kept \in Seq(R) /\ recommendations' = kept \o new
    BY <1>5, <1>6 DEF new
  <2> HIDE DEF R
  <2>3. /\ recommendations' \in Seq(R) /\ DOMAIN kept \subseteq DOMAIN recommendations'
        /\ \A i \in DOMAIN kept : recommendations'[i] = kept[i]
    BY <2>1, <2>2
  <2>4. QED
    BY <1>6, <2>3 DEF R
<1>9. ASSUME NEW p \in Requests \ {r}, request[p].kind = "flushed", request[p].columns # {}
      PROVE  recommendations'[request[p].row] # None
  <2>1. /\ request[p].row \in DOMAIN recommendations
        /\ recommendations[request[p].row] # None
        /\ request[p].held = {request[p].row}
    BY <1>9, Kept DEF Grounded
  <2>2. request[p].row \in HeldByOthers(r)
    BY <2>1 DEF HeldByOthers
  <2>3. request[p].row \notin Deleted(r)
    BY <1>1, <2>2 DEF Deleted
  <2>4. QED
    BY <1>8, <2>1, <2>3
<1>10. /\ runs' \in Seq(MatchRun) /\ \A i \in DOMAIN runs' : Sound(opportunities, runs'[i])
       /\ calls' \in Nat /\ tasks' \subseteq DOMAIN recommendations'
  BY <1>5, <1>8, Kept
<1>11. QED
  BY <1>5, <1>8, <1>9, <1>10, RequestStep, RestingType, RestingGrounded

\* An update remembers a row that is there.
LEMMA ReadStep ==
    ASSUME IInv, Next, NEW r \in Requests, NEW i \in DOMAIN recommendations,
           NEW new \in Recommendation, NEW task \in BOOLEAN,
           Changes(recommendations[i], new) \subseteq Columns, Read(r, i, new, task)
    PROVE  IInv'
<1> DEFINE columns == Changes(recommendations[i], new)
           q == [Resting EXCEPT !.kind = "updating", !.row = i, !.new = new,
                   !.columns = columns, !.task = task]
<1>1. /\ request' = [request EXCEPT ![r] = q] /\ calls' = calls + 1
      /\ runs' = runs /\ recommendations' = recommendations /\ tasks' = tasks
      /\ UNCHANGED Profiled
  BY DEF Read, Call
<1>2. i \in Nat
  BY Kept
<1>3. columns \in SUBSET {"effort", "status", "progress", "priority"}
  BY DEF Columns
<1> HIDE DEF columns
<1>4. q \in Request /\ q.kind = "updating" /\ q.row = i /\ q.new = new
  BY <1>2, <1>3 DEF Resting, Request
<1> HIDE DEF q
<1>5. Grounded(recommendations', q)
  BY <1>1, <1>4 DEF Grounded
<1>6. \A p \in Requests : request[p].kind = "flushed" /\ request[p].columns # {} =>
                            recommendations'[request[p].row] # None
  BY <1>1, Kept
<1>7. /\ runs' \in Seq(MatchRun) /\ \A j \in DOMAIN runs' : Sound(opportunities, runs'[j])
      /\ recommendations' \in Seq(Recommendation \cup {None}) /\ calls' \in Nat
      /\ tasks' \subseteq DOMAIN recommendations'
  BY <1>1, Kept
<1>8. q.kind # "calculated" /\ q.kind # "reading"
  BY <1>4
<1>9. QED
  BY <1>1, <1>4, <1>5, <1>6, <1>7, <1>8, RequestStep

LEMMA UpdateRecommendationStep ==
    ASSUME IInv, Next, NEW r \in Requests, NEW i \in DOMAIN recommendations,
           NEW payload \in Payloads, UpdateRecommendation(r, i, payload)
    PROVE  IInv'
<1> DEFINE new == Updated(recommendations[i], payload)
<1>1. recommendations[i] \in Recommendation
  BY Kept DEF UpdateRecommendation
<1>2. new \in Recommendation /\ Changes(recommendations[i], new) \subseteq Columns
  BY <1>1, UpdatedType
<1>3. Read(r, i, new, FALSE)
  BY DEF UpdateRecommendation
<1> HIDE DEF new
<1>4. QED
  BY <1>2, <1>3, ReadStep

LEMMA RecommendationTaskStep ==
    ASSUME IInv, Next, NEW r \in Requests, NEW i \in DOMAIN recommendations,
           RecommendationTask(r, i)
    PROVE  IInv'
<1> DEFINE new == [recommendations[i] EXCEPT !.status = "planned"]
<1>1. recommendations[i] \in Recommendation
  BY Kept DEF RecommendationTask
<1>2. new \in Recommendation /\ Changes(recommendations[i], new) \subseteq Columns
  BY <1>1, PlannedType
<1>3. Read(r, i, new, TRUE)
  BY DEF RecommendationTask
<1> HIDE DEF new
<1>4. QED
  BY <1>2, <1>3, ReadStep

\* Once flushed, the row is held, so it stays; if it was gone, the request fails.
LEMMA FlushStep ==
    ASSUME IInv, Next, NEW r \in Requests, Flush(r)
    PROVE  IInv'
<1> DEFINE p == request[r]
           q == IF p.columns = {} THEN [p EXCEPT !.kind = "flushed"]
                ELSE IF recommendations[p.row] = None THEN Resting
                ELSE [p EXCEPT !.kind = "flushed", !.held = {p.row}]
<1>1. p \in Request /\ p.kind = "updating" /\ p.row \in DOMAIN recommendations
      /\ p.new \in Recommendation
  BY Kept DEF Flush, Grounded
<1>2. p.row \in Nat
  BY <1>1 DEF Request
<1>3. /\ request' = [request EXCEPT ![r] = q] /\ calls' = calls
      /\ runs' = runs /\ recommendations' = recommendations /\ tasks' = tasks
      /\ UNCHANGED Profiled
  BY DEF Flush
<1> HIDE DEF p
<1>4. q \in Request /\ Grounded(recommendations, q)
      /\ q.kind # "calculated" /\ q.kind # "reading"
  <2>1. CASE p.columns = {}
    <3>1. [p EXCEPT !.kind = "flushed"] \in Request
      BY <1>1 DEF Request
    <3>2. Grounded(recommendations, [p EXCEPT !.kind = "flushed"])
      BY <1>1, <2>1 DEF Grounded, Request
    <3>3. q = [p EXCEPT !.kind = "flushed"] /\ q.kind = "flushed"
      BY <1>1, <2>1 DEF Request
    <3> HIDE DEF q
    <3>4. QED
      BY <3>1, <3>2, <3>3
  <2>2. CASE p.columns # {} /\ recommendations[p.row] = None
    <3>1. q = Resting
      BY <2>2
    <3> HIDE DEF q
    <3>2. QED
      BY <3>1, RestingType, RestingGrounded
  <2>3. CASE p.columns # {} /\ recommendations[p.row] # None
    <3> DEFINE x == [p EXCEPT !.kind = "flushed", !.held = {p.row}]
    <3>1. x \in Request
      BY <1>1, <1>2 DEF Request
    <3>2. /\ x.kind = "flushed" /\ x.held = {p.row} /\ x.row = p.row
          /\ x.new = p.new /\ x.columns = p.columns
      BY <1>1 DEF Request
    <3>3. q = x
      BY <2>3
    <3> HIDE DEF q, x
    <3>4. Grounded(recommendations, x)
      BY <1>1, <2>3, <3>2 DEF Grounded
    <3>5. QED
      BY <3>1, <3>2, <3>3, <3>4
  <2>4. QED
    BY <2>1, <2>2, <2>3
<1> HIDE DEF q
<1>5. \A s \in Requests : request[s].kind = "flushed" /\ request[s].columns # {} =>
                            recommendations'[request[s].row] # None
  BY <1>3, Kept
<1>6. /\ runs' \in Seq(MatchRun) /\ \A j \in DOMAIN runs' : Sound(opportunities, runs'[j])
      /\ recommendations' \in Seq(Recommendation \cup {None}) /\ calls' \in Nat
      /\ tasks' \subseteq DOMAIN recommendations' /\ Grounded(recommendations', q)
  BY <1>3, <1>4, Kept
<1>7. QED
  BY <1>3, <1>4, <1>5, <1>6, RequestStep

\* The row that a flushed request writes is there, and what is written is a row.
LEMMA WrittenRow ==
    ASSUME IInv, NEW r \in Requests, CommitUpdate(r), request[r].columns # {}
    PROVE  /\ request[r].row \in DOMAIN recommendations
           /\ Written(recommendations[request[r].row], request[r].new, request[r].columns)
                 \in Recommendation
<1>1. /\ request[r].row \in DOMAIN recommendations /\ recommendations[request[r].row] # None
      /\ request[r].new \in Recommendation
  BY Kept DEF CommitUpdate, Grounded
<1>2. recommendations[request[r].row] \in Recommendation
  BY <1>1, Kept
<1>3. request[r].columns \in SUBSET Columns
  BY Kept DEF Request, Columns
<1>4. QED
  BY <1>1, <1>2, <1>3, WrittenType

\* The row that was held is written.
LEMMA CommitUpdateStep ==
    ASSUME IInv, Next, NEW r \in Requests, CommitUpdate(r)
    PROVE  IInv'
<1> DEFINE i == request[r].row
           w == Written(recommendations[i], request[r].new, request[r].columns)
<1>1. /\ request' = [request EXCEPT ![r] = Resting] /\ calls' = calls /\ runs' = runs
      /\ tasks' = IF request[r].task THEN tasks \cup {i} ELSE tasks
      /\ UNCHANGED Profiled
  BY DEF CommitUpdate
<1>2. i \in DOMAIN recommendations
  BY Kept DEF CommitUpdate, Grounded
<1>3. recommendations' = recommendations \/ recommendations' = [recommendations EXCEPT ![i] = w]
  BY DEF CommitUpdate
<1>4. recommendations' # recommendations => w \in Recommendation
  <2>1. recommendations' # recommendations => request[r].columns # {}
    BY DEF CommitUpdate
  <2>2. QED
    BY <2>1, WrittenRow
<1> HIDE DEF i, w
<1>5. /\ recommendations' \in Seq(Recommendation \cup {None})
      /\ DOMAIN recommendations' = DOMAIN recommendations
      /\ \A j \in DOMAIN recommendations :
            recommendations[j] # None => recommendations'[j] # None
  <2>1. recommendations \in Seq(Recommendation \cup {None}) /\ None \notin Recommendation
    BY Kept, NoneApart
  <2>2. CASE recommendations' = recommendations
    BY <2>1, <2>2
  <2>3. CASE recommendations' # recommendations
    <3> DEFINE R == Recommendation \cup {None}
    <3>1. recommendations \in Seq(R) /\ w \in R /\ w # None
          /\ recommendations' = [recommendations EXCEPT ![i] = w]
      BY <1>3, <1>4, <2>1, <2>3
    <3> HIDE DEF R
    <3>2. /\ recommendations' \in Seq(R) /\ DOMAIN recommendations' = DOMAIN recommendations
          /\ \A j \in DOMAIN recommendations :
                recommendations[j] # None => recommendations'[j] # None
      BY <1>2, <3>1
    <3>3. QED
      BY <3>2 DEF R
  <2>4. QED
    BY <2>2, <2>3
<1>6. ASSUME NEW p \in Requests, request[p].kind = "flushed", request[p].columns # {}
      PROVE  recommendations'[request[p].row] # None
  <2>1. /\ request[p].row \in DOMAIN recommendations
        /\ recommendations[request[p].row] # None
    BY <1>6, Kept DEF Grounded
  <2>2. QED
    BY <1>5, <2>1
<1>7. /\ runs' \in Seq(MatchRun) /\ \A j \in DOMAIN runs' : Sound(opportunities, runs'[j])
      /\ calls' \in Nat /\ tasks' \subseteq DOMAIN recommendations'
  BY <1>1, <1>2, <1>5, Kept
<1>8. QED
  BY <1>1, <1>5, <1>6, <1>7, RequestStep, RestingType, RestingGrounded

\* Every step keeps the invariant.
LEMMA InvStep == IInv /\ [Next]_vars => IInv'
<1> SUFFICES ASSUME IInv, [Next]_vars PROVE IInv'
  OBVIOUS
<1>1. CASE UNCHANGED vars
  BY <1>1 DEF vars, IInv, TypeOK, RequestsGrounded, RunsSound
<1>2. CASE Next
  <2>1. ASSUME NEW r \in Requests, NEW o \in Opportunities, BeginRun(r, o) PROVE IInv'
    BY <1>2, <2>1, BeginRunStep
  <2>2. ASSUME NEW r \in Requests, NEW o \in Opportunities, BeginRegenerate(r, o) PROVE IInv'
    BY <1>2, <2>2, BeginRegenerateStep
  <2>3. ASSUME NEW r \in Requests, CalculateMatch(r) PROVE IInv'
    BY <1>2, <2>3, CalculateMatchStep
  <2>4. ASSUME NEW r \in Requests, CommitRun(r) PROVE IInv'
    BY <1>2, <2>4, CommitRunStep
  <2>5. ASSUME NEW r \in Requests, CommitRegenerate(r) PROVE IInv'
    BY <1>2, <2>5, CommitRegenerateStep
  <2>6. ASSUME NEW r \in Requests, NEW i \in DOMAIN recommendations, RecommendationTask(r, i)
        PROVE IInv'
    BY <1>2, <2>6, RecommendationTaskStep
  <2>7. ASSUME NEW r \in Requests, NEW i \in DOMAIN recommendations, NEW payload \in Payloads,
               UpdateRecommendation(r, i, payload)
        PROVE IInv'
    BY <1>2, <2>7, UpdateRecommendationStep
  <2>8. ASSUME NEW r \in Requests, Flush(r) PROVE IInv'
    BY <1>2, <2>8, FlushStep
  <2>9. ASSUME NEW r \in Requests, CommitUpdate(r) PROVE IInv'
    BY <1>2, <2>9, CommitUpdateStep
  <2>10. QED
    BY <1>2, <2>1, <2>2, <2>3, <2>4, <2>5, <2>6, <2>7, <2>8, <2>9, Edits DEF Next
<1>3. QED
  BY <1>1, <1>2

\* What holds of every state: requests go on from what is there, runs are what
\* their requirements and assessments come to, and rows of requirements that were
\* written together go on saying what they said, for every run calculated from
\* them (api/matching.py, services/matching.py, worker.py).
THEOREM Invariance == Spec => []IInv
<1>1. Init => IInv
  BY InitInv
<1>2. IInv /\ [Next]_vars => IInv'
  BY InvStep
<1>3. QED
  BY <1>1, <1>2, PTL DEF Spec

\* Match runs, recommendations and requests are of their types
\* (models/matching.py).
THEOREM TypeCorrect == Spec => []TypeOK
<1>1. IInv => TypeOK
  BY DEF IInv
<1>2. QED
  BY <1>1, Invariance, PTL

-----------------------------------------------------------------------------
\* The properties.

\* One more confirmed claim, experience or education record never lowers what is
\* known of an opportunity nor its eligibility, and lowers its lower bound only
\* where an answer found in the wider profile gives way to the requirement's own
\* category (services/matching.py, calculate_match).
THEOREM EvidenceNeverHurtsAlways == Spec => []EvidenceNeverHurts
<1>1. IInv => EvidenceNeverHurts
  <2> SUFFICES ASSUME IInv, NEW o \in Opportunities, NEW x \in Documents
               PROVE  LET had == Current(o)
                          has == [had EXCEPT !.documents = @ \cup {x}]
                          now == Calculate(o, had)
                          more == Calculate(o, has)
                      IN  /\ more.bounds.coverage >= now.bounds.coverage
                          /\ Rank[more.eligibility] >= Rank[now.eligibility]
                          /\ \/ more.bounds.lower >= now.bounds.lower
                             \/ \E i \in DOMAIN now.requirements :
                                   LET q == now.requirements[i]
                                   IN  Widened(q, had) /\ ~ Widened(q, has)
    BY DEF EvidenceNeverHurts
  <2> DEFINE had == Current(o)
  <2>1. had \in Inputs
    BY CurrentType DEF IInv
  <2>2. [had EXCEPT !.documents = @ \cup {x}] = With(had, x)
    BY DEF With
  <2> HIDE DEF had
  <2>3. LET now == Calculate(o, had)
            more == Calculate(o, With(had, x))
        IN  /\ more.bounds.coverage >= now.bounds.coverage
            /\ Rank[more.eligibility] >= Rank[now.eligibility]
            /\ \/ more.bounds.lower >= now.bounds.lower
               \/ \E i \in DOMAIN now.requirements :
                     /\ Widened(now.requirements[i], had)
                     /\ ~ Widened(now.requirements[i], With(had, x))
    BY <2>1, DocumentsHelp
  <2>4. QED
    BY <2>2, <2>3 DEF had
<1>2. QED
  BY <1>1, Invariance, PTL

\* A run answered in place of a calculation of equal digest agrees with it in
\* score, bounds, eligibility and requirements, and the same actions follow from
\* either, whatever edits, failed extractions and requests came between
\* (api/matching.py, the existing run). Their explanations may differ.
THEOREM DigestTellsResultsApartAlways == Spec => []DigestTellsResultsApart
<1>1. IInv => DigestTellsResultsApart
  <2> SUFFICES ASSUME IInv, NEW o \in Opportunities, NEW i \in DOMAIN runs,
                      runs[i].opportunity = o,
                      runs[i].input_digest = Calculate(o, Current(o)).input_digest
               PROVE  LET now == Calculate(o, Current(o)) IN
                      /\ runs[i].bounds = now.bounds
                      /\ runs[i].eligibility = now.eligibility
                      /\ runs[i].requirements = now.requirements
                      /\ Gaps(runs[i]) = Gaps(now)
                      /\ \A g \in Gaps(now) : Suggestion(runs[i], g) = Suggestion(now, g)
    BY DEF DigestTellsResultsApart
  <2> DEFINE run == runs[i]
             now == Calculate(o, Current(o))
             A == run.assessments  B == now.assessments
  <2>1. Sound(opportunities, run)
    BY DEF IInv, RunsSound
  <2>2. Sound(opportunities, now)
    <3>1. Current(o) \in Inputs /\ Current(o).opportunity = opportunities[o]
      BY CurrentType DEF IInv, Current
    <3>2. opportunities[o].batch \in Nat
      BY DEF IInv, TypeOK, OpportunityRow
    <3>3. Dated(opportunities, o, opportunities[o].batch, opportunities[o].requirements)
      BY <3>2 DEF Dated
    <3>4. QED
      BY <3>1, <3>3, CalculateSound
  <2>3. /\ now.opportunity = o /\ now.batch = opportunities[o].batch
        /\ now.requirements = opportunities[o].requirements
    BY DEF Calculate, Current
  <2> HIDE DEF now
  <2>4. run.opportunity = o /\ run.input_digest = now.input_digest
    BY DEF now
  <2> HIDE DEF run
  <2>5. Judgements(run.batch, A) = Judgements(now.batch, B)
    BY <2>1, <2>2, <2>4 DEF Sound
  <2>6. DOMAIN A = DOMAIN B
    BY <2>5 DEF Judgements
  <2>7. \A k \in DOMAIN A :
          run.batch = now.batch /\ A[k].score = B[k].score /\ A[k].status = B[k].status
    <3> SUFFICES ASSUME NEW k \in DOMAIN A
                 PROVE  run.batch = now.batch /\ A[k].score = B[k].score
                        /\ A[k].status = B[k].status
      OBVIOUS
    <3>1. /\ Judgements(run.batch, A)[k] =
                [id |-> [batch |-> run.batch, index |-> k], status |-> A[k].status,
                 score |-> A[k].score, evidence |-> A[k].evidence]
          /\ Judgements(now.batch, B)[k] =
                [id |-> [batch |-> now.batch, index |-> k], status |-> B[k].status,
                 score |-> B[k].score, evidence |-> B[k].evidence]
      BY <2>6 DEF Judgements
    <3> DEFINE x == Judgements(run.batch, A)[k]  y == Judgements(now.batch, B)[k]
    <3>2. x = y
      BY <2>5
    <3>3. /\ x.id = [batch |-> run.batch, index |-> k] /\ x.status = A[k].status
          /\ x.score = A[k].score
          /\ y.id = [batch |-> now.batch, index |-> k] /\ y.status = B[k].status
          /\ y.score = B[k].score
      BY <3>1
    <3> HIDE DEF x, y, A, B
    <3>4. x.id.batch = run.batch /\ y.id.batch = now.batch
      BY <3>3
    <3>5. QED
      BY <3>2, <3>3, <3>4
  <2>8. run.requirements = now.requirements
    <3>1. /\ run.requirements \in Seq(Requirement) /\ DOMAIN run.requirements = DOMAIN A
          /\ now.requirements \in Seq(Requirement) /\ DOMAIN now.requirements = DOMAIN B
      BY <2>1, <2>2 DEF Sound, Assessed
    <3>2. CASE DOMAIN A = {}
      <4>1. \A s \in Seq(Requirement) : DOMAIN s = {} => s = <<>>
        OBVIOUS
      <4>2. QED
        BY <2>6, <3>1, <3>2, <4>1
    <3>3. CASE DOMAIN A # {}
      <4>1. run.batch = now.batch
        BY <2>7, <3>3
      <4>2. QED
        BY <2>1, <2>3, <2>4, <4>1 DEF Sound, Dated
    <3>4. QED
      BY <3>2, <3>3
  <2>9. run.bounds = now.bounds /\ run.eligibility = now.eligibility
    <3> DEFINE R == run.requirements
    <3>1. Assessed(R, A) /\ Assessed(R, B) /\ DOMAIN R = DOMAIN A
      BY <2>1, <2>2, <2>8 DEF Sound, Assessed
    <3> HIDE DEF R, A, B
    <3>2. Bounds(R, A) = Bounds(R, B) /\ Eligibility(R, A) = Eligibility(R, B)
      BY <2>7, <3>1, VerdictsTell
    <3>3. QED
      BY <2>1, <2>2, <2>8, <3>2 DEF Sound, R, A, B
  <2>10. Gaps(run) = Gaps(now) /\ Gaps(now) \subseteq DOMAIN A
    BY <2>6, <2>7 DEF Gaps
  <2>11. ASSUME NEW g \in Gaps(now) PROVE Suggestion(run, g) = Suggestion(now, g)
    <3>1. run.batch = now.batch /\ run.assessments[g].status = now.assessments[g].status
      BY <2>7, <2>10
    <3>2. run.opportunity = now.opportunity /\ run.requirements = now.requirements
      BY <2>3, <2>4, <2>8
    <3>3. QED
      BY <3>1, <3>2, Z3 DEF Suggestion
  <2>12. QED
    BY <2>8, <2>9, <2>10, <2>11 DEF run, now
<1>2. QED
  BY <1>1, Invariance, PTL

\* A regeneration deletes only what is still a suggestion, and an update never
\* brings a row to nothing: what someone has chosen stays
\* (api/matching.py, regenerate_recommendations and update_recommendation).
THEOREM ChosenActionsSurviveAlways == Spec => ChosenActionsSurvive
<1> DEFINE Stay == \A i \in DOMAIN recommendations :
                     recommendations[i] # None /\ recommendations[i].status # "suggested"
                        => recommendations'[i] # None
<1>1. ASSUME IInv, [Next]_vars PROVE Stay
  <2> SUFFICES ASSUME NEW i \in DOMAIN recommendations, recommendations[i] # None,
                      recommendations[i].status # "suggested"
               PROVE  recommendations'[i] # None
    OBVIOUS
  <2>1. CASE recommendations' = recommendations
    BY <2>1
  <2>2. ASSUME NEW r \in Requests, CommitRegenerate(r) PROVE recommendations'[i] # None
    <3> DEFINE run == request[r].result
               R == Recommendation \cup {None}
               kept == [j \in DOMAIN recommendations |->
                           IF j \in Deleted(r) THEN None ELSE recommendations[j]]
               new == Suggestions(run)
    <3>1. run \in MatchRun
      BY <1>1, <2>2, Kept DEF Grounded, CommitRegenerate
    <3>2. new \in Seq(R)
      <4>1. new \in Seq(Recommendation)
        BY <3>1, SuggestionsType
      <4> HIDE DEF new
      <4>2. QED
        BY <4>1
    <3>3. recommendations \in Seq(R) /\ None \in R
      BY <1>1, Kept
    <3>4. recommendations' = kept \o new
      BY <2>2 DEF CommitRegenerate
    <3>5. i \notin Deleted(r)
      BY DEF Deleted, Suggested
    <3> HIDE DEF new, R
    <3>6. kept \in Seq(R) /\ DOMAIN kept = DOMAIN recommendations /\ kept[i] = recommendations[i]
      BY <3>3, <3>5
    <3> HIDE DEF kept
    <3>7. recommendations'[i] = kept[i]
      BY <3>2, <3>4, <3>6
    <3>8. QED
      BY <3>6, <3>7
  <2>3. ASSUME NEW r \in Requests, CommitUpdate(r) PROVE recommendations'[i] # None
    <3> DEFINE k == request[r].row
               w == Written(recommendations[k], request[r].new, request[r].columns)
    <3>1. CASE request[r].columns = {}
      BY <2>3, <3>1 DEF CommitUpdate
    <3>2. CASE request[r].columns # {}
      <4>1. k \in DOMAIN recommendations /\ w \in Recommendation
        BY <1>1, <2>3, <3>2, WrittenRow
      <4>2. recommendations' = [recommendations EXCEPT ![k] = w]
        BY <2>3, <3>2 DEF CommitUpdate
      <4> HIDE DEF w, k
      <4>3. w # None
        BY <4>1, NoneApart
      <4>4. QED
        BY <4>2, <4>3
    <3>3. QED
      BY <3>1, <3>2
  <2>4. QED
    BY <1>1, <2>1, <2>2, <2>3 DEF Next, vars, UpdateProfile, DecideClaim, AddExperience,
       DeleteExperience, AddEducation, DeleteEducation, AddRecord, DeleteRecord, AddSkill,
       DeleteSkill, UpdateOpportunity, FailExtraction, Edit, BeginRun, CalculateMatch, CommitRun,
       BeginRegenerate, Read, UpdateRecommendation, RecommendationTask, Flush
<1>2. QED
  BY <1>1, Invariance, PTL DEF Spec, ChosenActionsSurvive

-----------------------------------------------------------------------------
\* The alignments.

\* Opportunities with a run are finitely many: each has one of its own.
LEMMA MatchedFinite ==
    ASSUME TypeOK
    PROVE  IsFiniteSet(Matched)
<1> DEFINE D == DOMAIN runs
           f == [i \in D |-> runs[i].opportunity]
           T == {f[i] : i \in D}
<1>1. runs \in Seq(MatchRun)
  BY DEF TypeOK
<1>2. Len(runs) \in Nat /\ D = 1 .. Len(runs)
  BY <1>1
<1> HIDE DEF D
<1>3. IsFiniteSet(D)
  BY <1>2, FS_Interval
<1>4. f \in Surjection(D, T)
  BY DEF Surjection
<1>5. \A o \in Matched : o \in T
  BY DEF Matched, RunsOf, D
<1> HIDE DEF f, T
<1>6. IsFiniteSet(T)
  BY <1>3, <1>4, FS_Surjection
<1>7. QED
  BY <1>5, <1>6, FS_Subset

\* What the latest runs say, in numbers.
LEMMA LatestBounds ==
    ASSUME TypeOK, NEW o \in Matched
    PROVE  /\ Latest(o).bounds.coverage \in Nat
           /\ Latest(o).bounds.score # None => Latest(o).bounds.score \in Nat
<1> DEFINE Hundredths == [coverage : 0..100, lower : 0..100, upper : 0..100,
                          score : (0..100) \cup {None}]
<1>1. \A b \in Hundredths : b.coverage \in Nat /\ (b.score # None => b.score \in Nat)
  OBVIOUS
<1>2. Latest(o) \in MatchRun
  BY LatestType
<1>3. Latest(o).bounds \in Hundredths
  BY <1>2 DEF MatchRun
<1> HIDE DEF Hundredths
<1>4. QED
  BY <1>1, <1>3

\* A quotient is the same of both parts scaled.
LEMMA Scaling ==
    ASSUME NEW n \in Nat, NEW d \in Nat, NEW w \in {1, 2}, NEW x
    PROVE  Quotient(n * w, d * w, x) = Quotient(n, d, x)
<1>1. CASE w = 1
  BY <1>1
<1>2. CASE w = 2
  <2>1. CASE d = 0
    BY <1>2, <2>1 DEF Quotient
  <2>2. CASE d # 0
    <3>1. (n * 2) \div (d * 2) = n \div d
      BY <2>2, Z3
    <3>2. d * 2 # 0
      BY <2>2
    <3>3. QED
      BY <1>2, <2>2, <3>1, <3>2 DEF Quotient
  <2>3. QED
    BY <2>1, <2>2
<1>3. QED
  BY <1>1, <1>2

\* A positive weight is taken as it is.
LEMMA MaxOfWeight == \A w \in 1..2 : Max({0, w}) = w
<1> SUFFICES ASSUME NEW w \in 1..2 PROVE Max({0, w}) = w
  OBVIOUS
<1>1. \E x \in {0, w} : \A y \in {0, w} : x >= y
  OBVIOUS
<1>2. Max({0, w}) \in {0, w} /\ \A y \in {0, w} : Max({0, w}) >= y
  BY <1>1 DEF Max
<1>3. QED
  BY <1>2

\* The alignment of a target set of every opportunity, all of one weight.
LEMMA TargetSetAgrees ==
    ASSUME TypeOK, NEW w \in 1..2
    PROVE  TargetSetAlignment(Opportunities, [o \in Opportunities |-> w]) = PortfolioAlignment
<1> DEFINE c == [o \in Matched |-> Latest(o).bounds.coverage]
           k == [o \in Scored |-> Latest(o).bounds.coverage]
           s == [o \in Scored |-> Latest(o).bounds.score * Latest(o).bounds.coverage]
           weight == [o \in Matched |-> w]
           coverage == [o \in Matched |-> Latest(o).bounds.coverage * w]
           weighted == [o \in Scored |-> Latest(o).bounds.score * coverage[o]]
<1>1. IsFiniteSet(Matched) /\ Scored \in SUBSET Matched /\ IsFiniteSet(Scored)
  <2>1. Scored \subseteq Matched
    BY DEF Scored
  <2>2. QED
    BY <2>1, MatchedFinite, FS_Subset
<1>2. \A o \in Matched : Latest(o).bounds.coverage \in Nat
  BY LatestBounds
<1>3. \A o \in Scored : o \in Matched /\ Latest(o).bounds.score \in Nat
  BY LatestBounds DEF Scored
<1>4. w \in Nat /\ w > 0 /\ w \in {1, 2}
  OBVIOUS
<1>5. c \in [Matched -> Nat] /\ k \in [Scored -> Nat] /\ weight \in [Matched -> Nat]
  BY <1>1, <1>2, <1>4
<1>6. \A o \in Matched : coverage[o] = c[o] * w /\ coverage[o] \in Nat
  BY <1>2, <1>4
<1>7. coverage \in [Matched -> Nat]
  BY <1>6
<1>8. \A o \in Scored : /\ s[o] \in Nat /\ weighted[o] = s[o] * w /\ weighted[o] \in Nat
  <2>1. TAKE o \in Scored
  <2>2. PICK a \in Nat : a = Latest(o).bounds.score
    BY <1>3
  <2>3. PICK b \in Nat : b = Latest(o).bounds.coverage
    BY <1>2, <1>3
  <2>4. s[o] = a * b /\ weighted[o] = a * (b * w)
    BY <1>3, <2>2, <2>3
  <2>5. a * b \in Nat /\ a * (b * w) = (a * b) * w /\ (a * b) * w \in Nat
    BY <1>4
  <2>6. QED
    BY <2>4, <2>5
<1>9. s \in [Scored -> Nat] /\ weighted \in [Scored -> Nat]
  BY <1>8
<1>10. TargetSetAlignment(Opportunities, [o \in Opportunities |-> w]) =
         [score |-> Quotient(SumFunction(weighted), SumFunctionOnSet(coverage, Scored), None),
          coverage |-> Quotient(SumFunction(coverage), SumFunction(weight), 0)]
  <2> DEFINE target == Opportunities
             weights == [o \in Opportunities |-> w]
             given == [o \in target \cap Matched |-> Max({0, weights[o]})]
             known == {o \in target \cap Matched :
                          Latest(o).bounds.score # None /\ given[o] > 0}
             covered == [o \in target \cap Matched |-> Latest(o).bounds.coverage * given[o]]
             scored == [o \in known |-> Latest(o).bounds.score * covered[o]]
  <2>1. target \cap Matched = Matched
    BY DEF Matched
  <2>2. given = weight
    <3>1. \A o \in Matched : Max({0, weights[o]}) = w
      BY MaxOfWeight DEF Matched
    <3>2. QED
      BY <2>1, <3>1
  <2>3. known = Scored
    BY <1>4, <2>1, <2>2 DEF Scored
  <2>4. covered = coverage
    BY <2>1, <2>2
  <2>5. scored = weighted
    BY <2>3, <2>4
  <2>6. TargetSetAlignment(target, weights) =
          [score |-> Quotient(SumFunction(scored), SumFunctionOnSet(covered, known), None),
           coverage |-> Quotient(SumFunction(covered), SumFunction(given), 0)]
    BY DEF TargetSetAlignment
  <2> HIDE DEF given, known, covered, scored, weight, coverage, weighted
  <2>7. QED
    BY <2>2, <2>3, <2>4, <2>5, <2>6
<1>11. /\ DOMAIN c = Matched /\ DOMAIN k = Scored /\ DOMAIN s = Scored
       /\ DOMAIN weight = Matched /\ DOMAIN coverage = Matched /\ DOMAIN weighted = Scored
       /\ \A o \in Scored : k[o] = c[o]
       /\ \A o \in Matched : weight[o] = w
  BY <1>3
<1>12. Coverages(Matched) = SumFunction(c) /\ Coverages(Scored) = SumFunction(k)
       /\ Scores(Scored) = SumFunction(s)
  BY DEF Coverages, Scores
<1> HIDE DEF c, k, s, weight, coverage, weighted
<1>13. SumFunction(coverage) = Coverages(Matched) * w /\ Coverages(Matched) \in Nat
  <2>1. SumFunctionOnSet(coverage, Matched) = SumFunctionOnSet(c, Matched) * w
    BY <1>1, <1>4, <1>5, <1>6, <1>7, SumScaled
  <2>2. SumFunctionOnSet(c, Matched) \in Nat
    BY <1>1, <1>5, SumOfNaturals
  <2>3. QED
    BY <1>11, <1>12, <2>1, <2>2 DEF SumFunction
<1>14. SumFunction(weighted) = Scores(Scored) * w /\ Scores(Scored) \in Nat
  <2>1. SumFunctionOnSet(weighted, Scored) = SumFunctionOnSet(s, Scored) * w
    BY <1>1, <1>4, <1>8, <1>9, SumScaled
  <2>2. SumFunctionOnSet(s, Scored) \in Nat
    BY <1>1, <1>9, SumOfNaturals
  <2>3. QED
    BY <1>11, <1>12, <2>1, <2>2 DEF SumFunction
<1>15. SumFunctionOnSet(coverage, Scored) = Coverages(Scored) * w /\ Coverages(Scored) \in Nat
  <2> DEFINE g == [o \in Scored |-> coverage[o]]
  <2>1. g \in [Scored -> Nat] /\ \A o \in Scored : g[o] = coverage[o] /\ g[o] = k[o] * w
    BY <1>1, <1>6, <1>7, <1>11
  <2> HIDE DEF g
  <2>2. SumFunctionOnSet(coverage, Scored) = SumFunctionOnSet(g, Scored)
    <3>1. g \in [Scored -> Int] /\ coverage \in [Matched -> Int]
          /\ Scored \in SUBSET (Matched \cap Scored)
      BY <1>1, <1>7, <2>1
    <3>2. \A o \in Scored : coverage[o] = g[o]
      BY <2>1
    <3>3. QED
      BY <1>1, <3>1, <3>2, SumCongruent
  <2>3. SumFunctionOnSet(g, Scored) = SumFunctionOnSet(k, Scored) * w
    BY <1>1, <1>4, <1>5, <2>1, SumScaled
  <2>4. SumFunctionOnSet(k, Scored) \in Nat
    BY <1>1, <1>5, SumOfNaturals
  <2>5. QED
    BY <1>11, <1>12, <2>2, <2>3, <2>4 DEF SumFunction
<1>16. SumFunction(weight) = Cardinality(Matched) * w /\ Cardinality(Matched) \in Nat
  <2>1. SumFunctionOnSet(weight, Matched) = Cardinality(Matched) * w
    <3>1. weight \in [Matched -> Int] /\ w \in Int
      BY <1>4, <1>5
    <3>2. QED
      BY <1>1, <1>11, <3>1, SumOfConstant
  <2>2. QED
    BY <1>1, <1>11, <2>1, FS_CardinalityType DEF SumFunction
<1>17. /\ Quotient(Scores(Scored) * w, Coverages(Scored) * w, None)
             = Quotient(Scores(Scored), Coverages(Scored), None)
       /\ Quotient(Coverages(Matched) * w, Cardinality(Matched) * w, 0)
             = Quotient(Coverages(Matched), Cardinality(Matched), 0)
  BY <1>4, <1>13, <1>14, <1>15, <1>16, Scaling
<1>18. QED
  BY <1>10, <1>13, <1>14, <1>15, <1>16, <1>17 DEF PortfolioAlignment

\* The portfolio, the dashboard and a target set of every opportunity with equal
\* weights show the same alignment (api/matching.py, portfolio_alignment and
\* target_set_alignment; api/workspace.py, dashboard).
THEOREM AlignmentsAgreeAlways == Spec => []AlignmentsAgree
<1>1. GlobalAlignment = PortfolioAlignment
  <2> DEFINE latest == [o \in Matched |-> Latest(o).bounds]
             known == {o \in Matched : latest[o].score # None}
             k == [o \in known |-> latest[o].coverage]
             s == [o \in known |-> latest[o].score * latest[o].coverage]
             c == [o \in Matched |-> latest[o].coverage]
  <2>1. GlobalAlignment =
          [score |-> Quotient(SumFunction(s), SumFunction(k), None),
           coverage |-> Quotient(SumFunction(c), Cardinality(Matched), 0)]
    BY DEF GlobalAlignment
  <2>2. \A o \in Matched : latest[o] = Latest(o).bounds
    OBVIOUS
  <2>3. known = Scored
    BY <2>2 DEF Scored
  <2>4. k = [o \in Scored |-> Latest(o).bounds.coverage]
    BY <2>2, <2>3 DEF Scored
  <2>5. s = [o \in Scored |-> Latest(o).bounds.score * Latest(o).bounds.coverage]
    BY <2>2, <2>3 DEF Scored
  <2>6. c = [o \in Matched |-> Latest(o).bounds.coverage]
    BY <2>2
  <2> HIDE DEF latest, known, k, s, c
  <2>7. QED
    BY <2>1, <2>4, <2>5, <2>6 DEF PortfolioAlignment, Coverages, Scores
<1>2. TypeOK => AlignmentsAgree
  BY <1>1, TargetSetAgrees DEF AlignmentsAgree
<1>3. QED
  BY <1>2, TypeCorrect, PTL

=============================================================================
