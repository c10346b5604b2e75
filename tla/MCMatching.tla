------------------------------ MODULE MCMatching ------------------------------
(* Matching for TLC: a claim, an experience or two alike, a degree and two     *)
(* skills; labels that each of them covers in part.                            *)
EXTENDS Matching

CONSTANTS c1, e1, e2, d1, s1, s2, f1, l1, l2, o1, o2

Covers ==
    l1 :> (c1 :> 50 @@ e1 :> 80 @@ e2 :> 80 @@ d1 :> 0 @@ s1 :> 60 @@ s2 :> 0)
    @@ l2 :> (c1 :> 100 @@ e1 :> 0 @@ e2 :> 0 @@ d1 :> 70 @@ s1 :> 0 @@ s2 :> 50)

MCContainment == [l \in Labels |-> [x \in Records |-> Covers[l][x]]]

MCSimilarity ==
    l1 :> (s1 :> 100 @@ s2 :> 60 @@ f1 :> 20)
    @@ l2 :> (s1 :> 0 @@ s2 :> 80 @@ f1 :> 75)

MCSkillRows ==
    {[level |-> 30, confidence |-> 50, evidence |-> {}],
     [level |-> 100, confidence |-> 100, evidence |-> {c1}]}

Needs(category, label, importance, weight, level) ==
    [category |-> category, label |-> label, importance |-> importance,
     weight |-> weight, minimum_level |-> level]

MCRevisions ==
    o1 :> <<<<Needs("skill", l1, "required", 3, 60), Needs("education", l2, "eligibility", 1, None)>>,
            <<Needs("experience", l1, "preferred", 4, None)>>>>
    @@ o2 :> <<<<Needs("seniority", l2, "required", 2, None),
                 Needs("location", l1, "eligibility", 2, None),
                 Needs("other", l2, "preferred", 5, None)>>, <<>>>>

MCPayloads ==
    {[status |-> "planned"], [status |-> "suggested", effort |-> 50], [progress |-> 100]}

Symmetry == Permutations(Requests)

=============================================================================
