SPECIFICATION Spec
CONSTANTS
    c1 = c1
    e1 = e1
    e2 = e2
    d1 = d1
    s1 = s1
    s2 = s2
    f1 = f1
    l1 = l1
    l2 = l2
    o1 = o1
    o2 = o2
    Requests = {r1, r2}
    Opportunities = {o1, o2}
    Claims = {c1}
    Experiences = {e1}
    Educations = {d1}
    Skills = {s1, s2}
    SkillRows <- MCSkillRows
    Fields = {f1}
    Labels = {l1, l2}
    Containment <- MCContainment
    Similarity <- MCSimilarity
    Revisions <- MCRevisions
    Payloads <- MCPayloads
    None = None
    MaxEdits = 2
    MaxCalls = 5
SYMMETRY Symmetry
INVARIANTS
    EvidenceNeverHurts
    DigestTellsResultsApart
    AlignmentsAgree
PROPERTIES
    ChosenActionsSurvive
CHECK_DEADLOCK FALSE
