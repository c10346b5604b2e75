CONSTANTS
    Claims = {c1, c2}
    Skills = {k1}
    Sources = {s1}
    Tabs = {t1, t2}
    Workers = {w1, w2}
    NoSource = NoSource
SPECIFICATION ReviewSpec
SYMMETRY Symmetry
INVARIANTS
    SkillsRestOnConfirmed
PROPERTIES
    DecisionsSurvive
    ReplacementIsComplete
