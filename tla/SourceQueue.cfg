\* Deadlock is not checked: the system may stop when MaxBoots is used up.
SPECIFICATION FairSpec
CONSTANTS
    Sources = {s1, s2}
    Workers = {w1, w2}
    NoSource = NoSource
    BatchSize = 2
    MaxBoots = 2
INVARIANTS
    ExclusiveProcessing
    NoLeak
PROPERTIES
    EverySourceSettles
CHECK_DEADLOCK FALSE
