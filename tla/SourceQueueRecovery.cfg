\* Deadlock is not checked: the system may stop when MaxBoots is used up.
SPECIFICATION FairSpec
CONSTANTS
    Sources = {s1}
    Workers = {w1}
    NoSource = NoSource
    BatchSize = 2
    MaxBoots = 2
PROPERTIES
    InterruptedSourceRecovers
CHECK_DEADLOCK FALSE
