\* Two workers, two runs of two conversations, two process starts.
CONSTANTS
    NoRun = NoRun
    NoConversation = NoConversation
    Runs = {r1, r2}
    Conversations = {c1, c2}
    Workers = {w1, w2}
    BatchSize = 2
    MaxBoots = 2
SPECIFICATION FairSpec
INVARIANTS
    ExclusiveCall
    RetryLineage
    RetryAnswersAlone
    TraceAgrees
PROPERTIES
    KeepsPromise
    EveryRunSettles
CHECK_DEADLOCK FALSE
