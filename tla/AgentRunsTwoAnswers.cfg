\* Two workers, two runs of one conversation, three process starts.
CONSTANTS
    NoRun = NoRun
    NoConversation = NoConversation
    Runs = {r1, r2}
    Conversations = {c1}
    Workers = {w1, w2}
    BatchSize = 2
    MaxBoots = 3
SPECIFICATION Spec
SYMMETRY Symmetry
INVARIANT
    RestartAnswersOnce
CHECK_DEADLOCK FALSE
