SPECIFICATION Spec
CONSTANTS
    OnsetFrames = 1
    MinSilence = 1
    MaxSilence = 2
    Reask = 1
    MaxSpeculations = 1
    MaxFailures = 2
    MaxPhrases = 2
    MaxText = 2
    MaxBatch = 2
    SlowFinals = TRUE
INVARIANTS
    HeldReplyUnseen
    InterruptHitsLastReply
    HeardOnceInOrder
PROPERTIES
    FollowsContract
CHECK_DEADLOCK FALSE
