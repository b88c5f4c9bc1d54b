SPECIFICATION Spec
CONSTANTS
    MaxTurns = 2
    MaxText = 2
    MaxQueue = 3
INVARIANTS
    CutReplyStaysSilent
    EveryCharBilledOnce
PROPERTIES
    FollowsContract
CHECK_DEADLOCK FALSE
