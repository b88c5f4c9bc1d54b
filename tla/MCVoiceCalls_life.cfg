SPECIFICATION CallsSpec
CONSTANTS
    c1 = c1
    c2 = c2
    Calls = {c1, c2}
    AvatarCalls = {c2}
    Ceiling = 2
    Credits = 3
    HasHook = TRUE
    MaxMinutes = 2
INVARIANTS
    ClosedCallsExplainBalance
    NoAvatarLeftBehind
PROPERTIES
    SlotsComeBack
CHECK_DEADLOCK FALSE
