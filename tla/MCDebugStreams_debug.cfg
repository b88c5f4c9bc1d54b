SPECIFICATION DebugSpec
CONSTANTS
  Runs = {r1, r2, r3}
  NoRun = NoRun
INVARIANTS
    NoStreamLeftBehind
PROPERTIES
    DebugResponseEnds
CHECK_DEADLOCK FALSE
