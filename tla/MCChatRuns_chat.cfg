SPECIFICATION Spec
CONSTANTS
  r1 = r1
  r2 = r2
  Runs = {r1, r2}
  NoRun = NoRun
  OpeningRuns = {r1}
  FirstChat = c0
  NoRow = NoRow
  x = x
  y = y
  Vars = {x, y}
  Untouched = Untouched
  Outcomes <- MCOutcomes
  MaxManual = 1
  Caps <- MCCaps
  MaxFaults = 1
INVARIANTS
    SettledWhole
    SlotsAreCalls

    
CHECK_DEADLOCK FALSE
