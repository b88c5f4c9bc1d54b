SPECIFICATION Spec
CONSTANTS
  u1 = u1
  u2 = u2
  p1 = p1
  p2 = p2
  p3 = p3
  w1 = w1
  w2 = w2
  w3 = w3
  w4 = w4
  t1 = t1
  t2 = t2
  t3 = t3
  Users = {u1, u2}
  Projects = {p1, p2, p3}
  s1 = s1
  s2 = s2
  Sessions = {s1, s2}
  Admins = {}
  Providers = {google}
  None = None
  NoRow = NoRow
  Gone = Gone
  Idle = Idle
  FirstUser = u1
  FirstProjects = {p1, p2}
  MaxStarted = 4
  Workflows = {w1, w2, w3, w4}
  Agents = {a1}
  Assets = {m1}
  FirstDraft = w1
  FirstVersion = w2
  Bases = {b1}
  Documents = {d1, d2, d3}
  Texts = {t1, t2, t3}
  Size <- MCSize
  MaxCharacters = 4
  FirstBase = b1
INVARIANTS
    EveryoneHasAHome
    VersionsFollowTheirDraft
    CountersTellTheDocuments
    NothingDangles
SYMMETRY Symmetric
CHECK_DEADLOCK FALSE
