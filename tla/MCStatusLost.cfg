SPECIFICATION Spec
CONSTANTS
  None = None
  c1 = c1
  c2 = c2
  c3 = c3
  a1 = a1
  a2 = a2
  s1 = s1
  l1 = l1
  m1 = m1
  m2 = m2
  blocked = blocked
  Cells = {c1, c2, c3}
  AreaOf <- MCAreaOf
  Route <- MCRoute
  Payloads <- MCPayloads
  RuleIds = {1, 2}
  Stations = {s1}
  Terminals = {t1}
  Labels = {l1, l2}
  l2 = l2
  t1 = t1
  Codes = {x1}
  x1 = x1
  MatchTypes = {"exact", "regex"}
  SelfMatching = {"exact"}
  Orders = {1, 2}
  Materials = {m1, m2}
  Statuses = {blocked}
  Sessions = {h1, h2}
  h1 = h1
  h2 = h2
  Plans = {"none", "single", "chain", "batch"}
  Budget <- MCBudget
  StartLabels <- MCStartLabels
INVARIANTS
  StatusStays
CHECK_DEADLOCK FALSE
