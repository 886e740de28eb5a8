\* Three requests about nodes and one about a scenario.
CONSTANTS
  r1 = r1
  r2 = r2
  r3 = r3
  q1 = q1
  s1 = s1
  n1 = n1
  n2 = n2
  c1 = c1
  c2 = c2
  engineer = engineer
  reviewer = reviewer
  Nil = Nil
  None = None
  NodeRequests = {r1, r2, r3}
  NodeUsers = {engineer}
  Nodes = {n1, n2}
  Codes = {c1, c2}
  NodeFields = {}
  NodeRole <- MCNodeRole
  NodeSeeds <- MCNodeSeeds
  Requests = {q1}
  Users = {engineer}
  Role <- MCRole
  Scenarios = {s1}
  Fields = {}
  MaxVersion = 2
  Seeds <- MCSeeds
SPECIFICATION PlantSpec
INVARIANTS CodesUnique DeactivationsStand
PROPERTIES ImplementsScenarios
SYMMETRY Symmetric
CHECK_DEADLOCK FALSE
