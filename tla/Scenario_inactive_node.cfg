\* The node is deactivated between its check and the insert.
CONSTANTS
  r1 = r1
  r2 = r2
  r3 = r3
  s1 = s1
  s2 = s2
  n1 = n1
  admin = admin
  engineer = engineer
  reviewer = reviewer
  None = None
  Requests = {r1, r2, r3}
  Users = {engineer, reviewer}
  Scenarios = {s1}
  Nodes = {n1}
  Fields = {"cause", "severity"}
  MaxVersion = 3
  Role <- MCRole
  Seeds <- MCDrafts
SPECIFICATION Spec
PROPERTIES CreatedOnActiveNode
SYMMETRY Symmetric
CHECK_DEADLOCK FALSE
