\* Three requests race on one scenario of two fields, new or seeded, with versions never shown.
CONSTANTS
  r1 = r1
  r2 = r2
  r3 = r3
  s1 = s1
  s2 = s2
  n1 = n1
  admin = admin
  engineer = engineer
  reviewer = reviewer
  None = None
  Requests = {r1, r2, r3}
  Users = {admin, reviewer}
  Scenarios = {s1}
  Nodes = {n1}
  Fields = {"cause", "severity"}
  MaxVersion = 4
  Role <- MCRole
  Seeds <- MCSeeds
SPECIFICATION Spec
INVARIANTS ReviewedByOther OneChangePerVersion AuditChain VersionInv
PROPERTIES LawfulChange KeepsOthersEdits
SYMMETRY Symmetric
CHECK_DEADLOCK FALSE
