\* Three requests race on one safeguard.
CONSTANTS
  r1 = r1
  r2 = r2
  r3 = r3
  s1 = s1
  s2 = s2
  engineer = engineer
  reviewer = reviewer
  None = None
  Requests = {r1, r2, r3}
  Users = {engineer}
  Ids = {s1}
  Intervals = {1}
  Tolerance = 0
  MaxTime = 3
  Role <- MCRole
  Seeds <- MCSeeds
SPECIFICATION Spec
INVARIANTS CountedWasVerified
PROPERTIES EvidenceKept LawfulLifecycle
SYMMETRY Symmetric
CHECK_DEADLOCK FALSE
