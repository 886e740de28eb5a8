\* Refutes: the input is frozen as it was at one moment.
CONSTANTS
  r1 = r1
  r2 = r2
  r3 = r3
  e1 = e1
  e2 = e2
  k1 = k1
  k2 = k2
  s1 = s1
  s2 = s2
  admin = admin
  engineer = engineer
  reviewer = reviewer
  None = None
  EvalError = EvalError
  Requests = {r1, r2}
  Evals = {e1, e2}
  Users = {admin, reviewer}
  Scenarios = {s1}
  Keys = {k1}
  Edited = {"scenario", "safeguards"}
  MaxRevision = 1
  Role <- MCRole
  Author <- MCAuthor
  Score <- MCScore
SPECIFICATION Spec
INVARIANTS InputCoexisted
CHECK_DEADLOCK FALSE
