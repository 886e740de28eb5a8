\* Two requests, two keys, two scenarios that are edited while evaluations run, to the
\* end, under weak fairness of each request.
CONSTANTS
  r1 = r1
  r2 = r2
  r3 = r3
  e1 = e1
  e2 = e2
  k1 = k1
  k2 = k2
  s1 = s1
  s2 = s2
  admin = admin
  engineer = engineer
  reviewer = reviewer
  None = None
  EvalError = EvalError
  Requests = {r1, r2}
  Evals = {e1, e2}
  Users = {admin, engineer}
  Scenarios = {s1, s2}
  Keys = {k1, k2}
  Edited = {"scenario"}
  MaxRevision = 1
  Role <- MCRole
  Author <- MCAuthor
  Score <- MCRefusingEdited
SPECIFICATION FairSpec
INVARIANTS ResultFromSnapshot
PROPERTIES HistoryImmutable EveryRequestEnds RunSettles
CHECK_DEADLOCK FALSE
