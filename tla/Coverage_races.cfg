\* Three requests race on one key and its evaluation, with aborts;
\* an edit makes the evaluator refuse.
CONSTANTS
  r1 = r1
  r2 = r2
  r3 = r3
  e1 = e1
  e2 = e2
  k1 = k1
  k2 = k2
  s1 = s1
  s2 = s2
  admin = admin
  engineer = engineer
  reviewer = reviewer
  None = None
  EvalError = EvalError
  Requests = {r1, r2, r3}
  Evals = {e1, e2}
  Users = {admin, reviewer}
  Scenarios = {s1}
  Keys = {k1}
  Edited = {"safeguards"}
  MaxRevision = 1
  Role <- MCRole
  Author <- MCAuthor
  Score <- MCRefusing
SPECIFICATION Spec
INVARIANTS RunOwnsRow RunAnswersKey ConfirmedByOther AuditTruth AuditTrail IInv
PROPERTIES OrphanStays ImplementsLifecycle
SYMMETRY Symmetric
CHECK_DEADLOCK FALSE
