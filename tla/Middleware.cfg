\* Four requests of two keys; or writes of two scenarios, and a reader of the log.
CONSTANTS
  r1 = r1
  r2 = r2
  r3 = r3
  r4 = r4
  a = a
  b = b
  x1 = x1
  Requests = {r1, r2, r3, r4}
  Keys = {a, b}
  Limit = 1
  Window = 3
  MaxWindows = 1
  MaxStall = 2
  MaxTime = 8
  Writes = {r1, r2, r3}
  Scenarios = {a, b}
  Readers = {x1}
  PageSize = 1
  TimelineRows = 2
  MaxAuditTime = 1
SPECIFICATION MCSpec
INVARIANTS BurstBound LimitedWhenFull AuditInv PagesMissNothing
PROPERTIES WindowsApart
SYMMETRY Symmetric
CHECK_DEADLOCK FALSE
