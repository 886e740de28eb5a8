\* Launches on pages that are opened and left, and servers that crash, race and are stopped.
CONSTANTS
  p1 = p1
  p2 = p2
  l1 = l1
  l2 = l2
  NoPage = NoPage
  Pages = {p1, p2}
  Launches = {l1, l2}
  s1 = s1
  s2 = s2
  q1 = q1
  q2 = q2
  NoServer = NoServer
  Servers = {s1, s2}
  accounts <- MCAccounts
  Requests = {q1, q2}
  MaxCrashes = 3
SPECIFICATION MCSpec
INVARIANTS WatchInv ServerInv
PROPERTIES WatchEndsWithPage LaunchEnds ServesAgain
CHECK_DEADLOCK FALSE
