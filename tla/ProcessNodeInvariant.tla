------------------------ MODULE ProcessNodeInvariant ------------------------
(***************************************************************************)
(* The inductive invariant of ProcessNodes: each node has at most one      *)
(* request that created it, and an update that nobody overtook still finds *)
(* the row it read, so that it makes a node active only when asked to.     *)
(***************************************************************************)
EXTENDS ProcessNodes

Named(r) == NodeWon(r) => nreq[r].op \in {"create", "update", "deactivate"}

CreatorsApart ==
  \A r1, r2 \in NodeRequests :
    /\ NodeWon(r1) /\ nreq[r1].op = "create"
    /\ NodeWon(r2) /\ nreq[r2].op = "create"
    /\ nreq[r1].node = nreq[r2].node
    => r1 = r2

(* An update makes its node active as asked, or as it is.                  *)
RevivesKnowingly(r) ==
  npc[r] = "update" /\ nreq[r].after.status = "active" =>
    \/ nreq[r].status = "active"
    \/ r \in nodeOvertaken
    \/ nodes[nreq[r].node].status = "active"

FinitelyMany == IsFiniteSet({r \in NodeRequests : npc[r] # "idle"})

NodeInv ==
  /\ NodeTypeOK /\ OneNodePerCode(nodes)
  /\ \A r \in NodeRequests : Named(r) /\ RevivesKnowingly(r)
  /\ CreatorsApart /\ FinitelyMany /\ DeactivationsStand
=============================================================================
