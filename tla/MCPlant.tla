------------------------------ MODULE MCPlant -------------------------------
(* Instances of Plant for TLC. *)
EXTENDS Plant, ProcessNodeInvariant, TLC

CONSTANTS engineer, reviewer,   \* users, named for their role
          n1, c1, c2            \* a node and codes

Profiles == (engineer :> "process_engineer") @@ (reviewer :> "safety_reviewer")
MCNodeRole == [u \in NodeUsers |-> Profiles[u]]
MCRole == [u \in Users |-> Profiles[u]]

Node(status) == [status |-> status, code |-> c1, content |-> [f \in NodeFields |-> Nil]]

(* No node, or one that is active or not. *)
MCNodeSeeds ==
  {[n \in Nodes |-> IF n = n1 THEN row ELSE NoNode] :
     row \in {NoNode, Node("active"), Node("inactive")}}

(* No scenario, or a draft on the first node. *)
MCSeeds ==
  {[state |-> "absent", version |-> 0, author |-> None, reviewer |-> None, node |-> None,
    content |-> [f \in Fields |-> None]],
   [state |-> "draft", version |-> 1, author |-> engineer, reviewer |-> None, node |-> n1,
    content |-> [f \in Fields |-> None]]}

Symmetric == Permutations(NodeRequests) \cup Permutations(Requests)
=============================================================================
