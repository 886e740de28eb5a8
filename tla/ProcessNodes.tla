---------------------------- MODULE ProcessNodes ----------------------------
(***************************************************************************)
(* The handlers of /api/v1/process-nodes that change state: create, update *)
(* and deactivate, one action for each database statement with the Go code *)
(* up to the next one.  A node has no version: update writes every column  *)
(* but the code back from the row it read.                                 *)
(*                                                                         *)
(* A column's value is told apart by the request that wrote it.  The       *)
(* history variable nodeOvertaken is not in the code and nothing but       *)
(* properties reads it.                                                    *)
(*                                                                         *)
(* An operator with _Mutant in its name is not part of the model: it is the *)
(* operator after it with a plausible bug, for mutation checks.            *)
(***************************************************************************)
EXTENDS Naturals, FiniteSets, Access

CONSTANTS NodeRequests,   \* the HTTP requests that may arrive
          NodeUsers,
          NodeRole,       \* NodeRole[u]: the role in the token of user u
          Nodes,          \* ids of rows of process_nodes
          Codes,          \* what clients give as node_code
          NodeFields,     \* the columns that clients edit, but for the status
          NodeSeeds,      \* tables a database may start with
          Nil

Statuses == {"active", "inactive"}
NodeRows ==
  [status : Statuses, code : Codes, content : [NodeFields -> NodeRequests \cup {Nil}]]
NoNode == [status |-> "absent", code |-> Nil, content |-> [f \in NodeFields |-> Nil]]

OneNodePerCode(table) ==
  \A m, n \in Nodes : table[m] # NoNode /\ table[m].code = table[n].code => m = n

ASSUME NodeRoleAssumption == NodeRole \in [NodeUsers -> Roles]
ASSUME NilAssumption == Nil \notin Nodes \cup Codes \cup NodeUsers \cup NodeRequests
ASSUME NodeSeedAssumption ==
  /\ NodeSeeds \subseteq [Nodes -> NodeRows \cup {NoNode}]
  /\ \A table \in NodeSeeds : OneNodePerCode(table)

VARIABLES nodes,       \* the table process_nodes
          nodeAudits,  \* the service's rows in audit_logs
          npc,         \* the statement each request executes next, or how it ended
          nreq,        \* what each request holds in memory
          nodeOvertaken \* the updates whose row another wrote since they read it

nodeVars == <<nodes, nodeAudits, npc, nreq, nodeOvertaken>>

NodeStatements == {"insert", "update", "deactivate", "record", "summary"}
NodeFinal == {"answered", "refused", "aborted"}   \* 2xx, 4xx, cut off

NoNodeRequest ==
  [op |-> "none", user |-> Nil, node |-> Nil, status |-> Nil, before |-> NoNode, after |-> NoNode]

NodeInit ==
  /\ nodes \in NodeSeeds
  /\ nodeAudits = {}
  /\ npc = [r \in NodeRequests |-> "idle"]
  /\ nreq = [r \in NodeRequests |-> NoNodeRequest]
  /\ nodeOvertaken = {}

-----------------------------------------------------------------------------
NodeGo(r, statement) == npc' = [npc EXCEPT ![r] = statement]

(* A request of user u enters its handler with h, or is refused there.     *)
NodeEnter(r, u, h, statement) ==
  /\ npc[r] = "idle"
  /\ HasPermission(NodeRole[u], "node:write")
  /\ IF statement = "refused"
     THEN UNCHANGED nreq
     ELSE nreq' = [nreq EXCEPT ![r] = [h EXCEPT !.user = u]]
  /\ NodeGo(r, statement)
  /\ UNCHANGED <<nodes, nodeAudits, nodeOvertaken>>

(* r writes its row, and overtakes the updates that have read the row and   *)
(* are yet to write it back.                                               *)
Overtake(r) ==
  nodeOvertaken' = nodeOvertaken \cup
    {q \in NodeRequests \ {r} : npc[q] = "update" /\ nreq[q].node = nreq[r].node}

Taken(code) == \E n \in Nodes : nodes[n] # NoNode /\ nodes[n].code = code

(* Create: the code is looked up first; the unique index decides.          *)
FindCode(r, u, code) ==
  NodeEnter(r, u,
    [NoNodeRequest EXCEPT !.op = "create",
       !.after = [status |-> "active", code |-> code, content |-> [f \in NodeFields |-> r]]],
    IF Taken(code) THEN "refused" ELSE "insert")

InsertNode_Mutant(r) ==   \* no unique index on node_code
  /\ npc[r] = "insert"
  /\ \E n \in Nodes :
       /\ nodes[n] = NoNode
       /\ nodes' = [nodes EXCEPT ![n] = nreq[r].after]
       /\ nreq' = [nreq EXCEPT ![r].node = n]
  /\ NodeGo(r, "record")
  /\ UNCHANGED <<nodeAudits, nodeOvertaken>>

InsertNode(r) ==
  /\ npc[r] = "insert"
  /\ IF Taken(nreq[r].after.code)
     THEN NodeGo(r, "refused") /\ UNCHANGED <<nodes, nreq>>
     ELSE /\ \E n \in Nodes :
               /\ nodes[n] = NoNode
               /\ nodes' = [nodes EXCEPT ![n] = nreq[r].after]
               /\ nreq' = [nreq EXCEPT ![r].node = n]
          /\ NodeGo(r, "record")
  /\ UNCHANGED <<nodeAudits, nodeOvertaken>>

(* Update: the edited columns, and the status if one is given, replace     *)
(* those of the row read; WHERE id = ?.                                    *)
LoadNodeForUpdate(r, u, n, edits, status) ==
  /\ nodes[n] # NoNode
  /\ NodeEnter(r, u,
       [NoNodeRequest EXCEPT !.op = "update", !.node = n, !.status = status, !.before = nodes[n],
          !.after = [nodes[n] EXCEPT
            !.status = IF status = Nil THEN @ ELSE status,
            !.content = [f \in NodeFields |-> IF f \in edits THEN r ELSE @[f]]]],
       "update")

UpdateNode_Mutant(r) ==   \* UPDATE without WHERE
  /\ npc[r] = "update"
  /\ nodes' = [n \in Nodes |-> IF nodes[n] = NoNode THEN NoNode
                               ELSE [nreq[r].after EXCEPT !.code = nodes[n].code]]
  /\ Overtake(r)
  /\ NodeGo(r, "record")
  /\ UNCHANGED <<nodeAudits, nreq>>

UpdateNode(r) ==
  /\ npc[r] = "update"
  /\ nodes' = [nodes EXCEPT ![nreq[r].node].status = nreq[r].after.status,
                            ![nreq[r].node].content = nreq[r].after.content]
  /\ Overtake(r)
  /\ NodeGo(r, "record")
  /\ UNCHANGED <<nodeAudits, nreq>>

(* Deactivate: UPDATE ... WHERE id = ? AND status = 'active'               *)
LoadForDeactivate_Mutant(r, u, n) ==   \* an inactive node is not refused
  /\ nodes[n] # NoNode
  /\ NodeEnter(r, u,
       [NoNodeRequest EXCEPT !.op = "deactivate", !.node = n, !.status = "inactive",
          !.before = nodes[n], !.after = [nodes[n] EXCEPT !.status = "inactive"]],
       "deactivate")

LoadForDeactivate(r, u, n) ==
  /\ nodes[n] # NoNode
  /\ NodeEnter(r, u,
       [NoNodeRequest EXCEPT !.op = "deactivate", !.node = n, !.status = "inactive",
          !.before = nodes[n], !.after = [nodes[n] EXCEPT !.status = "inactive"]],
       IF nodes[n].status = "inactive" THEN "refused" ELSE "deactivate")

MayDeactivate_Mutant(r) == TRUE   \* WHERE id = ?

MayDeactivate(r) == nodes[nreq[r].node].status = "active"

Deactivate(r) ==
  /\ npc[r] = "deactivate"
  /\ IF MayDeactivate(r)
     THEN /\ nodes' = [nodes EXCEPT ![nreq[r].node].status = "inactive"]
          /\ Overtake(r)
          /\ NodeGo(r, "record")
     ELSE NodeGo(r, "refused") /\ UNCHANGED <<nodes, nodeOvertaken>>
  /\ UNCHANGED <<nodeAudits, nreq>>

(* The audit row shows the row as read and as computed in memory; update   *)
(* and deactivate then read the node's summary for the response.           *)
RecordNode(r) ==
  /\ npc[r] = "record"
  /\ nodeAudits' = nodeAudits \cup {[request |-> r, op |-> nreq[r].op, node |-> nreq[r].node,
                                     before |-> nreq[r].before, after |-> nreq[r].after]}
  /\ NodeGo(r, IF nreq[r].op = "create" THEN "answered" ELSE "summary")
  /\ UNCHANGED <<nodes, nreq, nodeOvertaken>>

Summarise(r) ==
  /\ npc[r] = "summary"
  /\ NodeGo(r, "answered")
  /\ UNCHANGED <<nodes, nodeAudits, nreq, nodeOvertaken>>

(* The client disconnects or a statement fails.                            *)
AbortNode(r) ==
  /\ npc[r] \in NodeStatements
  /\ NodeGo(r, "aborted")
  /\ UNCHANGED <<nodes, nodeAudits, nreq, nodeOvertaken>>

-----------------------------------------------------------------------------
NodeArrive(r) ==
  \E u \in NodeUsers :
    \/ \E code \in Codes : FindCode(r, u, code)
    \/ \E n \in Nodes :
         \/ \E edits \in SUBSET NodeFields, status \in Statuses \cup {Nil} :
              LoadNodeForUpdate(r, u, n, edits, status)
         \/ LoadForDeactivate(r, u, n)

NodeStep(r) ==
  \/ InsertNode(r) \/ UpdateNode(r) \/ Deactivate(r) \/ RecordNode(r) \/ Summarise(r)
  \/ AbortNode(r)

NodeNext == \E r \in NodeRequests : NodeArrive(r) \/ NodeStep(r)

NodeSpec == NodeInit /\ [][NodeNext]_nodeVars

-----------------------------------------------------------------------------
NodeWon(r) == npc[r] \in {"record", "summary"} \/ npc[r] = "answered"

(* What a request holds fits the statement it executes next.               *)
NodeHolds(r) ==
  LET h == nreq[r] IN
  /\ npc[r] = "idle" => h = NoNodeRequest
  /\ npc[r] = "insert" => h.op = "create" /\ h.after \in NodeRows /\ h.after.status = "active"
  /\ npc[r] = "update" => h.op = "update"
  /\ npc[r] = "deactivate" => h.op = "deactivate" /\ h.before.status = "active"
  /\ npc[r] \in {"update", "deactivate"} \/ NodeWon(r) =>
       /\ h.node \in Nodes /\ h.after \in NodeRows
       /\ nodes[h.node] \in NodeRows /\ nodes[h.node].code = h.after.code

(* The types of all variables; a row that was read is still there when it  *)
(* is written, under the same code.                                        *)
NodeTypeOK ==
  /\ nodes \in [Nodes -> NodeRows \cup {NoNode}]
  /\ nodeAudits \subseteq [request : NodeRequests, op : {"create", "update", "deactivate"},
                           node : Nodes, before : NodeRows \cup {NoNode}, after : NodeRows]
  /\ npc \in [NodeRequests -> {"idle"} \cup NodeStatements \cup NodeFinal]
  /\ nreq \in [NodeRequests ->
       [op : {"none", "create", "update", "deactivate"}, user : NodeUsers \cup {Nil},
        node : Nodes \cup {Nil}, status : Statuses \cup {Nil},
        before : NodeRows \cup {NoNode}, after : NodeRows \cup {NoNode}]]
  /\ \A r \in NodeRequests : NodeHolds(r)
  /\ nodeOvertaken \subseteq NodeRequests

(* Requests that create one code race past the lookup; one of them makes   *)
(* the node, and an update never moves a code to another node.             *)
CodesUnique ==
  /\ OneNodePerCode(nodes)
  /\ \A r1, r2 \in NodeRequests :
       /\ NodeWon(r1) /\ nreq[r1].op = "create"
       /\ NodeWon(r2) /\ nreq[r2].op = "create"
       /\ nreq[r1].after.code = nreq[r2].after.code
       => r1 = r2

Deactivated(n) ==
  {r \in NodeRequests : NodeWon(r) /\ nreq[r].op = "deactivate" /\ nreq[r].node = n}

(* The updates that can have made node n active: they were asked to, or    *)
(* wrote back that it is from a row that was no longer the one they read.  *)
Revivers(n) ==
  {r \in NodeRequests :
     /\ NodeWon(r) \/ npc[r] = "aborted"
     /\ nreq[r].op = "update" /\ nreq[r].node = n /\ nreq[r].after.status = "active"
     /\ nreq[r].status = "active" \/ r \in nodeOvertaken}

(* A deactivation stands until an update makes the node active again, and  *)
(* is reported once: of the deactivations of a node that were answered or  *)
(* are about to be, as many have been undone as there are updates that can *)
(* have made it active, and one more only while it is inactive.            *)
DeactivationsStand ==
  \A n \in Nodes :
    Cardinality(Deactivated(n)) <=
      Cardinality(Revivers(n)) + (IF nodes[n].status = "inactive" THEN 1 ELSE 0)

=============================================================================
