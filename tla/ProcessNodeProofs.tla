------------------------- MODULE ProcessNodeProofs --------------------------
(***************************************************************************)
(* TLAPS proofs of the safety properties of ProcessNodes, and that Plant,  *)
(* the node handlers beside those of scenarios, implements what the        *)
(* scenarios assume of them.                                               *)
(***************************************************************************)
EXTENDS Plant, ProcessNodeInvariant, FiniteSetTheorems, TLAPS

Ops == {"create", "update", "deactivate"}

NodeRequestRecords ==
  [op : {"none"} \cup Ops, user : NodeUsers \cup {Nil},
   node : Nodes \cup {Nil}, status : Statuses \cup {Nil},
   before : NodeRows \cup {NoNode}, after : NodeRows \cup {NoNode}]

LEMMA NoNodeIsNoRow ==
  /\ NoNode \notin NodeRows /\ NoNode.code = Nil /\ Nil \notin Codes
  /\ \A row \in NodeRows : row.code \in Codes /\ row.status \in Statuses
BY NilAssumption DEF NoNode, NodeRows, Statuses

LEMMA NoNodeRequestType ==
  NoNodeRequest \in NodeRequestRecords /\ NoNodeRequest.op = "none"
BY DEF NoNodeRequest, NodeRequestRecords

LEMMA NodeInitInv == NodeInit => NodeInv
<1> SUFFICES ASSUME NodeInit PROVE NodeInv
  OBVIOUS
<1>1. nodes \in [Nodes -> NodeRows \cup {NoNode}] /\ OneNodePerCode(nodes)
  BY NodeSeedAssumption DEF NodeInit
<1>2. NodeTypeOK
  BY <1>1, NoNodeRequestType
     DEF NodeInit, NodeTypeOK, NodeHolds, NodeWon, NodeRequestRecords, Ops, NodeStatements
<1>3. (\A r \in NodeRequests : Named(r) /\ RevivesKnowingly(r)) /\ CreatorsApart
  BY DEF NodeInit, NodeWon, Named, RevivesKnowingly, CreatorsApart
<1>4. FinitelyMany
  <2>1. {r \in NodeRequests : npc[r] # "idle"} = {}
    BY DEF NodeInit
  <2> QED BY <2>1, FS_EmptySet DEF FinitelyMany
<1>5. \A n \in Nodes : Deactivated(n) = {} /\ Revivers(n) = {}
  BY DEF NodeInit, Deactivated, Revivers, NodeWon
<1>6. DeactivationsStand
  BY <1>5, FS_EmptySet DEF DeactivationsStand
<1> QED BY <1>1, <1>2, <1>3, <1>4, <1>6 DEF NodeInv

-----------------------------------------------------------------------------
LEMMA FinitelyManyStays ==
  ASSUME FinitelyMany, NEW r \in NodeRequests,
         \A q \in NodeRequests : q # r => npc'[q] = npc[q]
  PROVE  FinitelyMany'
<1> DEFINE arrived == {q \in NodeRequests : npc[q] # "idle"}
           now == {q \in NodeRequests : npc'[q] # "idle"}
<1>1. IsFiniteSet(arrived \cup {r})
  BY FS_AddElement DEF FinitelyMany
<1>2. now \subseteq arrived \cup {r}
  OBVIOUS
<1>3. IsFiniteSet(now)
  BY <1>1, <1>2, FS_Subset
<1> QED BY <1>3 DEF FinitelyMany

(* What a step of r may do to the deactivations and reviving updates of a  *)
(* node: nothing that undoes a deactivation, revive it, or deactivate it.  *)
LEMMA StandStays ==
  ASSUME FinitelyMany, DeactivationsStand, FinitelyMany',
         NEW r \in NodeRequests, NEW n \in Nodes, Revivers(n) \subseteq Revivers(n)',
         \/ /\ Deactivated(n)' \subseteq Deactivated(n)
            /\ nodes[n].status = "inactive" => nodes'[n].status = "inactive"
         \/ /\ Deactivated(n)' \subseteq Deactivated(n)
            /\ r \in Revivers(n)' /\ r \notin Revivers(n)
         \/ /\ Deactivated(n)' \subseteq Deactivated(n) \cup {r}
            /\ nodes[n].status # "inactive" /\ nodes'[n].status = "inactive"
  PROVE  Cardinality(Deactivated(n)') <=
           Cardinality(Revivers(n)') + (IF nodes'[n].status = "inactive" THEN 1 ELSE 0)
<1> DEFINE D == Deactivated(n)
           R == Revivers(n)
           D1 == Deactivated(n)'
           R1 == Revivers(n)'
           i == IF nodes[n].status = "inactive" THEN 1 ELSE 0
           j == IF nodes'[n].status = "inactive" THEN 1 ELSE 0
<1>1. IsFiniteSet(D)
  <2>1. D \subseteq {q \in NodeRequests : npc[q] # "idle"}
    BY DEF Deactivated, NodeWon
  <2> QED BY <2>1, FS_Subset DEF FinitelyMany
<1>2. IsFiniteSet(R1)
  <2>1. R1 \subseteq {q \in NodeRequests : npc'[q] # "idle"}
    BY DEF Revivers, NodeWon
  <2> QED BY <2>1, FS_Subset DEF FinitelyMany
<1>3. Cardinality(D) <= Cardinality(R) + i /\ R \subseteq R1
  BY DEF DeactivationsStand
<1>4. i \in {0, 1} /\ j \in {0, 1}
  OBVIOUS
<1>5. \/ D1 \subseteq D /\ i <= j
      \/ D1 \subseteq D /\ r \in R1 /\ r \notin R
      \/ D1 \subseteq D \cup {r} /\ i = 0 /\ j = 1
  OBVIOUS
<1> HIDE DEF D, R, D1, R1, i, j
<1>6. IsFiniteSet(R) /\ Cardinality(R) <= Cardinality(R1)
  BY <1>2, <1>3, FS_Subset
<1>7. IsFiniteSet(D \cup {r}) /\ Cardinality(D \cup {r}) \in {Cardinality(D), Cardinality(D) + 1}
  BY <1>1, FS_AddElement
<1>8. IsFiniteSet(D1)
  BY <1>1, <1>5, <1>7, FS_Subset
<1>9. /\ Cardinality(D) \in Nat /\ Cardinality(R) \in Nat /\ Cardinality(R1) \in Nat
      /\ Cardinality(D1) \in Nat
  BY <1>1, <1>2, <1>6, <1>8, FS_CardinalityType
<1>10. CASE D1 \subseteq D /\ i <= j
  <2>1. Cardinality(D1) <= Cardinality(D)
    BY <1>1, <1>10, FS_Subset
  <2>2. Cardinality(D1) <= Cardinality(R1) + j
    BY <1>3, <1>4, <1>6, <1>9, <1>10, <2>1
  <2> QED BY <2>2 DEF D1, R1, j
<1>11. CASE D1 \subseteq D /\ r \in R1 /\ r \notin R
  <2>1. Cardinality(D1) <= Cardinality(D)
    BY <1>1, <1>11, FS_Subset
  <2>2. Cardinality(R \cup {r}) = Cardinality(R) + 1
    BY <1>6, <1>11, FS_AddElement
  <2>3. R \cup {r} \subseteq R1
    BY <1>3, <1>11
  <2>4. Cardinality(R \cup {r}) <= Cardinality(R1)
    BY <1>2, <2>3, FS_Subset
  <2>5. Cardinality(D1) <= Cardinality(R1) + j
    BY <1>3, <1>4, <1>9, <2>1, <2>2, <2>4
  <2> QED BY <2>5 DEF D1, R1, j
<1>12. CASE D1 \subseteq D \cup {r} /\ i = 0 /\ j = 1
  <2>1. Cardinality(D1) <= Cardinality(D \cup {r})
    BY <1>7, <1>12, FS_Subset
  <2>2. Cardinality(D1) <= Cardinality(R1) + j
    BY <1>3, <1>6, <1>7, <1>9, <1>12, <2>1
  <2> QED BY <2>2 DEF D1, R1, j
<1> QED BY <1>5, <1>10, <1>11, <1>12

-----------------------------------------------------------------------------
(* A step of one request that leaves the nodes as they are and wins nothing *)
(* it had not won.                                                         *)
LEMMA MoveInv ==
  ASSUME NodeInv, NEW r \in NodeRequests, nodes' = nodes, nodeOvertaken' = nodeOvertaken,
         NEW h \in NodeRequestRecords, nreq' = [nreq EXCEPT ![r] = h],
         NEW st \in {"idle"} \cup NodeStatements \cup NodeFinal, NodeGo(r, st),
         h = nreq[r] \/ npc[r] = "idle",
         st \in {"record", "summary", "answered"} => NodeWon(r),
         NodeWon(r) => st \in {"record", "summary", "answered", "aborted"},
         npc[r] # "aborted",
         nodeAudits' \subseteq [request : NodeRequests, op : Ops, node : Nodes,
                                before : NodeRows \cup {NoNode}, after : NodeRows],
         NodeHolds(r)', RevivesKnowingly(r)'
  PROVE  NodeInv'
<1>1. /\ nreq' \in [NodeRequests -> NodeRequestRecords] /\ nreq'[r] = h
      /\ npc' \in [NodeRequests -> {"idle"} \cup NodeStatements \cup NodeFinal] /\ npc'[r] = st
      /\ \A q \in NodeRequests : q # r => nreq'[q] = nreq[q] /\ npc'[q] = npc[q]
  BY DEF NodeInv, NodeTypeOK, NodeGo, NodeRequestRecords, Ops
<1>2. \A q \in NodeRequests : NodeHolds(q)'
  BY <1>1 DEF NodeInv, NodeTypeOK, NodeHolds, NodeWon
<1>3. NodeTypeOK'
  BY <1>1, <1>2 DEF NodeInv, NodeTypeOK, NodeRequestRecords, Ops
<1>4. \A q \in NodeRequests : NodeWon(q)' => NodeWon(q) /\ nreq'[q] = nreq[q]
  BY <1>1 DEF NodeWon
<1>5. \A n \in Nodes : Revivers(n) \subseteq Revivers(n)'
  BY <1>1 DEF Revivers, NodeWon
<1>6. CreatorsApart' /\ \A q \in NodeRequests : Named(q)' /\ RevivesKnowingly(q)'
  BY <1>1, <1>4 DEF NodeInv, CreatorsApart, Named, RevivesKnowingly
<1>7. FinitelyMany'
  BY <1>1, FinitelyManyStays DEF NodeInv
<1>8. \A n \in Nodes : Deactivated(n)' \subseteq Deactivated(n)
  BY <1>4 DEF Deactivated
<1>9. DeactivationsStand'
  BY <1>5, <1>7, <1>8, StandStays DEF NodeInv, DeactivationsStand
<1> QED BY <1>3, <1>6, <1>7, <1>9 DEF NodeInv, OneNodePerCode

(* A request that enters, or is refused as it does.                        *)
LEMMA EnterInv ==
  ASSUME NodeInv, NEW r \in NodeRequests, NEW u \in NodeUsers, NEW h \in NodeRequestRecords,
         NEW st \in {"insert", "update", "deactivate", "refused"}, NodeEnter(r, u, h, st),
         st = "insert" => h.op = "create" /\ h.after \in NodeRows /\ h.after.status = "active",
         st = "update" =>
           /\ h.op = "update"
           /\ h.after.status = "active" => h.status = "active" \/ nodes[h.node].status = "active",
         st = "deactivate" => h.op = "deactivate" /\ h.before.status = "active",
         st \in {"update", "deactivate"} =>
           /\ h.node \in Nodes /\ h.after \in NodeRows
           /\ nodes[h.node] \in NodeRows /\ nodes[h.node].code = h.after.code
  PROVE  NodeInv'
<1> DEFINE k == IF st = "refused" THEN nreq[r] ELSE [h EXCEPT !.user = u]
<1>1. k \in NodeRequestRecords /\ npc[r] = "idle" /\ nreq' = [nreq EXCEPT ![r] = k]
  BY DEF NodeEnter, NodeInv, NodeTypeOK, NodeRequestRecords, Ops
<1>2. /\ NodeGo(r, st) /\ npc'[r] = st /\ nodes' = nodes /\ nodeAudits' = nodeAudits /\ nreq'[r] = k
      /\ nodeOvertaken' = nodeOvertaken
  BY <1>1 DEF NodeEnter, NodeGo, NodeInv, NodeTypeOK
<1>3. st # "refused" =>
        /\ k.op = h.op /\ k.node = h.node /\ k.before = h.before /\ k.after = h.after
        /\ k.status = h.status
  BY DEF NodeRequestRecords
<1> HIDE DEF k
<1>4. NodeHolds(r)' /\ RevivesKnowingly(r)'
  BY <1>2, <1>3 DEF NodeHolds, NodeWon, RevivesKnowingly
<1> QED BY <1>1, <1>2, <1>4, MoveInv
     DEF NodeInv, NodeTypeOK, NodeWon, NodeStatements, NodeFinal, Ops

LEMMA ArriveInv ==
  ASSUME NodeInv, NEW r \in NodeRequests, NodeArrive(r)
  PROVE  NodeInv'
<1>1. ASSUME NEW u \in NodeUsers, NEW code \in Codes, FindCode(r, u, code) PROVE NodeInv'
  <2> DEFINE row == [status |-> "active", code |-> code, content |-> [f \in NodeFields |-> r]]
             h == [NoNodeRequest EXCEPT !.op = "create", !.after = row]
             st == IF Taken(code) THEN "refused" ELSE "insert"
  <2>1. row \in NodeRows /\ row.status = "active"
    BY DEF NodeRows, Statuses
  <2> HIDE DEF row
  <2>2. h \in NodeRequestRecords /\ h.op = "create" /\ h.after = row
    BY <2>1, NoNodeRequestType DEF NodeRequestRecords, Ops, NoNodeRequest
  <2>3. NodeEnter(r, u, h, st) /\ st \in {"insert", "refused"}
    BY <1>1 DEF FindCode, row
  <2> HIDE DEF h, st
  <2> QED BY <2>1, <2>2, <2>3, EnterInv
<1>2. ASSUME NEW u \in NodeUsers, NEW n \in Nodes, NEW edits \in SUBSET NodeFields,
             NEW status \in Statuses \cup {Nil}, LoadNodeForUpdate(r, u, n, edits, status)
      PROVE  NodeInv'
  <2> DEFINE old == nodes[n]
             row == [old EXCEPT !.status = IF status = Nil THEN @ ELSE status,
                                !.content = [f \in NodeFields |-> IF f \in edits THEN r ELSE @[f]]]
             h == [NoNodeRequest EXCEPT !.op = "update", !.node = n, !.status = status,
                                        !.before = old, !.after = row]
  <2>1. old \in NodeRows
    BY <1>2 DEF LoadNodeForUpdate, NodeInv, NodeTypeOK
  <2>2. /\ row \in NodeRows /\ row.code = old.code
        /\ row.status = IF status = Nil THEN old.status ELSE status
    BY <2>1 DEF NodeRows
  <2> HIDE DEF row
  <2>3. /\ h \in NodeRequestRecords /\ h.op = "update" /\ h.node = n /\ h.after = row
        /\ h.status = status
    BY <2>1, <2>2, NoNodeRequestType DEF NodeRequestRecords, Ops, NoNodeRequest
  <2>4. NodeEnter(r, u, h, "update")
    BY <1>2 DEF LoadNodeForUpdate, row
  <2> HIDE DEF h
  <2> QED BY <2>1, <2>2, <2>3, <2>4, EnterInv
<1>3. ASSUME NEW u \in NodeUsers, NEW n \in Nodes, LoadForDeactivate(r, u, n) PROVE NodeInv'
  <2> DEFINE old == nodes[n]
             row == [old EXCEPT !.status = "inactive"]
             h == [NoNodeRequest EXCEPT !.op = "deactivate", !.node = n, !.status = "inactive",
                                        !.before = old, !.after = row]
             st == IF old.status = "inactive" THEN "refused" ELSE "deactivate"
  <2>1. old \in NodeRows
    BY <1>3 DEF LoadForDeactivate, NodeInv, NodeTypeOK
  <2>2. row \in NodeRows /\ row.code = old.code
    BY <2>1 DEF NodeRows, Statuses
  <2> HIDE DEF row
  <2>3. /\ h \in NodeRequestRecords /\ h.op = "deactivate" /\ h.node = n /\ h.after = row
        /\ h.before = old
    BY <2>1, <2>2, NoNodeRequestType DEF NodeRequestRecords, Ops, NoNodeRequest, Statuses
  <2>4. /\ NodeEnter(r, u, h, st) /\ st \in {"deactivate", "refused"}
        /\ st = "deactivate" => old.status = "active"
    BY <1>3, <2>1, NoNodeIsNoRow DEF LoadForDeactivate, row, Statuses
  <2> HIDE DEF h, st
  <2> QED BY <2>1, <2>2, <2>3, <2>4, EnterInv
<1> QED BY <1>1, <1>2, <1>3 DEF NodeArrive

LEMMA RecordInv ==
  ASSUME NodeInv, NEW r \in NodeRequests, RecordNode(r)
  PROVE  NodeInv'
<1> DEFINE st == IF nreq[r].op = "create" THEN "answered" ELSE "summary"
           a == [request |-> r, op |-> nreq[r].op, node |-> nreq[r].node,
                 before |-> nreq[r].before, after |-> nreq[r].after]
<1>1. /\ npc[r] = "record" /\ NodeGo(r, st) /\ npc'[r] = st /\ nodes' = nodes
      /\ nreq' = [nreq EXCEPT ![r] = nreq[r]] /\ nodeAudits' = nodeAudits \cup {a}
      /\ st \in {"answered", "summary"} /\ nreq' = nreq /\ nodeOvertaken' = nodeOvertaken
  BY DEF RecordNode, NodeGo, NodeInv, NodeTypeOK
<1>2. nreq[r] \in NodeRequestRecords /\ NodeHolds(r) /\ nreq[r].op \in Ops /\ NodeWon(r)
  BY <1>1 DEF NodeInv, NodeTypeOK, Named, NodeWon, NodeRequestRecords, Ops
<1>3. a \in [request : NodeRequests, op : Ops, node : Nodes, before : NodeRows \cup {NoNode}, after : NodeRows]
  BY <1>1, <1>2 DEF NodeHolds, NodeWon, NodeRequestRecords
<1>4. NodeHolds(r)' /\ RevivesKnowingly(r)'
  BY <1>1, <1>2 DEF NodeHolds, NodeWon, RevivesKnowingly
<1> HIDE DEF st, a
<1> QED BY <1>1, <1>2, <1>3, <1>4, MoveInv DEF NodeInv, NodeTypeOK, NodeStatements, NodeFinal, Ops

LEMMA LeaveInv ==
  ASSUME NodeInv, NEW r \in NodeRequests, Summarise(r) \/ AbortNode(r)
  PROVE  NodeInv'
<1> DEFINE st == npc'[r]
<1>1. /\ npc[r] \in NodeStatements /\ NodeGo(r, st)
      /\ UNCHANGED <<nodes, nodeAudits, nreq, nodeOvertaken>>
      /\ st = "aborted" \/ (st = "answered" /\ npc[r] = "summary")
  BY DEF Summarise, AbortNode, NodeGo, NodeStatements, NodeInv, NodeTypeOK
<1>2. nreq[r] \in NodeRequestRecords /\ NodeHolds(r) /\ nreq' = [nreq EXCEPT ![r] = nreq[r]]
  BY <1>1 DEF NodeInv, NodeTypeOK, NodeRequestRecords, Ops
<1>3. NodeHolds(r)' /\ RevivesKnowingly(r)'
  <2>1. npc'[r] = st
    BY <1>1 DEF NodeGo, NodeInv, NodeTypeOK
  <2> QED BY <1>1, <1>2, <2>1 DEF NodeHolds, NodeWon, RevivesKnowingly
<1> HIDE DEF st
<1> QED BY <1>1, <1>2, <1>3, MoveInv
     DEF NodeInv, NodeTypeOK, NodeWon, NodeStatements, NodeFinal, Ops

-----------------------------------------------------------------------------
LEMMA InsertInv ==
  ASSUME NodeInv, NEW r \in NodeRequests, InsertNode(r)
  PROVE  NodeInv'
<1>1. CASE Taken(nreq[r].after.code)
  <2>1. /\ npc[r] = "insert" /\ NodeGo(r, "refused") /\ npc'[r] = "refused"
        /\ UNCHANGED <<nodes, nodeAudits, nreq, nodeOvertaken>>
        /\ nreq' = [nreq EXCEPT ![r] = nreq[r]]
        /\ nreq[r] \in NodeRequestRecords
    BY <1>1 DEF InsertNode, NodeGo, NodeInv, NodeTypeOK, NodeRequestRecords, Ops
  <2>2. NodeHolds(r)' /\ RevivesKnowingly(r)'
    BY <2>1 DEF NodeHolds, NodeWon, RevivesKnowingly
  <2> QED BY <2>1, <2>2, MoveInv DEF NodeInv, NodeTypeOK, NodeWon, NodeFinal, Ops
<1>2. CASE ~Taken(nreq[r].after.code)
  <2>1. PICK n \in Nodes : /\ nodes[n] = NoNode
                          /\ nodes' = [nodes EXCEPT ![n] = nreq[r].after]
                          /\ nreq' = [nreq EXCEPT ![r].node = n]
    BY <1>2 DEF InsertNode
  <2> DEFINE row == nreq[r].after
             h == [nreq[r] EXCEPT !.node = n]
  <2>2. /\ npc[r] = "insert" /\ NodeGo(r, "record") /\ UNCHANGED <<nodeAudits, nodeOvertaken>>
        /\ nreq[r] \in NodeRequestRecords /\ NodeHolds(r) /\ row \in NodeRows
        /\ nreq[r].op = "create"
    BY <1>2 DEF InsertNode, NodeInv, NodeTypeOK, NodeHolds, NodeRequestRecords, Ops
  <2>3. /\ h \in NodeRequestRecords /\ nreq' = [nreq EXCEPT ![r] = h]
        /\ h.node = n /\ h.op = "create" /\ h.after = row
    BY <2>1, <2>2 DEF NodeInv, NodeTypeOK, NodeRequestRecords
  <2> HIDE DEF h
  <2>4. /\ npc' \in [NodeRequests -> {"idle"} \cup NodeStatements \cup NodeFinal]
        /\ nreq' \in [NodeRequests -> NodeRequestRecords]
        /\ npc'[r] = "record" /\ nreq'[r] = h
        /\ \A q \in NodeRequests : q # r => npc'[q] = npc[q] /\ nreq'[q] = nreq[q]
    BY <2>2, <2>3 DEF NodeInv, NodeTypeOK, NodeGo, NodeStatements, NodeRequestRecords, Ops
  <2>5. /\ nodes' \in [Nodes -> NodeRows \cup {NoNode}] /\ nodes'[n] = row
        /\ \A m \in Nodes : m # n => nodes'[m] = nodes[m]
    BY <2>1, <2>2 DEF NodeInv, NodeTypeOK
  <2>6. \A q \in NodeRequests : npc[q] \in {"update", "deactivate"} \/ NodeWon(q) =>
          nreq[q].node \in Nodes /\ nreq[q].node # n
    BY <2>1, NoNodeIsNoRow DEF NodeInv, NodeTypeOK, NodeHolds
  <2>7. \A q \in NodeRequests : NodeHolds(q)'
    <3>1. NodeHolds(r)'
      BY <2>2, <2>3, <2>4, <2>5 DEF NodeHolds, NodeWon
    <3>2. ASSUME NEW q \in NodeRequests, q # r PROVE NodeHolds(q)'
      <4>1. NodeHolds(q) /\ npc'[q] = npc[q] /\ nreq'[q] = nreq[q]
        BY <2>4, <3>2 DEF NodeInv, NodeTypeOK
      <4> QED BY <4>1, <2>5, <2>6 DEF NodeHolds, NodeWon
    <3> QED BY <3>1, <3>2
  <2>8. NodeTypeOK'
    BY <2>2, <2>4, <2>5, <2>7 DEF NodeInv, NodeTypeOK, NodeRequestRecords, Ops
  <2>9. OneNodePerCode(nodes)'
    <3>1. \A m \in Nodes : nodes[m] = NoNode \/ nodes[m].code # row.code
      BY <1>2 DEF Taken
    <3>2. row # NoNode /\ row.code # Nil /\ NoNode.code = Nil
      BY <2>2, NoNodeIsNoRow
    <3>3. \A m \in Nodes : nodes[m].code # row.code
      BY <3>1, <3>2
    <3> QED BY <2>5, <3>2, <3>3 DEF OneNodePerCode, NodeInv
  <2>10. \A q \in NodeRequests : Named(q)' /\ RevivesKnowingly(q)'
    BY <2>2, <2>3, <2>4, <2>5, <2>6 DEF NodeInv, Named, NodeWon, RevivesKnowingly
  <2>11. CreatorsApart'
    BY <2>3, <2>4, <2>6 DEF NodeInv, CreatorsApart, NodeWon
  <2>12. FinitelyMany'
    BY <2>4, FinitelyManyStays DEF NodeInv
  <2>13. ASSUME NEW m \in Nodes
         PROVE  /\ Revivers(m) \subseteq Revivers(m)' /\ Deactivated(m)' \subseteq Deactivated(m)
                /\ nodes[m].status = "inactive" => nodes'[m].status = "inactive"
    <3>1. Revivers(m) \subseteq Revivers(m)'
      BY <2>2, <2>4 DEF Revivers, NodeWon
    <3>2. Deactivated(m)' \subseteq Deactivated(m)
      BY <2>2, <2>3, <2>4 DEF Deactivated, NodeWon
    <3> QED BY <2>1, <2>5, <3>1, <3>2 DEF NoNode
  <2>14. DeactivationsStand'
    BY <2>12, <2>13, StandStays DEF NodeInv, DeactivationsStand
  <2> QED BY <2>8, <2>9, <2>10, <2>11, <2>12, <2>14 DEF NodeInv
<1> QED BY <1>1, <1>2

(* A statement of r that writes the status and the content of its node.    *)
LEMMA WriteInv ==
  ASSUME NodeInv, NEW r \in NodeRequests, npc[r] \in {"update", "deactivate"},
         NodeGo(r, "record"), UNCHANGED <<nodeAudits, nreq>>, Overtake(r),
         NEW row \in NodeRows, row.code = nodes[nreq[r].node].code,
         nodes' = [nodes EXCEPT ![nreq[r].node] = row],
         \/ npc[r] = "update" /\ row.status = nreq[r].after.status
         \/ /\ npc[r] = "deactivate" /\ row.status = "inactive"
            /\ nodes[nreq[r].node].status = "active"
  PROVE  NodeInv'
<1> DEFINE n == nreq[r].node
<1>1. /\ npc' \in [NodeRequests -> {"idle"} \cup NodeStatements \cup NodeFinal]
      /\ npc'[r] = "record" /\ nreq' = nreq /\ n \in Nodes /\ NodeHolds(r)
      /\ \A q \in NodeRequests : q # r => npc'[q] = npc[q]
  BY DEF NodeInv, NodeTypeOK, NodeGo, NodeStatements, NodeHolds
<1>2. /\ nodes' \in [Nodes -> NodeRows \cup {NoNode}] /\ nodes'[n] = row
      /\ \A m \in Nodes : m # n => nodes'[m] = nodes[m]
      /\ \A m \in Nodes : nodes'[m].code = nodes[m].code
      /\ \A m \in Nodes : nodes[m] \in NodeRows => nodes'[m] \in NodeRows
      /\ nodes[n] \in NodeRows
  BY <1>1 DEF NodeInv, NodeTypeOK, NodeHolds
<1>3. \A q \in NodeRequests : NodeHolds(q)'
  BY <1>1, <1>2 DEF NodeInv, NodeTypeOK, NodeHolds, NodeWon
<1>o. /\ nodeOvertaken' \subseteq NodeRequests /\ nodeOvertaken \subseteq nodeOvertaken'
      /\ \A q \in NodeRequests \ {r} : npc[q] = "update" /\ nreq[q].node = n => q \in nodeOvertaken'
  BY DEF Overtake, NodeInv, NodeTypeOK
<1>4. NodeTypeOK'
  BY <1>1, <1>2, <1>3, <1>o DEF NodeInv, NodeTypeOK
<1>5. OneNodePerCode(nodes)'
  BY <1>1, <1>2, NoNodeIsNoRow DEF NodeInv, OneNodePerCode
<1>6. nreq[r].op = npc[r]
  BY <1>1 DEF NodeHolds
<1>7. (\A q \in NodeRequests : Named(q)') /\ CreatorsApart'
  BY <1>1, <1>6 DEF NodeInv, Named, CreatorsApart, NodeWon
<1>8. \A q \in NodeRequests : RevivesKnowingly(q)'
  <2> SUFFICES ASSUME NEW q \in NodeRequests, q # r, npc[q] = "update" PROVE RevivesKnowingly(q)'
    BY <1>1 DEF RevivesKnowingly
  <2>1. nreq[q].node \in Nodes /\ RevivesKnowingly(q)
    BY DEF NodeInv, NodeTypeOK, NodeHolds
  <2> QED BY <1>1, <1>2, <1>o, <2>1 DEF RevivesKnowingly
<1>9. FinitelyMany'
  BY <1>1, FinitelyManyStays DEF NodeInv
<1>10. row.status \in {"active", "inactive"}
  BY DEF NodeRows, Statuses
<1>11. ASSUME NEW m \in Nodes
       PROVE  /\ Revivers(m) \subseteq Revivers(m)'
              /\ \/ /\ Deactivated(m)' \subseteq Deactivated(m)
                    /\ nodes[m].status = "inactive" => nodes'[m].status = "inactive"
                 \/ /\ Deactivated(m)' \subseteq Deactivated(m)
                    /\ r \in Revivers(m)' /\ r \notin Revivers(m)
                 \/ /\ Deactivated(m)' \subseteq Deactivated(m) \cup {r}
                    /\ nodes[m].status # "inactive" /\ nodes'[m].status = "inactive"
  <2>1. Revivers(m) \subseteq Revivers(m)'
    BY <1>1, <1>o DEF Revivers, NodeWon
  <2>2. Deactivated(m)' \subseteq Deactivated(m) \cup {r}
    BY <1>1 DEF Deactivated, NodeWon
  <2>3. m # n \/ npc[r] = "update" => Deactivated(m)' \subseteq Deactivated(m)
    BY <1>1, <1>6 DEF Deactivated, NodeWon
  <2>4. CASE m # n
    BY <1>2, <2>1, <2>3, <2>4
  <2>5. CASE m = n /\ npc[r] = "deactivate"
    BY <1>2, <2>1, <2>2, <2>5
  <2>6. CASE m = n /\ npc[r] = "update"
    <3>1. CASE row.status = "inactive" \/ nodes[n].status = "active"
      <4>1. nodes[n].status = "inactive" => row.status = "inactive"
        BY <3>1
      <4> QED BY <1>2, <2>1, <2>3, <2>6, <4>1
    <3>2. CASE row.status = "active" /\ nodes[n].status # "active"
      <4>1. nreq[r].status = "active" \/ r \in nodeOvertaken
        BY <2>6, <3>2 DEF NodeInv, RevivesKnowingly
      <4>2. r \in Revivers(m)' /\ r \notin Revivers(m)
        BY <1>1, <1>6, <1>o, <2>6, <3>2, <4>1 DEF Revivers, NodeWon
      <4> QED BY <2>1, <2>3, <2>6, <4>2
    <3> QED BY <1>10, <3>1, <3>2
  <2> QED BY <2>4, <2>5, <2>6
<1>12. DeactivationsStand'
  BY <1>9, <1>11, StandStays DEF NodeInv, DeactivationsStand
<1> QED BY <1>4, <1>5, <1>7, <1>8, <1>9, <1>12 DEF NodeInv

LEMMA UpdateInv ==
  ASSUME NodeInv, NEW r \in NodeRequests, UpdateNode(r)
  PROVE  NodeInv'
<1> DEFINE n == nreq[r].node
           row == [nodes[n] EXCEPT !.status = nreq[r].after.status, !.content = nreq[r].after.content]
<1>1. /\ npc[r] = "update" /\ NodeGo(r, "record") /\ UNCHANGED <<nodeAudits, nreq>> /\ Overtake(r)
      /\ n \in Nodes /\ nodes[n] \in NodeRows /\ nreq[r].after \in NodeRows
      /\ nodes \in [Nodes -> NodeRows \cup {NoNode}]
  BY DEF UpdateNode, NodeInv, NodeTypeOK, NodeHolds
<1>2. row \in NodeRows /\ row.code = nodes[n].code /\ row.status = nreq[r].after.status
  BY <1>1 DEF NodeRows
<1>3. nodes' = [nodes EXCEPT ![n] = row]
  BY <1>1 DEF UpdateNode
<1> HIDE DEF row
<1> QED BY <1>1, <1>2, <1>3, WriteInv

LEMMA DeactivateInv ==
  ASSUME NodeInv, NEW r \in NodeRequests, Deactivate(r)
  PROVE  NodeInv'
<1> DEFINE n == nreq[r].node
           row == [nodes[n] EXCEPT !.status = "inactive"]
<1>1. /\ npc[r] = "deactivate" /\ UNCHANGED <<nodeAudits, nreq>> /\ NodeHolds(r)
      /\ n \in Nodes /\ nodes[n] \in NodeRows /\ nreq[r] \in NodeRequestRecords
  BY DEF Deactivate, NodeInv, NodeTypeOK, NodeHolds, NodeRequestRecords, Ops
<1>2. CASE MayDeactivate(r)
  <2>1. row \in NodeRows /\ row.code = nodes[n].code /\ row.status = "inactive"
    BY <1>1 DEF NodeRows, Statuses
  <2>2. /\ nodes' = [nodes EXCEPT ![n] = row] /\ nodes[n].status = "active" /\ NodeGo(r, "record")
        /\ Overtake(r)
    BY <1>2 DEF Deactivate, MayDeactivate
  <2> HIDE DEF row
  <2> QED BY <1>1, <2>1, <2>2, WriteInv
<1>3. CASE ~MayDeactivate(r)
  <2>1. /\ NodeGo(r, "refused") /\ npc'[r] = "refused" /\ UNCHANGED <<nodes, nodeOvertaken>>
        /\ nreq' = [nreq EXCEPT ![r] = nreq[r]]
    BY <1>1, <1>3 DEF Deactivate, NodeGo, NodeInv, NodeTypeOK
  <2>2. NodeHolds(r)' /\ RevivesKnowingly(r)'
    BY <2>1 DEF NodeHolds, NodeWon, RevivesKnowingly
  <2> QED BY <1>1, <2>1, <2>2, MoveInv DEF NodeInv, NodeTypeOK, NodeWon, NodeFinal, Ops
<1> QED BY <1>2, <1>3

-----------------------------------------------------------------------------
LEMMA NodeNextInv == NodeInv /\ [NodeNext]_nodeVars => NodeInv'
<1> SUFFICES ASSUME NodeInv, [NodeNext]_nodeVars PROVE NodeInv'
  OBVIOUS
<1>1. CASE UNCHANGED nodeVars
  <2>1. UNCHANGED <<nodes, nodeAudits, npc, nreq, nodeOvertaken>>
    BY <1>1 DEF nodeVars
  <2>2. NodeTypeOK' /\ OneNodePerCode(nodes)' /\ CreatorsApart'
    BY <2>1 DEF NodeInv, NodeTypeOK, NodeHolds, NodeWon, OneNodePerCode, CreatorsApart
  <2>3. \A r \in NodeRequests : Named(r)' /\ RevivesKnowingly(r)'
    BY <2>1 DEF NodeInv, Named, NodeWon, RevivesKnowingly
  <2>4. FinitelyMany'
    BY <2>1 DEF NodeInv, FinitelyMany
  <2>5. \A n \in Nodes : Deactivated(n)' = Deactivated(n) /\ Revivers(n)' = Revivers(n)
    BY <2>1 DEF Deactivated, Revivers, NodeWon
  <2>6. DeactivationsStand'
    BY <2>1, <2>5 DEF NodeInv, DeactivationsStand
  <2> QED BY <2>2, <2>3, <2>4, <2>6 DEF NodeInv
<1>2. ASSUME NEW r \in NodeRequests, NodeStep(r) PROVE NodeInv'
  BY <1>2, InsertInv, UpdateInv, DeactivateInv, RecordInv, LeaveInv DEF NodeStep
<1> QED BY <1>1, <1>2, ArriveInv DEF NodeNext

LEMMA Invariance == NodeSpec => []NodeInv
BY NodeInitInv, NodeNextInv, PTL DEF NodeSpec

(* Every variable keeps its type; a row that was read is still there, and   *)
(* under the same code, when it is written.                                *)
THEOREM NodeTypeCorrect == NodeSpec => []NodeTypeOK
BY Invariance, PTL DEF NodeInv

(* Of the requests that create one code at once at most one succeeds, for  *)
(* every number of requests, nodes and codes.                              *)
THEOREM CodesUniqueCorrect == NodeSpec => []CodesUnique
<1>1. NodeInv => CodesUnique
  <2> SUFFICES ASSUME NodeInv, NEW r1 \in NodeRequests, NEW r2 \in NodeRequests,
                      NodeWon(r1), nreq[r1].op = "create", NodeWon(r2), nreq[r2].op = "create",
                      nreq[r1].after.code = nreq[r2].after.code
               PROVE  r1 = r2
    BY DEF NodeInv, CodesUnique
  <2>1. \A r \in {r1, r2} : /\ nreq[r].node \in Nodes /\ nodes[nreq[r].node] \in NodeRows
                            /\ nodes[nreq[r].node].code = nreq[r].after.code
    BY DEF NodeInv, NodeTypeOK, NodeHolds
  <2>2. nreq[r1].node = nreq[r2].node
    BY <2>1, NoNodeIsNoRow DEF NodeInv, OneNodePerCode
  <2> QED BY <2>2 DEF NodeInv, CreatorsApart
<1> QED BY <1>1, Invariance, PTL

(* A deactivation stands, and is reported once, until an update that was   *)
(* asked to, or that was overtaken, makes the node active again: for every *)
(* number of requests, of which finitely many have arrived at any time.    *)
THEOREM DeactivationsStandCorrect == NodeSpec => []DeactivationsStand
BY Invariance, PTL DEF NodeInv

-----------------------------------------------------------------------------
(* Plant: a step of a node handler changes the row of one node, or none,   *)
(* and so the status of one node at most.                                  *)
LEMMA OneNodeChanges ==
  ASSUME NodeInv, NEW r \in NodeRequests, NodeArrive(r) \/ NodeStep(r)
  PROVE  \/ nodes' = nodes
         \/ \E n \in Nodes : \A m \in Nodes \ {n} : nodes'[m] = nodes[m]
<1>0. NodeTypeOK /\ NodeHolds(r)
  BY DEF NodeInv, NodeTypeOK
<1>1. CASE InsertNode(r)
  BY <1>0, <1>1 DEF InsertNode, NodeTypeOK
<1>2. CASE UpdateNode(r) \/ Deactivate(r)
  <2>1. nreq[r].node \in Nodes
    BY <1>0, <1>2 DEF UpdateNode, Deactivate, NodeHolds
  <2>2. \A m \in Nodes \ {nreq[r].node} : nodes'[m] = nodes[m]
    BY <1>0, <1>2 DEF UpdateNode, Deactivate, NodeTypeOK
  <2> QED
    BY <2>1, <2>2
<1>3. CASE NodeArrive(r) \/ RecordNode(r) \/ Summarise(r) \/ AbortNode(r)
  BY <1>3 DEF NodeArrive, FindCode, LoadNodeForUpdate, LoadForDeactivate, NodeEnter, RecordNode,
              Summarise, AbortNode
<1> QED
  BY <1>1, <1>2, <1>3 DEF NodeStep

LEMMA PlantNodeInv == PlantSpec => []NodeInv
<1>1. PlantInit => NodeInv
  BY NodeInitInv DEF PlantInit
<1>2. NodeInv /\ [PlantNext]_<<nodeVars, scenarioVars>> => NodeInv'
  BY NodeNextInv DEF PlantNext, NodeHandlers, ScenarioHandlers
<1> QED
  BY <1>1, <1>2, PTL DEF PlantSpec

LEMMA NodeHandlersRefine ==
  ASSUME NodeInv, NodeHandlers
  PROVE  [Scenario!Next]_(Scenario!vars)
<1>1. PICK r \in NodeRequests : NodeArrive(r) \/ NodeStep(r)
  BY DEF NodeHandlers, NodeNext
<1>2. CASE ActiveNodes' = ActiveNodes
  BY <1>2 DEF NodeHandlers, scenarioVars, Scenario!vars
<1>3. CASE ActiveNodes' # ActiveNodes
  <2>1. nodes' # nodes
    BY <1>3 DEF ActiveNodes
  <2>2. PICK n \in Nodes : \A m \in Nodes \ {n} : nodes'[m] = nodes[m]
    BY <1>1, <2>1, OneNodeChanges
  <2>3. ActiveNodes' = IF n \in ActiveNodes THEN ActiveNodes \ {n} ELSE ActiveNodes \cup {n}
    BY <1>3, <2>2 DEF ActiveNodes
  <2>4. Scenario!SwitchNode(n)
    BY <2>3 DEF Scenario!SwitchNode, NodeHandlers, scenarioVars
  <2> QED
    BY <2>4 DEF Scenario!Next
<1> QED
  BY <1>2, <1>3

(* ImplementsScenarios: with the real node handlers beside them, scenarios *)
(* see no more of the nodes than that the status of one is switched.       *)
THEOREM ImplementsScenariosCorrect == PlantSpec => ImplementsScenarios
<1>1. PlantInit => Scenario!Init
  BY DEF PlantInit, Scenario!Init, ActiveNodes
<1>2. ASSUME NodeInv, [PlantNext]_<<nodeVars, scenarioVars>> PROVE [Scenario!Next]_(Scenario!vars)
  <2>1. CASE NodeHandlers
    BY <1>2, <2>1, NodeHandlersRefine
  <2>2. CASE ScenarioHandlers
    BY <2>2 DEF ScenarioHandlers, Scenario!Next
  <2>3. CASE UNCHANGED <<nodeVars, scenarioVars>>
    BY <2>3 DEF nodeVars, scenarioVars, Scenario!vars, ActiveNodes
  <2> QED
    BY <1>2, <2>1, <2>2, <2>3 DEF PlantNext
<1> QED
  BY <1>1, <1>2, PlantNodeInv, PTL DEF PlantSpec, ImplementsScenarios, Scenario!Spec

-----------------------------------------------------------------------------
(* The proofs of DeviationProofs, with the nodes that the node handlers     *)
(* leave active in the place of their abstraction there.  Its definitions  *)
(* are those of Scenario: expanded, they are the same formulas.            *)
Deviation == INSTANCE DeviationProofs WITH active <- ActiveNodes

LEMMA DeviationAssumptions ==
  /\ Role \in [Users -> Deviation!Roles]
  /\ Seeds \subseteq Deviation!Rows \cup {Deviation!Absent}
  /\ \A row \in Seeds : Deviation!Reviewed(row)
BY PlantRoleAssumption, PlantSeedAssumption
  DEF Scenario!Roles, Deviation!Roles, Scenario!Rows, Deviation!Rows, Scenario!Absent,
      Deviation!Absent, Scenario!Reviewed, Deviation!Reviewed, Scenario!ReviewActions,
      Deviation!ReviewActions, Scenario!Reviewers, Deviation!Reviewers,
      Scenario!ScenarioStateValues, Deviation!ScenarioStateValues

LEMMA SameInit == Scenario!Init <=> Deviation!Init
BY DEF Scenario!Init, Deviation!Init, Scenario!NoRequest, Deviation!NoRequest,
       Scenario!Absent, Deviation!Absent

LEMMA SameNext == [Scenario!Next]_(Scenario!vars) <=> [Deviation!Next]_(Deviation!vars)
BY DEF Scenario!vars, Deviation!vars,
   Scenario!Next, Deviation!Next, Scenario!Arrive, Deviation!Arrive, Scenario!LoadNode,
   Deviation!LoadNode, Scenario!LoadForUpdate, Deviation!LoadForUpdate,
   Scenario!LoadForTransition, Deviation!LoadForTransition, Scenario!Step,
   Deviation!Step, Scenario!Insert, Deviation!Insert, Scenario!UpdateWithVersion,
   Deviation!UpdateWithVersion, Scenario!Transition, Deviation!Transition,
   Scenario!Record, Deviation!Record, Scenario!Reload, Deviation!Reload, Scenario!Abort,
   Deviation!Abort, Scenario!SwitchNode, Deviation!SwitchNode, Scenario!NewRow,
   Deviation!NewRow, Scenario!Exists, Deviation!Exists, Scenario!EditedFields,
   Deviation!EditedFields, Scenario!UpdatedRow, Deviation!UpdatedRow,
   Scenario!UpdateMatches, Deviation!UpdateMatches, Scenario!MayMove, Deviation!MayMove,
   Scenario!MovedRow, Deviation!MovedRow, Scenario!TransitionMatches,
   Deviation!TransitionMatches, Scenario!Statements, Deviation!Statements,
   Scenario!Editable, Deviation!Editable, Scenario!ReviewActions,
   Deviation!ReviewActions, Scenario!Submitters, Deviation!Submitters,
   Scenario!Reviewers, Deviation!Reviewers, Scenario!Absent, Deviation!Absent,
   Scenario!NoRequest, Deviation!NoRequest, Scenario!Go, Deviation!Go,
   Scenario!HasPermission, Deviation!HasPermission, Scenario!Roles, Deviation!Roles,
   Scenario!rolePermissions, Deviation!rolePermissions, Scenario!Permissions,
   Deviation!Permissions, Scenario!CanTransitionScenario,
   Deviation!CanTransitionScenario, Scenario!ScenarioStateValues,
   Deviation!ScenarioStateValues, Scenario!scenarioTransitions,
   Deviation!scenarioTransitions

LEMMA PlantScenarios == PlantSpec => Deviation!Spec
<1>1. Scenario!Init => Deviation!Init
  BY SameInit
<1>2. [Scenario!Next]_(Scenario!vars) => [Deviation!Next]_(Deviation!vars)
  BY SameNext
<1> QED
  BY <1>1, <1>2, ImplementsScenariosCorrect, PTL
  DEF ImplementsScenarios, Scenario!Spec, Deviation!Spec

LEMMA PlantVersionInv == PlantSpec => []Deviation!VersionInv
<1>1. Deviation!Spec => []Deviation!VersionInv
  BY Deviation!VersionInvCorrect, DeviationAssumptions, PlantNoneAssumption, PlantVersionAssumption
<1> QED
  BY <1>1, PlantScenarios, PTL

(* With the node handlers at work beside them: scenarios are reviewed by   *)
(* somebody else than their author, at most one request changes a version, *)
(* and the audit rows of a scenario fit together.                          *)
THEOREM ScenariosSafeInPlant ==
  PlantSpec => [](Deviation!ReviewedByOther /\ Deviation!OneChangePerVersion /\ Deviation!AuditChain)
<1>1. Deviation!Spec => []Deviation!AuditChain
  BY Deviation!AuditChainCorrect, DeviationAssumptions, PlantNoneAssumption, PlantVersionAssumption
<1>2. Deviation!VersionInv => Deviation!ReviewedByOther /\ Deviation!OneChangePerVersion
  BY DEF Deviation!VersionInv
<1> QED
  BY <1>1, <1>2, PlantScenarios, PlantVersionInv, PTL

(* And so are the two action properties: scenarios change by legal steps,  *)
(* and an update undoes no other request's edit.                           *)
THEOREM ScenarioStepsInPlant == PlantSpec => Deviation!LawfulChange /\ Deviation!KeepsOthersEdits
<1>1. Deviation!Spec => Deviation!LawfulChange
  BY Deviation!LawfulChangeCorrect, DeviationAssumptions, PlantNoneAssumption, PlantVersionAssumption
<1>2. Deviation!Spec => Deviation!KeepsOthersEdits
  BY Deviation!KeepsOthersEditsCorrect, DeviationAssumptions, PlantNoneAssumption, PlantVersionAssumption
<1> QED
  BY <1>1, <1>2, PlantScenarios, PTL

-----------------------------------------------------------------------------
(* No handler removes a row of process_nodes.                              *)
LEMMA NodesStay ==
  ASSUME NodeInv, NodeNext, NEW n \in Nodes, nodes[n] # NoNode
  PROVE  nodes'[n] # NoNode
<1>1. PICK r \in NodeRequests : NodeArrive(r) \/ NodeStep(r)
  BY DEF NodeNext
<1>2. CASE InsertNode(r)
  BY <1>2 DEF InsertNode, NodeInv, NodeTypeOK
<1>3. CASE UpdateNode(r) \/ Deactivate(r)
  <2>1. nodes[nreq[r].node] \in NodeRows /\ nreq[r].after \in NodeRows /\ nreq[r].node \in Nodes
    BY <1>3 DEF UpdateNode, Deactivate, NodeInv, NodeTypeOK, NodeHolds
  <2>2. nodes'[n] \in NodeRows \/ nodes'[n] = nodes[n]
    BY <1>3, <2>1 DEF UpdateNode, Deactivate, NodeInv, NodeTypeOK, NodeRows, Statuses
  <2> QED
    BY <2>2, NoNodeIsNoRow
<1>4. CASE NodeArrive(r) \/ RecordNode(r) \/ Summarise(r) \/ AbortNode(r)
  BY <1>4 DEF NodeArrive, FindCode, LoadNodeForUpdate, LoadForDeactivate, NodeEnter, RecordNode,
              Summarise, AbortNode
<1> QED
  BY <1>1, <1>2, <1>3, <1>4 DEF NodeStep

(* The node a create request has read is still there when it inserts.      *)
InsertsHaveNodes ==
  \A r \in Requests : pc[r] = "insert" => req[r].node \in Nodes /\ nodes[req[r].node] # NoNode

NodeReferences == Deviation!TypeOK /\ ScenariosHaveNodes /\ InsertsHaveNodes

LEMMA ScenarioHandlersReference ==
  ASSUME NodeReferences, ScenarioHandlers, Deviation!TypeOK'
  PROVE  NodeReferences'
<1> USE DEF NodeReferences
<1>0. PICK r \in Requests : Scenario!Arrive(r) \/ Scenario!Step(r) \/ Scenario!Abort(r)
  BY DEF ScenarioHandlers
<1>1. nodes' = nodes
  BY DEF ScenarioHandlers, nodeVars
<1>t. /\ scenarios \in [Scenarios -> Deviation!Rows \cup {Deviation!Absent}]
      /\ pc \in [Requests -> {"idle"} \cup Deviation!Statements \cup Deviation!Final]
      /\ req \in [Requests -> Deviation!RequestRecords]
  BY DEF Deviation!TypeOK
<1>2. CASE Scenario!Arrive(r)
  <2>1. scenarios' = scenarios
    BY <1>2 DEF Scenario!Arrive, Scenario!LoadNode, Scenario!LoadForUpdate, Scenario!LoadForTransition
  <2>2. \A q \in Requests \ {r} : pc'[q] = pc[q] /\ req'[q] = req[q]
    BY <1>2, <1>t DEF Scenario!Arrive, Scenario!LoadNode, Scenario!LoadForUpdate,
      Scenario!LoadForTransition, Scenario!Go
  <2>3. pc'[r] = "insert" => req'[r].node \in ActiveNodes
    <3>1. SUFFICES ASSUME pc'[r] = "insert" PROVE req'[r].node \in ActiveNodes
      OBVIOUS
    <3>2. PICK u \in Users, n \in Nodes : Scenario!LoadNode(r, u, n)
      BY <1>2, <1>t, <3>1 DEF Scenario!Arrive, Scenario!LoadForUpdate, Scenario!LoadForTransition, Scenario!Go
    <3> QED
      BY <1>t, <3>1, <3>2 DEF Scenario!LoadNode, Scenario!Go, Scenario!NoRequest
  <2>4. InsertsHaveNodes'
    BY <1>1, <2>2, <2>3 DEF InsertsHaveNodes, ActiveNodes, NoNode
  <2> QED
    BY <1>1, <2>1, <2>4 DEF ScenariosHaveNodes, Scenario!Exists
<1>3. CASE Scenario!Insert(r)
  <2>1. PICK s \in Scenarios : scenarios' = [scenarios EXCEPT ![s] = Scenario!NewRow(r)]
    BY <1>3 DEF Scenario!Insert
  <2>2. nodes[scenarios'[s].node] # NoNode
    BY <1>3, <1>t, <2>1 DEF Scenario!Insert, Scenario!NewRow, InsertsHaveNodes
  <2>3. \A q \in Requests : pc'[q] = "insert" => pc[q] = "insert" /\ req'[q] = req[q]
    BY <1>3, <1>t DEF Scenario!Insert, Scenario!Go
  <2> QED
    BY <1>1, <1>t, <2>1, <2>2, <2>3 DEF ScenariosHaveNodes, InsertsHaveNodes, Scenario!Exists
<1>4. CASE Scenario!UpdateWithVersion(r) \/ Scenario!Transition(r)
  <2>1. \A q \in Requests : pc'[q] = "insert" => pc[q] = "insert" /\ req'[q] = req[q]
    BY <1>4, <1>t DEF Scenario!UpdateWithVersion, Scenario!Transition, Scenario!Go
  <2>2. ASSUME NEW s \in Scenarios, scenarios'[s] # scenarios[s]
        PROVE  scenarios'[s].node = scenarios[s].node /\ Scenario!Exists(s)
    <3>1. CASE Scenario!UpdateWithVersion(r)
      <4>1. s = req[r].scenario /\ Scenario!UpdateMatches(scenarios[s], r)
        BY <1>t, <2>2, <3>1 DEF Scenario!UpdateWithVersion
      <4>2. scenarios'[s] = Scenario!UpdatedRow(scenarios[s], r)
        BY <1>t, <4>1, <3>1 DEF Scenario!UpdateWithVersion
      <4>3. Scenario!Exists(s) /\ scenarios[s] \in Deviation!Rows
        BY <1>t, <4>1 DEF Scenario!UpdateMatches, Scenario!Editable, Scenario!Exists, Deviation!Absent
      <4> QED
        BY <4>2, <4>3 DEF Scenario!UpdatedRow, Deviation!Rows
    <3>2. CASE Scenario!Transition(r)
      <4>1. s = req[r].scenario /\ Scenario!TransitionMatches(scenarios[s], r) /\ pc[r] = "transition"
        BY <1>t, <2>2, <3>2 DEF Scenario!Transition
      <4>2. scenarios'[s] = Scenario!MovedRow(scenarios[s], r)
        BY <1>t, <4>1, <3>2 DEF Scenario!Transition
      <4>3. Scenario!Exists(s)
        BY <4>1 DEF Scenario!TransitionMatches, Scenario!Exists, Deviation!TypeOK, Deviation!Holds,
          Deviation!CanTransitionScenario, Deviation!ScenarioStateValues
      <4>4. scenarios[s] \in Deviation!Rows
        BY <1>t, <4>3 DEF Scenario!Exists, Deviation!Absent
      <4> QED
        BY <4>2, <4>3, <4>4 DEF Scenario!MovedRow, Deviation!Rows
    <3> QED
      BY <1>4, <3>1, <3>2
  <2> QED
    BY <1>1, <2>1, <2>2 DEF ScenariosHaveNodes, InsertsHaveNodes, Scenario!Exists
<1>5. CASE Scenario!Record(r) \/ Scenario!Reload(r) \/ Scenario!Abort(r)
  <2>1. scenarios' = scenarios /\ req' = req
    BY <1>5 DEF Scenario!Record, Scenario!Reload, Scenario!Abort
  <2>2. \A q \in Requests : pc'[q] = "insert" => pc[q] = "insert"
    BY <1>5, <1>t DEF Scenario!Record, Scenario!Reload, Scenario!Abort, Scenario!Go
  <2> QED
    BY <1>1, <2>1, <2>2 DEF ScenariosHaveNodes, InsertsHaveNodes, Scenario!Exists
<1> QED
  BY <1>0, <1>2, <1>3, <1>4, <1>5 DEF Scenario!Step

(* No scenario ever refers to a node that is not there, with node and      *)
(* scenario handlers interleaved in any way: a node is deactivated, never  *)
(* removed, between the read of a node and the insert that refers to it.   *)
THEOREM ScenariosHaveNodesCorrect == PlantSpec => []ScenariosHaveNodes
<1>1. PlantSpec => []Deviation!TypeOK
  <2>1. Deviation!VersionInv => Deviation!TypeOK
    BY DEF Deviation!VersionInv
  <2> QED
    BY <2>1, PlantVersionInv, PTL
<1>2. PlantInit /\ Deviation!TypeOK => NodeReferences
  BY DEF PlantInit, NodeReferences, InsertsHaveNodes, Scenario!Init
<1>3. ASSUME NodeInv, NodeReferences, Deviation!TypeOK', [PlantNext]_<<nodeVars, scenarioVars>>
      PROVE  NodeReferences'
  <2>1. CASE NodeHandlers
    <3>1. scenarios' = scenarios /\ pc' = pc /\ req' = req
      BY <2>1 DEF NodeHandlers, scenarioVars
    <3>2. \A n \in Nodes : nodes[n] # NoNode => nodes'[n] # NoNode
      BY <1>3, <2>1, NodesStay DEF NodeHandlers
    <3>3. \A s \in Scenarios : Scenario!Exists(s) => scenarios[s].node \in Nodes
      BY <1>3 DEF NodeReferences, Deviation!TypeOK, Scenario!Exists, Deviation!Rows, Deviation!Absent
    <3> QED
      BY <1>3, <3>1, <3>2, <3>3 DEF NodeReferences, ScenariosHaveNodes, InsertsHaveNodes, Scenario!Exists
  <2>2. CASE ScenarioHandlers
    BY <1>3, <2>2, ScenarioHandlersReference
  <2>3. CASE UNCHANGED <<nodeVars, scenarioVars>>
    BY <1>3, <2>3 DEF nodeVars, scenarioVars, NodeReferences, ScenariosHaveNodes, InsertsHaveNodes,
      Scenario!Exists
  <2> QED
    BY <1>3, <2>1, <2>2, <2>3 DEF PlantNext
<1>4. NodeReferences => ScenariosHaveNodes
  BY DEF NodeReferences
<1> QED
  BY <1>1, <1>2, <1>3, <1>4, PlantNodeInv, PTL DEF PlantSpec
=============================================================================
