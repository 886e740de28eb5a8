-------------------------- MODULE DeviationProofs ---------------------------
(* TLAPS proofs of the safety properties of DeviationScenario. *)
EXTENDS DeviationInvariant, TLAPS

LEMMA AbsentIsNoRow ==
  /\ Absent \notin Rows /\ Absent.version = 0 /\ Absent.state = "absent"
  /\ \A row \in Rows : row.version \in Nat \ {0} /\ row.state # "absent"
BY DEF Absent, Rows, ScenarioStateValues

LEMMA NoRequestType == NoRequest \in RequestRecords
BY VersionAssumption DEF NoRequest, RequestRecords, Absent

LEMMA TypeInit == Init => TypeOK
<1> SUFFICES ASSUME Init PROVE TypeOK
  OBVIOUS
<1>1. scenarios \in [Scenarios -> Rows \cup {Absent}]
  BY SeedAssumption DEF Init
<1>2. req \in [Requests -> RequestRecords]
  BY NoRequestType DEF Init
<1>3. \A r \in Requests : Holds(r)
  BY DEF Init, Holds, Won, NoRequest
<1> QED
  BY <1>1, <1>2, <1>3 DEF Init, TypeOK

LEMMA UpdatedType ==
  ASSUME TypeOK, NEW r \in Requests, NEW row \in Rows, req[r].before \in Rows
  PROVE  UpdatedRow(row, r) \in Rows
<1>1. EditedFields(r) \in [Fields -> Requests \cup {None}]
  BY DEF EditedFields, Rows
<1>2. req[r].version + 1 \in Nat \ {0}
  BY VersionAssumption DEF TypeOK, RequestRecords
<1> QED
  BY <1>1, <1>2 DEF UpdatedRow, Rows

LEMMA MovedType ==
  ASSUME TypeOK, NEW r \in Requests, NEW row \in Rows, req[r].to \in ScenarioStateValues,
         req[r].user \in Users
  PROVE  MovedRow(row, r) \in Rows
<1>2. req[r].version + 1 \in Nat \ {0}
  BY VersionAssumption DEF TypeOK, RequestRecords
<1> QED
  BY <1>2 DEF MovedRow, Rows

LEMMA MovesToStates ==
  ASSUME NEW from, NEW to, CanTransitionScenario(from, to)
  PROVE  from \in ScenarioStateValues /\ to \in ScenarioStateValues
BY DEF CanTransitionScenario, ScenarioStateValues, scenarioTransitions

(* A step that changes at most what one request holds and where it is.     *)
LEMMA RequestTypes ==
  ASSUME TypeOK, NEW r \in Requests, NEW h \in RequestRecords, req' = [req EXCEPT ![r] = h],
         NEW st \in {"idle"} \cup Statements \cup Final, Go(r, st), Holds(r)'
  PROVE  /\ req' \in [Requests -> RequestRecords]
         /\ pc' \in [Requests -> {"idle"} \cup Statements \cup Final]
         /\ \A q \in Requests : Holds(q)'
<1>1. \A q \in Requests : q # r => Holds(q)'
  BY DEF TypeOK, Go, Holds
<1> QED
  BY <1>1 DEF TypeOK, Go

LEMMA ArriveType ==
  ASSUME TypeOK, NEW r \in Requests, Arrive(r)
  PROVE  TypeOK'
<1>0. req[r] \in RequestRecords /\ Holds(r)
  BY DEF TypeOK
<1>1. ASSUME NEW u \in Users, NEW n \in Nodes, LoadNode(r, u, n) PROVE TypeOK'
  <2>1. CASE n \in active
    <3> DEFINE h == [NoRequest EXCEPT !.op = "create", !.user = u, !.node = n]
    <3>1. h \in RequestRecords
      BY NoRequestType DEF RequestRecords, Operations, NoRequest
    <3>2. req' = [req EXCEPT ![r] = h] /\ Go(r, "insert")
      BY <1>1, <2>1 DEF LoadNode
    <3>3. Holds(r)'
      BY <3>2 DEF TypeOK, Go, Holds, NoRequest, Operations, Won
    <3> QED
      BY <1>1, <3>1, <3>2, <3>3, RequestTypes DEF LoadNode, TypeOK, Statements
  <2>2. CASE n \notin active
    <3>1. Go(r, "refused") /\ req' = req /\ UNCHANGED <<scenarios, active, audits>>
      BY <1>1, <2>2 DEF LoadNode
    <3>2. Holds(r)'
      BY <1>0, <1>1, <3>1 DEF LoadNode, TypeOK, Go, Holds, Won, NoRequest
    <3> QED
      BY <1>0, <3>1, <3>2, RequestTypes DEF TypeOK, Final
  <2> QED
    BY <2>1, <2>2
<1>2. ASSUME NEW u \in Users, NEW s \in Scenarios, NEW v \in 1..MaxVersion,
             NEW edits \in SUBSET Fields, LoadForUpdate(r, u, s, edits, v)
      PROVE  TypeOK'
  <2>1. CASE scenarios[s].state \in Editable
    <3> DEFINE h == [NoRequest EXCEPT !.op = "update", !.user = u, !.scenario = s,
                       !.edits = edits, !.version = v, !.before = scenarios[s]]
    <3>0. scenarios[s] \in Rows \cup {Absent} /\ v \in 0..MaxVersion
      BY VersionAssumption DEF TypeOK
    <3>1. h \in RequestRecords
      BY <3>0 DEF RequestRecords, Operations, NoRequest
    <3>2. req' = [req EXCEPT ![r] = h] /\ Go(r, "update")
      BY <1>2, <2>1 DEF LoadForUpdate
    <3>3. Holds(r)'
      BY <2>1, <3>2 DEF TypeOK, Go, Holds, NoRequest, Operations, Won
    <3> QED
      BY <1>2, <3>1, <3>2, <3>3, RequestTypes DEF LoadForUpdate, TypeOK, Statements
  <2>2. CASE scenarios[s].state \notin Editable
    <3>1. Go(r, "refused") /\ req' = req /\ UNCHANGED <<scenarios, active, audits>>
      BY <1>2, <2>2 DEF LoadForUpdate
    <3>2. Holds(r)'
      BY <1>0, <1>2, <3>1 DEF LoadForUpdate, TypeOK, Go, Holds, Won, NoRequest
    <3> QED
      BY <1>0, <3>1, <3>2, RequestTypes DEF TypeOK, Final
  <2> QED
    BY <2>1, <2>2
<1>3. ASSUME NEW u \in Users, NEW s \in Scenarios, NEW v \in 1..MaxVersion,
             NEW to \in ScenarioStateValues, LoadForTransition(r, u, s, to, v)
      PROVE  TypeOK'
  <2>1. CASE MayMove(scenarios[s], u, to)
    <3> DEFINE h == [NoRequest EXCEPT !.op = "transition", !.user = u, !.scenario = s,
                       !.to = to, !.version = v, !.before = scenarios[s]]
    <3>0. scenarios[s] \in Rows \cup {Absent} /\ v \in 0..MaxVersion
      BY VersionAssumption DEF TypeOK
    <3>1. h \in RequestRecords
      BY <3>0 DEF RequestRecords, Operations, NoRequest
    <3>2. req' = [req EXCEPT ![r] = h] /\ Go(r, "transition")
      BY <1>3, <2>1 DEF LoadForTransition
    <3>3. /\ CanTransitionScenario(scenarios[s].state, to)
          /\ to \in ReviewActions => scenarios[s].author # u /\ Role[u] \in Reviewers
      BY <2>1 DEF MayMove, ReviewActions
    <3>4. Holds(r)'
      BY <3>2, <3>3 DEF TypeOK, Go, Holds, NoRequest, Operations, Won
    <3> QED
      BY <1>3, <3>1, <3>2, <3>4, RequestTypes DEF LoadForTransition, TypeOK, Statements
  <2>2. CASE ~MayMove(scenarios[s], u, to)
    <3>1. Go(r, "refused") /\ req' = req /\ UNCHANGED <<scenarios, active, audits>>
      BY <1>3, <2>2 DEF LoadForTransition
    <3>2. Holds(r)'
      BY <1>0, <1>3, <3>1 DEF LoadForTransition, TypeOK, Go, Holds, Won, NoRequest
    <3> QED
      BY <1>0, <3>1, <3>2, RequestTypes DEF TypeOK, Final
  <2> QED
    BY <2>1, <2>2
<1> QED
  BY <1>1, <1>2, <1>3 DEF Arrive

(* Statement of request r replaces row s by new, and after is what the     *)
(* request then believes the row to be.                                    *)
Write(r, s, new, after) ==
  /\ scenarios' = [scenarios EXCEPT ![s] = new]
  /\ req' = [req EXCEPT ![r] = [req[r] EXCEPT !.scenario = s, !.after = after]]
  /\ pc[r] \in {"insert", "update", "transition"} /\ Go(r, "record")
  /\ new.version = req[r].version + 1 /\ after.version = new.version
  /\ scenarios[s].version = req[r].version
  /\ req[r].before = scenarios[s] => after = new
  /\ \/ /\ pc[r] = "insert" /\ scenarios[s] = Absent /\ req[r].before = Absent
        /\ new.state = "draft" /\ new.reviewer = None
     \/ /\ pc[r] = "update" /\ scenarios[s] \in Rows /\ req[r].scenario = s
        /\ new = UpdatedRow(scenarios[s], r) /\ scenarios[s].state \in Editable
     \/ /\ pc[r] = "transition" /\ scenarios[s] \in Rows /\ req[r].scenario = s
        /\ new = MovedRow(scenarios[s], r)
        /\ scenarios[s].state = req[r].before.state
        /\ CanTransitionScenario(scenarios[s].state, req[r].to)

NoWrite(r) ==
  UNCHANGED <<scenarios, req>> /\ Go(r, "refused") /\ pc[r] \in {"update", "transition"}

LEMMA Writes ==
  ASSUME TypeOK, NEW r \in Requests, Insert(r) \/ UpdateWithVersion(r) \/ Transition(r)
  PROVE  \/ NoWrite(r)
         \/ \E s \in Scenarios, new \in Rows, after \in Rows : Write(r, s, new, after)
<1>0. req[r] \in RequestRecords /\ Holds(r) /\ req[r].version \in Nat
  BY VersionAssumption DEF TypeOK, RequestRecords
<1>1. CASE Insert(r)
  <2>1. PICK s \in Scenarios :
          /\ ~Exists(s)
          /\ scenarios' = [scenarios EXCEPT ![s] = NewRow(r)]
          /\ req' = [req EXCEPT ![r].scenario = s, ![r].after = NewRow(r)]
    BY <1>1 DEF Insert
  <2>2. req' = [req EXCEPT ![r] = [req[r] EXCEPT !.scenario = s, !.after = NewRow(r)]]
    BY <1>0, <2>1 DEF TypeOK, RequestRecords
  <2>3. req[r].op = "create" /\ req[r].user \in Users /\ req[r].node \in Nodes
    BY <1>0, <1>1 DEF Insert, Holds
  <2>4. req[r].version = 0 /\ req[r].before = Absent
    BY <1>0, <2>3 DEF Holds
  <2>5. NewRow(r) \in Rows
    BY <2>3 DEF NewRow, Rows, ScenarioStateValues
  <2>6. scenarios[s] = Absent
    BY <2>1, AbsentIsNoRow DEF Exists, TypeOK
  <2>7. /\ NewRow(r).version = 1 /\ NewRow(r).state = "draft" /\ NewRow(r).reviewer = None
        /\ pc[r] = "insert" /\ Go(r, "record")
    BY <1>1 DEF NewRow, Insert
  <2>8. Absent.version = 0
    BY AbsentIsNoRow
  <2> DEFINE new == NewRow(r)
  <2>9. new.version = req[r].version + 1 /\ scenarios[s].version = req[r].version
    BY <2>4, <2>6, <2>7, <2>8
  <2>10. /\ pc[r] = "insert" /\ scenarios[s] = Absent /\ req[r].before = Absent
         /\ new.state = "draft" /\ new.reviewer = None
    BY <2>4, <2>6, <2>7
  <2>11. Write(r, s, new, new)
    <3> HIDE DEF new
    <3> QED
      BY <2>1, <2>2, <2>7, <2>9, <2>10, Zenon DEF Write, new
  <2> QED
    BY <2>5, <2>11
<1>2. CASE UpdateWithVersion(r)
  <2> DEFINE s == req[r].scenario
  <2>1. /\ pc[r] = "update" /\ s \in Scenarios /\ req[r].before.state \in Editable
        /\ req[r].before \in Rows \cup {Absent} /\ scenarios[s] \in Rows \cup {Absent}
    BY <1>0, <1>2 DEF UpdateWithVersion, Holds, TypeOK, RequestRecords
  <2>2. req[r].before \in Rows
    BY <2>1, AbsentIsNoRow DEF Editable
  <2>3. CASE UpdateMatches(scenarios[s], r)
    <3>1. scenarios[s] \in Rows
      BY <2>1, <2>3, AbsentIsNoRow DEF UpdateMatches, Editable
    <3> DEFINE new == UpdatedRow(scenarios[s], r)
               after == UpdatedRow(req[r].before, r)
    <3>2. new \in Rows /\ after \in Rows
      BY <2>2, <3>1, UpdatedType
    <3>3. new.version = req[r].version + 1 /\ after.version = req[r].version + 1
      BY <2>2, <3>1 DEF UpdatedRow, Rows
    <3>4. /\ scenarios' = [scenarios EXCEPT ![s] = new] /\ Go(r, "record")
          /\ req' = [req EXCEPT ![r] = [req[r] EXCEPT !.scenario = s, !.after = after]]
      BY <1>0, <1>2, <2>3 DEF UpdateWithVersion, TypeOK, RequestRecords
    <3>5. scenarios[s].version = req[r].version /\ scenarios[s].state \in Editable
      BY <2>3 DEF UpdateMatches
    <3>6. req[r].before = scenarios[s] => after = new
      OBVIOUS
    <3>7. Write(r, s, new, after)
      BY <2>1, <3>1, <3>3, <3>4, <3>5, <3>6 DEF Write
    <3> QED
      BY <2>1, <3>2, <3>7
  <2>4. CASE ~UpdateMatches(scenarios[s], r)
    BY <1>2, <2>1, <2>4 DEF UpdateWithVersion, NoWrite
  <2> QED
    BY <2>3, <2>4
<1>3. CASE Transition(r)
  <2> DEFINE s == req[r].scenario
  <2>1. /\ pc[r] = "transition" /\ s \in Scenarios /\ req[r].user \in Users
        /\ CanTransitionScenario(req[r].before.state, req[r].to)
        /\ req[r].before \in Rows \cup {Absent} /\ scenarios[s] \in Rows \cup {Absent}
    BY <1>0, <1>3 DEF Transition, Holds, TypeOK, RequestRecords
  <2>2. req[r].before \in Rows /\ req[r].to \in ScenarioStateValues
    BY <2>1, MovesToStates, AbsentIsNoRow DEF ScenarioStateValues
  <2>3. CASE TransitionMatches(scenarios[s], r)
    <3>1. scenarios[s] \in Rows
      BY <2>1, <2>2, <2>3, AbsentIsNoRow DEF TransitionMatches
    <3> DEFINE new == MovedRow(scenarios[s], r)
               after == MovedRow(req[r].before, r)
    <3>2. new \in Rows /\ after \in Rows
      BY <2>1, <2>2, <3>1, MovedType
    <3>3. new.version = req[r].version + 1 /\ after.version = req[r].version + 1
      BY <2>2, <3>1 DEF MovedRow, Rows
    <3>4. /\ scenarios' = [scenarios EXCEPT ![s] = new] /\ Go(r, "record")
          /\ req' = [req EXCEPT ![r] = [req[r] EXCEPT !.scenario = s, !.after = after]]
      BY <1>0, <1>3, <2>3 DEF Transition, TypeOK, RequestRecords
    <3>5. scenarios[s].version = req[r].version /\ scenarios[s].state = req[r].before.state
      BY <2>3 DEF TransitionMatches
    <3>6. req[r].before = scenarios[s] => after = new
      OBVIOUS
    <3>7. Write(r, s, new, after)
      BY <2>1, <3>1, <3>3, <3>4, <3>5, <3>6 DEF Write
    <3> QED
      BY <2>1, <3>2, <3>7
  <2>4. CASE ~TransitionMatches(scenarios[s], r)
    BY <1>3, <2>1, <2>4 DEF Transition, NoWrite
  <2> QED
    BY <2>3, <2>4
<1> QED
  BY <1>1, <1>2, <1>3

LEMMA StepType ==
  ASSUME TypeOK, NEW r \in Requests, Step(r) \/ Abort(r)
  PROVE  TypeOK'
<1>0. req[r] \in RequestRecords /\ Holds(r)
  BY DEF TypeOK
<1>1. CASE Insert(r) \/ UpdateWithVersion(r) \/ Transition(r)
  <2>0. active' = active /\ audits' = audits
    BY <1>1 DEF Insert, UpdateWithVersion, Transition
  <2>1. CASE NoWrite(r)
    <3>1. Holds(r)'
      BY <1>0, <2>1 DEF NoWrite, TypeOK, Go, Holds, Won
    <3> QED
      BY <1>0, <2>0, <2>1, <3>1, RequestTypes DEF NoWrite, TypeOK, Final
  <2>2. ASSUME NEW s \in Scenarios, NEW new \in Rows, NEW after \in Rows,
               Write(r, s, new, after)
        PROVE  TypeOK'
    <3>1. [req[r] EXCEPT !.scenario = s, !.after = after] \in RequestRecords
      BY <1>0 DEF RequestRecords
    <3>2. Holds(r)'
      BY <1>0, <2>2 DEF Write, TypeOK, Go, Holds, Won, RequestRecords
    <3> QED
      BY <2>0, <2>2, <3>1, <3>2, RequestTypes DEF Write, TypeOK, Statements
  <2> QED
    BY <1>1, <2>1, <2>2, Writes
<1>2. CASE Record(r)
  <2>1. audits' \subseteq AuditRecords
    BY <1>0, <1>2 DEF Record, TypeOK, AuditRecords, RequestRecords, Holds, Won
  <2>2. PICK st \in {"answered", "reload"} : Go(r, st)
    BY <1>2 DEF Record
  <2>3. Holds(r)'
    BY <1>0, <1>2, <2>2 DEF Record, TypeOK, Go, Holds, Won
  <2> QED
    BY <1>0, <1>2, <2>1, <2>2, <2>3, RequestTypes DEF Record, TypeOK, Statements, Final
<1>3. CASE Reload(r)
  <2>1. Holds(r)'
    BY <1>0, <1>3 DEF Reload, TypeOK, Go, Holds, Won
  <2> QED
    BY <1>0, <1>3, <2>1, RequestTypes DEF Reload, TypeOK, Final
<1>4. CASE Abort(r)
  <2>1. Holds(r)'
    BY <1>0, <1>4 DEF Abort, Statements, TypeOK, Go, Holds, Won
  <2> QED
    BY <1>0, <1>4, <2>1, RequestTypes DEF Abort, TypeOK, Final
<1> QED
  BY <1>1, <1>2, <1>3, <1>4 DEF Step

LEMMA TypeNext == TypeOK /\ [Next]_vars => TypeOK'
<1> SUFFICES ASSUME TypeOK, [Next]_vars PROVE TypeOK'
  OBVIOUS
<1>1. ASSUME NEW n \in Nodes, SwitchNode(n) PROVE TypeOK'
  BY <1>1 DEF SwitchNode, TypeOK, Holds
<1>2. CASE UNCHANGED vars
  BY <1>2 DEF vars, TypeOK, Holds
<1> QED
  BY <1>1, <1>2, ArriveType, StepType DEF Next

(* Every variable keeps its type, and no write is issued on a row that was *)
(* read in a state, or by a user, forbidding it.                           *)
THEOREM TypeCorrect == Spec => []TypeOK
BY TypeInit, TypeNext, PTL DEF Spec

-----------------------------------------------------------------------------
(* The inductive invariant: request r reads, request r writes, or neither. *)
Read(r) ==
  /\ pc[r] = "idle" /\ \E st : Go(r, st)
  /\ UNCHANGED <<scenarios, audits>>
  /\ \/ req' = req
     \/ \E h \in RequestRecords :
          /\ req' = [req EXCEPT ![r] = h] /\ h.after = Absent
          /\ h.scenario # None => h.before = scenarios[h.scenario]

LEMMA Reads ==
  ASSUME TypeOK, NEW r \in Requests, Arrive(r)
  PROVE  Read(r)
<1>1. ASSUME NEW u \in Users, NEW n \in Nodes, LoadNode(r, u, n) PROVE Read(r)
  <2> DEFINE h == [NoRequest EXCEPT !.op = "create", !.user = u, !.node = n]
  <2>1. h \in RequestRecords /\ h.after = Absent /\ h.scenario = None
    BY NoRequestType DEF RequestRecords, Operations, NoRequest
  <2> QED
    BY <1>1, <2>1 DEF LoadNode, Read
<1>2. ASSUME NEW u \in Users, NEW s \in Scenarios, NEW v \in 1..MaxVersion,
             NEW edits \in SUBSET Fields, LoadForUpdate(r, u, s, edits, v)
      PROVE  Read(r)
  <2> DEFINE h == [NoRequest EXCEPT !.op = "update", !.user = u, !.scenario = s,
                     !.edits = edits, !.version = v, !.before = scenarios[s]]
  <2>0. scenarios[s] \in Rows \cup {Absent} /\ v \in 0..MaxVersion
    BY VersionAssumption DEF TypeOK
  <2>1. h \in RequestRecords /\ h.after = Absent /\ h.scenario = s /\ h.before = scenarios[s]
    BY <2>0 DEF RequestRecords, Operations, NoRequest
  <2> QED
    BY <1>2, <2>1 DEF LoadForUpdate, Read
<1>3. ASSUME NEW u \in Users, NEW s \in Scenarios, NEW v \in 1..MaxVersion,
             NEW to \in ScenarioStateValues, LoadForTransition(r, u, s, to, v)
      PROVE  Read(r)
  <2> DEFINE h == [NoRequest EXCEPT !.op = "transition", !.user = u, !.scenario = s,
                     !.to = to, !.version = v, !.before = scenarios[s]]
  <2>0. scenarios[s] \in Rows \cup {Absent} /\ v \in 0..MaxVersion
    BY VersionAssumption DEF TypeOK
  <2>1. h \in RequestRecords /\ h.after = Absent /\ h.scenario = s /\ h.before = scenarios[s]
    BY <2>0 DEF RequestRecords, Operations, NoRequest
  <2> QED
    BY <1>3, <2>1 DEF LoadForTransition, Read
<1> QED
  BY <1>1, <1>2, <1>3 DEF Arrive

(* A fresh read is of the row as it is, at the version it has.             *)
LEMMA ReadKeeps ==
  ASSUME VersionInv, NEW r \in Requests, Read(r)
  PROVE  ReadRows' /\ WrittenRows' /\ WrittenIsRead' /\ AuditsOfRequests' /\ OneChangePerVersion'
<1>0. scenarios' = scenarios /\ audits' = audits
  BY DEF Read
<1>1. AuditsOfRequests'
  <2>1. \A a \in audits : a.request # r
    BY DEF VersionInv, AuditsOfRequests, Read, Final
  <2>2. \A q \in Requests : q # r => req'[q] = req[q] /\ pc'[q] = pc[q]
    BY DEF VersionInv, TypeOK, Read, Go
  <2>3. \A a \in audits : a.request \in Requests
    BY DEF VersionInv, TypeOK, AuditRecords
  <2> QED
    BY <1>0, <2>1, <2>2, <2>3 DEF VersionInv, AuditsOfRequests, Changed
<1>2. CASE req' = req
  BY <1>0, <1>1, <1>2
     DEF VersionInv, ReadRows, WrittenRows, WrittenIsRead, OneChangePerVersion, Changed, Shown
<1>3. ASSUME NEW h \in RequestRecords, req' = [req EXCEPT ![r] = h], h.after = Absent,
             h.scenario # None => h.before = scenarios[h.scenario]
      PROVE  ReadRows' /\ WrittenRows' /\ WrittenIsRead' /\ OneChangePerVersion'
  <2>1. req'[r] = h /\ \A q \in Requests : q # r => req'[q] = req[q]
    BY <1>3 DEF VersionInv, TypeOK
  <2>2. ~Changed(r)' /\ \A q \in Requests : q # r => (Changed(q)' <=> Changed(q))
                                                  /\ (Shown(q)' <=> Shown(q))
    BY <1>3, <2>1 DEF Changed, Shown
  <2>3. ReadRows'
    <3>1. h.scenario \in Scenarios => scenarios[h.scenario].version \in Nat
      BY AbsentIsNoRow DEF VersionInv, TypeOK
    <3> QED
      BY <1>0, <1>3, <2>1, <3>1, NoneAssumption DEF VersionInv, ReadRows
  <2>4. WrittenRows'
    BY <1>0, <2>1, <2>2 DEF VersionInv, WrittenRows
  <2>5. WrittenIsRead'
    <3> SUFFICES ASSUME NEW r1 \in Requests, NEW r2 \in Requests, r1 # r,
                        Changed(r1), Shown(r1), req'[r2].scenario = req[r1].scenario,
                        req'[r2].before.version = req[r1].after.version
                 PROVE  req'[r2].before = req[r1].after
      BY <2>1, <2>2 DEF WrittenIsRead
    <3>1. CASE r2 = r
      BY <1>3, <2>1, <3>1, NoneAssumption DEF VersionInv, WrittenRows
    <3>2. CASE r2 # r
      BY <2>1, <3>2 DEF VersionInv, WrittenIsRead
    <3> QED
      BY <3>1, <3>2
  <2>6. OneChangePerVersion'
    BY <2>1, <2>2 DEF VersionInv, OneChangePerVersion
  <2> QED
    BY <2>3, <2>4, <2>5, <2>6
<1> QED
  BY <1>1, <1>2, <1>3 DEF Read

(* A write moves the row to a version nobody has read or written before.   *)
LEMMA WriteKeeps ==
  ASSUME VersionInv, NEW r \in Requests, NEW s \in Scenarios, NEW new \in Rows,
         NEW after \in Rows, Write(r, s, new, after), audits' = audits
  PROVE  ReadRows' /\ WrittenRows' /\ WrittenIsRead' /\ AuditsOfRequests' /\ OneChangePerVersion'
<1>1. /\ scenarios[s] \in Rows \cup {Absent} /\ scenarios[s].version \in Nat
      /\ scenarios'[s] = new /\ \A t \in Scenarios : t # s => scenarios'[t] = scenarios[t]
  BY AbsentIsNoRow DEF Write, VersionInv, TypeOK
<1>2. /\ \A q \in Requests : q # r => req'[q] = req[q] /\ pc'[q] = pc[q]
      /\ req'[r].scenario = s /\ req'[r].after = after /\ req'[r].before = req[r].before
      /\ req'[r].version = req[r].version
  BY DEF Write, VersionInv, TypeOK, Go, RequestRecords
<1>3. /\ new.version = scenarios[s].version + 1 /\ after.version = new.version
      /\ req[r].version = scenarios[s].version
  BY DEF Write
<1>4. \A q \in Requests :
        /\ req[q].before \in Rows \cup {Absent} /\ req[q].before.version \in Nat
        /\ Changed(q) => req[q].after \in Rows /\ req[q].after.version \in Nat \ {0}
  BY AbsentIsNoRow DEF VersionInv, TypeOK, RequestRecords, Changed
<1>5. Changed(r)' /\ (Shown(r)' <=> Shown(r))
      /\ \A q \in Requests : q # r => (Changed(q)' <=> Changed(q)) /\ (Shown(q)' <=> Shown(q))
  BY <1>2, AbsentIsNoRow DEF Changed, Shown
<1>6. /\ req[r].before.version <= scenarios[s].version
      /\ req[r].before.version = scenarios[s].version => req[r].before = scenarios[s]
      /\ req[r].before # Absent => req[r].before.author = new.author
  <2>1. CASE pc[r] = "insert"
    BY <2>1, AbsentIsNoRow DEF Write
  <2>2. CASE pc[r] # "insert"
    <3>1. scenarios[s] \in Rows /\ req[r].scenario = s
          /\ (new = UpdatedRow(scenarios[s], r) \/ new = MovedRow(scenarios[s], r))
      BY <2>2 DEF Write
    <3>2. new.author = scenarios[s].author
      BY <3>1 DEF UpdatedRow, MovedRow, Rows
    <3> QED
      BY <3>1, <3>2 DEF VersionInv, ReadRows
  <2> QED
    BY <2>1, <2>2
<1>7. scenarios[s] # Absent => new.author = scenarios[s].author
  BY DEF Write, UpdatedRow, MovedRow, Rows
<1>8. ReadRows'
  <2> SUFFICES ASSUME NEW q \in Requests, req'[q].scenario \in Scenarios
               PROVE  /\ req'[q].before.version <= scenarios'[req'[q].scenario].version
                      /\ req'[q].before.version = scenarios'[req'[q].scenario].version
                           => req'[q].before = scenarios'[req'[q].scenario]
                      /\ req'[q].before # Absent
                           => req'[q].before.author = scenarios'[req'[q].scenario].author
    BY DEF ReadRows
  <2>1. CASE q = r
    BY <1>1, <1>2, <1>3, <1>4, <1>6, <2>1
  <2>2. CASE q # r /\ req[q].scenario = s
    <3>1. req[q].before.version <= scenarios[s].version
          /\ (req[q].before # Absent => req[q].before.author = scenarios[s].author)
      BY <2>2 DEF VersionInv, ReadRows
    <3>2. req[q].before # Absent => scenarios[s] # Absent
      BY <1>4, <3>1, AbsentIsNoRow
    <3> QED
      BY <1>1, <1>2, <1>3, <1>4, <1>7, <2>2, <3>1, <3>2
  <2>3. CASE q # r /\ req[q].scenario # s
    BY <1>1, <1>2, <2>3 DEF VersionInv, ReadRows
  <2> QED
    BY <2>1, <2>2, <2>3
<1>9. WrittenRows'
  <2> SUFFICES ASSUME NEW q \in Requests, Changed(q)'
               PROVE  /\ req'[q].scenario \in Scenarios
                      /\ req'[q].after.version = req'[q].version + 1
                      /\ req'[q].after.version <= scenarios'[req'[q].scenario].version
                      /\ Shown(q)' =>
                           /\ req'[q].before.version = req'[q].version
                           /\ req'[q].after.version = scenarios'[req'[q].scenario].version =>
                                req'[q].after = scenarios'[req'[q].scenario]
    BY DEF WrittenRows
  <2>1. CASE q = r
    <3>1. Shown(r) => req[r].before.version = req[r].version
      BY <1>1, <1>3, <1>4, <1>6 DEF Shown
    <3>2. Shown(r) => after = new
      BY <1>3, <1>6, <3>1 DEF Write
    <3> QED
      BY <1>1, <1>2, <1>3, <1>5, <2>1, <3>1, <3>2
  <2>2. CASE q # r
    <3>1. /\ req[q].scenario \in Scenarios
          /\ req[q].after.version = req[q].version + 1
          /\ req[q].after.version <= scenarios[req[q].scenario].version
          /\ Shown(q) =>
               /\ req[q].before.version = req[q].version
               /\ req[q].after.version = scenarios[req[q].scenario].version =>
                    req[q].after = scenarios[req[q].scenario]
          /\ req[q].after.version \in Nat
      BY <1>4, <1>5, <2>2 DEF VersionInv, WrittenRows
    <3>2. CASE req[q].scenario = s
      BY <1>1, <1>2, <1>3, <1>5, <2>2, <3>1, <3>2
    <3>3. CASE req[q].scenario # s
      BY <1>1, <1>2, <1>5, <2>2, <3>1, <3>3
    <3> QED
      BY <3>2, <3>3
  <2> QED
    BY <2>1, <2>2
<1>10. WrittenIsRead'
  <2> SUFFICES ASSUME NEW r1 \in Requests, NEW r2 \in Requests, Changed(r1)', Shown(r1)',
                      req'[r2].scenario = req'[r1].scenario,
                      req'[r2].before.version = req'[r1].after.version
               PROVE  req'[r2].before = req'[r1].after
    BY DEF WrittenIsRead
  <2>1. CASE r1 = r
    <3>1. req'[r2].before.version <= scenarios[s].version
      BY <1>2, <1>6, <2>1 DEF VersionInv, ReadRows
    <3> QED
      BY <1>1, <1>2, <1>3, <1>4, <2>1, <3>1
  <2>2. CASE r1 # r /\ r2 = r
    <3>1. CASE pc[r] = "insert"
      BY <1>2, <1>4, <1>5, <2>2, <3>1, AbsentIsNoRow DEF Write
    <3>2. CASE pc[r] # "insert"
      <4>1. req[r].scenario = s
        BY <3>2 DEF Write
      <4> QED
        BY <1>2, <1>5, <2>2, <4>1 DEF VersionInv, WrittenIsRead
    <3> QED
      BY <3>1, <3>2
  <2>3. CASE r1 # r /\ r2 # r
    BY <1>2, <1>5, <2>3 DEF VersionInv, WrittenIsRead
  <2> QED
    BY <2>1, <2>2, <2>3
<1>11. AuditsOfRequests'
  <2>1. \A a \in audits : a.request # r /\ a.request \in Requests
    BY DEF VersionInv, TypeOK, AuditRecords, AuditsOfRequests, Write, Final
  <2> QED
    BY <1>2, <1>5, <2>1 DEF VersionInv, AuditsOfRequests
<1>12. OneChangePerVersion'
  <2>1. \A q \in Requests : Changed(q) /\ req[q].scenario = s => req[q].after.version # new.version
    BY <1>1, <1>3, <1>4 DEF VersionInv, WrittenRows
  <2> QED
    BY <1>2, <1>3, <1>5, <2>1 DEF VersionInv, OneChangePerVersion
<1> QED
  BY <1>8, <1>9, <1>10, <1>11, <1>12

(* The author check is made on the row read, the write on the row there is: *)
(* both have the same author.                                              *)
LEMMA WriteReviewed ==
  ASSUME VersionInv, NEW r \in Requests, NEW s \in Scenarios, NEW new \in Rows,
         NEW after \in Rows, Write(r, s, new, after)
  PROVE  ReviewedByOther'
<1>1. scenarios'[s] = new /\ \A t \in Scenarios : t # s => scenarios'[t] = scenarios[t]
  BY DEF Write, VersionInv, TypeOK
<1>2. Reviewed(scenarios[s])
  BY DEF VersionInv, ReviewedByOther
<1>3. Reviewed(new)
  <2>1. CASE pc[r] = "insert"
    BY <2>1 DEF Write, Reviewed, ReviewActions
  <2>2. CASE pc[r] = "update"
    <3>1. new.state = scenarios[s].state /\ new.author = scenarios[s].author
          /\ new.reviewer = scenarios[s].reviewer
      BY <2>2 DEF Write, UpdatedRow, Rows
    <3> QED
      BY <1>2, <3>1 DEF Reviewed
  <2>3. CASE pc[r] = "transition"
    <3>1. /\ scenarios[s] \in Rows /\ req[r].scenario = s /\ new = MovedRow(scenarios[s], r)
          /\ scenarios[s].state = req[r].before.state
      BY <2>3 DEF Write
    <3>2. /\ req[r].to \in ReviewActions => req[r].before.author # req[r].user
                                         /\ Role[req[r].user] \in Reviewers
          /\ req[r].user \in Users
      BY <2>3 DEF VersionInv, TypeOK, Holds
    <3>3. req[r].before # Absent
      BY <3>1, AbsentIsNoRow
    <3>4. req[r].before.author = scenarios[s].author
      BY <3>1, <3>3 DEF VersionInv, ReadRows
    <3>5. /\ new.state = req[r].to /\ new.author = scenarios[s].author
          /\ new.reviewer = IF req[r].to \in ReviewActions THEN req[r].user
                            ELSE scenarios[s].reviewer
      BY <3>1 DEF MovedRow, Rows
    <3> QED
      BY <1>2, <3>2, <3>4, <3>5, NoneAssumption DEF Reviewed
  <2> QED
    BY <2>1, <2>2, <2>3 DEF Write
<1> QED
  BY <1>1, <1>2, <1>3 DEF VersionInv, ReviewedByOther

LEMMA VersionInit == Init => VersionInv
<1> SUFFICES ASSUME Init PROVE VersionInv
  OBVIOUS
<1>1. \A r \in Requests : req[r] = NoRequest
  BY DEF Init
<1>2. NoRequest.scenario \notin Scenarios /\ NoRequest.after = Absent
  BY NoneAssumption DEF NoRequest
<1>3. \A s \in Scenarios : scenarios[s] \in Seeds
  BY DEF Init
<1>4. Reviewed(Absent)
  BY DEF Reviewed, Absent, ReviewActions
<1>5. ReviewedByOther
  BY <1>3, <1>4, SeedAssumption DEF ReviewedByOther
<1>6. audits = {}
  BY DEF Init
<1> QED
  BY <1>1, <1>2, <1>5, <1>6, TypeInit
     DEF VersionInv, ReadRows, WrittenRows, WrittenIsRead, AuditsOfRequests,
         OneChangePerVersion, Changed

(* A step that neither reads nor writes the row: it may leave an audit row *)
(* of what the request holds.                                              *)
LEMMA RestKeeps ==
  ASSUME VersionInv, NEW r \in Requests, NoWrite(r) \/ Record(r) \/ Reload(r) \/ Abort(r),
         audits' = audits \/ Record(r)
  PROVE  /\ ReadRows' /\ WrittenRows' /\ WrittenIsRead' /\ AuditsOfRequests'
         /\ OneChangePerVersion' /\ ReviewedByOther'
<1>1. scenarios' = scenarios /\ req' = req
  BY DEF NoWrite, Record, Reload, Abort
<1>2. AuditsOfRequests'
  <2>1. \A q \in Requests : q # r => pc'[q] = pc[q]
    BY DEF VersionInv, TypeOK, Go, NoWrite, Record, Reload, Abort
  <2>2. pc'[r] \in {"reload"} \cup Final
    BY DEF VersionInv, TypeOK, Go, NoWrite, Record, Reload, Abort, Final
  <2>3. \A a \in audits : a.request \in Requests
    BY DEF VersionInv, TypeOK, AuditRecords
  <2>4. CASE audits' = audits
    BY <1>1, <2>1, <2>2, <2>3, <2>4 DEF VersionInv, AuditsOfRequests, Changed
  <2>5. CASE Record(r)
    <3>1. Changed(r)
      BY <2>5, AbsentIsNoRow DEF Record, VersionInv, TypeOK, Holds, Won, Changed
    <3> QED
      BY <1>1, <2>1, <2>2, <2>3, <2>5, <3>1 DEF VersionInv, AuditsOfRequests, Changed, Record
  <2> QED
    BY <2>4, <2>5
<1> QED
  BY <1>1, <1>2
     DEF VersionInv, ReadRows, WrittenRows, WrittenIsRead, OneChangePerVersion,
         ReviewedByOther, Changed, Shown

LEMMA VersionNext == VersionInv /\ [Next]_vars => VersionInv'
<1> SUFFICES ASSUME VersionInv, [Next]_vars PROVE VersionInv'
  OBVIOUS
<1>0. TypeOK /\ TypeOK'
  BY TypeNext DEF VersionInv
<1>1. ASSUME NEW r \in Requests, Arrive(r) PROVE VersionInv'
  <2>1. Read(r)
    BY <1>0, <1>1, Reads
  <2>2. ReviewedByOther'
    BY <2>1 DEF Read, VersionInv, ReviewedByOther
  <2> QED
    BY <1>0, <2>1, <2>2, ReadKeeps DEF VersionInv
<1>2. ASSUME NEW r \in Requests, Insert(r) \/ UpdateWithVersion(r) \/ Transition(r)
      PROVE  VersionInv'
  <2>1. audits' = audits
    BY <1>2 DEF Insert, UpdateWithVersion, Transition
  <2>2. CASE NoWrite(r)
    BY <1>0, <2>1, <2>2, RestKeeps DEF VersionInv
  <2>3. ASSUME NEW s \in Scenarios, NEW new \in Rows, NEW after \in Rows, Write(r, s, new, after)
        PROVE  VersionInv'
    BY <1>0, <2>1, <2>3, WriteKeeps, WriteReviewed DEF VersionInv
  <2> QED
    BY <1>0, <1>2, <2>2, <2>3, Writes
<1>3. ASSUME NEW r \in Requests, Record(r) \/ Reload(r) \/ Abort(r) PROVE VersionInv'
  <2>1. audits' = audits \/ Record(r)
    BY <1>3 DEF Record, Reload, Abort
  <2> QED
    BY <1>0, <1>3, <2>1, RestKeeps DEF VersionInv
<1>4. ASSUME NEW n \in Nodes, SwitchNode(n) \/ UNCHANGED vars PROVE VersionInv'
  BY <1>0, <1>4
     DEF SwitchNode, vars, VersionInv, ReadRows, WrittenRows, WrittenIsRead, AuditsOfRequests,
         OneChangePerVersion, ReviewedByOther, Changed, Shown
<1>5. CASE UNCHANGED vars
  BY <1>0, <1>5
     DEF vars, VersionInv, ReadRows, WrittenRows, WrittenIsRead, AuditsOfRequests,
         OneChangePerVersion, ReviewedByOther, Changed, Shown
<1> QED
  BY <1>1, <1>2, <1>3, <1>4, <1>5 DEF Next, Step

(* For every request that read or wrote a row, a version is one state of   *)
(* that row.                                                               *)
THEOREM VersionInvCorrect == Spec => []VersionInv
BY VersionInit, VersionNext, PTL DEF Spec

(* Whatever the interleaving of reads and writes, a scenario is reviewed   *)
(* by somebody who may review and is not its author.                       *)
THEOREM ReviewedByOtherCorrect == Spec => []ReviewedByOther
<1>1. VersionInv => ReviewedByOther
  BY DEF VersionInv
<1> QED
  BY <1>1, VersionInvCorrect, PTL

(* At most one of the requests presenting the same version succeeds.       *)
THEOREM OneChangePerVersionCorrect == Spec => []OneChangePerVersion
<1>1. VersionInv => OneChangePerVersion
  BY DEF VersionInv
<1> QED
  BY <1>1, VersionInvCorrect, PTL

(* The audit rows of a scenario, written from memory after the change,     *)
(* fit together and with the scenario.                                     *)
THEOREM AuditChainCorrect == Spec => []AuditChain
<1>1. ASSUME VersionInv PROVE AuditChain
  <2> SUFFICES ASSUME NEW a \in audits, Shown(a.request)
               PROVE  /\ a.after.version = a.before.version + 1
                      /\ a.after.version = scenarios[a.scenario].version
                           => a.after = scenarios[a.scenario]
                      /\ \A b \in audits :
                           a.scenario = b.scenario /\ a.after.version = b.before.version
                             => a.after = b.before
    BY DEF AuditChain
  <2>1. \A b \in audits :
          /\ b.request \in Requests /\ Changed(b.request)
          /\ b.scenario = req[b.request].scenario
          /\ b.before = req[b.request].before /\ b.after = req[b.request].after
    BY <1>1 DEF VersionInv, AuditsOfRequests, TypeOK, AuditRecords
  <2>2. /\ a.after.version = a.before.version + 1
        /\ a.after.version = scenarios[a.scenario].version => a.after = scenarios[a.scenario]
    BY <1>1, <2>1 DEF VersionInv, WrittenRows
  <2>3. ASSUME NEW b \in audits, a.scenario = b.scenario, a.after.version = b.before.version
        PROVE  a.after = b.before
    BY <1>1, <2>1, <2>3 DEF VersionInv, WrittenIsRead
  <2> QED
    BY <2>2, <2>3
<1> QED
  BY <1>1, VersionInvCorrect, PTL

LEMMA WriteIsLawful ==
  ASSUME TypeOK, NEW r \in Requests, NEW s \in Scenarios, NEW new \in Rows,
         NEW after \in Rows, Write(r, s, new, after)
  PROVE  LawfulStep(s)
<1>1. scenarios'[s] = new /\ new.version = scenarios[s].version + 1
  BY DEF Write, TypeOK
<1>2. CASE pc[r] = "insert"
  BY <1>1, <1>2, AbsentIsNoRow DEF Write, LawfulStep
<1>3. CASE pc[r] = "update"
  <2>1. /\ scenarios[s] \in Rows /\ scenarios[s].state \in Editable
        /\ new = UpdatedRow(scenarios[s], r)
    BY <1>3 DEF Write
  <2>2. /\ new.author = scenarios[s].author /\ new.node = scenarios[s].node
        /\ new.state = scenarios[s].state /\ new.reviewer = scenarios[s].reviewer
    BY <2>1 DEF UpdatedRow, Rows
  <2> QED
    BY <1>1, <2>1, <2>2, AbsentIsNoRow DEF LawfulStep
<1>4. CASE pc[r] = "transition"
  <2>1. /\ scenarios[s] \in Rows /\ CanTransitionScenario(scenarios[s].state, req[r].to)
        /\ new = MovedRow(scenarios[s], r)
    BY <1>4 DEF Write
  <2>2. /\ new.author = scenarios[s].author /\ new.node = scenarios[s].node
        /\ new.state = req[r].to /\ new.content = scenarios[s].content
    BY <2>1 DEF MovedRow, Rows
  <2> QED
    BY <1>1, <2>1, <2>2, AbsentIsNoRow DEF LawfulStep
<1> QED
  BY <1>2, <1>3, <1>4 DEF Write

LEMMA NextIsLawful ==
  ASSUME TypeOK, [Next]_vars, NEW s \in Scenarios
  PROVE  LawfulStep(s)
<1>1. CASE scenarios' = scenarios
  BY <1>1 DEF LawfulStep
<1>2. ASSUME NEW r \in Requests, Insert(r) \/ UpdateWithVersion(r) \/ Transition(r)
      PROVE  LawfulStep(s)
  <2>1. CASE NoWrite(r)
    BY <1>1, <2>1 DEF NoWrite
  <2>2. ASSUME NEW t \in Scenarios, NEW new \in Rows, NEW after \in Rows, Write(r, t, new, after)
        PROVE  LawfulStep(s)
    <3>1. CASE t = s
      BY <2>2, <3>1, WriteIsLawful
    <3>2. CASE t # s
      BY <2>2, <3>2 DEF Write, TypeOK, LawfulStep
    <3> QED
      BY <3>1, <3>2
  <2> QED
    BY <1>2, <2>1, <2>2, Writes
<1>3. ASSUME NEW r \in Requests, Arrive(r) \/ Record(r) \/ Reload(r) \/ Abort(r)
      PROVE  scenarios' = scenarios
  BY <1>3 DEF Arrive, LoadNode, LoadForUpdate, LoadForTransition, Record, Reload, Abort
<1>4. ASSUME NEW n \in Nodes, SwitchNode(n) PROVE scenarios' = scenarios
  BY <1>4 DEF SwitchNode
<1> QED
  BY <1>1, <1>2, <1>3, <1>4 DEF Next, Step, vars

(* A scenario changes by one legal step and one version at a time.         *)
THEOREM LawfulChangeCorrect == Spec => LawfulChange
<1>1. TypeOK /\ [Next]_vars => [\A s \in Scenarios : LawfulStep(s)]_vars
  BY NextIsLawful
<1> QED
  BY <1>1, TypeCorrect, PTL DEF Spec, LawfulChange

(* An update that presents a version its client can have seen loses no     *)
(* other request's edit.                                                   *)
THEOREM KeepsOthersEditsCorrect == Spec => KeepsOthersEdits
<1>1. ASSUME VersionInv, [Next]_vars, NEW r \in Requests, pc[r] = "update",
             pc'[r] = "record", Shown(r), NEW f \in Fields \ req[r].edits
      PROVE  scenarios'[req[r].scenario].content[f] = scenarios[req[r].scenario].content[f]
  <2>1. UpdateWithVersion(r)
    <3>1. ASSUME NEW q \in Requests, q # r PROVE ~(Arrive(q) \/ Step(q) \/ Abort(q))
      <4>1. (\E st : Go(q, st)) => pc'[r] = pc[r]
        BY <3>1 DEF VersionInv, TypeOK, Go
      <4>2. Arrive(q) => \E st : Go(q, st)
        BY Reads, <1>1 DEF VersionInv, Read
      <4>3. Step(q) \/ Abort(q) => \E st : Go(q, st)
        BY DEF Step, Insert, UpdateWithVersion, Transition, Record, Reload, Abort
      <4> QED
        BY <1>1, <4>1, <4>2, <4>3
    <3>2. ~Arrive(r) /\ ~Abort(r) /\ ~Insert(r) /\ ~Transition(r) /\ ~Record(r) /\ ~Reload(r)
      BY <1>1 DEF VersionInv, TypeOK, Arrive, Go, Abort, LoadNode, LoadForUpdate,
                  LoadForTransition, Insert, Transition, Record, Reload
    <3>3. ~UNCHANGED vars /\ \A n \in Nodes : ~SwitchNode(n)
      BY <1>1 DEF vars, SwitchNode
    <3> QED
      BY <1>1, <3>1, <3>2, <3>3 DEF Next, Step
  <2> DEFINE s == req[r].scenario
  <2>2. UpdateMatches(scenarios[s], r) /\ scenarios' = [scenarios EXCEPT ![s] = UpdatedRow(@, r)]
    BY <1>1, <2>1 DEF UpdateWithVersion, VersionInv, TypeOK, Go
  <2>3. s \in Scenarios
    BY <1>1 DEF VersionInv, TypeOK, Holds
  <2>4. scenarios[s] \in Rows /\ req[r].before.version \in Nat /\ req[r].version \in Nat
    BY <1>1, <2>2, <2>3, AbsentIsNoRow, VersionAssumption
       DEF VersionInv, TypeOK, UpdateMatches, Editable, RequestRecords
  <2>5. req[r].before = scenarios[s]
    BY <1>1, <2>2, <2>3, <2>4, AbsentIsNoRow DEF VersionInv, ReadRows, UpdateMatches, Shown
  <2>6. scenarios'[s].content = EditedFields(r)
    BY <1>1, <2>2, <2>3, <2>4 DEF VersionInv, TypeOK, UpdatedRow, Rows
  <2> QED
    BY <2>5, <2>6 DEF EditedFields
<1>2. VersionInv /\ [Next]_vars =>
        [\A r \in Requests :
           pc[r] = "update" /\ pc'[r] = "record" /\ Shown(r) =>
             \A f \in Fields \ req[r].edits :
               scenarios'[req[r].scenario].content[f]
                 = scenarios[req[r].scenario].content[f]]_vars
  BY <1>1
<1> QED
  BY <1>2, VersionInvCorrect, PTL DEF Spec, KeepsOthersEdits
=============================================================================
