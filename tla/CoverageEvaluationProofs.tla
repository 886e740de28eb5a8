---------------------- MODULE CoverageEvaluationProofs ----------------------
(***************************************************************************)
(* Theorems about CoverageEvaluation, for any numbers of requests, users,  *)
(* scenarios, keys and rows: types, and who owns a row.                    *)
(*                                                                         *)
(* Every step of a handler is put in a normal form first (what it does to  *)
(* rows, and to what requests hold), and the parts of the invariant of     *)
(* CoverageInvariant follow from that.                                     *)
(***************************************************************************)
EXTENDS CoverageInvariant, TLAPS


LEMMA FirstInputIsInput == FirstInput \in Inputs
BY RevisionAssumption DEF FirstInput, Inputs

LEMMA TypeInit == Init => TypeOK
<1> SUFFICES ASSUME Init PROVE TypeOK
  OBVIOUS
<1>1. Absent \in Rows
  BY FirstInputIsInput DEF Absent, Rows
<1>2. NoRequest \in RequestRecords
  BY FirstInputIsInput DEF NoRequest, RequestRecords
<1>3. seen \in [Scenarios -> SUBSET Inputs] /\ live \in [Scenarios -> Inputs]
  BY FirstInputIsInput DEF Init
<1>4. \A r \in Requests : Holds(r)
  BY NoneAssumption DEF Init, Holds, NoRequest, Operations, Parts
<1> QED
  BY <1>1, <1>2, <1>3, <1>4 DEF Init, TypeOK

(* A handler's step moves one request and leaves the others alone.         *)
LEMMA RequestTypes ==
  ASSUME TypeOK, NEW r \in Requests, NEW st \in Statements \cup Final, Go(r, st),
         \/ req' = req
         \/ \E v \in RequestRecords : req' = [req EXCEPT ![r] = v],
         Holds(r)'
  PROVE  /\ pc' \in [Requests -> {"idle"} \cup Statements \cup Final]
         /\ req' \in [Requests -> RequestRecords]
         /\ \A q \in Requests : Holds(q)'
<1>1. pc' \in [Requests -> {"idle"} \cup Statements \cup Final]
  BY DEF TypeOK, Go
<1>2. req' \in [Requests -> RequestRecords]
  BY DEF TypeOK
<1>3. ASSUME NEW q \in Requests, q # r PROVE Holds(q)'
  <2>1. pc'[q] = pc[q] /\ req'[q] = req[q]
    BY <1>3 DEF TypeOK, Go
  <2> QED
    BY <2>1 DEF TypeOK, Holds
<1> QED
  BY <1>1, <1>2, <1>3

LEMMA TransitionType ==
  ASSUME TypeOK, NEW e, NEW from, NEW row, e \in Evals => row \in Rows, Transition(e, from, row)
  PROVE  evals' \in [Evals -> Rows]
BY DEF TypeOK, Transition

LEMMA ArriveType ==
  ASSUME TypeOK, NEW r \in Requests, Arrive(r)
  PROVE  TypeOK'
<1>0. PICK u \in Users : \/ \E k \in Keys, s \in Scenarios : FindKey(r, u, k, s)
                         \/ \E op \in {"confirm", "void"}, e \in Evals : LoadForChange(r, u, op, e)
                         \/ \E e \in Evals : LoadForReplay(r, u, e)
  BY DEF Arrive
<1>r. NoRequest \in RequestRecords
  BY FirstInputIsInput DEF NoRequest, RequestRecords
<1>e. \A e \in Evals : evals[e] \in Rows
  BY DEF TypeOK
<1>1. ASSUME NEW k \in Keys, NEW s \in Scenarios, FindKey(r, u, k, s) PROVE TypeOK'
  <2> DEFINE h == [NoRequest EXCEPT !.op = "run", !.user = u, !.key = k, !.scenario = s]
  <2>1. CASE Go(r, "scenario") /\ req' = [req EXCEPT ![r] = h]
    <3>1. h \in RequestRecords
      BY <1>r DEF RequestRecords, Operations
    <3>2. Holds(r)'
      BY <2>1 DEF Go, Holds, TypeOK, NoRequest, Operations, Parts
    <3> QED
      BY <1>1, <2>1, <3>1, <3>2, RequestTypes DEF FindKey, TypeOK, Statements, Parts
  <2>2. ASSUME NEW e \in Evals, Go(r, "respond"), req' = [req EXCEPT ![r] = [h EXCEPT !.eval = e]]
        PROVE  TypeOK'
    <3>1. [h EXCEPT !.eval = e] \in RequestRecords
      BY <1>r DEF RequestRecords, Operations
    <3>2. Holds(r)'
      BY <2>2 DEF Go, Holds, TypeOK, NoRequest, Operations, Parts
    <3> QED
      BY <1>1, <2>2, <3>1, <3>2, RequestTypes DEF FindKey, TypeOK, Statements
  <2> QED
    BY <1>1, <2>1, <2>2 DEF FindKey, RowsOf
<1>2. ASSUME NEW op \in {"confirm", "void"}, NEW e \in Evals, LoadForChange(r, u, op, e)
      PROVE  TypeOK'
  <2> DEFINE h == [NoRequest EXCEPT !.op = op, !.user = u, !.eval = e, !.before = evals[e].state]
  <2>1. h \in RequestRecords
    BY <1>r, <1>e DEF RequestRecords, Rows, Operations
  <2>2. PICK st \in {"change", "refused"} : Go(r, st)
    BY <1>2 DEF LoadForChange
  <2>3. Holds(r)'
    BY <1>2, <2>2 DEF LoadForChange, Go, Holds, TypeOK, NoRequest, Operations, Parts
  <2> QED
    BY <1>2, <2>1, <2>2, <2>3, RequestTypes DEF LoadForChange, TypeOK, Statements, Final
<1>3. ASSUME NEW e \in Evals, LoadForReplay(r, u, e) PROVE TypeOK'
  <2> DEFINE verdict == IF Score[evals[e].input] = evals[e].score THEN "passed" ELSE "mismatch"
             h == [NoRequest EXCEPT !.op = "replay", !.user = u, !.eval = e,
                                    !.before = evals[e].state, !.verdict = verdict]
  <2>1. h \in RequestRecords
    BY <1>r, <1>e DEF RequestRecords, Rows, Operations, Verdicts
  <2>2. PICK st \in {"store", "refused"} : Go(r, st)
    BY <1>3 DEF LoadForReplay
  <2>3. Holds(r)'
    BY <1>3, <2>2 DEF LoadForReplay, Go, Holds, TypeOK, NoRequest, Operations, Verdicts, Parts
  <2> QED
    BY <1>3, <2>1, <2>2, <2>3, RequestTypes DEF LoadForReplay, TypeOK, Statements, Final
<1> QED
  BY <1>0, <1>1, <1>2, <1>3

LEMMA StepType ==
  ASSUME TypeOK, NEW r \in Requests, Step(r)
  PROVE  TypeOK'
<1>h. Holds(r) /\ req[r] \in RequestRecords
  BY DEF TypeOK
<1>e. req[r].eval \in Evals => evals[req[r].eval] \in Rows
  BY DEF TypeOK
<1>p. pc[r] # "idle" => req[r] # NoRequest
  BY <1>h, NoneAssumption DEF Holds, NoRequest
<1>1. CASE LoadPart(r)
  <2>1. pc[r] \in Parts /\ AfterPart[pc[r]] \in {"node", "safeguards", "create"}
    BY <1>1 DEF LoadPart, AfterPart, Parts
  <2>2. req[r].op = "run" /\ req[r].scenario \in Scenarios
    BY <1>h, <2>1 DEF Holds
  <2>3. [req[r].input EXCEPT ![pc[r]] = live[req[r].scenario][pc[r]]] \in Inputs
    BY <1>h, <2>1, <2>2 DEF TypeOK, RequestRecords, Inputs
  <2>4. \E v \in RequestRecords : req' = [req EXCEPT ![r] = v]
    <3> DEFINE i == [req[r].input EXCEPT ![pc[r]] = live[req[r].scenario][pc[r]]]
               v == [req[r] EXCEPT !.input = i]
    <3>1. v \in RequestRecords
      BY <1>h, <2>3 DEF RequestRecords
    <3>2. req' = [req EXCEPT ![r] = v]
      BY <1>1 DEF LoadPart
    <3> QED
      BY <3>1, <3>2
  <2>5. Go(r, AfterPart[pc[r]])
    BY <1>1 DEF LoadPart
  <2>6. Holds(r)'
    BY <1>1, <1>h, <2>1, <2>5 DEF LoadPart, Go, Holds, TypeOK, RequestRecords, Parts, Operations
  <2> QED
    BY <1>1, <2>1, <2>4, <2>5, <2>6, RequestTypes DEF LoadPart, TypeOK, Statements, Parts
<1>2. CASE Create(r)
  <2>0. PICK e \in Evals :
          /\ evals' = [evals EXCEPT ![e] = [Absent EXCEPT !.state = "queued", !.key = req[r].key,
                                              !.scenario = req[r].scenario, !.input = req[r].input]]
          /\ req' = [req EXCEPT ![r].eval = e]
    BY <1>2 DEF Create
  <2>1. Absent \in Rows
    BY FirstInputIsInput DEF Absent, Rows
  <2>2. evals' \in [Evals -> Rows]
    BY <1>h, <2>0, <2>1 DEF TypeOK, RequestRecords, Rows, CoverageStateValues
  <2>3. [req[r] EXCEPT !.eval = e] \in RequestRecords
    BY <1>h DEF RequestRecords
  <2>4. Holds(r)'
    BY <1>2, <1>h, <2>0 DEF Create, Go, Holds, TypeOK, RequestRecords, Operations, Parts
  <2> QED
    BY <1>2, <2>0, <2>2, <2>3, <2>4, RequestTypes DEF Create, TypeOK, Statements
<1>3. CASE CreateDuplicate(r)
  <2>1. Holds(r)'
    BY <1>3, <1>h DEF CreateDuplicate, Go, Holds, TypeOK, Parts
  <2> QED
    BY <1>3, <2>1, RequestTypes DEF CreateDuplicate, TypeOK, Statements
<1>4. CASE FindAgain(r)
  <2>0. PICK e \in Evals : req' = [req EXCEPT ![r].eval = e]
    BY <1>4 DEF FindAgain, RowsOf
  <2>1. [req[r] EXCEPT !.eval = e] \in RequestRecords
    BY <1>h DEF RequestRecords
  <2>2. Holds(r)'
    BY <1>4, <1>h, <2>0 DEF FindAgain, Go, Holds, TypeOK, RequestRecords, Parts
  <2> QED
    BY <1>4, <2>0, <2>1, <2>2, RequestTypes DEF FindAgain, TypeOK, Statements
<1>5. CASE Start(r)
  <2>1. evals' \in [Evals -> Rows]
    BY <1>5, <1>e, TransitionType DEF Start, Rows, CoverageStateValues
  <2>2. PICK st \in {"finish", "refused"} : Go(r, st)
    BY <1>5 DEF Start
  <2>3. Holds(r)'
    BY <1>5, <1>h, <2>2 DEF Start, Go, Holds, TypeOK, Parts
  <2> QED
    BY <1>5, <2>1, <2>2, <2>3, RequestTypes DEF Start, TypeOK, Statements, Final
<1>6. CASE Complete(r)
  <2>1. evals' \in [Evals -> Rows]
    <3>1. Result(r) \in Nat /\ req[r].input \in Inputs
      BY <1>6, <1>h, ScoreAssumption DEF Complete, Result, RequestRecords
    <3> QED
      BY <1>6, <1>e, <3>1, TransitionType DEF Complete, Rows, CoverageStateValues
  <2>2. PICK st \in {"reload", "refused"} : Go(r, st)
    BY <1>6 DEF Complete
  <2>3. Holds(r)'
    BY <1>6, <1>h, <2>2 DEF Complete, Go, Holds, TypeOK, Parts
  <2> QED
    BY <1>6, <2>1, <2>2, <2>3, RequestTypes DEF Complete, TypeOK, Statements, Final
<1>7. CASE Fail(r)
  <2>1. evals' \in [Evals -> Rows]
    BY <1>7, <1>e, TransitionType DEF Fail, Rows, CoverageStateValues
  <2>2. Holds(r)'
    BY <1>7, <1>h DEF Fail, Go, Holds, TypeOK, Parts
  <2> QED
    BY <1>7, <2>1, <2>2, RequestTypes DEF Fail, TypeOK, Final
<1>8. CASE Confirm(r)
  <2>1. evals' \in [Evals -> Rows]
    BY <1>8, <1>h, <1>e, TransitionType DEF Confirm, Rows, RequestRecords, CoverageStateValues
  <2>2. PICK st \in {"reload", "refused"} : Go(r, st)
    BY <1>8 DEF Confirm
  <2>3. Holds(r)'
    BY <1>8, <1>h, <2>2 DEF Confirm, Go, Holds, TypeOK, Parts
  <2> QED
    BY <1>8, <2>1, <2>2, <2>3, RequestTypes DEF Confirm, TypeOK, Statements, Final
<1>9. CASE Void(r)
  <2>1. evals' \in [Evals -> Rows]
    BY <1>9, <1>e, TransitionType DEF Void, Rows, CoverageStateValues
  <2>2. PICK st \in {"reload", "refused"} : Go(r, st)
    BY <1>9 DEF Void
  <2>3. Holds(r)'
    BY <1>9, <1>h, <2>2 DEF Void, Go, Holds, TypeOK, Parts
  <2> QED
    BY <1>9, <2>1, <2>2, <2>3, RequestTypes DEF Void, TypeOK, Statements, Final
<1>10. CASE StoreReplay(r)
  <2>0. req[r].verdict \in Verdicts /\ req[r].eval \in Evals
    BY <1>10, <1>h DEF StoreReplay, Holds
  <2>1. evals' \in [Evals -> Rows]
    BY <1>10, <2>0, <1>e DEF StoreReplay, TypeOK, Rows
  <2>2. Holds(r)'
    BY <1>10, <1>h DEF StoreReplay, Go, Holds, TypeOK, Parts
  <2> QED
    BY <1>10, <2>1, <2>2, RequestTypes DEF StoreReplay, TypeOK, Statements
<1>11. CASE Reload(r)
  <2>0. req[r].eval \in Evals
    BY <1>11, <1>h DEF Reload, Holds
  <2>1. [req[r] EXCEPT !.after = evals[req[r].eval].state] \in RequestRecords
    BY <1>h, <1>e, <2>0 DEF RequestRecords, Rows
  <2>2. Holds(r)'
    BY <1>11, <1>h, <2>0 DEF Reload, Go, Holds, TypeOK, RequestRecords, Parts
  <2> QED
    BY <1>11, <2>1, <2>2, RequestTypes DEF Reload, TypeOK, Statements
<1>12. CASE Record(r)
  <2>0. req[r].op \in Operations
    BY <1>12, <1>h DEF Record, Holds
  <2>1. audits' \subseteq AuditRecords
    BY <1>12, <1>h, <2>0 DEF Record, TypeOK, RequestRecords, AuditRecords
  <2>2. PICK st \in {"respond", "refused"} : Go(r, st)
    BY <1>12 DEF Record
  <2>3. Holds(r)'
    BY <1>12, <1>h, <2>2 DEF Record, Go, Holds, TypeOK, Parts
  <2> QED
    BY <1>12, <2>1, <2>2, <2>3, RequestTypes DEF Record, TypeOK, Statements, Final
<1>13. CASE Respond(r)
  <2>1. audits' \subseteq AuditRecords
    BY <1>13 DEF Respond, TypeOK, AuditRecords
  <2>2. Holds(r)'
    BY <1>13, <1>h DEF Respond, Go, Holds, TypeOK, Parts
  <2> QED
    BY <1>13, <2>1, <2>2, RequestTypes DEF Respond, TypeOK, Final
<1> QED
  BY <1>1, <1>2, <1>3, <1>4, <1>5, <1>6, <1>7, <1>8, <1>9, <1>10, <1>11, <1>12, <1>13 DEF Step

LEMMA TypeNext == TypeOK /\ [Next]_vars => TypeOK'
<1> SUFFICES ASSUME TypeOK, [Next]_vars PROVE TypeOK'
  OBVIOUS
<1>1. ASSUME NEW r \in Requests, Abort(r) PROVE TypeOK'
  <2>1. Holds(r)'
    BY <1>1 DEF Abort, Go, Holds, TypeOK, Statements, Parts
  <2> QED
    BY <1>1, <2>1, RequestTypes DEF Abort, TypeOK, Final
<1>2. ASSUME NEW s \in Scenarios, NEW p \in Parts, Edit(s, p) PROVE TypeOK'
  <2>1. live' \in [Scenarios -> Inputs]
    BY <1>2, RevisionAssumption DEF Edit, TypeOK, Inputs
  <2>2. seen' \in [Scenarios -> SUBSET Inputs]
    BY <1>2, <2>1 DEF Edit, TypeOK
  <2> QED
    BY <1>2, <2>1, <2>2 DEF Edit, TypeOK, Holds
<1>3. CASE UNCHANGED vars
  BY <1>3 DEF vars, TypeOK, Holds
<1> QED
  BY <1>1, <1>2, <1>3, ArriveType, StepType DEF Next

(* Every variable keeps its type, and every request holds what the         *)
(* statement it is at uses, in every behavior of the handlers.             *)
THEOREM TypeCorrect == Spec => []TypeOK
BY TypeInit, TypeNext, PTL DEF Spec

-----------------------------------------------------------------------------

(* A row keeps what it was created with.                                   *)
SameOrigin(e) ==
  /\ Exists(e)' <=> Exists(e)
  /\ evals'[e].key = evals[e].key
  /\ evals'[e].scenario = evals[e].scenario
  /\ evals'[e].input = evals[e].input

(* A request keeps who it is from and which row it is about.               *)
SameAim(q) ==
  /\ req'[q].op = req[q].op
  /\ req'[q].user = req[q].user
  /\ req'[q].key = req[q].key
  /\ req'[q].scenario = req[q].scenario
  /\ req'[q].eval = req[q].eval

LEMMA HeldRequests ==
  ASSUME TypeOK
  PROVE  \A r \in Requests : Holds(r) /\ req[r] \in RequestRecords
BY DEF TypeOK

LEMMA RowFrame ==
  ASSUME TypeOK, RunOwnsRow, NEW r \in Requests, Step(r), ~Create(r)
  PROVE  \A e \in Evals : SameOrigin(e)
<1>1. CASE Start(r)
  BY <1>1 DEF Start, Transition, TypeOK, Rows, SameOrigin, Exists
<1>2. CASE Complete(r)
  <2>1. evals[req[r].eval].input = req[r].input
    BY <1>2 DEF Complete, RunOwnsRow
  <2> QED
    BY <1>2, <2>1 DEF Complete, Transition, TypeOK, Rows, SameOrigin, Exists
<1>3. CASE Fail(r)
  BY <1>3 DEF Fail, Transition, TypeOK, Rows, SameOrigin, Exists
<1>4. CASE Confirm(r)
  BY <1>4 DEF Confirm, Confirmable, Transition, TypeOK, Rows, SameOrigin, Exists
<1>5. CASE Void(r)
  BY <1>5 DEF Void, Voidable, Transition, TypeOK, Rows, SameOrigin, Exists
<1>6. CASE StoreReplay(r)
  BY <1>6 DEF StoreReplay, TypeOK, Rows, SameOrigin, Exists
<1>7. CASE UNCHANGED evals
  BY <1>7 DEF SameOrigin, Exists
<1> QED
  BY <1>1, <1>2, <1>3, <1>4, <1>5, <1>6, <1>7
  DEF Step, LoadPart, CreateDuplicate, FindAgain, Reload, Record, Respond

LEMMA RequestFrame ==
  ASSUME TypeOK, NEW r \in Requests, Step(r), ~Create(r), ~FindAgain(r)
  PROVE  \A q \in Requests : SameAim(q)
<1>1. CASE LoadPart(r)
  BY <1>1 DEF LoadPart, TypeOK, RequestRecords, SameAim
<1>2. CASE Reload(r)
  BY <1>2 DEF Reload, TypeOK, RequestRecords, SameAim
<1>3. CASE UNCHANGED req
  BY <1>3 DEF SameAim
<1> QED
  BY <1>1, <1>2, <1>3
  DEF Step, CreateDuplicate, Start, Complete, Fail, Confirm, Void, StoreReplay, Record, Respond

LEMMA OthersStay ==
  ASSUME TypeOK, NEW r \in Requests, Step(r) \/ Arrive(r) \/ Abort(r)
  PROVE  \A q \in Requests \ {r} : pc'[q] = pc[q] /\ req'[q] = req[q]
BY DEF TypeOK, Go, Arrive, FindKey, LoadForChange, LoadForReplay, Abort, Step, LoadPart, Create,
       CreateDuplicate, FindAgain, Start, Complete, Fail, Confirm, Void, StoreReplay, Reload,
       Record, Respond

(* What arriving requests and the insert do, in the same terms.            *)
LEMMA ArriveFrame ==
  ASSUME TypeOK, NEW r \in Requests, Arrive(r)
  PROVE  /\ UNCHANGED <<evals, audits>>
         /\ pc[r] = "idle"
         /\ pc'[r] \in {"scenario", "respond", "change", "store", "refused"}
         /\ req'[r].op = "run" =>
              /\ pc'[r] \in {"scenario", "respond"}
              /\ pc'[r] = "scenario" => req'[r].eval = None
              /\ pc'[r] = "respond" => req'[r].eval \in RowsOf(req'[r].key)
<1>0. PICK u \in Users : \/ \E k \in Keys, s \in Scenarios : FindKey(r, u, k, s)
                         \/ \E op \in {"confirm", "void"}, e \in Evals : LoadForChange(r, u, op, e)
                         \/ \E e \in Evals : LoadForReplay(r, u, e)
  BY DEF Arrive
<1>1. CASE \E k \in Keys, s \in Scenarios : FindKey(r, u, k, s)
  BY <1>1 DEF FindKey, TypeOK, Go, NoRequest
<1>2. CASE \E op \in {"confirm", "void"}, e \in Evals : LoadForChange(r, u, op, e)
  BY <1>2 DEF LoadForChange, TypeOK, Go, NoRequest
<1>3. CASE \E e \in Evals : LoadForReplay(r, u, e)
  BY <1>3 DEF LoadForReplay, TypeOK, Go, NoRequest
<1> QED
  BY <1>0, <1>1, <1>2, <1>3

LEMMA CreateFrame ==
  ASSUME TypeOK, NEW r \in Requests, Create(r)
  PROVE  \E e \in Evals :
           /\ ~Exists(e) /\ Exists(e)'
           /\ evals'[e] = [Absent EXCEPT !.state = "queued", !.key = req[r].key,
                             !.scenario = req[r].scenario, !.input = req[r].input]
           /\ evals'[e].key = req[r].key /\ evals'[e].scenario = req[r].scenario
           /\ evals'[e].input = req[r].input /\ evals'[e].state = "queued"
           /\ \A f \in Evals \ {e} : evals'[f] = evals[f]
           /\ req'[r] = [req[r] EXCEPT !.eval = e] /\ req'[r].eval = e
           /\ req'[r].op = "run" /\ req'[r].key = req[r].key
           /\ req'[r].scenario = req[r].scenario /\ req'[r].input = req[r].input
           /\ pc'[r] = "start"
           /\ req[r].key \in Keys /\ req[r].scenario \in Scenarios
           /\ RowsOf(req[r].key) = {}
<1>1. req[r].op = "run" /\ req[r].key \in Keys /\ req[r].scenario \in Scenarios
  BY DEF Create, TypeOK, Holds
<1>2. PICK e \in Evals :
        /\ ~Exists(e)
        /\ evals' = [evals EXCEPT ![e] = [Absent EXCEPT !.state = "queued", !.key = req[r].key,
                                            !.scenario = req[r].scenario, !.input = req[r].input]]
        /\ req' = [req EXCEPT ![r].eval = e]
  BY DEF Create
<1>3. evals'[e] = [Absent EXCEPT !.state = "queued", !.key = req[r].key,
                     !.scenario = req[r].scenario, !.input = req[r].input]
  BY <1>2 DEF TypeOK
<1>4. /\ evals'[e].key = req[r].key /\ evals'[e].scenario = req[r].scenario
      /\ evals'[e].input = req[r].input /\ evals'[e].state = "queued"
  BY <1>3 DEF Absent
<1>5. \A f \in Evals \ {e} : evals'[f] = evals[f]
  BY <1>2 DEF TypeOK
<1>6. /\ req'[r] = [req[r] EXCEPT !.eval = e] /\ req'[r].eval = e
      /\ req'[r].op = req[r].op /\ req'[r].key = req[r].key
      /\ req'[r].scenario = req[r].scenario /\ req'[r].input = req[r].input
  BY <1>2 DEF TypeOK, RequestRecords
<1>7. pc'[r] = "start" /\ RowsOf(req[r].key) = {}
  BY DEF Create, KeyTaken, Go, TypeOK
<1> QED
  BY <1>1, <1>2, <1>3, <1>4, <1>5, <1>6, <1>7 DEF Exists

LEMMA KeyedRowsInit == Init => KeyedRows
BY NoneAssumption DEF Init, KeyedRows, Absent, NoRequest, Exists, Operations

LEMMA KeyedRowsStep ==
  ASSUME RunInv, NEW r \in Requests, Step(r)
  PROVE  KeyedRows'
<1>0. TypeOK /\ KeyedRows /\ RunOwnsRow
  BY DEF RunInv
<1>o. \A q \in Requests \ {r} : pc'[q] = pc[q] /\ req'[q] = req[q]
  BY <1>0, OthersStay
<1>t. \A q \in Requests : req[q].eval \in Evals \cup {None}
  BY <1>0 DEF TypeOK, RequestRecords
<1>1. CASE Create(r)
  <2>1. PICK e \in Evals :
          /\ ~Exists(e) /\ Exists(e)'
          /\ evals'[e].key = req[r].key /\ evals'[e].scenario = req[r].scenario
          /\ \A f \in Evals \ {e} : evals'[f] = evals[f]
          /\ req'[r].eval = e /\ req'[r].key = req[r].key
          /\ req[r].key \in Keys /\ req[r].scenario \in Scenarios
          /\ RowsOf(req[r].key) = {}
    BY <1>0, <1>1, CreateFrame
  <2>2. \A f \in Evals : Exists(f) => f # e /\ evals[f].key # req[r].key
    BY <2>1 DEF RowsOf
  <2>3. \A f \in Evals : Exists(f)' <=> f = e \/ Exists(f)
    BY <2>1 DEF Exists
  <2>4. \A q \in Requests \ {r} : req[q].op = "run" /\ req[q].eval # None =>
          req[q].eval \in Evals /\ Exists(req[q].eval) /\ evals[req[q].eval].key = req[q].key
    BY <1>0, <1>t DEF KeyedRows
  <2> QED
    BY <1>0, <1>o, <2>1, <2>2, <2>3, <2>4 DEF KeyedRows
<1>2. CASE FindAgain(r)
  <2>1. evals' = evals /\ req'[r].eval \in RowsOf(req[r].key) /\ req'[r].key = req[r].key
    BY <1>0, <1>2 DEF FindAgain, TypeOK, RequestRecords
  <2> QED
    BY <1>0, <1>o, <2>1 DEF KeyedRows, RowsOf, Exists
<1>3. CASE ~Create(r) /\ ~FindAgain(r)
  <2>1. \A e \in Evals : SameOrigin(e)
    BY <1>0, <1>3, RowFrame
  <2>2. \A q \in Requests : SameAim(q)
    BY <1>0, <1>3, RequestFrame
  <2> QED
    BY <1>0, <1>t, <2>1, <2>2 DEF KeyedRows, SameOrigin, SameAim, Exists
<1> QED
  BY <1>1, <1>2, <1>3

LEMMA KeyedRowsNext == RunInv /\ [Next]_vars => KeyedRows'
<1> SUFFICES ASSUME RunInv, [Next]_vars PROVE KeyedRows'
  OBVIOUS
<1>0. TypeOK /\ KeyedRows
  BY DEF RunInv
<1>1. ASSUME NEW r \in Requests, Arrive(r) PROVE KeyedRows'
  BY <1>0, <1>1, ArriveFrame, OthersStay DEF KeyedRows, RowsOf, Exists
<1>2. CASE UNCHANGED <<evals, req>>
  BY <1>0, <1>2 DEF KeyedRows, Exists
<1> QED
  BY <1>1, <1>2, KeyedRowsStep DEF Next, Abort, Edit, vars

(* Steps that neither touch the state of a row nor take a run to or from   *)
(* the statements at which it owns one.                                    *)
LEMMA QuietStep ==
  ASSUME TypeOK, RunOwnsRow, NEW r \in Requests,
         \A e \in Evals : SameOrigin(e) /\ evals'[e].state = evals[e].state,
         \A q \in Requests \ {r} : pc'[q] = pc[q] /\ req'[q] = req[q],
         pc[r] \notin {"start", "finish", "aborted"}, pc'[r] \notin {"start", "finish"}
  PROVE  RunOwnsRow'
<1>1. \A e \in Evals, q \in Requests :
        /\ Owns(q, e)' <=> Owns(q, e)
        /\ Ran(q, e) /\ pc[q] = "aborted" => Ran(q, e)' /\ pc'[q] = "aborted"
  BY DEF Owns, Ran
<1>2. \A e \in Evals : Orphan(e)' => Orphan(e)
  BY <1>1 DEF Orphan, Unsettled
<1>3. \A q \in Requests : pc'[q] \in {"start", "finish"} =>
        /\ pc[q] \in {"start", "finish"} /\ pc'[q] = pc[q] /\ req'[q] = req[q]
        /\ req[q].eval \in Evals
  BY DEF TypeOK, Holds
<1> QED
  BY <1>1, <1>2, <1>3 DEF RunOwnsRow, SameOrigin

(* Steps that change the state of the row a request is about.              *)
LEMMA RowMove ==
  ASSUME TypeOK, RunOwnsRow, NEW r \in Requests, NEW f \in Evals, req[r].eval = f,
         \A e \in Evals : SameOrigin(e),
         \A e \in Evals \ {f} : evals'[e] = evals[e],
         \A q \in Requests \ {r} : pc'[q] = pc[q], req' = req,
         pc[r] # "aborted",
         \/ Owns(r, f) /\ evals'[f].state = "running" /\ pc'[r] = "finish"
         \/ /\ Unsettled(f) => Owns(r, f)
            /\ ~Unsettled(f)'
            /\ pc'[r] \notin {"start", "finish"}
  PROVE  RunOwnsRow'
<1>1. \A q \in Requests, e \in Evals : pc'[q] \in {"start", "finish"} /\ req[q].eval = e /\ q # r
        => /\ Owns(q, e) /\ e # f /\ evals'[e] = evals[e]
  <2> SUFFICES ASSUME NEW q \in Requests, NEW e \in Evals, q # r,
                      pc'[q] \in {"start", "finish"}, req[q].eval = e
               PROVE  Owns(q, e) /\ e # f
    OBVIOUS
  <2>1. Owns(q, e)
    BY DEF TypeOK, Holds, Owns, Ran
  <2>2. Unsettled(e)
    BY <2>1 DEF RunOwnsRow, Owns, Unsettled
  <2> QED
    BY <2>1, <2>2 DEF RunOwnsRow
<1>2. \A q \in Requests : pc'[q] \in {"start", "finish"} => req[q].eval \in Evals
  BY DEF TypeOK, Holds, Owns
<1>3. \A q \in Requests : pc'[q] \in {"start", "finish"} =>
        LET row == evals'[req'[q].eval] IN
        /\ row.state = (IF pc'[q] = "start" THEN "queued" ELSE "running")
        /\ row.key = req'[q].key /\ row.scenario = req'[q].scenario /\ row.input = req'[q].input
  BY <1>1, <1>2 DEF RunOwnsRow, SameOrigin, Owns
<1>4. \A q \in Requests, e \in Evals : Owns(q, e)' => Owns(q, e)
  BY <1>1 DEF Owns, Ran
<1>5. \A e \in Evals : Orphan(e)' => Orphan(e) \/ e = f
  BY DEF Orphan, Unsettled, Owns, Ran
<1>6. ~Orphan(f)'
  BY DEF Orphan, Unsettled, Owns, Ran
<1>7. \A q \in Requests, e \in Evals : Ran(q, e) /\ pc[q] = "aborted" =>
        Ran(q, e)' /\ pc'[q] = "aborted"
  BY DEF Ran
<1> QED
  BY <1>3, <1>4, <1>5, <1>6, <1>7 DEF RunOwnsRow

LEMMA CreateOwns ==
  ASSUME RunInv, NEW r \in Requests, Create(r)
  PROVE  RunOwnsRow'
<1>0. TypeOK /\ RunOwnsRow
  BY DEF RunInv
<1>1. PICK e \in Evals :
        /\ ~Exists(e)
        /\ evals'[e].key = req[r].key /\ evals'[e].scenario = req[r].scenario
        /\ evals'[e].input = req[r].input /\ evals'[e].state = "queued"
        /\ \A f \in Evals \ {e} : evals'[f] = evals[f]
        /\ req'[r].eval = e /\ req'[r].op = "run" /\ req'[r].key = req[r].key
        /\ req'[r].scenario = req[r].scenario /\ req'[r].input = req[r].input
        /\ pc'[r] = "start"
  BY <1>0, CreateFrame
<1>2. pc[r] = "create" /\ \A q \in Requests \ {r} : pc'[q] = pc[q] /\ req'[q] = req[q]
  BY <1>0, OthersStay DEF Create, Step
<1>3. \A q \in Requests : pc[q] \in {"start", "finish"} => req[q].eval \in Evals /\ req[q].eval # e
  BY <1>0, <1>1 DEF TypeOK, Holds, RunOwnsRow, Exists
<1>4. \A q \in Requests, f \in Evals : Owns(q, f)' <=> (Owns(q, f) /\ f # e) \/ (q = r /\ f = e)
  BY <1>1, <1>2, <1>3 DEF Owns, Ran
<1>5. \A f \in Evals : Orphan(f)' => f # e /\ Orphan(f)
  BY <1>1, <1>4 DEF Orphan, Unsettled
<1>6. \A q \in Requests, f \in Evals : Ran(q, f) /\ pc[q] = "aborted" =>
        Ran(q, f)' /\ pc'[q] = "aborted"
  BY <1>2 DEF Ran
<1> QED
  BY <1>0, <1>1, <1>2, <1>3, <1>4, <1>5, <1>6 DEF RunOwnsRow

LEMMA RunOwnsRowInit == Init => RunOwnsRow
BY DEF Init, RunOwnsRow, Owns, Orphan, Unsettled, Absent

LEMMA RunOwnsRowStep ==
  ASSUME RunInv, NEW r \in Requests, Step(r)
  PROVE  RunOwnsRow'
<1>0. TypeOK /\ RunOwnsRow /\ Holds(r)
  BY DEF RunInv, TypeOK
<1>o. \A q \in Requests \ {r} : pc'[q] = pc[q] /\ req'[q] = req[q]
  BY <1>0, OthersStay
<1>s. ~Create(r) => \A e \in Evals : SameOrigin(e)
  BY <1>0, RowFrame
<1> DEFINE f == req[r].eval
<1>1. CASE Create(r)
  BY <1>1, CreateOwns
<1>2. CASE Start(r)
  <2>1. f \in Evals /\ Owns(r, f) /\ evals[f].state = "queued"
    BY <1>0, <1>2 DEF Start, Holds, Owns, Ran, RunOwnsRow
  <2>2. evals'[f].state = "running" /\ pc'[r] = "finish" /\ req' = req
    BY <1>0, <1>2, <2>1 DEF Start, Transition, Go, TypeOK, Rows
  <2>3. \A e \in Evals \ {f} : evals'[e] = evals[e]
    BY <1>0, <1>2 DEF Start, Transition, TypeOK
  <2> QED
    BY <1>0, <1>o, <1>s, <1>2, <2>1, <2>2, <2>3, RowMove DEF Start, Create
<1>3. CASE Complete(r) \/ Fail(r)
  <2>1. f \in Evals /\ Owns(r, f) /\ evals[f].state = "running"
    BY <1>0, <1>3 DEF Complete, Fail, Holds, Owns, Ran, RunOwnsRow
  <2>2. ~Unsettled(f)' /\ pc'[r] \notin {"start", "finish"} /\ req' = req
    <3>1. CASE Complete(r)
      BY <1>0, <3>1, <2>1 DEF Complete, Transition, Go, TypeOK, Rows, Unsettled
    <3>2. CASE Fail(r)
      BY <1>0, <3>2, <2>1 DEF Fail, Transition, Go, TypeOK, Rows, Unsettled
    <3> QED
      BY <1>3, <3>1, <3>2
  <2>3. \A e \in Evals \ {f} : evals'[e] = evals[e]
    BY <1>0, <1>3 DEF Complete, Fail, Transition, TypeOK
  <2> QED
    BY <1>0, <1>o, <1>s, <1>3, <2>1, <2>2, <2>3, RowMove DEF Complete, Fail, Create
<1>4. CASE Confirm(r) \/ Void(r)
  <2>1. f \in Evals /\ pc[r] = "change"
    BY <1>0, <1>4 DEF Confirm, Void, Holds
  <2>2. pc'[r] \notin {"start", "finish"} /\ req' = req
    BY <1>0, <1>4 DEF Confirm, Void, Go, TypeOK
  <2>3. \A e \in Evals \ {f} : evals'[e] = evals[e]
    BY <1>0, <1>4 DEF Confirm, Void, Transition, TypeOK
  <2>4. \/ evals' = evals
        \/ ~Unsettled(f) /\ ~Unsettled(f)'
    <3>1. CASE Confirm(r)
      <4>1. CASE evals[f].state \in Confirmable
        BY <1>0, <3>1, <2>1, <4>1 DEF Confirm, Transition, TypeOK, Rows, Unsettled, Confirmable
      <4>2. CASE evals[f].state \notin Confirmable
        BY <3>1, <4>2 DEF Confirm, Transition
      <4> QED
        BY <4>1, <4>2
    <3>2. CASE Void(r)
      <4>1. CASE evals[f].state \in Voidable
        BY <1>0, <3>2, <2>1, <4>1 DEF Void, Transition, TypeOK, Rows, Unsettled, Voidable
      <4>2. CASE evals[f].state \notin Voidable
        BY <3>2, <4>2 DEF Void, Transition
      <4> QED
        BY <4>1, <4>2
    <3> QED
      BY <1>4, <3>1, <3>2
  <2>5. CASE evals' = evals
    BY <1>0, <1>o, <1>s, <1>4, <2>1, <2>2, <2>5, QuietStep DEF Confirm, Void, Create
  <2>6. CASE ~Unsettled(f) /\ ~Unsettled(f)'
    BY <1>0, <1>o, <1>s, <1>4, <2>1, <2>2, <2>3, <2>6, RowMove DEF Confirm, Void, Create
  <2> QED
    BY <2>4, <2>5, <2>6
<1>5. CASE StoreReplay(r)
  <2>1. \A e \in Evals : evals'[e].state = evals[e].state
    BY <1>0, <1>5 DEF StoreReplay, TypeOK, Rows
  <2>2. pc[r] = "store" /\ pc'[r] = "record"
    BY <1>0, <1>5 DEF StoreReplay, Go, TypeOK
  <2> QED
    BY <1>0, <1>o, <1>s, <1>5, <2>1, <2>2, QuietStep DEF StoreReplay, Create
<1>6. CASE LoadPart(r) \/ CreateDuplicate(r) \/ FindAgain(r) \/ Reload(r) \/ Record(r) \/ Respond(r)
  <2>1. evals' = evals /\ ~Create(r)
    BY <1>6 DEF LoadPart, CreateDuplicate, FindAgain, Reload, Record, Respond, Create, Parts
  <2>2. pc[r] \notin {"start", "finish", "aborted"} /\ pc'[r] \notin {"start", "finish"}
    BY <1>0, <1>6 DEF LoadPart, CreateDuplicate, FindAgain, Reload, Record, Respond, Go, TypeOK,
                      Parts, AfterPart
  <2> QED
    BY <1>0, <1>o, <1>s, <2>1, <2>2, QuietStep
<1> QED
  BY <1>1, <1>2, <1>3, <1>4, <1>5, <1>6 DEF Step

LEMMA RunOwnsRowNext == RunInv /\ [Next]_vars => RunOwnsRow'
<1> SUFFICES ASSUME RunInv, [Next]_vars PROVE RunOwnsRow'
  OBVIOUS
<1>0. TypeOK /\ RunOwnsRow
  BY DEF RunInv
<1>1. ASSUME NEW r \in Requests, Arrive(r) PROVE RunOwnsRow'
  <2>1. pc[r] \notin {"start", "finish", "aborted"} /\ pc'[r] \notin {"start", "finish"}
    BY <1>0, <1>1, ArriveFrame
  <2>2. evals' = evals /\ \A q \in Requests \ {r} : pc'[q] = pc[q] /\ req'[q] = req[q]
    BY <1>0, <1>1, ArriveFrame, OthersStay
  <2>3. \A e \in Evals : SameOrigin(e) /\ evals'[e].state = evals[e].state
    BY <2>2 DEF SameOrigin, Exists
  <2> QED
    BY <1>0, <2>1, <2>2, <2>3, QuietStep
<1>2. ASSUME NEW r \in Requests, Abort(r) PROVE RunOwnsRow'
  <2>1. UNCHANGED <<evals, req>> /\ pc'[r] = "aborted"
    BY <1>0, <1>2 DEF Abort, Go, TypeOK
  <2>2. \A q \in Requests \ {r} : pc'[q] = pc[q]
    BY <1>0, <1>2, OthersStay
  <2>3. \A q \in Requests, e \in Evals : Owns(q, e)' <=> Owns(q, e) /\ q # r
    BY <2>1, <2>2 DEF Owns, Ran
  <2>4. \A e \in Evals : Orphan(e)' => Orphan(e) \/ Ran(r, e)
    BY <2>1, <2>3 DEF Orphan, Unsettled, Owns
  <2> QED
    BY <1>0, <2>1, <2>2, <2>3, <2>4 DEF RunOwnsRow, Ran
<1>3. CASE UNCHANGED <<evals, req, pc>>
  BY <1>0, <1>3 DEF RunOwnsRow, Owns, Ran, Orphan, Unsettled
<1> QED
  BY <1>1, <1>2, <1>3, RunOwnsRowStep DEF Next, Edit, vars

(* A run is alone with the row it inserted, for any number of requests.    *)
THEOREM RunInvCorrect == Spec => []RunInv
<1>1. Init => RunInv
  BY TypeInit, KeyedRowsInit, RunOwnsRowInit DEF RunInv
<1>2. RunInv /\ [Next]_vars => RunInv'
  BY TypeNext, KeyedRowsNext, RunOwnsRowNext DEF RunInv
<1> QED
  BY <1>1, <1>2, PTL DEF Spec

(* RunOwnsRow: Run's own conflicts cannot happen and nobody else settles   *)
(* the row of a run.                                                       *)
THEOREM RunOwnsRowCorrect == Spec => []RunOwnsRow
BY RunInvCorrect, PTL DEF RunInv

(* RunAnswersKey: one row per idempotency key, and every answer names it.  *)
THEOREM RunAnswersKeyCorrect == Spec => []RunAnswersKey
<1>1. RunInv => RunAnswersKey
  BY NoneAssumption DEF RunInv, KeyedRows, RunAnswersKey, TypeOK, Holds, RowsOf
<1> QED
  BY <1>1, RunInvCorrect, PTL

(* OrphanStays: a row that lost its run is never settled afterwards.       *)
THEOREM OrphanStaysCorrect == Spec => OrphanStays
<1> DEFINE Stays == \A e \in Evals : Orphan(e) => Orphan(e)' /\ evals'[e].state = evals[e].state
<1>1. ASSUME RunInv, NEW r \in Requests, Step(r), NEW e \in Evals, Orphan(e)
      PROVE  Orphan(e)' /\ evals'[e].state = evals[e].state
  <2>0. TypeOK /\ RunOwnsRow /\ Holds(r) /\ ~Owns(r, e)
    BY <1>1 DEF RunInv, TypeOK, Orphan
  <2>1. evals'[e].state = evals[e].state
    <3>1. CASE Create(r)
      BY <1>1, <2>0, <3>1, CreateFrame DEF Orphan, Unsettled, Exists
    <3>2. CASE Start(r) \/ Complete(r) \/ Fail(r)
      <4>1. req[r].eval # e
        BY <2>0, <3>2 DEF Start, Complete, Fail, Holds, Owns, Ran, RunOwnsRow
      <4> QED
        BY <2>0, <3>2, <4>1 DEF Start, Complete, Fail, Transition, TypeOK
    <3>3. CASE Confirm(r) \/ Void(r)
      BY <1>1, <2>0, <3>3 DEF Confirm, Void, Transition, TypeOK, Orphan, Unsettled, Confirmable,
                              Voidable
    <3>4. CASE StoreReplay(r)
      BY <2>0, <3>4 DEF StoreReplay, TypeOK, Rows
    <3>5. CASE UNCHANGED evals
      BY <3>5
    <3> QED
      BY <1>1, <3>1, <3>2, <3>3, <3>4, <3>5
      DEF Step, LoadPart, CreateDuplicate, FindAgain, Reload, Record, Respond
  <2>2. ASSUME NEW q \in Requests PROVE ~Owns(q, e)'
    <3>1. CASE q # r
      BY <1>1, <2>0, <3>1, OthersStay DEF Owns, Ran, Orphan
    <3>2. CASE q = r /\ Create(r)
      <4>1. PICK f \in Evals : ~Exists(f) /\ req'[r].eval = f
        BY <2>0, <3>2, CreateFrame
      <4>2. Exists(e)
        BY <1>1 DEF Orphan, Unsettled, Exists
      <4> QED
        BY <3>2, <4>1, <4>2 DEF Owns, Ran
    <3>3. CASE q = r /\ FindAgain(r)
      BY <2>0, <3>3 DEF FindAgain, Go, TypeOK, Owns
    <3>4. CASE q = r /\ ~Create(r) /\ ~FindAgain(r)
      <4>1. SameAim(r)
        BY <1>1, <2>0, <3>4, RequestFrame
      <4>2. pc'[r] \in {"start", "finish"} => pc[r] \in {"start", "finish"}
        BY <1>1, <2>0, <3>4
        DEF Step, LoadPart, AfterPart, Parts, CreateDuplicate, Start, Complete, Fail, Confirm,
            Void, StoreReplay, Reload, Record, Respond, Go, TypeOK
      <4> QED
        BY <2>0, <3>4, <4>1, <4>2 DEF Owns, Ran, SameAim
    <3> QED
      BY <3>1, <3>2, <3>3, <3>4
  <2> QED
    BY <1>1, <2>1, <2>2 DEF Orphan, Unsettled
<1>2. ASSUME RunInv, NEW r \in Requests, Arrive(r) \/ Abort(r) PROVE Stays
  <2>1. TypeOK
    BY <1>2 DEF RunInv
  <2>2. evals' = evals /\ pc'[r] \notin {"start", "finish"}
    BY <1>2, <2>1, ArriveFrame DEF Abort, Go, TypeOK
  <2> QED
    BY <1>2, <2>1, <2>2, OthersStay DEF Orphan, Unsettled, Owns, Ran
<1>3. ASSUME UNCHANGED <<evals, req, pc>> PROVE Stays
  BY <1>3 DEF Orphan, Unsettled, Owns, Ran
<1>4. RunInv /\ [Next]_vars => Stays
  BY <1>1, <1>2, <1>3 DEF Next, Edit, vars
<1> QED
  BY <1>4, RunInvCorrect, PTL DEF Spec, OrphanStays
=============================================================================
