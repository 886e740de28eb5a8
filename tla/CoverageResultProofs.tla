------------------------ MODULE CoverageResultProofs ------------------------
(***************************************************************************)
(* The rest of the inductive invariant: results, confirmations, audits;    *)
(* and the refinement of EvaluationLifecycle.                              *)
(* RowStep says all that a step can do to one row; what requests rely on   *)
(* is stable under it, whoever takes the step.                             *)
(***************************************************************************)
EXTENDS CoverageEvaluationProofs

Inserted(e) ==
  /\ ~Exists(e)
  /\ evals'[e].state = "queued" /\ evals'[e].score = 0
  /\ evals'[e].confirmedBy = None /\ evals'[e].replay = None

Moved(e, from, to) == evals[e].state = from /\ evals'[e].state = to

Kept(e) ==
  /\ evals'[e].score = evals[e].score
  /\ evals'[e].confirmedBy = evals[e].confirmedBy
  /\ evals'[e].replay = evals[e].replay

(* All that a step of request r can do to row e.                           *)
RowStep(r, e) ==
  \/ evals'[e] = evals[e]
  \/ Inserted(e)
  \/ /\ SameOrigin(e) /\ Exists(e)
     /\ \/ Moved(e, "queued", "running") /\ Kept(e)
        \/ /\ Moved(e, "running", "completed")
           /\ evals'[e].score = Score[evals[e].input]
           /\ evals'[e].confirmedBy = evals[e].confirmedBy
           /\ evals'[e].replay = evals[e].replay
           /\ pc'[r] = "reload" /\ req'[r].eval = e /\ req'[r].op = "run"
        \/ Moved(e, "running", "failed") /\ Kept(e) /\ Score[evals[e].input] = EvalError
        \/ /\ Moved(e, "completed", "confirmed")
           /\ evals'[e].score = evals[e].score /\ evals'[e].replay = evals[e].replay
           /\ evals'[e].confirmedBy = req[r].user
           /\ pc[r] = "change" /\ req[r].op = "confirm" /\ req[r].eval = e
           /\ pc'[r] = "reload" /\ req' = req
        \/ /\ evals[e].state \in Voidable /\ evals'[e].state = "voided" /\ Kept(e)
           /\ pc[r] = "change" /\ req[r].op = "void" /\ req[r].eval = e
           /\ pc'[r] = "reload" /\ req' = req
        \/ /\ evals'[e].state = evals[e].state
           /\ evals'[e].score = evals[e].score
           /\ evals'[e].confirmedBy = evals[e].confirmedBy
           /\ evals'[e].replay # None
           /\ pc[r] = "store" /\ req[r].eval = e /\ pc'[r] = "record" /\ req' = req

LEMMA RowSteps ==
  ASSUME RunInv, RequestsRely, NEW r \in Requests, Step(r), NEW e \in Evals
  PROVE  RowStep(r, e)
<1>0. TypeOK /\ RunOwnsRow /\ Holds(r) /\ evals[e] \in Rows /\ req[r] \in RequestRecords
  BY DEF RunInv, TypeOK
<1>s. ~Create(r) => SameOrigin(e)
  BY <1>0, RowFrame
<1>1. CASE Create(r)
  <2>1. PICK f \in Evals :
          /\ ~Exists(f)
          /\ evals'[f] = [Absent EXCEPT !.state = "queued", !.key = req[r].key,
                            !.scenario = req[r].scenario, !.input = req[r].input]
          /\ \A g \in Evals \ {f} : evals'[g] = evals[g]
    BY <1>0, <1>1, CreateFrame
  <2> QED
    BY <2>1 DEF RowStep, Inserted, Absent
<1>2. CASE Start(r)
  BY <1>0, <1>s, <1>2 DEF Start, Transition, TypeOK, Rows, RowStep, Moved, Kept, Exists, Create
<1>3. CASE Complete(r)
  <2>1. req[r].input = evals[req[r].eval].input /\ req[r].op = "run" /\ req[r].eval \in Evals
    BY <1>0, <1>3 DEF Complete, RunOwnsRow, Holds
  <2> QED
    BY <1>0, <1>s, <1>3, <2>1
    DEF Complete, Result, Transition, Go, TypeOK, Rows, RowStep, Moved, Exists, Create
<1>4. CASE Fail(r)
  <2>1. req[r].input = evals[req[r].eval].input
    BY <1>0, <1>4 DEF Fail, RunOwnsRow
  <2> QED
    BY <1>0, <1>s, <1>4, <2>1
    DEF Fail, Result, Transition, TypeOK, Rows, RowStep, Moved, Kept, Exists, Create
<1>5. CASE Confirm(r)
  BY <1>0, <1>s, <1>5
  DEF Confirm, Confirmable, Transition, Go, TypeOK, Rows, RowStep, Moved, Exists, Create
<1>6. CASE Void(r)
  BY <1>0, <1>s, <1>6
  DEF Void, Voidable, Transition, Go, TypeOK, Rows, RowStep, Kept, Exists, Create
<1>7. CASE StoreReplay(r)
  <2>1. Exists(req[r].eval) /\ req[r].verdict # None
    BY <1>0, <1>7, NoneAssumption
    DEF StoreReplay, RequestsRely, Relies, ReplayRelies, Holds, Verdicts
  <2> QED
    BY <1>0, <1>s, <1>7, <2>1 DEF StoreReplay, Go, TypeOK, Rows, RowStep, Create
<1>8. CASE UNCHANGED evals
  BY <1>8 DEF RowStep
<1> QED
  BY <1>1, <1>2, <1>3, <1>4, <1>5, <1>6, <1>7, <1>8
  DEF Step, LoadPart, CreateDuplicate, FindAgain, Reload, Record, Respond

(* What others may know of a row stays true.                               *)
LEMMA RowStable ==
  ASSUME NEW r \in Requests, NEW e \in Evals, RowStep(r, e), evals[e] \in Rows
  PROVE  /\ Exists(e) => Exists(e)' /\ SameOrigin(e)
         /\ Finished(e) => Finished(e)'
         /\ \A b \in CoverageStateValues :
              Exists(e) /\ evals[e].state \in StatesFrom[b] => evals'[e].state \in StatesFrom[b]
         /\ evals[e].state \in {"confirmed", "voided"} =>
              /\ evals'[e].state \in {"confirmed", "voided"}
              /\ evals'[e].confirmedBy = evals[e].confirmedBy
         /\ evals[e].state = "voided" => evals'[e].state = "voided"
         /\ Exists(e) /\ evals[e].replay # None => evals'[e].replay # None
<1>1. Exists(e) => Exists(e)' /\ SameOrigin(e)
  BY DEF RowStep, Inserted, SameOrigin, Exists
<1>2. Finished(e) => Finished(e)'
  BY DEF RowStep, Inserted, SameOrigin, Exists, Moved, Kept, Finished, Voidable
<1>3. \A b \in CoverageStateValues :
        Exists(e) /\ evals[e].state \in StatesFrom[b] => evals'[e].state \in StatesFrom[b]
  BY DEF RowStep, Inserted, Moved, Voidable, StatesFrom, CoverageStateValues
<1>4. evals[e].state \in {"confirmed", "voided"} =>
        /\ evals'[e].state \in {"confirmed", "voided"}
        /\ evals'[e].confirmedBy = evals[e].confirmedBy
  BY DEF RowStep, Inserted, Exists, Moved, Kept, Voidable
<1>5. evals[e].state = "voided" => evals'[e].state = "voided"
  BY DEF RowStep, Inserted, Exists, Moved, Voidable
<1>6. Exists(e) /\ evals[e].replay # None => evals'[e].replay # None
  BY DEF RowStep, Inserted, Kept
<1> QED
  BY <1>1, <1>2, <1>3, <1>4, <1>5, <1>6

LEMMA RowResultStable ==
  ASSUME RunInv, ResultFromSnapshot, NEW r \in Requests, NEW e \in Evals, RowStep(r, e)
  PROVE  LET row == evals'[e] IN
         /\ row.state \in {"completed", "confirmed"} => row.score = Score[row.input]
         /\ row.state = "failed" => Score[row.input] = EvalError
         /\ row.state = "voided" => Score[row.input] \in {row.score, EvalError}
BY DEF ResultFromSnapshot, RowStep, Inserted, SameOrigin, Moved, Kept, Voidable

(* A verdict is carried unchanged from the read to the answer.             *)
LEMMA ResultNext == IInv /\ [Next]_vars => ResultFromSnapshot'
<1> SUFFICES ASSUME IInv, [Next]_vars PROVE ResultFromSnapshot'
  OBVIOUS
<1>0. RunInv /\ TypeOK /\ RequestsRely /\ ResultFromSnapshot
  BY DEF IInv, RunInv
<1> DEFINE Faithful(q) ==
      /\ req[q].op = "replay" /\ pc[q] \in {"store", "record", "respond", "answered"}
      /\ req[q].before \in {"completed", "confirmed"}
      => req[q].verdict = "passed"
<1>1. ASSUME NEW r \in Requests, Step(r) PROVE ResultFromSnapshot'
  <2>1. \A e \in Evals : RowStep(r, e)
    BY <1>0, <1>1, RowSteps
  <2>2. ASSUME NEW q \in Requests PROVE Faithful(q)'
    <3>1. CASE q # r
      BY <1>0, <1>1, <3>1, OthersStay DEF ResultFromSnapshot
    <3>2. CASE q = r /\ (StoreReplay(r) \/ Record(r) \/ Respond(r))
      BY <1>0, <3>2 DEF StoreReplay, Record, Respond, Go, TypeOK, ResultFromSnapshot
    <3>3. CASE q = r /\ ~StoreReplay(r) /\ ~Record(r) /\ ~Respond(r)
      <4>1. Holds(r) /\ Holds(r)'
        BY <1>0, TypeNext DEF TypeOK
      <4>2. req'[r].op # "replay" \/ pc'[r] \notin {"store", "record", "respond", "answered"}
        BY <1>0, <1>1, <3>3, <4>1
        DEF Step, LoadPart, AfterPart, Parts, Create, CreateDuplicate, FindAgain, Start, Complete,
            Fail, Confirm, Void, Reload, Go, TypeOK, Holds, RequestRecords
      <4> QED
        BY <3>3, <4>2
    <3> QED
      BY <3>1, <3>2, <3>3
  <2> QED
    BY <1>0, <2>1, <2>2, RowResultStable DEF ResultFromSnapshot
<1>2. ASSUME NEW r \in Requests, Arrive(r) PROVE ResultFromSnapshot'
  <2>1. evals' = evals /\ \A q \in Requests \ {r} : pc'[q] = pc[q] /\ req'[q] = req[q]
    BY <1>0, <1>2, ArriveFrame, OthersStay
  <2>2. Faithful(r)'
    <3>0. PICK u \in Users : \/ \E k \in Keys, s \in Scenarios : FindKey(r, u, k, s)
                             \/ \E op \in {"confirm", "void"}, e \in Evals : LoadForChange(r, u, op, e)
                             \/ \E e \in Evals : LoadForReplay(r, u, e)
      BY <1>2 DEF Arrive
    <3>1. ASSUME NEW e \in Evals, LoadForReplay(r, u, e) PROVE Faithful(r)'
      <4>1. /\ req'[r].before = evals[e].state
            /\ req'[r].verdict = IF Score[evals[e].input] = evals[e].score
                                 THEN "passed" ELSE "mismatch"
        BY <1>0, <3>1 DEF LoadForReplay, TypeOK, NoRequest
      <4> QED
        BY <1>0, <4>1 DEF ResultFromSnapshot
    <3>2. CASE \E k \in Keys, s \in Scenarios : FindKey(r, u, k, s)
      BY <1>0, <3>2 DEF FindKey, TypeOK, NoRequest
    <3>3. CASE \E op \in {"confirm", "void"}, e \in Evals : LoadForChange(r, u, op, e)
      BY <1>0, <3>3 DEF LoadForChange, TypeOK, NoRequest
    <3> QED
      BY <3>0, <3>1, <3>2, <3>3
  <2> QED
    BY <1>0, <2>1, <2>2 DEF ResultFromSnapshot
<1>3. ASSUME NEW r \in Requests, Abort(r) PROVE ResultFromSnapshot'
  BY <1>0, <1>3 DEF Abort, Go, TypeOK, ResultFromSnapshot
<1>4. CASE UNCHANGED <<evals, req, pc>>
  BY <1>0, <1>4 DEF ResultFromSnapshot
<1> QED
  BY <1>1, <1>2, <1>3, <1>4 DEF Next, Edit, vars

LEMMA AbsentRowsNext == IInv /\ [Next]_vars => AbsentRows'
<1> SUFFICES ASSUME IInv, [Next]_vars PROVE AbsentRows'
  OBVIOUS
<1>0. RunInv /\ TypeOK /\ RequestsRely /\ AbsentRows
  BY DEF IInv, RunInv
<1>1. ASSUME NEW r \in Requests, Step(r) PROVE AbsentRows'
  BY <1>0, <1>1, RowSteps DEF AbsentRows, RowStep, Inserted, SameOrigin, Exists
<1>2. CASE UNCHANGED evals
  BY <1>0, <1>2 DEF AbsentRows, Exists
<1> QED
  BY <1>0, <1>1, <1>2, ArriveFrame DEF Next, Abort, Edit, vars

(* Two requests that won the same change of the same row.                  *)
SameWin(q1, q2) ==
  /\ {pc[q1], pc[q2]} \subseteq Won
  /\ req[q1].op = req[q2].op /\ req[q1].op \in {"confirm", "void"}
  /\ req[q1].eval = req[q2].eval

LEMMA WinNew ==
  ASSUME RunInv, NEW r \in Requests, Step(r), pc'[r] \in Won, req'[r].op \in {"confirm", "void"}
  PROVE  /\ req'[r].op = req[r].op /\ req'[r].eval = req[r].eval /\ req[r].eval \in Evals
         /\ \/ pc[r] \in Won
            \/ /\ pc[r] = "change"
               /\ req[r].op = "confirm" => evals[req[r].eval].state = "completed"
               /\ req[r].op = "void" => evals[req[r].eval].state \in Voidable
<1>0. TypeOK /\ Holds(r) /\ Holds(r)'
  BY TypeNext DEF RunInv, TypeOK, Next
<1>1. CASE Confirm(r) \/ Void(r)
  BY <1>0, <1>1 DEF Confirm, Void, Confirmable, Go, TypeOK, Holds, Won
<1>2. CASE Reload(r) \/ Record(r) \/ Respond(r)
  BY <1>0, <1>2 DEF Reload, Record, Respond, Go, TypeOK, Holds, Won, RequestRecords
<1>3. CASE ~Confirm(r) /\ ~Void(r) /\ ~Reload(r) /\ ~Record(r) /\ ~Respond(r)
  <2>1. req'[r].op \notin {"confirm", "void"} \/ pc'[r] \notin Won
    BY <1>0, <1>3
    DEF Step, LoadPart, AfterPart, Parts, Create, CreateDuplicate, FindAgain, Start, Complete,
        Fail, StoreReplay, Go, TypeOK, Holds, RequestRecords, Won
  <2> QED
    BY <2>1
<1> QED
  BY <1>1, <1>2, <1>3

LEMMA ConfirmedNext == IInv /\ [Next]_vars => ConfirmedByOther'
<1> SUFFICES ASSUME IInv, [Next]_vars PROVE ConfirmedByOther'
  OBVIOUS
<1>0. RunInv /\ TypeOK /\ RequestsRely /\ ConfirmedByOther
  BY DEF IInv, RunInv
<1>w. \A q1, q2 \in Requests : SameWin(q1, q2) => q1 = q2
  BY <1>0 DEF ConfirmedByOther, SameWin, Won
<1>1. ASSUME NEW r \in Requests, Step(r) PROVE ConfirmedByOther'
  <2>1. ASSUME NEW e \in Evals
        PROVE  LET row == evals'[e] IN
               /\ row.state = "confirmed" => row.confirmedBy # None
               /\ row.confirmedBy # None =>
                    /\ row.state \in {"confirmed", "voided"}
                    /\ HasPermission(Role[row.confirmedBy], "evaluation:confirm")
                    /\ row.confirmedBy # Author[row.scenario]
    <3>1. RowStep(r, e)
      BY <1>0, <1>1, RowSteps
    <3>2. pc[r] = "change" /\ req[r].op = "confirm" /\ req[r].eval = e =>
            /\ req[r].user # None
            /\ HasPermission(Role[req[r].user], "evaluation:confirm")
            /\ req[r].user # Author[evals[e].scenario]
      BY <1>0, NoneAssumption DEF RequestsRely, Relies, ConfirmRelies, TypeOK, Holds
    <3> QED
      BY <1>0, <3>1, <3>2
      DEF ConfirmedByOther, RowStep, Inserted, SameOrigin, Moved, Kept, Voidable
  <2>2. ASSUME NEW q \in Requests, q # r, SameWin(q, r)' PROVE FALSE
    <3>1. pc'[q] = pc[q] /\ req'[q] = req[q]
      BY <1>0, <1>1, <2>2, OthersStay
    <3>2. pc'[r] \in Won /\ req'[r].op \in {"confirm", "void"} /\ pc[q] \in Won
      BY <2>2, <3>1 DEF SameWin
    <3>3. req[r].op = req[q].op /\ req[r].eval = req[q].eval /\ req[q].op \in {"confirm", "void"}
      BY <1>0, <1>1, <2>2, <3>1, <3>2, WinNew DEF SameWin
    <3>4. pc[r] \notin Won
      BY <1>w, <2>2, <3>2, <3>3 DEF SameWin
    <3>5. /\ req[q].op = "confirm" => evals[req[q].eval].state \in {"confirmed", "voided"}
          /\ req[q].op = "void" => evals[req[q].eval].state = "voided"
      BY <1>0, <3>2 DEF RequestsRely, Relies, ConfirmRelies, VoidRelies
    <3> QED
      BY <1>0, <1>1, <3>2, <3>3, <3>4, <3>5, WinNew DEF Voidable
  <2>3. \A q1, q2 \in Requests : SameWin(q1, q2)' => q1 = q2
    <3>1. \A q1, q2 \in Requests \ {r} : SameWin(q1, q2)' => q1 = q2
      BY <1>0, <1>1, <1>w, OthersStay DEF SameWin
    <3>2. \A q \in Requests : SameWin(r, q)' => SameWin(q, r)'
      BY DEF SameWin
    <3> QED
      BY <2>2, <3>1, <3>2
  <2> QED
    BY <2>1, <2>3 DEF ConfirmedByOther, SameWin, Won
<1>2. ASSUME NEW r \in Requests, Arrive(r) PROVE ConfirmedByOther'
  <2>1. evals' = evals /\ (pc'[r] \in Won => req'[r].op = "run")
    <3>0. PICK u \in Users : \/ \E k \in Keys, s \in Scenarios : FindKey(r, u, k, s)
                             \/ \E op \in {"confirm", "void"}, e \in Evals : LoadForChange(r, u, op, e)
                             \/ \E e \in Evals : LoadForReplay(r, u, e)
      BY <1>2 DEF Arrive
    <3> QED
      BY <1>0, <3>0 DEF FindKey, LoadForChange, LoadForReplay, TypeOK, Go, NoRequest, Won
  <2>2. \A q1, q2 \in Requests : SameWin(q1, q2)' => SameWin(q1, q2)
    BY <1>0, <1>2, <2>1, OthersStay DEF SameWin
  <2> QED
    BY <1>0, <1>w, <2>1, <2>2 DEF ConfirmedByOther, SameWin, Won
<1>3. ASSUME NEW r \in Requests, Abort(r) PROVE ConfirmedByOther'
  <2>1. \A q1, q2 \in Requests : SameWin(q1, q2)' => SameWin(q1, q2)
    BY <1>0, <1>3 DEF Abort, Go, TypeOK, SameWin, Won
  <2> QED
    BY <1>0, <1>w, <1>3, <2>1 DEF ConfirmedByOther, SameWin, Won, Abort
<1>4. CASE UNCHANGED <<evals, req, pc>>
  BY <1>0, <1>4 DEF ConfirmedByOther
<1> QED
  BY <1>1, <1>2, <1>3, <1>4 DEF Next, Edit, vars

(* What a request relies on survives the steps of the others.              *)
LEMMA ReliesStable ==
  ASSUME RunInv, AbsentRows, NEW r \in Requests, NEW q \in Requests, Relies(q),
         \A e \in Evals : RowStep(r, e) \/ evals'[e] = evals[e],
         pc'[q] = pc[q], req'[q] = req[q]
  PROVE  Relies(q)'
<1>0. TypeOK /\ Holds(q)
  BY DEF RunInv, TypeOK
<1> DEFINE e == req[q].eval
<1>1. CASE pc[q] \notin {"change", "store", "reload", "record", "respond", "answered"}
  BY <1>1 DEF Relies, RunRelies, ConfirmRelies, VoidRelies, ReplayRelies, Won
<1>2. CASE pc[q] \in {"change", "store", "reload", "record", "respond", "answered"}
  <2>1. e \in Evals /\ evals[e] \in Rows
    BY <1>0, <1>2 DEF Holds, TypeOK
  <2>2. RowStep(r, e)
    BY <2>1 DEF RowStep
  <2>3. /\ Exists(e) => Exists(e)' /\ evals'[e].scenario = evals[e].scenario
        /\ Finished(e) => Finished(e)'
        /\ \A b \in CoverageStateValues :
             Exists(e) /\ evals[e].state \in StatesFrom[b] => evals'[e].state \in StatesFrom[b]
        /\ evals[e].state \in {"confirmed", "voided"} =>
             /\ evals'[e].state \in {"confirmed", "voided"}
             /\ evals'[e].confirmedBy = evals[e].confirmedBy
        /\ evals[e].state = "voided" => evals'[e].state = "voided"
    BY <2>1, <2>2, RowStable DEF SameOrigin
  <2>4. evals[e].replay # None => evals'[e].replay # None
    BY <2>1, <2>2, RowStable DEF AbsentRows, Absent
  <2>5. CASE req[q].op = "run"
    BY <2>3, <2>5 DEF Relies, RunRelies, Finished, Exists
  <2>6. CASE req[q].op = "confirm"
    BY <2>3, <2>6 DEF Relies, ConfirmRelies, Exists
  <2>7. CASE req[q].op = "void"
    BY <2>3, <2>7 DEF Relies, VoidRelies, Exists
  <2>8. CASE req[q].op = "replay"
    BY <2>3, <2>4, <2>8 DEF Relies, ReplayRelies, Exists
  <2> QED
    BY <1>0, <2>5, <2>6, <2>7, <2>8 DEF Relies
<1> QED
  BY <1>1, <1>2

(* ... and its own steps lead from one thing it relies on to the next.     *)
LEMMA ReliesOwn ==
  ASSUME IInv, NEW r \in Requests, Step(r)
  PROVE  Relies(r)'
<1>0. /\ RunInv /\ TypeOK /\ RequestsRely /\ Holds(r) /\ RunOwnsRow /\ ResultFromSnapshot
      /\ Relies(r) /\ req[r] \in RequestRecords
  BY DEF IInv, RunInv, TypeOK, RequestsRely
<1>s. \A e \in Evals : RowStep(r, e)
  BY <1>0, RowSteps
<1> DEFINE e == req[r].eval
<1>1. CASE Complete(r)
  <2>1. /\ e \in Evals /\ evals[e].state = "running" /\ req[r].op = "run"
        /\ req[r].input = evals[e].input
    BY <1>0, <1>1 DEF Complete, Holds, RunOwnsRow
  <2>2. Finished(e)' /\ req' = req
    BY <1>0, <1>1, <2>1 DEF Complete, Result, Transition, TypeOK, Rows, Finished
  <2> QED
    BY <2>1, <2>2 DEF Relies, RunRelies, Finished
<1>2. CASE Confirm(r)
  <2>1. e \in Evals /\ req' = req /\ req[r].op = "confirm"
    BY <1>0, <1>2 DEF Confirm, Holds
  <2>2. CASE evals[e].state = "completed"
    <3>1. evals'[e].state = "confirmed" /\ evals'[e].confirmedBy = req[r].user /\ pc'[r] = "reload"
      BY <1>0, <1>2, <2>1, <2>2 DEF Confirm, Confirmable, Transition, Go, TypeOK, Rows
    <3>2. req[r].before \in {"queued", "running", "completed"}
      BY <1>0, <1>2, <2>2 DEF Confirm, Relies, ConfirmRelies, StatesFrom, CoverageStateValues
    <3> QED
      BY <2>1, <3>1, <3>2 DEF Relies, ConfirmRelies
  <2>3. CASE evals[e].state # "completed"
    <3>1. pc'[r] = "refused"
      BY <1>0, <1>2, <2>3 DEF Confirm, Confirmable, Go, TypeOK
    <3> QED
      BY <2>1, <3>1 DEF Relies, ConfirmRelies, Won
  <2> QED
    BY <2>2, <2>3
<1>3. CASE Void(r)
  <2>1. e \in Evals /\ req' = req /\ req[r].op = "void"
    BY <1>0, <1>3 DEF Void, Holds
  <2>2. CASE evals[e].state \in Voidable
    <3>1. evals'[e].state = "voided" /\ pc'[r] = "reload"
      BY <1>0, <1>3, <2>1, <2>2 DEF Void, Transition, Go, TypeOK, Rows
    <3>2. req[r].before \in CoverageStateValues \ {"voided"}
      BY <1>0, <1>3, <2>2 DEF Void, Relies, VoidRelies, StatesFrom, CoverageStateValues, Voidable
    <3> QED
      BY <2>1, <3>1, <3>2 DEF Relies, VoidRelies
  <2>3. CASE evals[e].state \notin Voidable
    <3>1. pc'[r] = "refused"
      BY <1>0, <1>3, <2>3 DEF Void, Go, TypeOK
    <3> QED
      BY <2>1, <3>1 DEF Relies, VoidRelies, Won
  <2> QED
    BY <2>2, <2>3
<1>4. CASE StoreReplay(r)
  <2>1. e \in Evals /\ req' = req /\ req[r].op = "replay" /\ pc'[r] = "record"
    BY <1>0, <1>4 DEF StoreReplay, Holds, Go, TypeOK
  <2>2. evals'[e].replay # None
    BY <1>0, <1>4, <2>1, NoneAssumption DEF StoreReplay, Holds, Verdicts, TypeOK, Rows
  <2> QED
    BY <2>1, <2>2 DEF Relies, ReplayRelies
<1>5. CASE Reload(r)
  <2>1. /\ e \in Evals /\ evals' = evals /\ pc[r] = "reload" /\ pc'[r] = "record"
        /\ req'[r] = [req[r] EXCEPT !.after = evals[e].state] /\ req[r].op # "replay"
    BY <1>0, <1>5 DEF Reload, Holds, Go, TypeOK
  <2>2. /\ req'[r].op = req[r].op /\ req'[r].eval = e /\ req'[r].user = req[r].user
        /\ req'[r].before = req[r].before /\ req'[r].after = evals[e].state
    BY <1>0, <2>1 DEF RequestRecords
  <2> QED
    BY <1>0, <2>1, <2>2
    DEF Relies, RunRelies, ConfirmRelies, VoidRelies, ReplayRelies, Finished, Won
<1>6. CASE Record(r) \/ Respond(r)
  <2>1. /\ evals' = evals /\ req' = req /\ pc'[r] \in {"respond", "refused", "answered"}
        /\ pc[r] \in {"record", "respond"}
    BY <1>0, <1>6 DEF Record, Respond, Go, TypeOK
  <2> QED
    BY <1>0, <2>1
    DEF Relies, RunRelies, ConfirmRelies, VoidRelies, ReplayRelies, Finished, Won
<1>7. CASE LoadPart(r) \/ Create(r) \/ CreateDuplicate(r) \/ FindAgain(r) \/ Start(r) \/ Fail(r)
  <2>1. req[r].op = "run" /\ pc'[r] \notin {"reload", "record"}
    BY <1>0, <1>7 DEF LoadPart, Create, CreateDuplicate, FindAgain, Start, Fail, Holds, Go, TypeOK,
                      Parts, AfterPart
  <2>2. req'[r].op = "run"
    BY <1>0, <1>7, <2>1 DEF LoadPart, Create, CreateDuplicate, FindAgain, Start, Fail, TypeOK,
                            RequestRecords
  <2> QED
    BY <2>1, <2>2 DEF Relies, RunRelies
<1> QED
  BY <1>1, <1>2, <1>3, <1>4, <1>5, <1>6, <1>7 DEF Step

LEMMA ReliesArrive ==
  ASSUME IInv, NEW r \in Requests, Arrive(r)
  PROVE  Relies(r)'
<1>0. TypeOK
  BY DEF IInv, RunInv
<1>1. PICK u \in Users : \/ \E k \in Keys, s \in Scenarios : FindKey(r, u, k, s)
                         \/ \E op \in {"confirm", "void"}, e \in Evals : LoadForChange(r, u, op, e)
                         \/ \E e \in Evals : LoadForReplay(r, u, e)
  BY DEF Arrive
<1>2. CASE \E k \in Keys, s \in Scenarios : FindKey(r, u, k, s)
  <2>1. req'[r].op = "run" /\ pc'[r] \in {"scenario", "respond"}
    BY <1>0, <1>2 DEF FindKey, TypeOK, Go, NoRequest
  <2> QED
    BY <2>1 DEF Relies, RunRelies
<1>3. ASSUME NEW op \in {"confirm", "void"}, NEW e \in Evals, LoadForChange(r, u, op, e)
      PROVE  Relies(r)'
  <2>1. /\ req'[r].op = op /\ req'[r].user = u /\ req'[r].eval = e
        /\ req'[r].before = evals[e].state /\ evals' = evals
    BY <1>0, <1>3 DEF LoadForChange, TypeOK, NoRequest
  <2>2. /\ pc'[r] \in {"change", "refused"}
        /\ pc'[r] = "change" => Exists(e) /\ (op = "confirm" => Author[evals[e].scenario] # u)
    BY <1>0, <1>3 DEF LoadForChange, NotTheAuthor, TypeOK, Go
  <2>3. Exists(e) => evals[e].state \in CoverageStateValues /\ evals[e].state \in StatesFrom[evals[e].state]
    BY <1>0 DEF TypeOK, Rows, Exists, StatesFrom, CoverageStateValues
  <2>4. HasPermission(Role[u], "evaluation:confirm")
    BY <1>3 DEF LoadForChange
  <2>5. CASE op = "confirm"
    BY <2>1, <2>2, <2>3, <2>4, <2>5 DEF Relies, ConfirmRelies, Exists, Won
  <2>6. CASE op = "void"
    BY <2>1, <2>2, <2>3, <2>6 DEF Relies, VoidRelies, Exists, Won
  <2> QED
    BY <2>5, <2>6
<1>4. ASSUME NEW e \in Evals, LoadForReplay(r, u, e) PROVE Relies(r)'
  <2>1. /\ req'[r].op = "replay" /\ req'[r].eval = e /\ evals' = evals
        /\ pc'[r] \in {"store", "refused"} /\ (pc'[r] = "store" => Exists(e))
    BY <1>0, <1>4 DEF LoadForReplay, TypeOK, NoRequest, Go
  <2> QED
    BY <2>1 DEF Relies, ReplayRelies, Exists
<1> QED
  BY <1>1, <1>2, <1>3, <1>4

LEMMA RequestsRelyNext == IInv /\ [Next]_vars => RequestsRely'
<1> SUFFICES ASSUME IInv, [Next]_vars PROVE RequestsRely'
  OBVIOUS
<1>0. RunInv /\ TypeOK /\ RequestsRely /\ AbsentRows
  BY DEF IInv, RunInv
<1>1. ASSUME NEW r \in Requests, Step(r) PROVE RequestsRely'
  <2>1. \A e \in Evals : RowStep(r, e)
    BY <1>0, <1>1, RowSteps
  <2>2. ASSUME NEW q \in Requests, q # r PROVE Relies(q)'
    BY <1>0, <1>1, <2>1, <2>2, OthersStay, ReliesStable DEF RequestsRely
  <2> QED
    BY <1>1, <2>2, ReliesOwn DEF RequestsRely
<1>2. ASSUME NEW r \in Requests, Arrive(r) PROVE RequestsRely'
  <2>1. evals' = evals
    BY <1>0, <1>2, ArriveFrame
  <2>2. ASSUME NEW q \in Requests, q # r PROVE Relies(q)'
    BY <1>0, <1>2, <2>1, <2>2, OthersStay, ReliesStable DEF RequestsRely
  <2> QED
    BY <1>2, <2>2, ReliesArrive DEF RequestsRely
<1>3. ASSUME NEW r \in Requests, Abort(r) PROVE RequestsRely'
  <2>1. UNCHANGED <<evals, req>> /\ pc'[r] = "aborted"
    BY <1>0, <1>3 DEF Abort, Go, TypeOK
  <2>2. ASSUME NEW q \in Requests, q # r PROVE Relies(q)'
    BY <1>0, <1>3, <2>1, <2>2, OthersStay, ReliesStable DEF RequestsRely
  <2>3. Relies(r)'
    BY <2>1 DEF Relies, RunRelies, ConfirmRelies, VoidRelies, ReplayRelies, Won
  <2> QED
    BY <2>2, <2>3 DEF RequestsRely
<1>4. CASE UNCHANGED <<evals, req, pc>>
  BY <1>0, <1>4
  DEF RequestsRely, Relies, RunRelies, ConfirmRelies, VoidRelies, ReplayRelies, Finished, Exists
<1> QED
  BY <1>1, <1>2, <1>3, <1>4 DEF Next, Edit, vars

(* The audit log only grows, by a row of the request that takes the step.  *)
LEMMA AuditStep ==
  ASSUME TypeOK, NEW r \in Requests, Step(r)
  PROVE  /\ \A a \in audits : a \in audits'
         /\ \A a \in audits' \ audits :
              /\ a.request = r
              /\ \/ /\ pc[r] = "record" /\ pc'[r] \in {"respond", "refused"} /\ req' = req
                    /\ evals' = evals /\ a.action = req[r].op /\ req[r].op \in Operations
                    /\ req[r].op \in {"confirm", "void"} =>
                         a.from = req[r].before /\ a.to = req[r].after
                 \/ /\ pc[r] = "respond" /\ pc'[r] = "answered" /\ req' = req /\ evals' = evals
                    /\ a.action = "http_write"
<1>1. Holds(r)
  BY DEF TypeOK
<1>2. CASE Record(r)
  BY <1>1, <1>2 DEF Record, Holds, Go, TypeOK
<1>3. CASE Respond(r)
  BY <1>3 DEF Respond, Go, TypeOK
<1>4. CASE audits' = audits
  BY <1>4
<1> QED
  BY <1>2, <1>3, <1>4 DEF Step, LoadPart, Create, CreateDuplicate, FindAgain, Start, Complete,
     Fail, Confirm, Void, StoreReplay, Reload

LEMMA RecordedStable ==
  ASSUME NEW r, NEW op, Recorded(r, op), \A a \in audits : a \in audits'
  PROVE  Recorded(r, op)'
BY DEF Recorded

LEMMA RecordRecords ==
  ASSUME NEW r \in Requests, Record(r)
  PROVE  Recorded(r, req[r].op)'
<1>1. req' = req
  BY DEF Record
<1> DEFINE a == [request |-> r, action |-> req[r].op,
                 from |-> IF req[r].op \in {"confirm", "void"} THEN req[r].before ELSE None,
                 to |-> IF req[r].op \in {"confirm", "void"} THEN req[r].after ELSE None]
<1>2. a \in audits' /\ a.request = r /\ a.action = req[r].op
  BY DEF Record
<1> QED
  BY <1>1, <1>2 DEF Recorded

(* A request that is recorded, or answered, takes no step but its last.    *)
LEMMA LateSteps ==
  ASSUME TypeOK, NEW r \in Requests, Step(r) \/ Arrive(r) \/ Abort(r),
         NEW q \in Requests, pc[q] \in {"respond"} \cup Final
  PROVE  /\ req'[q] = req[q]
         /\ pc'[q] = pc[q] \/ (pc[q] = "respond" /\ pc'[q] \in {"answered", "aborted"})
<1>1. CASE q # r
  BY <1>1, OthersStay
<1>2. CASE q = r /\ Step(r)
  <2>1. Respond(r)
    BY <1>2 DEF Step, LoadPart, Parts, Create, CreateDuplicate, FindAgain, Start, Complete, Fail,
                Confirm, Void, StoreReplay, Reload, Record, Final
  <2> QED
    BY <1>2, <2>1 DEF Respond, Go, TypeOK
<1>3. CASE q = r /\ Arrive(r)
  BY <1>3, ArriveFrame DEF Final
<1>4. CASE q = r /\ Abort(r)
  BY <1>4 DEF Abort, Statements, Parts, Final, Go, TypeOK
<1> QED
  BY <1>1, <1>2, <1>3, <1>4

LEMMA AuditsAreLastNext == IInv /\ [Next]_vars => AuditsAreLast'
<1> SUFFICES ASSUME IInv, [Next]_vars PROVE AuditsAreLast'
  OBVIOUS
<1>0. TypeOK /\ AuditsAreLast
  BY DEF IInv, RunInv
<1> DEFINE Place(a) == IF a.action = "http_write" THEN {"answered"} ELSE {"respond"} \cup Final
<1>a. \A a \in audits : /\ a.request \in Requests /\ pc[a.request] \in Place(a)
                         /\ req[a.request].eval \in Evals
  BY <1>0 DEF TypeOK, AuditRecords, AuditsAreLast
<1>1. ASSUME NEW r \in Requests, Step(r) \/ Arrive(r) \/ Abort(r), \A a \in audits : a \in audits'
      PROVE  /\ \A a \in audits : pc'[a.request] \in Place(a) /\ req'[a.request].eval \in Evals
             /\ \A q \in Requests \ {r} : pc'[q] \in {"respond", "answered"} =>
                  req'[q].op = "run" \/ Recorded(q, req[q].op)'
  <2>1. \A a \in audits : pc'[a.request] \in Place(a) /\ req'[a.request].eval \in Evals
    BY <1>0, <1>1, <1>a, LateSteps DEF Final
  <2>2. ASSUME NEW q \in Requests \ {r}, pc'[q] \in {"respond", "answered"}
        PROVE  req'[q].op = "run" \/ Recorded(q, req[q].op)'
    <3>1. pc'[q] = pc[q] /\ req'[q] = req[q]
      BY <1>0, <1>1, OthersStay
    <3>2. req[q].op = "run" \/ Recorded(q, req[q].op)
      BY <1>0, <2>2, <3>1 DEF AuditsAreLast
    <3> QED
      BY <1>1, <3>1, <3>2 DEF Recorded
  <2> QED
    BY <2>1, <2>2
<1>2. ASSUME NEW r \in Requests, Step(r) PROVE AuditsAreLast'
  <2>1. \A a \in audits : a \in audits'
    BY <1>0, <1>2, AuditStep
  <2>2. ASSUME NEW a \in audits' \ audits
        PROVE  pc'[a.request] \in Place(a) /\ req'[a.request].eval \in Evals
    <3>1. /\ a.request = r /\ req' = req /\ pc[r] \in {"record", "respond"}
          /\ \/ pc'[r] \in {"respond", "refused"} /\ a.action \in Operations
             \/ pc'[r] = "answered" /\ a.action = "http_write"
      BY <1>0, <1>2, <2>2, AuditStep
    <3>2. Holds(r)
      BY <1>0 DEF TypeOK
    <3> QED
      BY <3>1, <3>2 DEF Operations, Final, Holds
  <2>3. ASSUME pc'[r] \in {"respond", "answered"}
        PROVE  req'[r].op = "run" \/ Recorded(r, req[r].op)'
    <3>1. CASE Record(r)
      BY <3>1, RecordRecords DEF Record
    <3>2. CASE Respond(r)
      <4>1. pc[r] = "respond" /\ req' = req
        BY <3>2 DEF Respond
      <4>2. req[r].op = "run" \/ Recorded(r, req[r].op)
        BY <1>0, <4>1 DEF AuditsAreLast
      <4> QED
        BY <2>1, <4>1, <4>2 DEF Recorded
    <3>3. CASE ~Record(r) /\ ~Respond(r)
      <4>1. Holds(r) /\ Holds(r)'
        BY <1>0, <1>2, TypeNext DEF TypeOK, Next
      <4> QED
        BY <1>0, <1>2, <2>3, <3>3, <4>1
        DEF Step, LoadPart, AfterPart, Parts, Create, CreateDuplicate, FindAgain, Start, Complete,
            Fail, Confirm, Void, StoreReplay, Reload, Go, TypeOK, Holds, RequestRecords
    <3> QED
      BY <3>1, <3>2, <3>3
  <2> QED
    BY <1>1, <1>2, <2>1, <2>2, <2>3 DEF AuditsAreLast
<1>3. ASSUME NEW r \in Requests, Arrive(r) PROVE AuditsAreLast'
  <2>1. audits' = audits
    BY <1>0, <1>3, ArriveFrame
  <2>2. pc'[r] = "respond" => req'[r].op = "run"
    <3>0. PICK u \in Users : \/ \E k \in Keys, s \in Scenarios : FindKey(r, u, k, s)
                             \/ \E op \in {"confirm", "void"}, e \in Evals : LoadForChange(r, u, op, e)
                             \/ \E e \in Evals : LoadForReplay(r, u, e)
      BY <1>3 DEF Arrive
    <3> QED
      BY <1>0, <3>0 DEF FindKey, LoadForChange, LoadForReplay, TypeOK, Go, NoRequest
  <2>3. pc'[r] # "answered"
    BY <1>0, <1>3, ArriveFrame
  <2> QED
    BY <1>1, <1>3, <2>1, <2>2, <2>3 DEF AuditsAreLast
<1>4. ASSUME NEW r \in Requests, Abort(r) PROVE AuditsAreLast'
  <2>1. audits' = audits /\ pc'[r] = "aborted"
    BY <1>0, <1>4 DEF Abort, Go, TypeOK
  <2> QED
    BY <1>1, <1>4, <2>1 DEF AuditsAreLast
<1>5. CASE UNCHANGED <<audits, req, pc>>
  BY <1>0, <1>5 DEF AuditsAreLast, Recorded
<1> QED
  BY <1>2, <1>3, <1>4, <1>5 DEF Next, Edit, vars

LEMMA AuditTruthNext == IInv /\ [Next]_vars => AuditTruth'
<1> SUFFICES ASSUME IInv, [Next]_vars PROVE AuditTruth'
  OBVIOUS
<1>0. /\ RunInv /\ TypeOK /\ KeyedRows /\ RequestsRely /\ AuditsAreLast /\ AuditTruth
      /\ AbsentRows
  BY DEF IInv, RunInv
<1> DEFINE True(a) ==
      LET r == a.request
          row == evals[req[r].eval] IN
      /\ a.action # "http_write" => a.action = req[r].op
      /\ a.action = "http_write" => req[r].op = "run" \/ Recorded(r, req[r].op)
      /\ a.action = "run" => /\ row.state \in {"completed", "confirmed", "voided"}
                             /\ row.score = Score[row.input] /\ row.key = req[r].key
      /\ a.action = "confirm" => /\ row.confirmedBy = req[r].user
                                 /\ a.from \in {"queued", "running", "completed"}
                                 /\ a.to \in {"confirmed", "voided"}
      /\ a.action = "void" => /\ row.state = "voided" /\ a.to = "voided"
                              /\ a.from \in CoverageStateValues \ {"voided"}
      /\ a.action = "replay" => row.replay # None
<1>a. \A a \in audits : /\ a.request \in Requests /\ pc[a.request] \in {"respond"} \cup Final
                         /\ req[a.request].eval \in Evals /\ True(a)
  BY <1>0 DEF TypeOK, AuditRecords, AuditsAreLast, AuditTruth, Final
<1>1. ASSUME NEW r \in Requests, Step(r) \/ Arrive(r) \/ Abort(r), \A b \in audits : b \in audits',
             \A e \in Evals : RowStep(r, e), NEW a \in audits
      PROVE  True(a)'
  <2> DEFINE q == a.request
             e == req[q].eval
  <2>1. q \in Requests /\ req'[q] = req[q] /\ e \in Evals /\ True(a)
    BY <1>0, <1>1, <1>a, LateSteps
  <2>2. Recorded(q, req[q].op) => Recorded(q, req[q].op)'
    BY <1>1, <2>1 DEF Recorded
  <2>3. RowStep(r, e) /\ evals[e] \in Rows
    BY <1>0, <1>1, <2>1 DEF TypeOK
  <2>4. /\ Exists(e) => SameOrigin(e)
        /\ Finished(e) => Finished(e)'
        /\ evals[e].state = "voided" => evals'[e].state = "voided"
        /\ evals[e].state \in {"confirmed", "voided"} => evals'[e].confirmedBy = evals[e].confirmedBy
    BY <2>1, <2>3, RowStable
  <2>5. evals[e].replay # None => evals'[e].replay # None
    BY <1>0, <2>1, <2>3, RowStable DEF AbsentRows, Absent
  <2>6. a.action = "confirm" => evals[e].state \in {"confirmed", "voided"}
    <3>1. evals[e].confirmedBy # None => evals[e].state \in {"confirmed", "voided"}
      BY <2>1 DEF IInv, ConfirmedByOther
    <3>2. req[q].user # None
      <4>1. Holds(q) /\ pc[q] # "idle"
        BY <1>0, <1>a, <2>1 DEF TypeOK, Final
      <4> QED
        BY <4>1, NoneAssumption DEF Holds
    <3> QED
      BY <2>1, <3>1, <3>2
  <2> QED
    BY <2>1, <2>2, <2>4, <2>5, <2>6 DEF Finished, SameOrigin, Exists
<1>2. ASSUME NEW r \in Requests, Step(r) PROVE AuditTruth'
  <2>1. \A e \in Evals : RowStep(r, e)
    BY <1>0, <1>2, RowSteps
  <2>2. \A a \in audits : True(a)'
    BY <1>0, <1>1, <1>2, <2>1, AuditStep
  <2>3. ASSUME NEW a \in audits' \ audits PROVE True(a)'
    <3>1. Holds(r) /\ Relies(r)
      BY <1>0 DEF TypeOK, RequestsRely
    <3>2. CASE /\ pc[r] = "record" /\ req' = req /\ evals' = evals /\ a.request = r
               /\ a.action = req[r].op /\ req[r].op \in Operations
               /\ req[r].op \in {"confirm", "void"} => a.from = req[r].before /\ a.to = req[r].after
      <4>1. req[r].eval \in Evals
        BY <3>1, <3>2 DEF Holds
      <4>2. req[r].op = "run" => evals[req[r].eval].key = req[r].key
        BY <1>0, <4>1, NoneAssumption DEF KeyedRows
      <4> QED
        BY <3>1, <3>2, <4>2
        DEF Relies, RunRelies, ConfirmRelies, VoidRelies, ReplayRelies, Finished, Won, Operations
    <3>3. CASE pc[r] = "respond" /\ req' = req /\ a.request = r /\ a.action = "http_write"
      <4>1. req[r].op = "run" \/ Recorded(r, req[r].op)
        BY <1>0, <3>3 DEF AuditsAreLast
      <4>2. \A b \in audits : b \in audits'
        BY <1>0, <1>2, AuditStep
      <4> QED
        BY <3>3, <4>1, <4>2 DEF Recorded
    <3> QED
      BY <1>0, <1>2, <2>3, <3>2, <3>3, AuditStep
  <2> QED
    BY <2>2, <2>3 DEF AuditTruth
<1>3. ASSUME NEW r \in Requests, Arrive(r) \/ Abort(r) PROVE AuditTruth'
  <2>1. audits' = audits /\ evals' = evals
    BY <1>0, <1>3, ArriveFrame DEF Abort
  <2>2. \A e \in Evals : RowStep(r, e)
    BY <2>1 DEF RowStep
  <2>3. \A a \in audits : True(a)'
    BY <1>1, <1>3, <2>1, <2>2
  <2> QED
    BY <2>1, <2>3 DEF AuditTruth
<1>4. CASE UNCHANGED <<evals, audits, req>>
  BY <1>0, <1>4 DEF AuditTruth, Recorded
<1> QED
  BY <1>2, <1>3, <1>4 DEF Next, Edit, vars

(* Who accounts for a change keeps doing so until it is recorded.          *)
LEMMA AccountedStable ==
  ASSUME TypeOK, AuditsAreLast, NEW r \in Requests, Step(r) \/ Arrive(r) \/ Abort(r),
         \A a \in audits : a \in audits',
         NEW e \in Evals, NEW op \in Operations, Accounted(e, op)
  PROVE  Accounted(e, op)'
<1>1. PICK q \in Requests : /\ req[q].op = op /\ req[q].eval = e
                            /\ pc[q] \in {"reload", "record", "aborted"} \/ Recorded(q, op)
  BY DEF Accounted
<1> SUFFICES /\ req'[q].op = op /\ req'[q].eval = e
             /\ pc'[q] \in {"reload", "record", "aborted"} \/ Recorded(q, op)'
  BY DEF Accounted
<1>2. CASE pc[q] = "aborted" \/ Recorded(q, op)
  <2>1. pc[q] \in {"respond"} \cup Final
    BY <1>2 DEF Recorded, AuditsAreLast, Final, Operations
  <2>2. req'[q] = req[q] /\ (pc[q] = "aborted" => pc'[q] = "aborted")
    BY <2>1, LateSteps
  <2>3. Recorded(q, op) => Recorded(q, op)'
    BY DEF Recorded
  <2> QED
    BY <1>1, <1>2, <2>2, <2>3
<1>3. CASE q # r
  BY <1>1, <1>3, OthersStay DEF Recorded
<1>4. CASE q = r /\ pc[r] = "reload"
  <2>1. Reload(r) \/ Abort(r)
    BY <1>4, ArriveFrame
    DEF Step, LoadPart, Parts, Create, CreateDuplicate, FindAgain, Start, Complete, Fail,
        Confirm, Void, StoreReplay, Record, Respond
  <2> QED
    BY <1>1, <1>4, <2>1 DEF Reload, Abort, Go, TypeOK, RequestRecords
<1>5. CASE q = r /\ pc[r] = "record"
  <2>1. Record(r) \/ Abort(r)
    BY <1>5, ArriveFrame
    DEF Step, LoadPart, Parts, Create, CreateDuplicate, FindAgain, Start, Complete, Fail,
        Confirm, Void, StoreReplay, Reload, Respond
  <2>2. CASE Record(r)
    BY <1>1, <1>5, <2>2, RecordRecords DEF Record
  <2>3. CASE Abort(r)
    BY <1>1, <1>5, <2>3 DEF Abort, Go, TypeOK
  <2> QED
    BY <2>1, <2>2, <2>3
<1> QED
  BY <1>1, <1>2, <1>3, <1>4, <1>5

(* A row is accounted for by its run however it changes: a run owns what is *)
(* not settled, unless it was aborted, and only the evaluator fails a run. *)
LEMMA RunAccountedNext ==
  ASSUME IInv, RunInv', ResultFromSnapshot', NEW e \in Evals,
         Accounted(e, "run") => Accounted(e, "run")',
         \/ evals'[e] = evals[e]
         \/ evals'[e].state \in {"queued", "running", "failed"}
         \/ Accounted(e, "run")'
         \/ /\ evals[e].state \in {"completed", "failed", "confirmed", "voided"}
            /\ evals'[e].input = evals[e].input
            /\ \/ evals'[e].state = evals[e].state
               \/ evals[e].state = "completed" /\ evals'[e].state = "confirmed"
               \/ evals'[e].state = "voided",
         Exists(e)'
  PROVE  RunAccounted(e)'
<1>1. CASE evals'[e].state \in {"queued", "running"}
  <2>1. CASE Orphan(e)'
    <3>1. PICK q \in Requests : Ran(q, e)' /\ pc'[q] = "aborted"
      BY <2>1 DEF RunInv, RunOwnsRow
    <3> QED
      BY <3>1 DEF RunAccounted, Accounted, Ran
  <2>2. CASE ~Orphan(e)'
    BY <1>1, <2>2 DEF Orphan, Unsettled, RunAccounted
  <2> QED
    BY <2>1, <2>2
<1>2. CASE evals'[e].state = "failed"
  BY <1>2 DEF ResultFromSnapshot, RunAccounted
<1>3. CASE Accounted(e, "run")'
  BY <1>3 DEF RunAccounted
<1>4. CASE /\ evals[e].state \in {"completed", "failed", "confirmed", "voided"}
           /\ evals'[e].input = evals[e].input
           /\ \/ evals'[e].state = evals[e].state
              \/ evals[e].state = "completed" /\ evals'[e].state = "confirmed"
              \/ evals'[e].state = "voided"
  <2>1. RunAccounted(e)
    BY <1>4 DEF IInv, AuditTrail, Exists
  <2>2. \A q \in Requests : ~Owns(q, e)
    BY <1>4 DEF IInv, RunInv, RunOwnsRow, Owns, Ran
  <2> QED
    BY <1>4, <2>1, <2>2 DEF RunAccounted
<1>5. evals'[e].state \in {"queued", "running", "completed", "failed", "confirmed", "voided"}
  BY DEF RunInv, TypeOK, Rows, Exists, CoverageStateValues
<1> QED
  BY <1>1, <1>2, <1>3, <1>4, <1>5

LEMMA AuditTrailNext == IInv /\ [Next]_vars => AuditTrail'
<1> SUFFICES ASSUME IInv, [Next]_vars PROVE AuditTrail'
  OBVIOUS
<1>0. RunInv /\ TypeOK /\ RequestsRely /\ AuditsAreLast /\ AuditTrail
  BY DEF IInv, RunInv
<1>p. RunInv' /\ ResultFromSnapshot'
  BY TypeNext, KeyedRowsNext, RunOwnsRowNext, ResultNext DEF IInv, RunInv
<1> DEFINE Told(e) ==
      /\ Exists(e) => RunAccounted(e)
      /\ evals[e].confirmedBy # None => Accounted(e, "confirm")
      /\ evals[e].state = "voided" => Accounted(e, "void")
      /\ evals[e].replay # None => Accounted(e, "replay")
<1>1. ASSUME NEW r \in Requests, Step(r) PROVE AuditTrail'
  <2>1. \A a \in audits : a \in audits'
    BY <1>0, <1>1, AuditStep
  <2>2. ASSUME NEW e \in Evals PROVE Told(e)'
    <3>1. RowStep(r, e) /\ Told(e) /\ Holds(r)
      BY <1>0, <1>1, RowSteps DEF AuditTrail, TypeOK
    <3>2. \A op \in Operations : Accounted(e, op) => Accounted(e, op)'
      BY <1>0, <1>1, <2>1, AccountedStable
    <3>3. ASSUME NEW op \in Operations, pc'[r] \in {"reload", "record"}, req'[r].op = op,
                 req'[r].eval = e
          PROVE  Accounted(e, op)'
      BY <3>3 DEF Accounted
    <3>4. Exists(e)' => RunAccounted(e)'
      <4>1. Accounted(e, "run") => Accounted(e, "run")'
        BY <3>2 DEF Operations
      <4>2. \/ evals'[e] = evals[e]
            \/ evals'[e].state \in {"queued", "running", "failed"}
            \/ Accounted(e, "run")'
            \/ /\ evals[e].state \in {"completed", "failed", "confirmed", "voided"}
               /\ evals'[e].input = evals[e].input
               /\ \/ evals'[e].state = evals[e].state
                  \/ evals[e].state = "completed" /\ evals'[e].state = "confirmed"
                  \/ evals'[e].state = "voided"
        <5>1. evals[e].state \in CoverageStateValues \cup {"absent"}
          BY <1>0 DEF TypeOK, Rows
        <5> QED
          BY <3>1, <3>3, <5>1 DEF RowStep, Inserted, Moved, SameOrigin, Voidable, Operations,
             CoverageStateValues, Exists
      <4> QED
        BY <1>p, <4>1, <4>2, RunAccountedNext
    <3>5. evals'[e].confirmedBy # None => Accounted(e, "confirm")'
      BY <3>1, <3>2, <3>3 DEF RowStep, Inserted, Kept, Operations
    <3>6. evals'[e].state = "voided" => Accounted(e, "void")'
      BY <3>1, <3>2, <3>3 DEF RowStep, Inserted, Moved, Operations
    <3>7. evals'[e].replay # None => Accounted(e, "replay")'
      BY <3>1, <3>2, <3>3 DEF RowStep, Inserted, Kept, Operations, Holds
    <3> QED
      BY <3>4, <3>5, <3>6, <3>7
  <2>3. ASSUME NEW q \in Requests, pc'[q] = "answered" PROVE Recorded(q, "http_write")'
    <3>1. CASE pc[q] = "answered"
      BY <1>0, <2>1, <3>1 DEF AuditTrail, Recorded
    <3>2. CASE pc[q] # "answered"
      <4>1. q = r
        BY <1>0, <1>1, <2>3, <3>2, OthersStay
      <4>2. Respond(r)
        BY <1>0, <1>1, <2>3, <3>2, <4>1
        DEF Step, LoadPart, AfterPart, Parts, Create, CreateDuplicate, FindAgain, Start,
            Complete, Fail, Confirm, Void, StoreReplay, Reload, Record, Go, TypeOK
      <4> DEFINE a == [request |-> r, action |-> "http_write", from |-> None, to |-> None]
      <4>3. a \in audits' /\ a.request = r /\ a.action = "http_write"
        BY <4>2 DEF Respond
      <4> QED
        BY <4>1, <4>3 DEF Recorded
    <3> QED
      BY <3>1, <3>2
  <2> QED
    BY <2>2, <2>3 DEF AuditTrail
<1>2. ASSUME NEW r \in Requests, Arrive(r) \/ Abort(r) PROVE AuditTrail'
  <2>1. audits' = audits /\ evals' = evals /\ pc'[r] # "answered"
    BY <1>0, <1>2, ArriveFrame DEF Abort, Go, TypeOK
  <2>2. \A e \in Evals, op \in Operations : Accounted(e, op) => Accounted(e, op)'
    BY <1>0, <1>2, <2>1, AccountedStable
  <2>3. ASSUME NEW e \in Evals PROVE Told(e)'
    <3>1. Exists(e)' => RunAccounted(e)'
      BY <1>p, <2>1, <2>2, RunAccountedNext DEF Operations
    <3> QED
      BY <1>0, <2>1, <2>2, <3>1 DEF AuditTrail, Operations
  <2>4. ASSUME NEW q \in Requests, pc'[q] = "answered" PROVE Recorded(q, "http_write")'
    BY <1>0, <1>2, <2>1, <2>4, OthersStay DEF AuditTrail, Recorded
  <2> QED
    BY <2>3, <2>4 DEF AuditTrail
<1>3. CASE UNCHANGED <<evals, audits, req, pc>>
  BY <1>0, <1>3 DEF AuditTrail, RunAccounted, Accounted, Owns, Ran, Exists, Recorded
<1> QED
  BY <1>1, <1>2, <1>3 DEF Next, Edit, vars

LEMMA IInvInit == Init => IInv
<1> SUFFICES ASSUME Init PROVE IInv
  OBVIOUS
<1>1. RunInv
  BY TypeInit, KeyedRowsInit, RunOwnsRowInit DEF RunInv
<1>2. AbsentRows /\ ResultFromSnapshot /\ ConfirmedByOther
  BY DEF Init, AbsentRows, ResultFromSnapshot, ConfirmedByOther, Absent, NoRequest
<1>3. RequestsRely
  BY NoneAssumption DEF Init, RequestsRely, Relies, NoRequest, Operations
<1>4. AuditsAreLast /\ AuditTruth /\ AuditTrail
  BY DEF Init, AuditsAreLast, AuditTruth, AuditTrail, Absent, Exists
<1> QED
  BY <1>1, <1>2, <1>3, <1>4 DEF IInv

(* The handlers keep the whole inductive invariant.                        *)
THEOREM IInvCorrect == Spec => []IInv
<1>1. IInv /\ [Next]_vars => RunInv'
  BY TypeNext, KeyedRowsNext, RunOwnsRowNext DEF IInv, RunInv
<1>2. IInv /\ [Next]_vars => IInv'
  BY <1>1, AbsentRowsNext, ResultNext, ConfirmedNext, RequestsRelyNext, AuditsAreLastNext,
     AuditTruthNext, AuditTrailNext DEF IInv
<1> QED
  BY <1>2, IInvInit, PTL DEF Spec

(* ResultFromSnapshot: a finished evaluation holds the evaluator's answer  *)
(* for its own frozen input, and a replay that read it finished passes.    *)
THEOREM ResultFromSnapshotCorrect == Spec => []ResultFromSnapshot
<1>1. IInv => ResultFromSnapshot
  BY DEF IInv
<1> QED
  BY <1>1, IInvCorrect, PTL

(* ConfirmedByOther: nobody confirms an evaluation of a scenario of their  *)
(* own, and no confirmation or void succeeds twice.                        *)
THEOREM ConfirmedByOtherCorrect == Spec => []ConfirmedByOther
<1>1. IInv => ConfirmedByOther
  BY DEF IInv
<1> QED
  BY <1>1, IInvCorrect, PTL

(* AuditTruth: what audit_logs says happened did happen.                   *)
THEOREM AuditTruthCorrect == Spec => []AuditTruth
<1>1. IInv => AuditTruth
  BY DEF IInv
<1> QED
  BY <1>1, IInvCorrect, PTL

(* AuditTrail: every row and every change of it is recorded, about to be,  *)
(* or its request was cut off, but for the rows of runs that the evaluator *)
(* refused; an answered request is recorded.                               *)
THEOREM AuditTrailCorrect == Spec => []AuditTrail
<1>1. IInv => AuditTrail
  BY DEF IInv
<1> QED
  BY <1>1, IInvCorrect, PTL

(* HistoryImmutable: no step replaces what a row was created with, or its  *)
(* result or confirmer once they are there.                                *)
THEOREM HistoryImmutableCorrect == Spec => HistoryImmutable
<1> DEFINE Unchanged(e) ==
      LET old == evals[e]
          new == evals'[e] IN
      /\ new.key = old.key /\ new.scenario = old.scenario /\ new.input = old.input
      /\ ~Unsettled(e) => new.score = old.score
      /\ old.confirmedBy # None => new.confirmedBy = old.confirmedBy
<1>1. ASSUME IInv, NEW r \in Requests, Step(r), NEW e \in Evals, Exists(e) PROVE Unchanged(e)
  <2>1. RowStep(r, e)
    BY <1>1, RowSteps DEF IInv
  <2>2. evals[e].confirmedBy # None => evals[e].state \in {"confirmed", "voided"}
    BY <1>1 DEF IInv, ConfirmedByOther
  <2> QED
    BY <1>1, <2>1, <2>2 DEF RowStep, Inserted, SameOrigin, Moved, Kept, Unsettled
<1>2. ASSUME IInv, NEW r \in Requests, Arrive(r) \/ Abort(r) PROVE evals' = evals
  BY <1>2, ArriveFrame DEF Abort, IInv, RunInv
<1>3. IInv /\ [Next]_vars => \A e \in Evals : Exists(e) => Unchanged(e)
  BY <1>1, <1>2 DEF Next, Edit, vars
<1> QED
  BY <1>3, IInvCorrect, PTL DEF Spec, HistoryImmutable

-----------------------------------------------------------------------------
(* A row as the client of its key sees it.                                 *)
View(e) ==
  [state |-> evals[e].state, scenario |-> evals[e].scenario, input |-> evals[e].input,
   score |-> evals[e].score, confirmedBy |-> evals[e].confirmedBy]

LEMMA StoreViewOfRow ==
  ASSUME TypeOK, KeyedRows, NEW e \in Evals, Exists(e)
  PROVE  evals[e].key \in Keys /\ StoreView[evals[e].key] = View(e)
<1>1. evals[e].key \in Keys
  BY DEF KeyedRows
<1>2. RowsOf(evals[e].key) = {e}
  BY DEF KeyedRows, RowsOf
<1>3. (CHOOSE f \in RowsOf(evals[e].key) : TRUE) = e
  BY <1>2
<1> QED
  BY <1>1, <1>2, <1>3 DEF StoreView, View

LEMMA StoreViewUnused ==
  ASSUME NEW k \in Keys, RowsOf(k) = {}
  PROVE  StoreView[k] = Lifecycle!Unused
BY DEF StoreView, Lifecycle!Unused

(* Where one row changes, the evaluation of its key does, and no other.    *)
LEMMA StoreViewStep ==
  ASSUME TypeOK, TypeOK', KeyedRows, KeyedRows', NEW e \in Evals, Exists(e)',
         Exists(e) => evals'[e].key = evals[e].key,
         \A f \in Evals \ {e} : evals'[f] = evals[f]
  PROVE  \E k \in Keys : /\ k = evals'[e].key
                         /\ StoreView' = [StoreView EXCEPT ![k] = View(e)']
<1>1. PICK k \in Keys : k = evals'[e].key
  BY DEF KeyedRows
<1>2. StoreView'[k] = View(e)'
  <2>1. RowsOf(k)' = {e}
    BY <1>1 DEF KeyedRows, RowsOf, Exists
  <2>2. (CHOOSE f \in {e} : TRUE) = e
    OBVIOUS
  <2> QED
    BY <2>1, <2>2 DEF StoreView, View
<1>3. ASSUME NEW j \in Keys \ {k} PROVE StoreView'[j] = StoreView[j]
  <2>1. RowsOf(j)' = RowsOf(j) /\ e \notin RowsOf(j)
    BY <1>1 DEF RowsOf, Exists
  <2>2. \A f \in RowsOf(j) : evals'[f] = evals[f]
    BY <2>1 DEF RowsOf
  <2>3. RowsOf(j) # {} => (CHOOSE f \in RowsOf(j) : TRUE) \in RowsOf(j)
    OBVIOUS
  <2> QED
    BY <2>1, <2>2, <2>3 DEF StoreView
<1>4. DOMAIN StoreView = Keys /\ DOMAIN StoreView' = Keys /\ StoreView = [j \in Keys |-> StoreView[j]]
      /\ StoreView' = [j \in Keys |-> StoreView'[j]]
  BY DEF StoreView
<1>5. StoreView' = [StoreView EXCEPT ![k] = View(e)']
  BY <1>2, <1>3, <1>4
<1> QED
  BY <1>1, <1>5

(* A statement changes one row at most.                                    *)
LEMMA OneRowChanges ==
  ASSUME TypeOK, NEW r \in Requests, Step(r)
  PROVE  \/ evals' = evals
         \/ \E e \in Evals : \A f \in Evals \ {e} : evals'[f] = evals[f]
<1>1. CASE Create(r)
  BY <1>1, CreateFrame
<1>2. CASE Start(r) \/ Complete(r) \/ Fail(r)
  <2>1. req[r].eval \in Evals
    BY <1>2 DEF Start, Complete, Fail, TypeOK, Holds
  <2>2. \A f \in Evals \ {req[r].eval} : evals'[f] = evals[f]
    BY <1>2 DEF Start, Complete, Fail, Transition, TypeOK
  <2> QED
    BY <2>1, <2>2
<1>3. CASE Confirm(r) \/ Void(r) \/ StoreReplay(r)
  <2>1. req[r].eval \in Evals
    BY <1>3 DEF Confirm, Void, StoreReplay, TypeOK, Holds
  <2>2. \A f \in Evals \ {req[r].eval} : evals'[f] = evals[f]
    BY <1>3 DEF Confirm, Void, StoreReplay, Transition, TypeOK
  <2> QED
    BY <2>1, <2>2
<1> QED
  BY <1>1, <1>2, <1>3 DEF Step, LoadPart, CreateDuplicate, FindAgain, Reload, Record, Respond

(* What a statement does to the row it changes is a step of the lifecycle, *)
(* or not seen by it: only a replay's verdict is not.                      *)
LEMMA RowStepRefines ==
  ASSUME IInv, IInv', NEW r \in Requests, Step(r), NEW e \in Evals,
         \A f \in Evals \ {e} : evals'[f] = evals[f], evals'[e] # evals[e]
  PROVE  Lifecycle!Next \/ StoreView' = StoreView
<1>0. /\ TypeOK /\ KeyedRows /\ TypeOK' /\ KeyedRows' /\ RowStep(r, e)
      /\ evals[e] \in Rows /\ evals'[e] \in Rows
  <2>1. TypeOK /\ KeyedRows /\ TypeOK' /\ KeyedRows' /\ RowStep(r, e)
    BY RowSteps DEF IInv, RunInv
  <2> QED
    BY <2>1 DEF TypeOK
<1>1. Exists(e)' /\ (Exists(e) => SameOrigin(e))
  BY <1>0 DEF RowStep, Inserted, Exists, SameOrigin, Moved
<1>2. PICK k \in Keys : k = evals'[e].key /\ StoreView' = [StoreView EXCEPT ![k] = View(e)']
  BY <1>0, <1>1, StoreViewStep DEF SameOrigin
<1>3. CASE ~Exists(e)
  <2>1. Inserted(e)
    BY <1>0, <1>3 DEF RowStep
  <2>2. RowsOf(k) = {}
    BY <1>0, <1>2, <1>3, <1>1 DEF KeyedRows, RowsOf, Exists
  <2>3. evals'[e].scenario \in Scenarios /\ evals'[e].input \in Inputs
    BY <1>0, <1>1 DEF KeyedRows, Rows
  <2>4. StoreView[k] = Lifecycle!Unused
    BY <2>2, StoreViewUnused
  <2>5. View(e)' = [Lifecycle!Unused EXCEPT !.state = "queued", !.scenario = evals'[e].scenario,
                                            !.input = evals'[e].input]
    <3>1. View(e)' = [state |-> "queued", scenario |-> evals'[e].scenario,
                      input |-> evals'[e].input, score |-> 0, confirmedBy |-> None]
      BY <2>1 DEF View, Inserted
    <3>2. ASSUME NEW row, row = [Lifecycle!Unused EXCEPT !.state = "queued",
                                   !.scenario = evals'[e].scenario, !.input = evals'[e].input]
          PROVE  row = [state |-> "queued", scenario |-> evals'[e].scenario,
                        input |-> evals'[e].input, score |-> 0, confirmedBy |-> None]
      BY <3>2 DEF Lifecycle!Unused
    <3> QED
      BY <3>1, <3>2
  <2>6. \E s \in Scenarios, i \in Inputs :
          View(e)' = [Lifecycle!Unused EXCEPT !.state = "queued", !.scenario = s, !.input = i]
    BY <2>3, <2>5
  <2>7. \E s \in Scenarios, i \in Inputs : Lifecycle!Submit(k, s, i)
    BY <1>2, <2>4, <2>6 DEF Lifecycle!Submit
  <2> QED
    BY <2>7 DEF Lifecycle!Next
<1>4. CASE Exists(e)
  <2>1. SameOrigin(e) /\ StoreView[k] = View(e) /\ k \in DOMAIN StoreView
    BY <1>0, <1>1, <1>2, <1>4, StoreViewOfRow DEF SameOrigin, StoreView
  <2>2. /\ evals'[e].scenario = evals[e].scenario /\ evals'[e].input = evals[e].input
    BY <2>1 DEF SameOrigin
  <2>m. ASSUME NEW to, NEW score, NEW user,
               CanTransitionCoverage(evals[e].state, to),
               evals'[e].state = to, evals'[e].score = score, evals'[e].confirmedBy = user
        PROVE  Lifecycle!Move(k, to, score, user)
    <3>1. View(e)' = [StoreView[k] EXCEPT !.state = to, !.score = score, !.confirmedBy = user]
      <4>1. View(e)' = [state |-> to, scenario |-> evals[e].scenario, input |-> evals[e].input,
                        score |-> score, confirmedBy |-> user]
        BY <2>m, <2>2 DEF View
      <4>2. ASSUME NEW row, row = [StoreView[k] EXCEPT !.state = to, !.score = score,
                                                       !.confirmedBy = user]
            PROVE  row = [state |-> to, scenario |-> evals[e].scenario, input |-> evals[e].input,
                          score |-> score, confirmedBy |-> user]
        <5>1. row = [View(e) EXCEPT !.state = to, !.score = score, !.confirmedBy = user]
          BY <4>2, <2>1
        <5> QED
          BY <5>1 DEF View
      <4> QED
        BY <4>1, <4>2
    <3>2. CanTransitionCoverage(StoreView[k].state, to)
      BY <2>m, <2>1 DEF View
    <3>3. [StoreView EXCEPT ![k].state = to, ![k].score = score, ![k].confirmedBy = user] =
          [StoreView EXCEPT ![k] = [StoreView[k] EXCEPT !.state = to, !.score = score,
                                                        !.confirmedBy = user]]
      BY <2>1
    <3> QED
      BY <1>2, <3>1, <3>2, <3>3 DEF Lifecycle!Move, CanTransitionCoverage, Lifecycle!CanTransitionCoverage,
       CoverageStateValues, Lifecycle!CoverageStateValues, coverageTransitions, Lifecycle!coverageTransitions
  <2>3. View(e)' = View(e) => StoreView' = StoreView
    BY <1>2, <2>1 DEF StoreView
  <2> USE DEF View, Lifecycle!Next
  <2>4. CASE Moved(e, "queued", "running") /\ Kept(e)
    <3>1. Lifecycle!Start(k)
      BY <2>m, <2>4, <2>1 DEF Moved, Kept, Lifecycle!Start, CanTransitionCoverage,
                              CoverageStateValues, coverageTransitions
    <3> QED
      BY <3>1
  <2>5. CASE /\ Moved(e, "running", "completed")
             /\ evals'[e].score = Score[evals[e].input]
             /\ evals'[e].confirmedBy = evals[e].confirmedBy
    <3>1. Score[evals[e].input] # EvalError
      BY <1>0, <2>5, ErrorAssumption DEF Rows
    <3>2. Lifecycle!Move(k, "completed", Score[evals[e].input], evals[e].confirmedBy)
      BY <2>m, <2>5 DEF Moved, CanTransitionCoverage, CoverageStateValues, coverageTransitions
    <3>3. Lifecycle!Complete(k)
      BY <3>1, <3>2, <2>1, <2>5 DEF Moved, Lifecycle!Complete
    <3> QED
      BY <3>3
  <2>6. CASE Moved(e, "running", "failed") /\ Kept(e) /\ Score[evals[e].input] = EvalError
    <3>1. Lifecycle!Move(k, "failed", evals[e].score, evals[e].confirmedBy)
      BY <2>m, <2>6 DEF Moved, Kept, CanTransitionCoverage, CoverageStateValues, coverageTransitions
    <3>2. Lifecycle!Fail(k)
      BY <3>1, <2>1, <2>6 DEF Moved, Lifecycle!Fail
    <3> QED
      BY <3>2
  <2>7. CASE /\ Moved(e, "completed", "confirmed")
             /\ evals'[e].score = evals[e].score /\ evals'[e].confirmedBy = req[r].user
             /\ pc[r] = "change" /\ req[r].op = "confirm" /\ req[r].eval = e
    <3>1. /\ HasPermission(Role[req[r].user], "evaluation:confirm")
          /\ req[r].user # Author[evals[e].scenario] /\ req[r].user \in Users
      BY <1>0, <2>7 DEF IInv, RequestsRely, Relies, ConfirmRelies, TypeOK, Holds
    <3>2. Lifecycle!Move(k, "confirmed", evals[e].score, req[r].user)
      BY <2>m, <2>7 DEF Moved, CanTransitionCoverage, CoverageStateValues, coverageTransitions
    <3>3. Lifecycle!Confirm(k, req[r].user)
      BY <3>1, <3>2, <2>1, <2>7
      DEF Moved, Lifecycle!Confirm, HasPermission, Lifecycle!HasPermission, Roles, Lifecycle!Roles,
          rolePermissions, Lifecycle!rolePermissions, Permissions, Lifecycle!Permissions
    <3> QED
      BY <3>1, <3>3
  <2>8. CASE evals[e].state \in Voidable /\ evals'[e].state = "voided" /\ Kept(e)
    <3>1. Lifecycle!Void(k)
      BY <2>m, <2>8, <2>1 DEF Voidable, Kept, Lifecycle!Void, CanTransitionCoverage,
                              CoverageStateValues, coverageTransitions
    <3> QED
      BY <3>1
  <2>9. CASE /\ evals'[e].state = evals[e].state
             /\ evals'[e].score = evals[e].score
             /\ evals'[e].confirmedBy = evals[e].confirmedBy
    BY <2>2, <2>3, <2>9
  <2> QED
    BY <1>0, <1>4, <2>4, <2>5, <2>6, <2>7, <2>8, <2>9 DEF RowStep, Inserted
<1> QED
  BY <1>3, <1>4

(* ImplementsLifecycle: to its client, a key is evaluated once, on the     *)
(* input frozen for it, and its result and confirmation come as the        *)
(* lifecycle has them, whatever handlers interleave and fail.              *)
THEOREM ImplementsLifecycleCorrect == Spec => ImplementsLifecycle
<1>1. Init => Lifecycle!Init
  BY DEF Init, StoreView, RowsOf, Exists, Absent, Lifecycle!Init, Lifecycle!Unused
<1>2. ASSUME IInv, IInv', [Next]_vars PROVE [Lifecycle!Next]_StoreView
  <2>1. CASE evals' = evals
    BY <2>1 DEF StoreView, RowsOf, Exists
  <2>2. ASSUME NEW r \in Requests, Step(r) PROVE [Lifecycle!Next]_StoreView
    BY <1>2, <2>1, <2>2, OneRowChanges, RowStepRefines DEF IInv, RunInv, TypeOK
  <2>3. ASSUME NEW r \in Requests, Arrive(r) \/ Abort(r) PROVE evals' = evals
    BY <1>2, <2>3, ArriveFrame DEF Abort, IInv, RunInv
  <2> QED
    BY <1>2, <2>1, <2>2, <2>3 DEF Next, Edit, vars
<1> QED
  BY <1>1, <1>2, IInvCorrect, PTL DEF Spec, ImplementsLifecycle, Lifecycle!Spec
=============================================================================
