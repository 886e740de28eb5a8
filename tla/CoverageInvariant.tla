------------------------- MODULE CoverageInvariant --------------------------
(***************************************************************************)
(* The inductive invariant behind the safety properties of                 *)
(* CoverageEvaluation, in named parts.  The properties alone are not       *)
(* inductive: they say nothing of a request between its read and its       *)
(* write, and each part below says what such a request may rely on.        *)
(***************************************************************************)
EXTENDS CoverageEvaluation

(* Rows that exist name a key and a scenario, no two share a key, and a    *)
(* run that knows a row knows the row of its own key.                      *)
KeyedRows ==
  /\ \A e \in Evals : Exists(e) => evals[e].key \in Keys /\ evals[e].scenario \in Scenarios
  /\ \A e1, e2 \in Evals :
       Exists(e1) /\ Exists(e2) /\ evals[e1].key = evals[e2].key => e1 = e2
  /\ \A r \in Requests : req[r].op = "run" /\ req[r].eval # None =>
       Exists(req[r].eval) /\ evals[req[r].eval].key = req[r].key

(* A row that was completed: later transitions keep it so.                 *)
Finished(e) ==
  /\ evals[e].state \in {"completed", "confirmed", "voided"}
  /\ evals[e].score = Score[evals[e].input]

(* The states a row can be in some time after it was in a given state.     *)
StatesFrom ==
  [queued    |-> CoverageStateValues,
   running   |-> CoverageStateValues \ {"queued"},
   completed |-> {"completed", "confirmed", "voided"},
   failed    |-> {"failed", "voided"},
   confirmed |-> {"confirmed", "voided"},
   voided    |-> {"voided"}]

Won == {"reload", "record", "respond", "answered"}   \* the UPDATE changed the row

(* What a request may rely on between its statements.                      *)
RunRelies(r) ==
  pc[r] \in {"reload", "record"} => Finished(req[r].eval)

ConfirmRelies(r) ==
  LET row == evals[req[r].eval] IN
  /\ pc[r] = "change" => /\ Exists(req[r].eval) /\ req[r].before \in CoverageStateValues
                         /\ row.state \in StatesFrom[req[r].before]
                         /\ HasPermission(Role[req[r].user], "evaluation:confirm")
                         /\ req[r].user # Author[row.scenario]
  /\ pc[r] \in Won => row.state \in {"confirmed", "voided"} /\ row.confirmedBy = req[r].user
  /\ pc[r] \in {"reload", "record"} => req[r].before \in {"queued", "running", "completed"}
  /\ pc[r] = "record" => req[r].after \in {"confirmed", "voided"}

VoidRelies(r) ==
  LET row == evals[req[r].eval] IN
  /\ pc[r] = "change" => /\ Exists(req[r].eval) /\ req[r].before \in CoverageStateValues
                         /\ row.state \in StatesFrom[req[r].before]
  /\ pc[r] \in Won => row.state = "voided"
  /\ pc[r] \in {"reload", "record"} => req[r].before \in CoverageStateValues \ {"voided"}
  /\ pc[r] = "record" => req[r].after = "voided"

ReplayRelies(r) ==
  /\ pc[r] = "store" => Exists(req[r].eval)
  /\ pc[r] = "record" => evals[req[r].eval].replay # None

Relies(r) ==
  /\ req[r].op = "run" => RunRelies(r)
  /\ req[r].op = "confirm" => ConfirmRelies(r)
  /\ req[r].op = "void" => VoidRelies(r)
  /\ req[r].op = "replay" => ReplayRelies(r)

RequestsRely == \A r \in Requests : Relies(r)

(* Audit rows come last: the service's before the answer, the middleware's *)
(* with it.                                                                *)
AuditsAreLast ==
  /\ \A a \in audits :
       /\ pc[a.request] \in IF a.action = "http_write" THEN {"answered"} ELSE {"respond"} \cup Final
       /\ req[a.request].eval \in Evals
  /\ \A r \in Requests :
       pc[r] \in {"respond", "answered"} => req[r].op = "run" \/ Recorded(r, req[r].op)

AbsentRows == \A e \in Evals : Exists(e) \/ evals[e] = Absent

(* Handlers and rows agree, first for the runs alone, then for all.        *)
RunInv == TypeOK /\ KeyedRows /\ RunOwnsRow

IInv ==
  /\ RunInv /\ AbsentRows /\ ResultFromSnapshot /\ ConfirmedByOther
  /\ RequestsRely /\ AuditsAreLast /\ AuditTruth /\ AuditTrail
=============================================================================
