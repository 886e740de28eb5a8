------------------------ MODULE EvaluationLifecycle -------------------------
(***************************************************************************)
(* What the evaluation store promises its clients, one idempotency key at  *)
(* a time: a key is evaluated at most once, on an input frozen when the    *)
(* key is first used; the result is the evaluator's answer for that input  *)
(* and is never replaced; a completed evaluation is confirmed by somebody  *)
(* who may confirm and who did not write the scenario.                     *)
(*                                                                         *)
(* Requests, statements, audits and failures are not visible here; see     *)
(* CoverageEvaluation for the handlers that implement this.                *)
(***************************************************************************)
EXTENDS Access, CoverageStates

CONSTANTS Keys,       \* idempotency keys
          Users, Scenarios, Inputs,
          Role,       \* Role[u]: the role in the token of user u
          Author,     \* Author[s]: the user who created scenario s
          Score,      \* Score[i]: the evaluator's answer for the frozen input i
          EvalError,  \* the answer of an evaluator that refuses its input
          None

VARIABLE store        \* store[k]: the evaluation of key k, or Unused

Unused ==
  [state |-> "absent", scenario |-> None, input |-> None, score |-> 0, confirmedBy |-> None]

Init == store = [k \in Keys |-> Unused]

(* The key's evaluation moves along the transition table and nothing but   *)
(* its score and its confirmer may change with it.                         *)
Move(k, to, score, user) ==
  /\ CanTransitionCoverage(store[k].state, to)
  /\ store' = [store EXCEPT ![k].state = to, ![k].score = score, ![k].confirmedBy = user]

Submit(k, s, i) ==
  /\ store[k] = Unused
  /\ store' = [store EXCEPT ![k] = [Unused EXCEPT !.state = "queued",
                                                  !.scenario = s, !.input = i]]

Start(k) == Move(k, "running", store[k].score, store[k].confirmedBy)

Complete(k) ==
  /\ store[k].state = "running"
  /\ Score[store[k].input] # EvalError
  /\ Move(k, "completed", Score[store[k].input], store[k].confirmedBy)

Fail(k) ==
  /\ store[k].state = "running"
  /\ Score[store[k].input] = EvalError
  /\ Move(k, "failed", store[k].score, store[k].confirmedBy)

Confirm(k, u) ==
  /\ store[k].state = "completed"
  /\ HasPermission(Role[u], "evaluation:confirm")
  /\ Author[store[k].scenario] # u
  /\ Move(k, "confirmed", store[k].score, u)

Void(k) == Move(k, "voided", store[k].score, store[k].confirmedBy)

Next ==
  \E k \in Keys :
    \/ \E s \in Scenarios, i \in Inputs : Submit(k, s, i)
    \/ Start(k)
    \/ Complete(k)
    \/ Fail(k)
    \/ \E u \in Users : Confirm(k, u)
    \/ Void(k)

Spec == Init /\ [][Next]_store

=============================================================================
