------------------------ MODULE MCCoverageEvaluation ------------------------
(* Instances of CoverageEvaluation for TLC. *)
EXTENDS CoverageInvariant, TLC

CONSTANTS admin, engineer, reviewer,   \* users, named for their role
          s1, s2                       \* scenarios

Profiles ==
  (admin :> "admin") @@ (engineer :> "process_engineer") @@ (reviewer :> "safety_reviewer")
MCRole == [u \in Users |-> Profiles[u]]

(* The administrator may run and confirm, so the author check bites.       *)
Writers == (s1 :> admin) @@ (s2 :> engineer)
MCAuthor == [s \in Scenarios |-> Writers[s]]

(* The first input scores what an unfinished row holds, others differ, and *)
(* one is refused.                                                         *)
MCScore ==
  [i \in Inputs |-> IF i["scenario"] = 1 /\ i["safeguards"] = 1 THEN EvalError
                    ELSE i["scenario"] + 2 * i["safeguards"]]

(* The first input scores something an unfinished row does not hold.       *)
MCPositive == [i \in Inputs |-> 1 + i["scenario"]]

(* The evaluator refuses once the safeguards, or the scenario, were edited. *)
MCRefusing == [i \in Inputs |-> IF i["safeguards"] = 1 THEN EvalError ELSE 1]
MCRefusingEdited == [i \in Inputs |-> IF i["scenario"] = 1 THEN EvalError ELSE 1]

Symmetric == Permutations(Requests) \cup Permutations(Evals)
=============================================================================
