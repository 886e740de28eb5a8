---------------------------- MODULE MCSafeguards ----------------------------
(* Instances of Safeguards for TLC. *)
EXTENDS SafeguardInvariant, TLC

CONSTANTS engineer, reviewer   \* users, named for their role

Profiles == (engineer :> "process_engineer") @@ (reviewer :> "safety_reviewer")
MCRole == [u \in Users |-> Profiles[u]]

Seeded(state, date, by) ==
  [state |-> state, verifiedAt |-> date, verifiedBy |-> by, interval |-> 1, evidence |-> {}]

verifier == CHOOSE u \in Users : TRUE

(* A safeguard verified when the clock starts, one invalidated since, and  *)
(* no row yet.                                                             *)
MCSeeds == {Absent, Seeded("active", 1, verifier), Seeded("invalid", 1, verifier)}

Symmetric == Permutations(Requests)
=============================================================================
