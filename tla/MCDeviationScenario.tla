------------------------ MODULE MCDeviationScenario -------------------------
(* Instances of DeviationScenario for TLC. *)
EXTENDS DeviationInvariant, TLC

CONSTANTS admin, engineer, reviewer,   \* users, named for their role
          n1                           \* a process node

Profiles ==
  (admin :> "admin") @@ (engineer :> "process_engineer") @@ (reviewer :> "safety_reviewer")
MCRole == [u \in Users |-> Profiles[u]]

Seeded(state, version, author, by) ==
  [state |-> state, version |-> version, author |-> author, reviewer |-> by, node |-> n1,
   content |-> [f \in Fields |-> None]]

(* No row yet, or the rows the database is seeded with as an administrator *)
(* would have left them, who may do everything to them but review them.    *)
MCSeeds ==
  {Absent, Seeded("draft", 1, admin, None), Seeded("analyzed", 2, admin, None),
   Seeded("verified", 3, admin, reviewer)}

(* A draft, or no row yet. *)
MCDrafts == {Absent, Seeded("draft", 1, engineer, None)}

Symmetric == Permutations(Requests)
=============================================================================
