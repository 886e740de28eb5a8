--------------------------- MODULE CoverageStates ---------------------------
(***************************************************************************)
(* The states of a coverage evaluation and the table of the transitions    *)
(* that may lead from one to the next.                                     *)
(***************************************************************************)

CoverageStateValues ==
  {"queued", "running", "completed", "failed", "confirmed", "voided"}

coverageTransitions ==
  [queued    |-> {"running"},
   running   |-> {"completed", "failed"},
   completed |-> {"confirmed", "voided"},
   failed    |-> {"voided"},
   confirmed |-> {"voided"},
   voided    |-> {}]

CanTransitionCoverage(from, to) ==
  from \in CoverageStateValues /\ to \in coverageTransitions[from]

=============================================================================
