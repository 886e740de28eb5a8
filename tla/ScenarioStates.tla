--------------------------- MODULE ScenarioStates ---------------------------
(* The states of a deviation scenario and its transition table. *)

ScenarioStateValues == {"draft", "analyzed", "verified", "accepted", "rework"}

scenarioTransitions ==
  [draft    |-> {"analyzed"},
   analyzed |-> {"verified", "rework"},
   verified |-> {"accepted", "rework"},
   accepted |-> {},
   rework   |-> {"analyzed"}]

CanTransitionScenario(from, to) ==
  from \in ScenarioStateValues /\ to \in scenarioTransitions[from]
=============================================================================
