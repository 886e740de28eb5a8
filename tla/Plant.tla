------------------------------- MODULE Plant --------------------------------
(***************************************************************************)
(* Process nodes and deviation scenarios together: the handlers of         *)
(* ProcessNodes and those of DeviationScenario on one table of nodes.      *)
(***************************************************************************)
EXTENDS ProcessNodes, ScenarioStates

CONSTANTS Requests, Users, Role, Scenarios, Fields, MaxVersion, Seeds, None

VARIABLES scenarios, audits, pc, req   \* as in DeviationScenario

scenarioVars == <<scenarios, audits, pc, req>>

ActiveNodes == {n \in Nodes : nodes[n].status = "active"}

Scenario == INSTANCE DeviationScenario WITH active <- ActiveNodes

ASSUME PlantRoleAssumption == Role \in [Users -> Scenario!Roles]
ASSUME PlantNoneAssumption == None \notin Users \cup Scenarios
ASSUME PlantVersionAssumption == MaxVersion \in Nat
ASSUME PlantSeedAssumption ==
  /\ Seeds \subseteq Scenario!Rows \cup {Scenario!Absent}
  /\ \A row \in Seeds : Scenario!Reviewed(row)

(* A scenario refers to a row of process_nodes (foreign key).              *)
ScenariosHaveNodes ==
  \A s \in Scenarios : Scenario!Exists(s) => nodes[scenarios[s].node] # NoNode

PlantInit == NodeInit /\ Scenario!Init /\ ScenariosHaveNodes

NodeHandlers == NodeNext /\ UNCHANGED scenarioVars

ScenarioHandlers ==
  /\ UNCHANGED nodeVars
  /\ \E r \in Requests : Scenario!Arrive(r) \/ Scenario!Step(r) \/ Scenario!Abort(r)

PlantNext == NodeHandlers \/ ScenarioHandlers

PlantSpec == PlantInit /\ [][PlantNext]_<<nodeVars, scenarioVars>>

-----------------------------------------------------------------------------
(* What DeviationScenario assumes of the node handlers, that they switch   *)
(* the status of a node at a time and touch nothing of a scenario, is what *)
(* they do; so its results hold with the real handlers, too.               *)
ImplementsScenarios == Scenario!Spec
=============================================================================
