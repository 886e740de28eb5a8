------------------------ MODULE MCSafeguardRegister -------------------------
(* Instances of SafeguardRegister for TLC. *)
EXTENDS SafeguardRegister

Spelling == ("" :> "") @@ ("leak" :> "leak") @@ ("Leak" :> "leak") @@ ("fire" :> "fire")
            @@ ("unspecified" :> "unspecified")

Texts == {"", "leak", "Leak", "fire"}

(* One path, of a low or a critical initial risk. *)
OnePath ==
  {[cause |-> <<"leak">>, consequence |-> <<"fire">>, initial |-> risk] : risk \in {1, 20}}

(* Up to three causes and two consequences. *)
ManyPaths ==
  {[cause |-> cause, consequence |-> consequence, initial |-> 12] :
     cause \in BoundedSeq(Texts, 3), consequence \in BoundedSeq(Texts, 2)}

AllScenarios == OnePath \cup ManyPaths

(* A full register need not change: it could have been registered like that. *)
(* With the lowest risk a register of two safeguards is full.                *)
(* The paths do not depend on the safeguards: those of many paths have none.  *)
MCNext ==
  \/ /\ scenario \in OnePath
     /\ RegisterNext
     /\ rows' # rows => Len(rows) < IF scenario.initial = 1 THEN 2 ELSE MaxRows
  \/ scenario \in ManyPaths /\ Tick

MCSpec == RegisterInit /\ [][MCNext]_registerVars
=============================================================================
