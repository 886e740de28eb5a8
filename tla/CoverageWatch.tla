--------------------------- MODULE CoverageWatch ----------------------------
(***************************************************************************)
(* The page that runs an evaluation and watches it until it is finished:   *)
(* useCoverageRun, with the calls of the store it awaits.  Pages are       *)
(* opened and left, one at a time; each has variables of its own, and what *)
(* it awaits may be answered after it is left.  An action is what runs      *)
(* between two awaits.                                                      *)
(*                                                                         *)
(* The server answers with the state the evaluation has at the time.       *)
(*                                                                         *)
(* An operator with _Mutant in its name is not part of the model: it is the *)
(* operator after it with a plausible bug, for mutation checks.            *)
(***************************************************************************)
EXTENDS Naturals, CoverageStates

CONSTANTS Pages,      \* instances of the page, each opened once
          Launches,   \* uses of its run button
          NoPage

ASSUME PageAssumption == NoPage \notin Pages

terminal_Mutant == {"completed", "confirmed", "voided"}   \* a failed run is not finished

terminal == {"completed", "failed", "confirmed", "voided"}

VARIABLES page,       \* the page on which each launch was made
          phase,      \* what each launch awaits, or how it ended
          current,    \* the state of its evaluation that each launch was told last
          active,     \* activeGeneration of each launch
          hook,       \* the variables of each page
          evaluation  \* the state at the server of each launch's evaluation

vars == <<page, phase, current, active, hook, evaluation>>

Awaited == {"posting", "listing", "refreshing"}   \* an answer of the server
Watching == {"waiting", "refreshing"}
Ended == {"done", "failed", "stopped"}

PagesIn(first) ==
  /\ page = [l \in Launches |-> NoPage]
  /\ phase = [l \in Launches |-> "idle"]
  /\ current = [l \in Launches |-> "none"]
  /\ active = [l \in Launches |-> 0]
  /\ hook = [p \in Pages |-> [life |-> first, generation |-> 0, running |-> FALSE,
                             polling |-> FALSE]]
  /\ evaluation = [l \in Launches |-> "none"]

Init == PagesIn("new")

-----------------------------------------------------------------------------
Await(l, what) == phase' = [phase EXCEPT ![l] = what]

(* stop: a launch whose timer is cleared never resumes.                    *)
Stopped(h) == [h EXCEPT !.generation = @ + 1, !.polling = FALSE]

TimersCleared(p) ==
  [l \in Launches |-> IF page[l] = p /\ phase[l] = "waiting" THEN "stopped" ELSE phase[l]]

(* The loop of watch, where it decides: wait again or return to launch.    *)
Loop_Mutant(l, state, h) ==   \* the generation is not compared
  IF state \notin terminal
  THEN Await(l, "waiting") /\ hook' = [hook EXCEPT ![page[l]] = h]
  ELSE /\ Await(l, "done")
       /\ hook' = [hook EXCEPT ![page[l]] = [h EXCEPT !.polling = FALSE, !.running = FALSE]]

Loop(l, state, h) ==
  IF state \notin terminal /\ h.generation = active'[l]
  THEN Await(l, "waiting") /\ hook' = [hook EXCEPT ![page[l]] = h]
  ELSE /\ Await(l, "done")
       /\ hook' = [hook EXCEPT ![page[l]] = [h EXCEPT !.polling = FALSE, !.running = FALSE]]

Open(p) ==
  /\ hook[p].life = "new" /\ \A q \in Pages : hook[q].life # "open"
  /\ hook' = [hook EXCEPT ![p].life = "open"]
  /\ UNCHANGED <<page, phase, current, active, evaluation>>

Leave(p) ==
  /\ hook[p].life = "open"
  /\ hook' = [hook EXCEPT ![p] = [Stopped(@) EXCEPT !.life = "gone"]]
  /\ phase' = TimersCleared(p)
  /\ UNCHANGED <<page, current, active, evaluation>>

(* launch: the button is disabled while running is set.                    *)
Launch_Mutant(p, l) ==   \* the button is not disabled
  /\ hook[p].life = "open"
  /\ phase[l] = "idle"
  /\ page' = [page EXCEPT ![l] = p]
  /\ hook' = [hook EXCEPT ![p] = [Stopped(@) EXCEPT !.running = TRUE]]
  /\ phase' = [TimersCleared(p) EXCEPT ![l] = "posting"]
  /\ UNCHANGED <<current, active, evaluation>>

Launch(p, l) ==
  /\ hook[p].life = "open" /\ ~hook[p].running
  /\ phase[l] = "idle"
  /\ page' = [page EXCEPT ![l] = p]
  /\ hook' = [hook EXCEPT ![p] = [Stopped(@) EXCEPT !.running = TRUE]]
  /\ phase' = [TimersCleared(p) EXCEPT ![l] = "posting"]
  /\ UNCHANGED <<current, active, evaluation>>

(* store.run posts and then loads the list.                                *)
RunAnswers(l) ==
  /\ phase[l] = "posting" /\ evaluation[l] # "none"
  /\ current' = [current EXCEPT ![l] = evaluation[l]]
  /\ Await(l, "listing")
  /\ UNCHANGED <<page, active, hook, evaluation>>

Watch(l) ==
  /\ phase[l] = "listing"
  /\ LET h == hook[page[l]]
         generation == h.generation + 1 IN
     /\ active' = [active EXCEPT ![l] = generation]
     /\ Loop(l, current[l], [h EXCEPT !.generation = generation,
                                      !.polling = current[l] \notin terminal])
  /\ UNCHANGED <<page, current, evaluation>>

TimerFires(l) ==
  /\ phase[l] = "waiting"
  /\ IF hook[page[l]].generation = active[l]
     THEN Await(l, "refreshing") /\ UNCHANGED hook
     ELSE /\ Await(l, "done")
          /\ hook' = [hook EXCEPT ![page[l]].polling = FALSE, ![page[l]].running = FALSE]
  /\ UNCHANGED <<page, current, active, evaluation>>

RefreshAnswers_Mutant(l) ==   \* the answer is not taken for the current state
  /\ phase[l] = "refreshing"
  /\ UNCHANGED <<page, current, active, evaluation>>
  /\ Loop(l, current[l], hook[page[l]])

RefreshAnswers(l) ==
  /\ phase[l] = "refreshing"
  /\ current' = [current EXCEPT ![l] = evaluation[l]]
  /\ UNCHANGED <<page, active, evaluation>>
  /\ Loop(l, evaluation[l], hook[page[l]])

(* A call fails: launch resets running and throws.                         *)
CallFails(l) ==
  /\ phase[l] \in Awaited
  /\ Await(l, "failed")
  /\ hook' = [hook EXCEPT ![page[l]].running = FALSE]
  /\ UNCHANGED <<page, current, active, evaluation>>

(* The run of the server, whatever became of the page.                     *)
Evaluate(l) ==
  /\ \/ /\ phase[l] = "posting" /\ evaluation[l] = "none"
        /\ evaluation' = [evaluation EXCEPT ![l] = "queued"]
     \/ \E to \in {"running", "completed", "failed"} :
          /\ evaluation[l] \in {"queued", "running"}
          /\ CanTransitionCoverage(evaluation[l], to)
          /\ evaluation' = [evaluation EXCEPT ![l] = to]
  /\ UNCHANGED <<page, phase, current, active, hook>>

-----------------------------------------------------------------------------
Continue(l) == RunAnswers(l) \/ Watch(l) \/ TimerFires(l) \/ RefreshAnswers(l)

Next ==
  \/ \E p \in Pages : Open(p) \/ Leave(p) \/ \E l \in Launches : Launch(p, l)
  \/ \E l \in Launches : Continue(l) \/ CallFails(l) \/ Evaluate(l)

Spec == Init /\ [][Next]_vars

(* The event loop resumes what was awaited, the server answers every call  *)
(* and finishes every evaluation it began.                                 *)
Fairness ==
  \A l \in Launches : WF_vars(Continue(l)) /\ WF_vars(Evaluate(l))

-----------------------------------------------------------------------------
(* The types of all variables; a launch that watches was told a state that *)
(* is not final.                                                           *)
TypeOK ==
  /\ page \in [Launches -> Pages \cup {NoPage}]
  /\ phase \in [Launches -> {"idle", "waiting"} \cup Awaited \cup Ended]
  /\ current \in [Launches -> CoverageStateValues \cup {"none"}]
  /\ active \in [Launches -> Nat]
  /\ hook \in [Pages -> [life : {"new", "open", "gone"}, generation : Nat,
                         running : BOOLEAN, polling : BOOLEAN]]
  /\ evaluation \in [Launches -> CoverageStateValues \cup {"none"}]
  /\ \A l \in Launches :
       /\ phase[l] # "idle" => page[l] \in Pages
       /\ phase[l] \in Watching => current[l] \in {"queued", "running"}

(* On an open page one launch is under way, or none, and the button shows  *)
(* which; one that watches has the page's generation and its spinner.      *)
OneLaunchPerPage ==
  \A p \in Pages : hook[p].life = "open" =>
    /\ hook[p].running <=>
         \E l \in Launches : page[l] = p /\ phase[l] \in Awaited \cup {"waiting"}
    /\ \A l \in Launches : page[l] = p /\ phase[l] \in Watching =>
         hook[p].polling /\ active[l] = hook[p].generation
    /\ \A k, l \in Launches :
         page[k] = p /\ page[l] = p /\ {phase[k], phase[l]} \subseteq Awaited \cup {"waiting"}
         => k = l

(* Launches are made on pages that were opened, and the evaluation that is *)
(* listed or watched has been created.                                     *)
LaunchesKnown ==
  /\ \A p \in Pages : hook[p].life = "new" => ~hook[p].running
  /\ \A l \in Launches :
       /\ phase[l] # "idle" => hook[page[l]].life # "new"
       /\ phase[l] \in {"listing"} \cup Watching => current[l] # "none" /\ evaluation[l] # "none"

(* The invariant of the watcher: types, and one launch to a page. *)
WatchInv == TypeOK /\ OneLaunchPerPage /\ LaunchesKnown

(* What a page was watching when it was left is not asked for again, even  *)
(* when a refresh under way is answered afterwards.                        *)
WatchEndsWithPage ==
  [][\A l \in Launches :
       /\ phase[l] \in Watching /\ page[l] \in Pages /\ hook[page[l]].life = "gone"
       /\ active[l] # hook[page[l]].generation
       => phase'[l] \in Ended \cup {phase[l]}]_vars

(* A launch on any page, left or not, comes to an end: it shows a finished *)
(* evaluation, fails, or is stopped with its page.                         *)
LaunchEnds ==
  \A l \in Launches : phase[l] = "posting" ~>
    \/ phase[l] = "done" /\ (current[l] \in terminal \/ hook[page[l]].life = "gone")
    \/ phase[l] \in {"failed", "stopped"}

=============================================================================
