------------------------- MODULE DeviationInvariant -------------------------
(***************************************************************************)
(* The inductive invariant behind the safety properties of                 *)
(* DeviationScenario: a version names one state of the row, for every      *)
(* request that read or wrote the row at that version.                     *)
(***************************************************************************)
EXTENDS DeviationScenario

(* The row has passed every version that was read, what was read at the    *)
(* version it has now is what it is now, and its author never changes.     *)
ReadRows ==
  \A r \in Requests : req[r].scenario \in Scenarios =>
    LET row == scenarios[req[r].scenario] IN
    /\ req[r].before.version <= row.version
    /\ req[r].before.version = row.version => req[r].before = row
    /\ req[r].before # Absent => req[r].before.author = row.author

(* The same of what was written, when the version presented was a shown    *)
(* one: the writer then read the row it changed.                           *)
WrittenRows ==
  \A r \in Requests : Changed(r) =>
    /\ req[r].scenario \in Scenarios
    /\ req[r].after.version = req[r].version + 1
    /\ req[r].after.version <= scenarios[req[r].scenario].version
    /\ Shown(r) =>
         /\ req[r].before.version = req[r].version
         /\ req[r].after.version = scenarios[req[r].scenario].version =>
              req[r].after = scenarios[req[r].scenario]

(* What one request wrote is what another one read at the same version.    *)
WrittenIsRead ==
  \A r1, r2 \in Requests :
    /\ Changed(r1) /\ Shown(r1)
    /\ req[r2].scenario = req[r1].scenario
    /\ req[r2].before.version = req[r1].after.version
    => req[r2].before = req[r1].after

(* An audit row shows what its request holds.                              *)
AuditsOfRequests ==
  \A a \in audits :
    /\ pc[a.request] \in {"reload"} \cup Final /\ Changed(a.request)
    /\ a.scenario = req[a.request].scenario
    /\ a.before = req[a.request].before /\ a.after = req[a.request].after

VersionInv ==
  /\ TypeOK /\ ReadRows /\ WrittenRows /\ WrittenIsRead /\ AuditsOfRequests
  /\ ReviewedByOther /\ OneChangePerVersion
=============================================================================
