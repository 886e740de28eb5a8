------------------------- MODULE DeviationScenario --------------------------
(***************************************************************************)
(* The handlers of /api/v1/deviation-scenarios that change state: create,  *)
(* update and transition.                                                  *)
(*                                                                         *)
(* As in CoverageEvaluation, one action is one database statement with the *)
(* Go code up to the next one.  Updates and transitions are conditional on *)
(* the version the client presents, which need not be one it was shown,    *)
(* and work on the row they read before.                                   *)
(*                                                                         *)
(* A field's text is told apart by the request that wrote it.  The audit   *)
(* row of the middleware is left to CoverageEvaluation: it is the same for *)
(* every route.                                                            *)
(*                                                                         *)
(* An operator with _Mutant in its name is not part of the model: it is the *)
(* operator after it with a plausible bug, for mutation checks.            *)
(***************************************************************************)
EXTENDS Naturals, Access, ScenarioStates

CONSTANTS Requests,    \* the HTTP requests that may arrive
          Users,
          Role,        \* Role[u]: the role in the token of user u
          Scenarios,   \* ids of rows of deviation_scenarios
          Nodes,       \* ids of rows of process_nodes
          Fields,      \* the editable fields of a scenario
          MaxVersion,  \* bound: the versions that clients present
          Seeds,       \* rows a database may start with
          None

Editable == {"draft", "rework"}
ReviewActions == {"verified", "accepted"}
Submitters == {"admin", "process_engineer"}
Reviewers == {"admin", "safety_reviewer"}

Absent ==
  [state |-> "absent", version |-> 0, author |-> None, reviewer |-> None, node |-> None,
   content |-> [f \in Fields |-> None]]

Rows ==
  [state : ScenarioStateValues, version : Nat \ {0}, author : Users,
   reviewer : Users \cup {None}, node : Nodes, content : [Fields -> Requests \cup {None}]]

(* Who verified or accepted a row may do so and did not write it.          *)
Reviewed(row) ==
  /\ row.state \in ReviewActions => row.reviewer # None
  /\ row.reviewer # None => row.reviewer # row.author /\ Role[row.reviewer] \in Reviewers

ASSUME RoleAssumption == Role \in [Users -> Roles]
ASSUME NoneAssumption == None \notin Users \cup Scenarios
ASSUME VersionAssumption == MaxVersion \in Nat
ASSUME SeedAssumption ==
  /\ Seeds \subseteq Rows \cup {Absent}
  /\ \A row \in Seeds : Reviewed(row)

VARIABLES scenarios,  \* the table deviation_scenarios
          active,     \* the process nodes whose status is active
          audits,     \* the service's rows in audit_logs
          pc,         \* the statement each request executes next, or how it ended
          req         \* what each request holds in memory

vars == <<scenarios, active, audits, pc, req>>

Operations == {"create", "update", "transition"}
Statements == {"insert", "update", "transition", "record", "reload"}
Final == {"answered", "refused", "aborted"}   \* 2xx, 4xx, cut off

NoRequest ==
  [op |-> "none", user |-> None, scenario |-> None, node |-> None, version |-> 0,
   edits |-> {}, to |-> None, before |-> Absent, after |-> Absent]

Init ==
  /\ scenarios \in [Scenarios -> Seeds]
  /\ active \in SUBSET Nodes
  /\ audits = {}
  /\ pc = [r \in Requests |-> "idle"]
  /\ req = [r \in Requests |-> NoRequest]

-----------------------------------------------------------------------------
Go(r, statement) == pc' = [pc EXCEPT ![r] = statement]

Exists(s) == scenarios[s].state # "absent"

(* Create: the node is read first, and must be active then.                *)
LoadNode_Mutant(r, u, n) ==   \* neither existence nor status of the node is checked
  /\ pc[r] = "idle"
  /\ HasPermission(Role[u], "scenario:write")
  /\ req' = [req EXCEPT ![r] = [NoRequest EXCEPT !.op = "create", !.user = u, !.node = n]]
  /\ Go(r, "insert")
  /\ UNCHANGED <<scenarios, active, audits>>

LoadNode(r, u, n) ==
  /\ pc[r] = "idle"
  /\ HasPermission(Role[u], "scenario:write")
  /\ IF n \in active
     THEN /\ req' = [req EXCEPT ![r] = [NoRequest EXCEPT !.op = "create", !.user = u, !.node = n]]
          /\ Go(r, "insert")
     ELSE Go(r, "refused") /\ UNCHANGED req
  /\ UNCHANGED <<scenarios, active, audits>>

NewRow(r) ==
  [state |-> "draft", version |-> 1, author |-> req[r].user, reviewer |-> None,
   node |-> req[r].node, content |-> [f \in Fields |-> r]]

Insert(r) ==
  /\ pc[r] = "insert"
  /\ \E s \in Scenarios :
       /\ ~Exists(s)
       /\ scenarios' = [scenarios EXCEPT ![s] = NewRow(r)]
       /\ req' = [req EXCEPT ![r].scenario = s, ![r].after = NewRow(r)]
  /\ Go(r, "record")
  /\ UNCHANGED <<active, audits>>

(* Update: the row is read, the edited fields are replaced in memory, and  *)
(* all fields are written back where the version is the presented one.     *)
LoadForUpdate(r, u, s, edits, v) ==
  /\ pc[r] = "idle"
  /\ HasPermission(Role[u], "scenario:write")
  /\ IF scenarios[s].state \in Editable
     THEN /\ req' = [req EXCEPT ![r] =
                       [NoRequest EXCEPT !.op = "update", !.user = u, !.scenario = s,
                          !.edits = edits, !.version = v, !.before = scenarios[s]]]
          /\ Go(r, "update")
     ELSE Go(r, "refused") /\ UNCHANGED req
  /\ UNCHANGED <<scenarios, active, audits>>

EditedFields(r) ==
  [f \in Fields |-> IF f \in req[r].edits THEN r ELSE req[r].before.content[f]]

UpdatedRow(row, r) ==
  [row EXCEPT !.content = EditedFields(r), !.version = req[r].version + 1]

UpdateMatches_MutantVersion(row, r) ==   \* WHERE id = ? AND scenario_state IN ?
  row.state \in Editable

UpdateMatches_MutantState(row, r) ==     \* WHERE id = ? AND version = ?
  row.version = req[r].version

UpdateMatches(row, r) == row.version = req[r].version /\ row.state \in Editable

UpdateWithVersion(r) ==
  LET s == req[r].scenario IN
  /\ pc[r] = "update"
  /\ IF UpdateMatches(scenarios[s], r)
     THEN /\ scenarios' = [scenarios EXCEPT ![s] = UpdatedRow(@, r)]
          /\ req' = [req EXCEPT ![r].after = UpdatedRow(req[r].before, r)]
          /\ Go(r, "record")
     ELSE Go(r, "refused") /\ UNCHANGED <<scenarios, req>>
  /\ UNCHANGED <<active, audits>>

(* Transition: the row is read and the move is checked against it: the     *)
(* role for the target state, the transition table, reviewer and author.   *)
MayMove_MutantAuthor(row, u, to) ==
  /\ CanTransitionScenario(row.state, to)
  /\ Role[u] \in IF to = "analyzed" THEN Submitters ELSE Reviewers

MayMove_MutantTable(row, u, to) ==
  /\ row.state # "absent"
  /\ Role[u] \in IF to = "analyzed" THEN Submitters ELSE Reviewers
  /\ to \in ReviewActions => row.author # u

MayMove(row, u, to) ==
  /\ CanTransitionScenario(row.state, to)
  /\ Role[u] \in IF to = "analyzed" THEN Submitters ELSE Reviewers
  /\ to \in ReviewActions => row.author # u

LoadForTransition(r, u, s, to, v) ==
  /\ pc[r] = "idle"
  /\ Role[u] \in Submitters \cup Reviewers
  /\ IF MayMove(scenarios[s], u, to)
     THEN /\ req' = [req EXCEPT ![r] =
                       [NoRequest EXCEPT !.op = "transition", !.user = u, !.scenario = s,
                          !.to = to, !.version = v, !.before = scenarios[s]]]
          /\ Go(r, "transition")
     ELSE Go(r, "refused") /\ UNCHANGED req
  /\ UNCHANGED <<scenarios, active, audits>>

MovedRow(row, r) ==
  [row EXCEPT !.state = req[r].to, !.version = req[r].version + 1,
              !.reviewer = IF req[r].to \in ReviewActions THEN req[r].user ELSE @]

TransitionMatches_Mutant(row, r) ==   \* WHERE id = ? AND scenario_state = ?
  row.state = req[r].before.state

TransitionMatches(row, r) ==
  row.state = req[r].before.state /\ row.version = req[r].version

Transition(r) ==
  LET s == req[r].scenario IN
  /\ pc[r] = "transition"
  /\ IF TransitionMatches(scenarios[s], r)
     THEN /\ scenarios' = [scenarios EXCEPT ![s] = MovedRow(@, r)]
          /\ req' = [req EXCEPT ![r].after = MovedRow(req[r].before, r)]
          /\ Go(r, "record")
     ELSE Go(r, "refused") /\ UNCHANGED <<scenarios, req>>
  /\ UNCHANGED <<active, audits>>

(* The audit row shows the row as read and as computed in memory; update   *)
(* and transition then read the scenario for the response.                 *)
Record(r) ==
  /\ pc[r] = "record"
  /\ audits' = audits \cup {[request |-> r, scenario |-> req[r].scenario,
                             before |-> req[r].before, after |-> req[r].after]}
  /\ Go(r, IF req[r].op = "create" THEN "answered" ELSE "reload")
  /\ UNCHANGED <<scenarios, active, req>>

Reload(r) ==
  /\ pc[r] = "reload"
  /\ Go(r, "answered")
  /\ UNCHANGED <<scenarios, active, audits, req>>

(* The client disconnects or a statement fails.                            *)
Abort(r) ==
  /\ pc[r] \in Statements
  /\ Go(r, "aborted")
  /\ UNCHANGED <<scenarios, active, audits, req>>

(* Another handler deactivates a process node, or activates it again.      *)
SwitchNode(n) ==
  /\ active' = IF n \in active THEN active \ {n} ELSE active \cup {n}
  /\ UNCHANGED <<scenarios, audits, pc, req>>

-----------------------------------------------------------------------------
Arrive(r) ==
  \E u \in Users :
    \/ \E n \in Nodes : LoadNode(r, u, n)
    \/ \E s \in Scenarios, v \in 1..MaxVersion :
         \/ \E edits \in SUBSET Fields : LoadForUpdate(r, u, s, edits, v)
         \/ \E to \in ScenarioStateValues \ {"draft"} : LoadForTransition(r, u, s, to, v)

Step(r) == Insert(r) \/ UpdateWithVersion(r) \/ Transition(r) \/ Record(r) \/ Reload(r)

Next ==
  \/ \E r \in Requests : Arrive(r) \/ Step(r) \/ Abort(r)
  \/ \E n \in Nodes : SwitchNode(n)

Spec == Init /\ [][Next]_vars

-----------------------------------------------------------------------------
Won == {"record", "reload", "answered"}   \* the statement changed the row

RequestRecords ==
  [op : Operations \cup {"none"}, user : Users \cup {None}, scenario : Scenarios \cup {None},
   node : Nodes \cup {None}, version : 0..MaxVersion, edits : SUBSET Fields,
   to : ScenarioStateValues \cup {None}, before : Rows \cup {Absent}, after : Rows \cup {Absent}]

AuditRecords ==
  [request : Requests, scenario : Scenarios, before : Rows \cup {Absent}, after : Rows]

(* What a request holds fits the statement it executes next: a write is    *)
(* only reached with a row that permits it.                                *)
Holds(r) ==
  LET h == req[r] IN
  /\ pc[r] = "idle" => h = NoRequest
  /\ pc[r] \notin {"idle", "refused"} => h.op \in Operations /\ h.user \in Users
  /\ pc[r] = "insert" => h.op = "create" /\ h.node \in Nodes
  /\ h.op = "create" => h.version = 0 /\ h.before = Absent
  /\ pc[r] = "update" => h.op = "update" /\ h.before.state \in Editable
  /\ pc[r] = "transition" =>
       /\ h.op = "transition" /\ CanTransitionScenario(h.before.state, h.to)
       /\ h.to \in ReviewActions => h.before.author # h.user /\ Role[h.user] \in Reviewers
  /\ pc[r] \in {"update", "transition"} \cup Won => h.scenario \in Scenarios
  /\ pc[r] \in Won => h.after \in Rows

(* The types of all variables, those of a request by the statement it is   *)
(* at: no write is issued on a row that was read in a state forbidding it. *)
TypeOK ==
  /\ scenarios \in [Scenarios -> Rows \cup {Absent}]
  /\ active \subseteq Nodes
  /\ audits \subseteq AuditRecords
  /\ pc \in [Requests -> {"idle"} \cup Statements \cup Final]
  /\ req \in [Requests -> RequestRecords]
  /\ \A r \in Requests : Holds(r)

(* A scenario is verified and accepted by somebody who may review and is   *)
(* not its author, whatever the interleaving of reads and writes.          *)
ReviewedByOther == \A s \in Scenarios : Reviewed(scenarios[s])

Changed(r) == req[r].after # Absent   \* its statement changed the row

(* Of the requests that present the same version of a scenario at most one *)
(* succeeds, whatever they read and however they arrived at the version.   *)
OneChangePerVersion ==
  \A r1, r2 \in Requests :
    /\ Changed(r1) /\ Changed(r2)
    /\ req[r1].scenario = req[r2].scenario
    /\ req[r1].after.version = req[r2].after.version
    => r1 = r2

(* The client presented a version the row had reached when it was read:    *)
(* one it can have been shown.                                             *)
Shown(r) == req[r].version <= req[r].before.version

(* The audit rows of a scenario fit together: each shows exactly one       *)
(* change, what it shows after the change is what the next one shows       *)
(* before, and the last one shows the scenario as it is, in the columns    *)
(* that are modelled (updated_at is a time of its own in each).            *)
AuditChain ==
  \A a \in audits : Shown(a.request) =>
    /\ a.after.version = a.before.version + 1
    /\ a.after.version = scenarios[a.scenario].version => a.after = scenarios[a.scenario]
    /\ \A b \in audits :
         a.scenario = b.scenario /\ a.after.version = b.before.version => a.after = b.before

LawfulStep(s) ==
  LET old == scenarios[s]
      new == scenarios'[s] IN
  new # old =>
    IF old = Absent THEN new.state = "draft" /\ new.version = 1
    ELSE /\ new.version = old.version + 1
         /\ new.author = old.author /\ new.node = old.node
         /\ \/ old.state \in Editable /\ new.state = old.state /\ new.reviewer = old.reviewer
            \/ CanTransitionScenario(old.state, new.state) /\ new.content = old.content

(* A scenario changes by one legal step at a time, one version each: text  *)
(* only in draft and rework, the state only along the table, and never     *)
(* both; its author and its node stay; an accepted scenario is final.      *)
LawfulChange == [][\A s \in Scenarios : LawfulStep(s)]_vars

(* An update that presents a version its client can have seen writes back  *)
(* all fields, and yet undoes no other request's edit.                     *)
KeepsOthersEdits ==
  [][\A r \in Requests :
       pc[r] = "update" /\ pc'[r] = "record" /\ Shown(r) =>
         \A f \in Fields \ req[r].edits :
           scenarios'[req[r].scenario].content[f] = scenarios[req[r].scenario].content[f]]_vars

-----------------------------------------------------------------------------
(* A rule the code states and does not keep; a run of its own refutes it:  *)
(* no scenario is added to a node that is not active.                      *)
CreatedOnActiveNode ==
  [][\A s \in Scenarios : ~Exists(s) /\ Exists(s)' => scenarios'[s].node \in active]_vars
=============================================================================
