------------------------- MODULE CoverageEvaluation -------------------------
(***************************************************************************)
(* The handlers of /api/v1/coverage-evaluations that change state: run,    *)
(* confirm, void and replay.                                               *)
(*                                                                         *)
(* Every request runs in a goroutine of its own and every repository call  *)
(* is a database statement that commits by itself, so the handlers         *)
(* interleave between any two statements.  One action is one statement,    *)
(* with the Go code up to the next one; pc[r] names the statement request  *)
(* r executes next.  A request takes nothing else of the service with it:  *)
(* what it read and computed is the record req[r].                         *)
(*                                                                         *)
(* Input data is told apart by revision only: live[s][p] counts the edits  *)
(* of part p of what scenario s is evaluated on.                           *)
(*                                                                         *)
(* An operator with _Mutant in its name is not part of the model: it is the *)
(* operator after it with a plausible bug, for mutation checks.            *)
(***************************************************************************)
EXTENDS Naturals, FiniteSets, Access, CoverageStates

CONSTANTS Requests,     \* the HTTP requests that may arrive
          Users,
          Role,         \* Role[u]: the role in the token of user u
          Scenarios,
          Author,       \* Author[s]: created_by of s, which no statement updates
          Keys,         \* idempotency keys, trimmed and of a legal length
          Evals,        \* ids of rows of coverage_evaluations
          Edited,       \* bound: the parts of the input that are edited at all
          MaxRevision,  \* bound: edits of each such part
          Score,        \* Score[i]: the evaluator's answer for the input i
          EvalError,    \* ... when it refuses the input
          None          \* NULL, or an empty field

Parts == {"scenario", "node", "safeguards"}   \* each read by a statement of its own
Inputs == [Parts -> 0..MaxRevision]
FirstInput == [p \in Parts |-> 0]

Operations == {"run", "confirm", "void", "replay"}
Verdicts == {"passed", "mismatch"}

ASSUME RoleAssumption == Role \in [Users -> Roles]
ASSUME AuthorAssumption == Author \in [Scenarios -> Users]
ASSUME RevisionAssumption == MaxRevision \in Nat /\ Edited \subseteq Parts
ASSUME ScoreAssumption == Score \in [Inputs -> Nat \cup {EvalError}]
ASSUME ErrorAssumption == EvalError \notin Nat
ASSUME NoneAssumption ==
  /\ None \notin Keys \cup Scenarios \cup Users \cup Evals
  /\ None \notin CoverageStateValues \cup Operations \cup Verdicts \cup {"absent"}

VARIABLES evals,   \* the table coverage_evaluations
          audits,  \* the rows of audit_logs
          live,    \* the input data as the other handlers leave it
          seen,    \* history: every value live[s] has had
          pc,      \* the statement each request executes next, or how it ended
          req      \* what each request holds in memory

vars == <<evals, audits, live, seen, pc, req>>

-----------------------------------------------------------------------------
Absent ==
  [state |-> "absent", key |-> None, scenario |-> None, input |-> FirstInput,
   score |-> 0, confirmedBy |-> None, replay |-> None]

NoRequest ==
  [op |-> None, user |-> None, key |-> None, scenario |-> None, eval |-> None,
   input |-> FirstInput, before |-> None, after |-> None, verdict |-> None]

Statements == Parts \cup {"create", "findAgain", "start", "finish", "change",
                          "store", "reload", "record", "respond"}
Final == {"answered", "refused", "aborted"}   \* 2xx, 4xx, cut off

Rows ==
  [state : CoverageStateValues \cup {"absent"}, key : Keys \cup {None},
   scenario : Scenarios \cup {None}, input : Inputs, score : Nat,
   confirmedBy : Users \cup {None}, replay : Verdicts \cup {None}]

RequestRecords ==
  [op : Operations \cup {None}, user : Users \cup {None}, key : Keys \cup {None},
   scenario : Scenarios \cup {None}, eval : Evals \cup {None}, input : Inputs,
   before : CoverageStateValues \cup {"absent", None},
   after : CoverageStateValues \cup {"absent", None}, verdict : Verdicts \cup {None}]

AuditRecords ==
  [request : Requests, action : Operations \cup {"http_write"},
   from : CoverageStateValues \cup {"absent", None},
   to : CoverageStateValues \cup {"absent", None}]

Init ==
  /\ evals = [e \in Evals |-> Absent]
  /\ audits = {}
  /\ live = [s \in Scenarios |-> FirstInput]
  /\ seen = [s \in Scenarios |-> {FirstInput}]
  /\ pc = [r \in Requests |-> "idle"]
  /\ req = [r \in Requests |-> NoRequest]

-----------------------------------------------------------------------------
Go(r, statement) == pc' = [pc EXCEPT ![r] = statement]

Exists(e) == evals[e].state # "absent"
RowsOf(k) == {e \in Evals : Exists(e) /\ evals[e].key = k}

(* The unique index on idempotency_key.                                    *)
KeyTaken_Mutant(k) == FALSE   \* an index that is not unique

KeyTaken(k) == RowsOf(k) # {}

(* UPDATE ... WHERE id = e AND evaluation_state IN from: the row becomes   *)
(* newRow, or nothing happens and the caller learns that no row changed.   *)
Transition_Mutant(e, from, newRow) ==   \* WHERE id = e only
  evals' = [evals EXCEPT ![e] = newRow]

Transition(e, from, newRow) ==
  evals' = IF evals[e].state \in from THEN [evals EXCEPT ![e] = newRow] ELSE evals

(* Run: a request arrives and looks for an evaluation with its key.        *)
FindKey(r, u, k, s) ==
  /\ pc[r] = "idle"
  /\ HasPermission(Role[u], "evaluation:run")
  /\ \/ /\ RowsOf(k) = {}
        /\ req' = [req EXCEPT ![r] = [NoRequest EXCEPT !.op = "run", !.user = u, !.key = k,
                                                       !.scenario = s]]
        /\ Go(r, "scenario")
     \/ \E e \in RowsOf(k) :
        /\ req' = [req EXCEPT ![r] = [NoRequest EXCEPT !.op = "run", !.user = u, !.key = k,
                                                       !.scenario = s, !.eval = e]]
        /\ Go(r, "respond")
  /\ UNCHANGED <<evals, audits, live, seen>>

(* Run: the scenario, its node and its safeguards are read one by one.     *)
AfterPart == [scenario |-> "node", node |-> "safeguards", safeguards |-> "create"]

LoadPart(r) ==
  /\ pc[r] \in Parts
  /\ req' = [req EXCEPT ![r].input = [@ EXCEPT ![pc[r]] = live[req[r].scenario][pc[r]]]]
  /\ Go(r, AfterPart[pc[r]])
  /\ UNCHANGED <<evals, audits, live, seen>>

(* Run: insert the queued row; the unique index on idempotency_key decides *)
(* between requests that found no row.                                     *)
Create(r) ==
  /\ pc[r] = "create"
  /\ ~KeyTaken(req[r].key)
  /\ \E e \in Evals :
       /\ ~Exists(e)
       /\ evals' = [evals EXCEPT ![e] = [Absent EXCEPT !.state = "queued", !.key = req[r].key,
                                           !.scenario = req[r].scenario, !.input = req[r].input]]
       /\ req' = [req EXCEPT ![r].eval = e]
  /\ Go(r, "start")
  /\ UNCHANGED <<audits, live, seen>>

CreateDuplicate_Mutant(r) ==   \* ON CONFLICT DO UPDATE
  /\ pc[r] = "create"
  /\ KeyTaken(req[r].key)
  /\ evals' = [e \in Evals |-> IF e \in RowsOf(req[r].key)
                               THEN [evals[e] EXCEPT !.input = req[r].input] ELSE evals[e]]
  /\ Go(r, "findAgain")
  /\ UNCHANGED <<audits, live, seen, req>>

CreateDuplicate(r) ==
  /\ pc[r] = "create"
  /\ KeyTaken(req[r].key)
  /\ Go(r, "findAgain")
  /\ UNCHANGED <<evals, audits, live, seen, req>>

FindAgain_MutantEmpty(r) ==   \* answer without reading
  /\ pc[r] = "findAgain"
  /\ Go(r, "respond")
  /\ UNCHANGED <<evals, audits, live, seen, req>>

FindAgain_Mutant(r) ==   \* insert again instead of reading
  /\ pc[r] = "findAgain"
  /\ Go(r, "create")
  /\ UNCHANGED <<evals, audits, live, seen, req>>

FindAgain(r) ==
  /\ pc[r] = "findAgain"
  /\ \E e \in RowsOf(req[r].key) : req' = [req EXCEPT ![r].eval = e]
  /\ Go(r, "respond")
  /\ UNCHANGED <<evals, audits, live, seen>>

Start_Mutant(r) ==   \* one run at a time: wait for the others first
  /\ \A e \in Evals : evals[e].state # "running"
  /\ pc[r] = "start"
  /\ Transition(req[r].eval, {"queued"}, [evals[req[r].eval] EXCEPT !.state = "running"])
  /\ Go(r, "finish")
  /\ UNCHANGED <<audits, live, seen, req>>

Start(r) ==
  LET e == req[r].eval IN
  /\ pc[r] = "start"
  /\ Transition(e, {"queued"}, [evals[e] EXCEPT !.state = "running"])
  /\ Go(r, IF evals[e].state = "queued" THEN "finish" ELSE "refused")
  /\ UNCHANGED <<audits, live, seen, req>>

(* Run: evaluate the snapshot held in memory and store the result.         *)
Result_Mutant(r) == Score[live[req[r].scenario]]   \* evaluate the current input

Result(r) == Score[req[r].input]

Complete(r) ==
  LET e == req[r].eval IN
  /\ pc[r] = "finish"
  /\ Result(r) # EvalError
  /\ Transition(e, {"running"}, [evals[e] EXCEPT !.state = "completed", !.input = req[r].input,
                                                 !.score = Result(r)])
  /\ Go(r, IF evals[e].state = "running" THEN "reload" ELSE "refused")
  /\ UNCHANGED <<audits, live, seen, req>>

(* Run: the evaluator refused; whether the row changed is not looked at.   *)
Fail(r) ==
  LET e == req[r].eval IN
  /\ pc[r] = "finish"
  /\ Result(r) = EvalError
  /\ Transition(e, {"running"}, [evals[e] EXCEPT !.state = "failed"])
  /\ Go(r, "refused")
  /\ UNCHANGED <<audits, live, seen, req>>

-----------------------------------------------------------------------------
(* Confirm and void: a request arrives and reads the row; the confirmer is *)
(* compared with the author of the scenario.                               *)
NotTheAuthor_Mutant(op, e, u) == op = "void" => Author[evals[e].scenario] # u

NotTheAuthor(op, e, u) == op = "confirm" => Author[evals[e].scenario] # u

LoadForChange(r, u, op, e) ==
  /\ pc[r] = "idle"
  /\ HasPermission(Role[u], "evaluation:confirm")
  /\ req' = [req EXCEPT ![r] = [NoRequest EXCEPT !.op = op, !.user = u, !.eval = e,
                                                 !.before = evals[e].state]]
  /\ Go(r, IF Exists(e) /\ NotTheAuthor(op, e, u) THEN "change" ELSE "refused")
  /\ UNCHANGED <<evals, audits, live, seen>>

Confirmable_Mutant == {"completed", "voided"}

Confirmable == {"completed"}

Voidable_Mutant == {"running", "completed", "failed", "confirmed"}

Voidable == {"completed", "failed", "confirmed"}

Confirm(r) ==
  LET e == req[r].eval IN
  /\ pc[r] = "change" /\ req[r].op = "confirm"
  /\ Transition(e, Confirmable, [evals[e] EXCEPT !.state = "confirmed",
                                                 !.confirmedBy = req[r].user])
  /\ Go(r, IF evals[e].state \in Confirmable THEN "reload" ELSE "refused")
  /\ UNCHANGED <<audits, live, seen, req>>

Void(r) ==
  LET e == req[r].eval IN
  /\ pc[r] = "change" /\ req[r].op = "void"
  /\ Transition(e, Voidable, [evals[e] EXCEPT !.state = "voided"])
  /\ Go(r, IF evals[e].state \in Voidable THEN "reload" ELSE "refused")
  /\ UNCHANGED <<audits, live, seen, req>>

(* Replay: a request arrives, reads the row, whatever its state, and       *)
(* evaluates the row's snapshot again.                                     *)
LoadForReplay(r, u, e) ==
  /\ pc[r] = "idle"
  /\ HasPermission(Role[u], "evaluation:run")
  /\ req' = [req EXCEPT ![r] =
               [NoRequest EXCEPT !.op = "replay", !.user = u, !.eval = e, !.before = evals[e].state,
                  !.verdict = IF Score[evals[e].input] = evals[e].score
                              THEN "passed" ELSE "mismatch"]]
  /\ Go(r, IF Exists(e) /\ Score[evals[e].input] # EvalError THEN "store" ELSE "refused")
  /\ UNCHANGED <<evals, audits, live, seen>>

StoreReplay(r) ==
  /\ pc[r] = "store"
  /\ evals' = [evals EXCEPT ![req[r].eval].replay = req[r].verdict]
  /\ Go(r, "record")
  /\ UNCHANGED <<audits, live, seen, req>>

-----------------------------------------------------------------------------
(* Run, confirm and void read the row once more after changing it.         *)
Reload_Mutant(r) ==   \* answer before the audit row is written
  /\ pc[r] = "reload"
  /\ req' = [req EXCEPT ![r].after = evals[req[r].eval].state]
  /\ Go(r, "respond")
  /\ UNCHANGED <<evals, audits, live, seen>>

Reload(r) ==
  /\ pc[r] = "reload"
  /\ req' = [req EXCEPT ![r].after = evals[req[r].eval].state]
  /\ Go(r, "record")
  /\ UNCHANGED <<evals, audits, live, seen>>

(* The service's audit row.  Confirm and void log the row as first read    *)
(* and as reloaded; run and replay log their result.                       *)
Record(r) ==
  LET op == req[r].op
      stateChange == op \in {"confirm", "void"} IN
  /\ pc[r] = "record"
  /\ audits' = audits \cup {[request |-> r, action |-> op,
                             from |-> IF stateChange THEN req[r].before ELSE None,
                             to |-> IF stateChange THEN req[r].after ELSE None]}
  /\ Go(r, IF op = "replay" /\ req[r].verdict = "mismatch" THEN "refused" ELSE "respond")
  /\ UNCHANGED <<evals, live, seen, req>>

(* The response is written, then the middleware adds its own audit row.    *)
Respond(r) ==
  /\ pc[r] = "respond"
  /\ audits' = audits \cup {[request |-> r, action |-> "http_write", from |-> None, to |-> None]}
  /\ Go(r, "answered")
  /\ UNCHANGED <<evals, live, seen, req>>

(* The client disconnects or a statement fails: every later statement is   *)
(* skipped.  A crash of the process is this for all requests in flight.    *)
Abort(r) ==
  /\ pc[r] \in Statements
  /\ Go(r, "aborted")
  /\ UNCHANGED <<evals, audits, live, seen, req>>

(* Another handler updates a scenario, its node or its safeguards.         *)
Edit(s, p) ==
  /\ p \in Edited
  /\ live[s][p] < MaxRevision
  /\ live' = [live EXCEPT ![s][p] = @ + 1]
  /\ seen' = [seen EXCEPT ![s] = @ \cup {live'[s]}]
  /\ UNCHANGED <<evals, audits, pc, req>>

-----------------------------------------------------------------------------
Arrive(r) ==
  \E u \in Users :
    \/ \E k \in Keys, s \in Scenarios : FindKey(r, u, k, s)
    \/ \E op \in {"confirm", "void"}, e \in Evals : LoadForChange(r, u, op, e)
    \/ \E e \in Evals : LoadForReplay(r, u, e)

Step(r) ==
  \/ LoadPart(r) \/ Create(r) \/ CreateDuplicate(r) \/ FindAgain(r)
  \/ Start(r) \/ Complete(r) \/ Fail(r)
  \/ Confirm(r) \/ Void(r) \/ StoreReplay(r)
  \/ Reload(r) \/ Record(r) \/ Respond(r)

Next ==
  \/ \E r \in Requests : Arrive(r) \/ Step(r) \/ Abort(r)
  \/ \E s \in Scenarios, p \in Parts : Edit(s, p)

Spec == Init /\ [][Next]_vars

(* A goroutine that can run is scheduled, and a statement it issues either *)
(* returns or fails; nothing obliges a request to arrive or to be cut off. *)
FairSpec == Spec /\ \A r \in Requests : WF_vars(Step(r))

-----------------------------------------------------------------------------
(* What a request holds in memory fits the statement it executes next.     *)
Holds(r) ==
  LET h == req[r] IN
  /\ IF pc[r] = "idle" THEN h = NoRequest ELSE h.op \in Operations /\ h.user \in Users
  /\ h.op = "run" => h.key \in Keys /\ h.scenario \in Scenarios
  /\ pc[r] \in Parts \cup {"create", "findAgain", "start", "finish"} => h.op = "run"
  /\ pc[r] = "change" => h.op \in {"confirm", "void"}
  /\ pc[r] = "store" => h.op = "replay" /\ h.verdict \in Verdicts
  /\ pc[r] = "reload" => h.op # "replay"
  /\ pc[r] \in {"start", "finish", "change", "store", "reload", "record", "respond", "answered"}
       => h.eval \in Evals

(* The types of all variables, those of a request by the statement it is   *)
(* at: no handler uses an id, a user or a verdict it has not read.         *)
TypeOK ==
  /\ evals \in [Evals -> Rows]
  /\ audits \subseteq AuditRecords
  /\ live \in [Scenarios -> Inputs]
  /\ seen \in [Scenarios -> SUBSET Inputs]
  /\ pc \in [Requests -> {"idle"} \cup Statements \cup Final]
  /\ req \in [Requests -> RequestRecords]
  /\ \A r \in Requests : Holds(r)

Ran(r, e) == req[r].op = "run" /\ req[r].eval = e
Owns(r, e) == Ran(r, e) /\ pc[r] \in {"start", "finish"}
Unsettled(e) == evals[e].state \in {"queued", "running"}
Orphan(e) == Unsettled(e) /\ \A r \in Requests : ~Owns(r, e)

(* A run that inserted a row is alone with it until the result is stored:  *)
(* the two "evaluation state changed" conflicts of Run cannot happen, the  *)
(* row still holds the snapshot the run has in memory, and a row left      *)
(* queued or running without its run lost it to an abort.                  *)
RunOwnsRow ==
  /\ \A r \in Requests : pc[r] \in {"start", "finish"} =>
       LET row == evals[req[r].eval] IN
       /\ row.state = (IF pc[r] = "start" THEN "queued" ELSE "running")
       /\ row.key = req[r].key /\ row.scenario = req[r].scenario /\ row.input = req[r].input
  /\ \A e \in Evals, r1, r2 \in Requests : Owns(r1, e) /\ Owns(r2, e) => r1 = r2
  /\ \A e \in Evals : Orphan(e) => \E r \in Requests : Ran(r, e) /\ pc[r] = "aborted"

(* Whoever presents an idempotency key is answered with the one row that   *)
(* exists for the key, however many requests raced to insert it.           *)
RunAnswersKey ==
  \A r \in Requests :
    req[r].op = "run" /\ pc[r] \in {"respond", "answered"} => RowsOf(req[r].key) = {req[r].eval}

(* A finished evaluation holds the evaluator's answer for the very input   *)
(* frozen in its row, whatever was edited since; a replay that starts from *)
(* a completed or confirmed row therefore passes.                          *)
ResultFromSnapshot ==
  /\ \A e \in Evals :
       LET row == evals[e] IN
       /\ row.state \in {"completed", "confirmed"} => row.score = Score[row.input]
       /\ row.state = "failed" => Score[row.input] = EvalError
       /\ row.state = "voided" => Score[row.input] \in {row.score, EvalError}
  /\ \A r \in Requests :
       /\ req[r].op = "replay" /\ pc[r] \in {"store", "record", "respond", "answered"}
       /\ req[r].before \in {"completed", "confirmed"}
       => req[r].verdict = "passed"

(* A confirmed evaluation names a confirmer who may confirm and did not    *)
(* write the scenario; and two requests never both report success for the  *)
(* same confirmation or the same void.                                     *)
ConfirmedByOther ==
  /\ \A e \in Evals :
       LET row == evals[e] IN
       /\ row.state = "confirmed" => row.confirmedBy # None
       /\ row.confirmedBy # None =>
            /\ row.state \in {"confirmed", "voided"}
            /\ HasPermission(Role[row.confirmedBy], "evaluation:confirm")
            /\ row.confirmedBy # Author[row.scenario]
  /\ \A r1, r2 \in Requests :
       /\ {pc[r1], pc[r2]} \subseteq {"reload", "record", "respond", "answered"}
       /\ req[r1].op = req[r2].op /\ req[r1].op \in {"confirm", "void"}
       /\ req[r1].eval = req[r2].eval
       => r1 = r2

Recorded(r, action) == \E a \in audits : a.request = r /\ a.action = action

(* What audit_logs says happened did happen.  The states a confirm or void *)
(* row shows need not be the ones its UPDATE changed from and to, but they *)
(* lie before and after it.                                                *)
AuditTruth ==
  \A a \in audits :
    LET r == a.request
        row == evals[req[r].eval] IN
    /\ a.action # "http_write" => a.action = req[r].op
    /\ a.action = "http_write" => req[r].op = "run" \/ Recorded(r, req[r].op)
    /\ a.action = "run" => /\ row.state \in {"completed", "confirmed", "voided"}
                           /\ row.score = Score[row.input] /\ row.key = req[r].key
    /\ a.action = "confirm" => /\ row.confirmedBy = req[r].user
                               /\ a.from \in {"queued", "running", "completed"}
                               /\ a.to \in {"confirmed", "voided"}
    /\ a.action = "void" => /\ row.state = "voided" /\ a.to = "voided"
                            /\ a.from \in CoverageStateValues \ {"voided"}
    /\ a.action = "replay" => row.replay # None

Accounted(e, op) ==
  \E r \in Requests : /\ req[r].op = op /\ req[r].eval = e
                      /\ pc[r] \in {"reload", "record", "aborted"} \/ Recorded(r, op)

(* The run of row e accounts for it, is still at work, or was refused by   *)
(* the evaluator.                                                          *)
RunAccounted(e) ==
  \/ Accounted(e, "run")
  \/ \E r \in Requests : Owns(r, e)
  \/ evals[e].state \in {"failed", "voided"} /\ Score[evals[e].input] = EvalError

(* Every row is in audit_logs with the request that inserted it, and every *)
(* change of it with the request that made it, or that request is about to *)
(* record it, or was aborted before it could; an answered request is       *)
(* recorded by the middleware, too.  There is one exception: a run that    *)
(* the evaluator refuses inserts its row, starts it and fails it, and is   *)
(* answered 422 without any audit row (RefusedRunsRecorded, below).        *)
AuditTrail ==
  /\ \A e \in Evals :
       /\ Exists(e) => RunAccounted(e)
       /\ evals[e].confirmedBy # None => Accounted(e, "confirm")
       /\ evals[e].state = "voided" => Accounted(e, "void")
       /\ evals[e].replay # None => Accounted(e, "replay")
  /\ \A r \in Requests : pc[r] = "answered" => Recorded(r, "http_write")

(* No step replaces what a row was created with, or a result or a          *)
(* confirmer once they are there ("history must not be overwritten").      *)
HistoryImmutable ==
  [][\A e \in Evals : Exists(e) =>
       LET old == evals[e]
           new == evals'[e] IN
       /\ new.key = old.key /\ new.scenario = old.scenario /\ new.input = old.input
       /\ ~Unsettled(e) => new.score = old.score
       /\ old.confirmedBy # None => new.confirmedBy = old.confirmedBy]_vars

(* A row whose run was cut off stays as it is: no later request, with the  *)
(* same key or another, takes it up, fails it or voids it.                 *)
OrphanStays ==
  [][\A e \in Evals : Orphan(e) => Orphan(e)' /\ evals'[e].state = evals[e].state]_vars

(* One evaluation per key, as its client sees it.                          *)
StoreView ==
  [k \in Keys |->
     IF RowsOf(k) = {}
     THEN [state |-> "absent", scenario |-> None, input |-> None, score |-> 0,
           confirmedBy |-> None]
     ELSE LET row == evals[CHOOSE e \in RowsOf(k) : TRUE]
          IN [state |-> row.state, scenario |-> row.scenario, input |-> row.input,
              score |-> row.score, confirmedBy |-> row.confirmedBy]]

Lifecycle == INSTANCE EvaluationLifecycle WITH store <- StoreView

(* The interleaved handlers implement the lifecycle of one evaluation per  *)
(* key: every statement is one of its steps or invisible to it.            *)
ImplementsLifecycle == Lifecycle!Spec

(* Every request that arrived ends.                                        *)
EveryRequestEnds == \A r \in Requests : pc[r] # "idle" ~> pc[r] \in Final

(* A queued or running evaluation settles, or has lost its run for good.   *)
RunSettles == \A e \in Evals : Unsettled(e) ~> (~Unsettled(e) \/ Orphan(e))

-----------------------------------------------------------------------------
(* Statements of the documentation that the code does not keep; each is    *)
(* refuted by a run of its own.                                            *)

(* "Replay uses the original snapshot, so the same input gives the same    *)
(* result": no finished evaluation is marked as not reproducible.          *)
FinishedReplaysPass ==
  \A e \in Evals : evals[e].state \in {"completed", "confirmed"} => evals[e].replay # "mismatch"

(* "All write operations are recorded": a run that wrote a row and was not *)
(* cut off is in audit_logs when it is over, also when it was refused.     *)
RefusedRunsRecorded ==
  \A r \in Requests :
    req[r].op = "run" /\ req[r].eval # None /\ pc[r] = "refused" =>
      \E a \in audits : a.request = r

(* The frozen input is one the scenario, its node and its safeguards had   *)
(* together at some moment.                                                *)
InputCoexisted ==
  \A e \in Evals : Exists(e) => evals[e].input \in seen[evals[e].scenario]
=============================================================================
