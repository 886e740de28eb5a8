# A formal model of the HAZOP safeguard coverage service

The service keeps process nodes, their deviation scenarios and the safeguards
of each scenario, and evaluates how well the safeguards cover a scenario.  This
directory holds TLA+ modules that model its handlers, TLC runs that check them on
small instances, and TLAPS proofs of their safety properties for instances of
every size.  Paths below are relative to the repository; `internal/` stands for
`src/backend/internal/`.

To check a run: `tlc -config <file>.cfg <module>.tla` with the module and file of
the table in section 5.  To check the proofs: `tlapm <module>.tla`.

## 1. Inventory

The backend is a Gin server.  Every HTTP request runs in a goroutine of its own:
middleware (request id, authentication, role check, rate limit, write audit),
then a handler, a service method, and repository calls.  **Every repository call
is one SQL statement that commits by itself**: no service method opens a
transaction, and nothing but the database and the rate limiter's map is shared.
So two requests interleave between any two statements, and a request that is cut
off (client gone, statement failed, process killed) leaves what its earlier
statements did.  The conditions in the `WHERE` clauses, one unique index and the
versions of scenarios are all that keeps handlers apart.

| component | state | operations that change it | what is hard | what makes it correct |
|---|---|---|---|---|
| Coverage evaluation `service/coverage_evaluation_service.go` | table coverage_evaluations: state, key, frozen input, score, confirmer, replay flag | run, confirm, void, replay | a run is up to ten statements; requests race on a key or a row; input edited meanwhile; a cut-off run | one row per key, result of the frozen input, history immutable, confirmer is not the author, audit tells the truth, no run takes another's row |
| Deviation scenario `service/deviation_scenario_service.go` | table deviation_scenarios: state, version, author, reviewer, text | create, update, transition | reads before conditional writes, versions chosen by clients, all fields written back | one winner per version, no edit lost, lawful transitions, reviewer is not the author |
| Process node `service/process_node_service.go` | table process_nodes: code, fields, status | create, update, deactivate | requests race on a code; update writes back a stale status | one node per code; a deactivation stays until an update that is told to activate the node, or works on an old row, undoes it; no two deactivations win without one between |
| Safeguard `service/safeguard_service.go` | table safeguards: lifecycle, interval, verification, evidence | create, update, verify, invalidate, restore | two-step expiry in update, evidence read before it is appended to, restore in two reads | an active safeguard was verified; evidence is lost and the lifecycle bent only by a request that another overtook between its read and its write |
| Coverage algorithm `algorithm/` | none (pure) | evaluate, replay | ties, deduplication by key, truncated times, float64 ceiling, threshold | deterministic, order of input irrelevant, the best safeguard of a key counts, more safeguards never hurt |
| Audit log `middleware/audit.go`, audit repository | table audit_logs, append only | record | written after the change by another statement, ordered by a time taken before the INSERT, read in pages | every row is true; every change is recorded, or its request was cut off or its run refused; timeline in order |
| Access control `constants/roles.go`, `middleware/rbac.go` | none | role check of a route | role in the token, author in the row | auditors only read, reviewers differ from authors |
| Authentication, rate limiter `middleware/auth.go` | tokens (stateless), map of windows under a mutex | login, count a request | clock read outside the lock, eviction at 10000 keys | windows of a key do not overlap, no burst above twice the limit within a window less the wait for the lock, no request limited by another key |
| Server, seed data `cmd/server/main.go`, `database/` | connection pool, seed rows | start, migrate, seed, serve, graceful shutdown | crash between two statements of the seeding, two servers start at once, shutdown cuts requests off | seeded wholly and once, served over the seed |
| Frontend watcher `src/frontend/src/hooks/useCoverageRun.ts` | generation, timer, flags | launch, watch, stop | answers after unmount or after a second launch | one live launch per page, no polling of a page that was left |
| Rest of the frontend, DTOs, error rendering | view state | | | |

Interactions: a scenario's handlers read its node (active or not); a run reads
scenario, node and safeguards and freezes them into its row; confirm reads the
scenario for its author; every service and the write middleware insert into
audit_logs; the scenario timeline is derived from audit_logs.  PROJECT.json lists
the hazards with the lines where they bite and the properties that cover them.

## 2. Modules

| module | models |
|---|---|
| `Access` | roles, permissions (`internal/constants/roles.go`) |
| `CoverageStates`, `ScenarioStates` | states and transition tables (`internal/constants/`) |
| `EvaluationLifecycle` | abstract specification: what the evaluation store promises, one idempotency key at a time |
| `CoverageEvaluation` | the handlers of run, confirm, void, replay, statement by statement, and their properties |
| `CoverageInvariant` | the inductive invariant `IInv` of `CoverageEvaluation`, in named parts |
| `CoverageEvaluationProofs`, `CoverageResultProofs` | its proofs |
| `DeviationScenario` | the handlers of create, update, transition, statement by statement, and their properties |
| `DeviationInvariant` | the inductive invariant `VersionInv` of `DeviationScenario` |
| `DeviationProofs` | its proofs |
| `Safeguards` | the handlers of create, update, verify, invalidate, restore, statement by statement, with the clock |
| `SafeguardInvariant`, `SafeguardProofs` | its inductive invariant `IInv` and proofs |
| `ProcessNodes` | the handlers of create, update, deactivate, statement by statement |
| `ProcessNodeInvariant`, `ProcessNodeProofs` | its inductive invariant `NodeInv` and proofs; those of `Plant` |
| `Plant` | composition of `ProcessNodes` and `DeviationScenario` on one table of nodes |
| `CoverageAlgorithm` | the evaluation as operators: snapshot, paths, independence, score, residual risk |
| `SafeguardRegister`, `SafeguardRegisterProofs` | a register of safeguards that changes and grows old, and what evaluations of it must satisfy; its proofs |
| `AuditLog` | the rows of audit_logs as they arrive, the pages of the list, the timeline |
| `RateLimiter` | the rate limiter |
| `MiddlewareProofs` | proofs of `RateLimiter` and of `AuditLog` |
| `Server` | start, seeding transaction, shutdown, crash and restart of several servers |
| `CoverageWatch` | the page that launches an evaluation and polls it (`useCoverageRun`) |
| `ProcessProofs` | proofs of `Server` and of `CoverageWatch` |
| `MCCoverageEvaluation`, `MCDeviationScenario`, `MCSafeguards`, `MCPlant`, `MCSafeguardRegister` | constants for TLC |
| `MCProcesses` | constants for TLC, of `CoverageWatch` and `Server` side by side |
| `MCMiddleware` | constants for TLC, of `RateLimiter` and `AuditLog` side by side |

Operators with `_Mutant` in their names are plausible bugs for mutation
checks: with one in place of the operator it follows, TLC finds the property
violated that PROJECT.json names.  They are not part of the model.

## 3. How the handlers are modelled

`pc[r]` names the SQL statement request `r` executes next, `req[r]` is what the
goroutine holds in memory.  One action is one statement with the Go code up to the
next one; a row that `UPDATE ... WHERE` does not match sends the request to
`"refused"` exactly where the code tests `RowsAffected`.  `Abort` cuts a request
off before any statement: the request context is cancelled, or the statement
fails and the handler answers 5xx.  A crash of the process is `Abort` of every
request in flight, because nothing survives in memory that a restart would use.
This holds for the four modules of services; `Server`, `RateLimiter` and
`CoverageWatch` are described below.

**`CoverageEvaluation`.**

| code | action |
|---|---|
| `Run`: find by key | `FindKey` |
| read scenario, node, safeguards | `LoadPart`, three times |
| freeze, insert queued row; unique violation; find again | `Create`; `CreateDuplicate`; `FindAgain` |
| queued -> running | `Start` |
| evaluate and store, or store the failure | `Complete`, `Fail` |
| `Confirm`, `Void`: read, check author; conditional UPDATE | `LoadForChange`; `Confirm`, `Void` |
| `Replay`: read and evaluate; store the verdict | `LoadForReplay`; `StoreReplay` |
| reload, audit row, response and middleware audit row | `Reload`, `Record`, `Respond` |
| the other handlers' edits of the input | `Edit` |

The input data is abstracted to a revision per part; `Score` is an arbitrary
function from frozen inputs to scores or `EvalError`, so every theorem holds for
any deterministic evaluator.  With today's evaluator and validated data the error
path of `Run` is not expected; a row frozen by another algorithm version makes
`Replay` fail.  Two reads of `Confirm` (row and scenario) are one action: the
author of a scenario never changes.  In `coverage_races` an edit of the safeguards makes the evaluator refuse.  Keys that are too short or too long are
refused before any statement and are left out, as is a missing scenario (nothing deletes one).

**`DeviationScenario`.**

| code | action |
|---|---|
| `Create`: read node; insert; audit | `LoadNode`; `Insert`; `Record` |
| `Update`: read and check state; conditional UPDATE of all fields; audit; Get | `LoadForUpdate`; `UpdateWithVersion`; `Record`; `Reload` |
| `Transition`: read, check role, table, author; conditional UPDATE; audit; Get | `LoadForTransition`; `Transition`; `Record`; `Reload` |
| node handlers switching a node's status | `SwitchNode` |

`Plant` replaces `SwitchNode` by the handlers of `ProcessNodes` and shows that
it stands for them.

A field's text is told apart by the request that wrote it.  The version is the
client's input, any of `1..MaxVersion`: the code does not compare it with the row
it reads, only the UPDATE does.  `Shown(r)` says that the presented version had been reached when the row was read.

**`Safeguards`.**

| code | action |
|---|---|
| `Create`: check the date, choose the state; insert | `LoadTarget`; `Insert` |
| `Update`: read, merge, maybe expire; write back; second UPDATE of the state; Get | `LoadForUpdate`; `Update`; `SyncLifecycle`; `Get` |
| `Verify`: read, check the date; conditional UPDATE | `LoadForVerify`; `Verify` |
| `Invalidate`; `Restore`: read and choose the state, read again; conditional UPDATE | `LoadForInvalidate`; `LoadForRestore`, `Reread`; `ChangeLifecycle` |
| reload, audit row | `Reload`, `Record` |
| `time.Now` | `Tick` |

`SetLifecycle` is the repository's conditional UPDATE.  Of the columns that update
writes back, the interval and the note are kept; a note is the set of the requests
whose text it holds.  Time has no unit; the five minutes by which a verification
may be dated ahead are `Tolerance`.  `overtaken` remembers the requests whose row another request
wrote between their read and their last write; the code has no such variable, `EvidenceKept` and
`LawfulLifecycle` need it to say whom they except.

**`ProcessNodes`.** `Create` is `FindCode`, `InsertNode` (the unique index decides);
`Update` is `LoadNodeForUpdate`, `UpdateNode`; `Deactivate` is `LoadForDeactivate`,
`Deactivate`; then `RecordNode` and, for the response, `Summarise`.  `nodeOvertaken` is the `overtaken` of this module.

**`CoverageAlgorithm`.** Operators have the names of the functions.  An
effectiveness is a number of units of `1/Scale`, so that products are exact
fractions, and a statement of a scenario is a string with its lower case given by
`Lower`.  float64 is modelled where it can reach a result: `Residuals` is the set of
values the ceiling may give of a product that is less than one part of `Precision` off.  A sum of layers of exactly one half and
`round4` of scores are taken as exact.  `sort.Slice` by `Before` gives each row its `Place`, one more than
the number of rows that come before it; rejected and ignored safeguards, which the code lists by id and by
strength, are sets.  `SafeguardRegister` changes rows as a whole,
the way the handlers leave them after validation (a key of spaces is stored
as the blank `NoKey`), and applies the operators to every register it reaches.

**`AuditLog`.** `Change`; then `Stamp` and `RecordAudit` of the service; then, if
the answer is not an error, `Stamp` and `Audit` of the middleware.  The time of a row
is taken before its INSERT, so other rows may come in between.  `List` reads one page.
`ORDER BY`, `LIMIT` and `OFFSET` are a range of `Position`s: the place of a row is one more than the number of rows
that are `Newer`.  `Timeline` is the first page of `TimelineRows` (100 in the code), filtered, and `Precedes` the order
in which `Get` shows it.

**`RateLimiter`.** `ReadClock` is before the lock; `Count` is what runs under it:
`Counted`, then `Swept`.  `opened` remembers the start of a key's last window when it
is swept; the code has no such variable, the properties need it.
`MaxStall` bounds the wait for the lock.

**`Server`.** The seeding transaction is one action per statement (`FindUser`,
`CreateUser`, `CountNodes`, `CreateNodes`, `CreateRest`, `Commit`).  A transaction
sees what is committed and what it wrote; an insert of a unique key another
transaction has written waits for it (PostgreSQL).  `Signal`, `Drained` and `TimedOut` are
the graceful shutdown, `Killed` a signal before it is asked for, `Crash` an end at any point, after
which docker-compose starts the server again.

**`CoverageWatch`.** An action is the code between two awaits.  `phase[l]` is what
launch `l` awaits; `hook[p]` are the variables of the page's `useCoverageRun`.  A timer that is
cleared never resolves, so its launch stays where it is (`"stopped"`).  `Evaluate` is `Run` on the
server as the page can observe it, by the states of its row; it goes on whatever becomes of the page.

## 4. Properties

Evaluations (`CoverageEvaluation`): `IInv`, which contains the type invariant;
`RunOwnsRow` (a run is alone with its row; the two "evaluation state changed" conflicts
cannot happen); `RunAnswersKey`; `ResultFromSnapshot`; `ConfirmedByOther`; `AuditTruth`;
`AuditTrail`; `HistoryImmutable`; `OrphanStays`; `ImplementsLifecycle` (the
refinement of `EvaluationLifecycle` under the mapping `StoreView`);
`EveryRequestEnds` and `RunSettles` under fairness.

Scenarios (`DeviationScenario`): `VersionInv`, which contains the type invariant;
`ReviewedByOther`; `OneChangePerVersion`; `AuditChain`; `LawfulChange`; `KeepsOthersEdits`.

Safeguards: `CountedWasVerified`; `EvidenceKept`; `LawfulLifecycle`.
Nodes: `CodesUnique`; `DeactivationsStand`; together with scenarios the refinement
`ImplementsScenarios`.

Algorithm (`SafeguardRegister`): `EvaluationAsDefined` (against a definition without
sorting and grouping, and with an account of every row); `OrderIrrelevant`; `EffectiveCounts`;
`PathsComplete`; `LayersNeverHurt`; `WaitingNeverHelps`.

Audit log: `AuditInv` (types, `TimelineInOrder`, `TimelineKeepsNewest`); `PagesMissNothing`.
Rate limiter: `WindowsApart`; `BurstBound`; `LimitedWhenFull`.
Server: `ServerInv` (types, `SeededAtOnce`, `OneSeeds`, `ServedOverSeed`, and `TransactionsSeed`); `ServesAgain` under
fairness.  Watcher: `WatchInv` (types, `OneLaunchPerPage`, and `LaunchesKnown`); `WatchEndsWithPage`; `LaunchEnds`
under fairness.

Each is stated in words above its definition.  What to take from them:

* The unique index and the re-read after a conflict are enough for
  idempotency: all requests with a key get its one row.  They are not enough for
  progress: `OrphanStays` says that a run cut off after its insert leaves a row
  nobody can run, fail or void, and the key answers with it for ever.
  `RunSettles` has to except it.
* `KeepsOthersEdits` and `AuditChain` need `Shown`.  A client that presents a
  version the row reaches only after the handler's read is accepted,
  and what it writes back, and what it says in the audit row, is older than the row.
* `AuditTrail` has two exceptions: a request that was cut off, and a run that the evaluator
  refuses, which writes three times and leaves no audit row (section 6).
* A safeguard has no version.  The conditions on its state protect its lifecycle only as long as
  nobody else writes the row between a request's read and its write.  A request that was overtaken
  may write an old note over that of a verification (`EvidenceKept` excepts it), expire what was
  verified meanwhile, or restore to active (`LawfulLifecycle` excepts both; section 6).  The two
  properties say that nothing else of the kind happens: text leaves a note only by one who gives
  a new note, what expires has run out, and an update undoes no invalidation and no restore.
* A node update, too, writes back what it read, the status included: it may undo a
  deactivation.  `DeactivationsStand` counts: of the deactivations of a node that win, no more are undone
  than there are updates that were told to activate it or were overtaken while they held it as active,
  and one more wins only while it is inactive.
* The rate limiter's windows are fixed: around the end of one, twice the limit may
  be admitted within its length less the longest wait for the lock (`BurstBound`), and no more, although a
  request may count with a time from before the window it falls in.  Likewise a request that is limited finds
  the limit of its key used up within a window's length and that wait (`LimitedWhenFull`).
* The algorithm is monotonic: a safeguard that is added, strong or weak, never
  lowers the coverage and, rounding included, never raises the residual risk
  (`LayersNeverHurt`), unless the product of the same factors is computed in another order.
* The timeline is cut at 100 rows of all scenarios; what it drops is never newer than what it shows.
* `AuditChain` compares the columns that are modelled; the time of the change (`updated_at`) is
  taken once for the row and once for the audit row (`internal/repository/deviation_scenario_repository.go:106`,
  `internal/service/deviation_scenario_service.go:236`).
* `ReviewedByOther` and `ConfirmedByOther` hold although the author is compared on a
  row read earlier, because the author never changes.

## 5. Runs

| run | cfg | expect | shows |
|---|---|---|---|
| coverage_races | Coverage_races | pass | three requests on one key, two rows possible, users admin and reviewer, an edit that makes the evaluator refuse: every interleaving, with aborts |
| coverage_inputs | Coverage_inputs | pass | two requests, two keys, two scenarios, an edit of each while evaluations run, after which the evaluator refuses; to the end, with weak fairness per request |
| coverage_replay_flag | Coverage_replay_flag | violation | a finished evaluation keeps the mark of a replay made too early (`FinishedReplaysPass`) |
| coverage_torn_input | Coverage_torn_input | violation | a frozen input that never existed (`InputCoexisted`) |
| coverage_unaudited_run | Coverage_unaudited_run | violation | a run that the evaluator refused, over without an audit row (`RefusedRunsRecorded`) |
| scenario_review | Scenario_review | pass | three requests on one scenario of two fields, new or seeded in any of three states, versions 1..4 |
| scenario_inactive_node | Scenario_inactive_node | violation | a scenario created on a node that is no longer active (`CreatedOnActiveNode`) |
| safeguard_races | Safeguard_races | pass | three requests of any kind race on one safeguard, a clock of three |
| plant_nodes | Plant_nodes | pass | three node requests and a scenario request on two nodes with two codes, one of them seeded or none |
| algorithm_register | Algorithm_register | pass | all registers of up to three safeguards, 30% or 50% effective, two keys or none; all scenarios of up to three causes and two consequences of four spellings |
| processes | Processes | pass | two launches on two pages; two servers, two requests, three crashes; fairness |
| middleware | Middleware | pass | four requests of two keys, limit 1, more than two windows' time; three writes of two scenarios with a timeline of two rows, two with a reader who turns pages of one row |

PROJECT.json names the module of each cfg.  The violation runs are explained under
"findings" in PROJECT.json with the sentences of the documentation they contradict.

**Components side by side.**  `CoverageWatch` and `Server` share no variable, nor do
`RateLimiter` and `AuditLog`.  A behaviour of two such components projects to one of each, and
what is claimed speaks of one of them; so it is enough that in each behaviour of the run one
moves and the other rests: the servers are stopped or the pages gone from the start
(`MCProcesses`), or `moving` names the one that moves (`MCMiddleware`).

**Bounds.**  Every conflict in this code is between two requests on one row; a
third request is there for what a pair does to a bystander (a void between the
confirmation's statements and the replay of the same row; a second winner of a version).  Two row ids let a second
row for a key appear if the index did not forbid it.  `MaxRevision = 1` edits a
part once between two reads.  Three node requests are two deactivations and
the update between them, the least in which `DeactivationsStand` counts more than one.  `MaxVersion = 4` lets three requests change the
seeded draft three times in a row, and lets clients present versions no row has reached yet;
`MaxVersion = 3` does the same for a scenario that one of the three creates.
Requests and row ids are symmetric where no liveness is checked.

`Safeguards`: `MaxTime = 3` with an interval of 1 lets a safeguard be verified,
expire, and be verified again; the proofs hold for every set of intervals.  `SafeguardRegister`: three rows are the least in which one key has two
rows and another one; a day and a second are two units each, so that truncation and expiry
differ, and 30% and 50% give products on both sides of the threshold, whole and broken.
`RateLimiter`: `Limit = 1` and four requests fill four windows or overflow two; a window of 3 with
stalls of up to 2 lets a request count behind two others; `MaxWindows = 1` makes every second key
sweep, and `MaxTime = 8` is when the first window can be swept.
`Server`: two accounts stand for four; two servers, because a third waits as the second does.
`AuditLog`: three requests write up to six rows, three times what the timeline holds.
`CoverageWatch`: two pages and two launches let a launch be left behind while another succeeds it on
its page or is made on the next.

**Deadlock** is not checked: every one of these systems rests when all requests,
launches or writes have ended.

**Fairness.**  `FairSpec` assumes weak fairness of the next statement of each
request in flight: the Go scheduler runs every runnable goroutine and a statement returns or fails.
No fairness is assumed of arrivals, aborts or edits.  In `CoverageWatch` the event
loop resumes what was awaited, and the server answers each call and finishes each evaluation it
began (an evaluation whose run is cut off is the exception, see `OrphanStays`; a page would poll it
until it is left).  In `Server` the statements of a start are executed, docker-compose starts a
process that failed (`restart: unless-stopped`), and a shutdown ends because its wait is limited.

## 6. Known divergences

Traces of the models that the code allows and a reader of its documents would not
expect.  The first four have runs; the others were found with properties of the same modules,
which are not kept, because the safety properties of section 4 say what holds instead.

* `internal/service/coverage_evaluation_service.go:282`: a replay made too early leaves its mark (run `coverage_replay_flag`).
* `internal/service/coverage_evaluation_service.go:69`: the input is frozen by three reads (run `coverage_torn_input`).
* `internal/service/deviation_scenario_service.go:54`: a scenario on a node deactivated meanwhile (run `scenario_inactive_node`).
* `internal/service/coverage_evaluation_service.go:123`: a run that the evaluator refuses answers 422 and returns before
  `recordStateAudit`, and `internal/middleware/audit.go:18` skips answers of 400 and above, so the row it inserted,
  started and failed is not in audit_logs (run `coverage_unaudited_run`; `src/gb-531.md:52` has all writes recorded).
* `internal/service/coverage_evaluation_service.go:62`: a key answers any caller with its row, for whatever scenario it was first used;
  `src/README.md:75` speaks of the same caller.
* `internal/service/coverage_evaluation_service.go:204`: the audit row of a confirmation shows the row
  as read first and last, not the states its UPDATE changed between; `:219`: a request cut off after its UPDATE leaves a
  confirmation without an audit row, the exception in `AuditTrail`.
* `internal/repository/safeguard_repository.go:79`: an update of another field that raced with a verification writes the
  old evidence over the verification's (`src/README.md:7` promises a traceable chain of evidence).
* `internal/service/safeguard_service.go:152`: an update that read an expired row expires a safeguard verified since.
* `internal/service/safeguard_service.go:223`: a restore that runs alone always leaves a pending safeguard, because the row it
  reads is invalid; one that races with an invalidation makes it active at once (`:217`).
* `internal/repository/process_node_repository.go:72`: an update of another field undoes a deactivation made since its read.
* `internal/dto/safeguard.go:20`: a key of spaces passes validation; its safeguard is effective in the register and counts
  for nothing (`EffectiveCounts` excepts `NoKey`).
* `internal/algorithm/scoring.go:55`: with effective safeguards whose combined protection is below one half, all paths are listed as
  uncovered (`src/README.md:48`); `:76`: 25 with layers of 20% and 45% is 11 and is computed as 12, of a higher rank.
* `internal/config/config.go:31`: the days of grace of `src/README.md:185` are read and used nowhere.
* `src/frontend/src/hooks/useCoverageRun.ts:39`: a run answered after its page was left starts to poll
  (`src/README.md:107`); `:28`: a refresh that fails leaves the spinner on.

## 7. Proofs

For all requests, users, rows, keys, scenarios, nodes, fields and every `Score`:

| theorem | module | argument |
|---|---|---|
| `TypeCorrect` | `CoverageEvaluationProofs` | `TypeOK` is inductive: `Holds` ties what a request holds to its statement |
| `RunOwnsRowCorrect`, `RunAnswersKeyCorrect`, `OrphanStaysCorrect` | `CoverageEvaluationProofs` | `RunInv`: rows of a key are unique, a run knows only its key's row, and it is the only one at `start` or `finish` with it |
| `IInvCorrect`, `ResultFromSnapshotCorrect`, `ConfirmedByOtherCorrect`, `AuditTruthCorrect`, `AuditTrailCorrect`, `HistoryImmutableCorrect` | `CoverageResultProofs` | `IInv`: what a request may rely on between read and write (`Relies`), by the states a row can have reached since (`StatesFrom`) |
| `ImplementsLifecycleCorrect` | `CoverageResultProofs` | refinement: under `StoreView`, `Create` is the lifecycle's submission, each conditional UPDATE its transition, every other statement a stutter; `IInv` gives the guard of the abstract step |
| `TypeCorrect`, `VersionInvCorrect`, `ReviewedByOtherCorrect`, `OneChangePerVersionCorrect`, `AuditChainCorrect`, `LawfulChangeCorrect`, `KeepsOthersEditsCorrect` | `DeviationProofs` | `VersionInv`: a version names one state of a row for all that read it or wrote it; every write moves the row to a version not used before |
| `TypeCorrect`, `CountedWasVerifiedCorrect`, `EvidenceKeptCorrect`, `LawfulLifecycleCorrect` | `SafeguardProofs` | `IInv` of `SafeguardInvariant`: a row that was read stays, a date that was checked is still not in the future, a restore to active still finds a verification, an update expires what had run out when it read (`Drawn`), and the row of a request that nobody overtook is the one it read, or that as it wrote it back (`UpToDate`) |
| `NodeTypeCorrect`, `CodesUniqueCorrect`, `DeactivationsStandCorrect` | `ProcessNodeProofs` | `NodeInv`: a node has one creator, an update that holds its node as active and was neither told so nor overtaken still finds it active (`RevivesKnowingly`), and only finitely many requests have left "idle"; a step then adds a deactivation and makes the node inactive, or adds a reviver, or leaves the balance as it is |
| `ImplementsScenariosCorrect`, `ScenariosSafeInPlant`, `ScenarioStepsInPlant`, `ScenariosHaveNodesCorrect` | `ProcessNodeProofs` | refinement: a node's handlers do to the scenarios' view of the nodes what `SwitchNode` may do, or nothing; so the theorems of `DeviationProofs`, instantiated, hold of `Plant` |
| `ServerInvCorrect` | `ProcessProofs` | `TransactionsSeed`: an open transaction has written nothing, or over an empty database all that comes before its next statement; so what is committed is nothing or all |
| `WatchInvCorrect`, `WatchEndsWithPageCorrect` | `ProcessProofs` | `LaunchesKnown`: a launch was made on a page that had been opened, and the evaluation it lists or watches was created; the page's flags then admit one launch at a time |
| `TypeCorrect`, `SweptIsOverCorrect`, `WindowsApartCorrect` | `MiddlewareProofs` | `TypeOK` and `SweptIsOver` are inductive together: a request at the lock is at most `MaxStall`, so at most a window, late, and a window is swept after two |
| `BurstBoundCorrect`, `LimitedWhenFullCorrect` | `MiddlewareProofs` | `BurstInv`: the requests that counted can be assigned to windows that are apart, and the count of a window is the number of its admissions; a burst meets two windows |
| `AuditInvCorrect`, `PagesMissNothingCorrect` | `MiddlewareProofs` | `LogInv`: what was recorded before a change is older than its row; what a reader has not seen is beyond the pages read, because rows only move back, and a page that is not full has no page after it (`PositionsTaken`, by counting) |
| `OrderIrrelevantCorrect` | `SafeguardRegisterProofs` | `RegisterInv`: rows have their ids; `Before` is then a strict total order, each place is taken by one row (`PlacesTaken`, by counting), and a row has the same place however the rows are listed |
| `EffectiveCountsCorrect` | `SafeguardRegisterProofs` | a row is rejected by what its truncated copy says; truncation to seconds keeps order, and an expiry, which is whole days later, moves by less than a second (`TruncatedExpiry`) |
| `EvaluationAsDefinedCorrect` | `SafeguardRegisterProofs` | the layers are the strongest of each key, in the order of the keys (`LayersOf`, from `OneIsStrongest` and `AscendingKeys`), which accounts for every row; the fold of the definition over the keys does not depend on the order it takes them in (`FoldInAnyOrder`), so it is the product of the layers (`FoldIsProduct`) |
| `WaitingNeverHelpsCorrect` | `SafeguardRegisterProofs` | what is rejected stays so (`RejectedLater`); and where every layer of one list has one of its key in another that is at least as strong, no more remains after the other (`MoreLayersCoverMore`) |
| `LayersNeverHurtCorrect` | `SafeguardRegisterProofs` | `MoreLayersCoverMore` again: what remains is `Reduced` by a part of `Scale` unless the factors are the same, and if any risk above 1 is left that is more than rounding can undo (`RoundingsInOrder`) |
| `PathsCompleteCorrect` | `SafeguardRegisterProofs` | the statements that are kept have each name once (`SplitNames`), and flattening puts the paths of one more cause, which lead elsewhere, behind the others (`OneMoreCause`, `GraphLeads`) |

For safeguards, nodes, servers, pages, the limiter, the log and the register, too, the theorems are for all
requests, keys, rows, intervals, limits, page sizes and bounds of the clock; for the register also for every
scale of effectiveness, list of statements, spelling and initial risk from 1.

`CoverageAlgorithm` folds over layers and statements with recursive functions.  What these compute is
proved by induction without the theorems on induction of the library, which take an operator: a set of
naturals that is not empty has a least element (`LeastNatural`), so a set that holds 0 and the successor of
each of its members holds all naturals (`InductionOnNaturals`), and the formula to prove defines the set.
The existence of the functions is shown so too (`ProductSteps`, `CleanedSteps`, `FlattenSteps`, `FoldExists`).

Why the invariants are needed: the properties speak of rows and audit rows; a
request between its read and its write is not mentioned by them, and a step from
there can break them in states that never occur.  `IInv` and `VersionInv` say
what such a request holds, and so do `IInv` of safeguards and `NodeInv`.  TLC checks the first two
as invariants of `coverage_races` and `scenario_review`, and `ServerInv` and `WatchInv` of `processes`.

Assumptions: the named `ASSUME`s of the modules.  `LimiterAssumption` has
`MaxStall` at most a window, a minute, which the mutex is far from reaching.  `None` is no user, key
or id; roles are roles; `Score` is a function into naturals or `EvalError`; rows
a database starts with are reviewed by others (`SeedAssumption`, which the seeded
rows satisfy).  `RegisterAssumption` has initial risks of at least 1, the product of a likelihood and
a severity from 1, statements that have a spelling in lower case, and degrees of effectiveness that are coarser
than rounding: `2 * Scale * initial <= Precision` asks for a `Precision` of 5 * 10^5 with four decimals and a
risk of 25, and float64 gives some 10^15 divided by the number of layers.  `ScaleAssumption` has
"unspecified" in lower case.  TLC evaluates the assumptions in every run.

**Only model-checked:** `EveryRequestEnds`, `RunSettles`, `LaunchEnds` and `ServesAgain`: liveness is out of
the prover's reach.  Every other property of a passing run is a theorem.

## 8. Not modelled

* Queries (list, get, compare, the node summary) change nothing.  The audit list and
  the timeline are modelled because their order and their bounds are hazards.
* Validation and rendering of requests and answers, request ids, error envelopes and panic
  recovery: straight-line code without state.  What validation lets through is modelled where it
  matters (versions, dates, blank statements and keys).
* Cryptography of login and tokens: a request carries its user and role.  No
  operation changes a user, so a token cannot outlive its role.
* Of the frontend, the pages, components, stores and API client show what the
  server decides.  Two loads of one list may be answered in the other order; the next load
  corrects the view.
* Configuration and wiring of the server.

## 9. Plan

Every property of a passing run but the four liveness ones is now a theorem. What is left:

- that what the handlers of `Safeguards` write to a row is always a step of `SafeguardRegister`, so that the
  theorems about the algorithm apply to the rows those handlers leave; today the two modules are connected
  by this document only;
- the three hazards of `PROJECT.json` that no property covers;
- shorter and more readable proofs where a leaf still cites more than it needs.
