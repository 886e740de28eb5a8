------------------------------ MODULE AuditLog ------------------------------
(***************************************************************************)
(* The audit log as it is written and read.  A change of a deviation       *)
(* scenario is followed by a row of the service and, once answered, by a   *)
(* row of the middleware; each takes its time before its INSERT, so rows    *)
(* may arrive in another order than that of their times.  The list is read  *)
(* in pages, newest first, while rows arrive, and the timeline of a        *)
(* scenario is what its first page of TimelineRows holds of that scenario. *)
(*                                                                         *)
(* What a row says is left to CoverageEvaluation and DeviationScenario.    *)
(* An operator with _Mutant in its name is not part of the model: it is the *)
(* operator after it with a plausible bug, for mutation checks.            *)
(***************************************************************************)
EXTENDS Naturals, FiniteSets

CONSTANTS Writes,      \* the write requests
          Scenarios,
          Readers,       \* those who page through the list
          PageSize,      \* of the list that is read
          TimelineRows,  \* rows the timeline is taken from
          MaxAuditTime        \* bound: the time stops there

ASSUME AuditAssumption == PageSize \in Nat \ {0} /\ TimelineRows \in Nat \ {0} /\ MaxAuditTime \in Nat

VARIABLES time,
          rows,            \* audit_logs: [id, at, entity, scenario, action, by]
          created,         \* the scenarios that exist
          step, scenario,    \* of each request
          action, at,      \* what its next row says
          earlier,         \* the requests recorded before its change
          reading          \* [filter, page, had, shown, done] of each reader

auditVars == <<time, rows, created, step, scenario, action, at, earlier, reading>>

Service == "deviation_scenario"
Http == "deviation_scenarios"   \* requestEntity: the first part of the path

AuditLog == [id : Nat \ {0}, at : Nat, entity : {Service, Http}, scenario : Scenarios,
             action : {"create", "transition", "update", "http_write"}, by : Writes]

AuditInit ==
  /\ time = 0 /\ rows = {} /\ created = {}
  /\ step = [r \in Writes |-> "idle"]
  /\ scenario \in [Writes -> Scenarios]
  /\ action = [r \in Writes |-> "none"]
  /\ at = [r \in Writes |-> 0]
  /\ earlier = [r \in Writes |-> {}]
  /\ reading \in [Readers -> [filter : {{Service, Http}, {Service}}, page : {0}, had : {{}},
                             shown : {{}}, done : {FALSE}]]

-----------------------------------------------------------------------------
Matching(filter) == {row \in rows : row.entity \in filter}

(* ORDER BY created_at DESC, id DESC *)
Newer_Mutant(a, b) == a.at > b.at \/ (a.at = b.at /\ a.id < b.id)

Newer(a, b) == a.at > b.at \/ (a.at = b.at /\ a.id > b.id)

(* Where the row comes in that order, from 1. *)
Position(row, filter) == Cardinality({other \in Matching(filter) : Newer(other, row)}) + 1

(* LIMIT size OFFSET (page - 1) * size *)
Page_Mutant(filter, page, size) ==   \* pages counted from 0
  {row \in Matching(filter) : Position(row, filter) \in page * size + 1..(page + 1) * size}

Page(filter, page, size) ==
  {row \in Matching(filter) : Position(row, filter) \in (page - 1) * size + 1..page * size}

Timeline(s) ==
  {row \in Page({Service}, 1, TimelineRows) : row.scenario = s /\ row.action \in {"create", "transition"}}

(* Get walks the page from its end. *)
Precedes_Mutant(a, b) == Newer(a, b)   \* from its start

Precedes(a, b) == Newer(b, a)

-----------------------------------------------------------------------------
(* The change is committed. *)
Change(r) ==
  /\ step[r] = "idle"
  /\ \E change \in IF scenario[r] \in created THEN {"update", "transition"} ELSE {"create"} :
       action' = [action EXCEPT ![r] = change]
  /\ created' = created \cup {scenario[r]}
  /\ earlier' = [earlier EXCEPT ![r] = {row.by : row \in Matching({Service})}]
  /\ step' = [step EXCEPT ![r] = "changed"]
  /\ UNCHANGED <<time, rows, scenario, at, reading>>

(* CreatedAt of the next row. *)
Stamp(r, now, next) ==
  /\ step[r] = now
  /\ at' = [at EXCEPT ![r] = time]
  /\ step' = [step EXCEPT ![r] = next]
  /\ UNCHANGED <<time, rows, created, scenario, action, earlier, reading>>

Row_Mutant(r, entity, what) ==   \* numbered from 0
  [id |-> Cardinality(rows), at |-> at[r], entity |-> entity, scenario |-> scenario[r],
   action |-> what, by |-> r]

Row(r, entity, what) ==
  [id |-> Cardinality(rows) + 1, at |-> at[r], entity |-> entity, scenario |-> scenario[r],
   action |-> what, by |-> r]

RecordAudit(r) ==
  /\ step[r] = "stamped"
  /\ rows' = rows \cup {Row(r, Service, action[r])}
  /\ step' = [step EXCEPT ![r] = "answered"]
  /\ UNCHANGED <<time, created, scenario, action, at, earlier, reading>>

(* Cut off, or the INSERT fails: with an answer of 500 nothing follows.    *)
Lose(r) ==
  /\ step[r] \in {"changed", "stamped", "answered", "answered stamped"}
  /\ step' = [step EXCEPT ![r] = "lost"]
  /\ UNCHANGED <<time, rows, created, scenario, action, at, earlier, reading>>

Audit(r) ==
  /\ step[r] = "answered stamped"
  /\ rows' = rows \cup {Row(r, Http, "http_write")}
  /\ step' = [step EXCEPT ![r] = "done"]
  /\ UNCHANGED <<time, created, scenario, action, at, earlier, reading>>

(* The next page; the reader stops at one that is not full.  The total is   *)
(* counted by a statement before, so it need not be that of the page.      *)
List(x) ==
  LET filter == reading[x].filter
      page == reading[x].page + 1
      items == Page(filter, page, PageSize) IN
  /\ ~ reading[x].done
  /\ reading' = [reading EXCEPT
       ![x].page = page,
       ![x].had = IF page = 1 THEN Matching(filter) ELSE @,
       ![x].shown = @ \cup items,
       ![x].done = Cardinality(items) < PageSize]
  /\ UNCHANGED <<time, rows, created, step, scenario, action, at, earlier>>

AuditTick ==
  /\ time < MaxAuditTime
  /\ time' = time + 1
  /\ UNCHANGED <<rows, created, step, scenario, action, at, earlier, reading>>

AuditNext ==
  \/ AuditTick \/ \E x \in Readers : List(x)
  \/ \E r \in Writes :
       \/ Change(r) \/ RecordAudit(r) \/ Lose(r) \/ Audit(r)
       \/ Stamp(r, "changed", "stamped") \/ Stamp(r, "answered", "answered stamped")

AuditSpec == AuditInit /\ [][AuditNext]_auditVars

-----------------------------------------------------------------------------
(* Every row is one of the table; ids are given out once.                  *)
AuditTypeOK ==
  /\ time \in 0..MaxAuditTime
  /\ rows \subseteq AuditLog
  /\ \A a, b \in rows : a.id = b.id => a = b
  /\ created \subseteq Scenarios
  /\ \A r \in Writes : earlier[r] \subseteq Writes
  /\ \A x \in Readers : reading[x].shown \subseteq rows

(* The timeline never shows a change before one that was recorded when it   *)
(* began: only changes that ran at once may swap.                          *)
TimelineInOrder ==
  \A s \in Scenarios :
    \A event, next \in Timeline(s) : Precedes(event, next) => next.by \notin earlier[event.by]

(* What the timeline leaves out is older than what it shows: it has no gap  *)
(* among changes that followed one another, whatever other scenarios do.   *)
TimelineKeepsNewest ==
  \A s \in Scenarios :
    \A old \in Timeline(s), new \in Matching({Service}) :
      /\ new.scenario = s /\ new.action \in {"create", "transition"}
      /\ old.by \in earlier[new.by]
      => new \in Timeline(s)

(* The invariant of the log: types, and a timeline that is in order and    *)
(* ends with the newest change, however late rows arrive.                  *)
AuditInv == AuditTypeOK /\ TimelineInOrder /\ TimelineKeepsNewest

(* Someone who reads the list page by page to its end misses no row that   *)
(* was there when they began, whatever is written meanwhile, though they    *)
(* may be shown one twice.                                                  *)
PagesMissNothing == \A x \in Readers : reading[x].done => reading[x].had \subseteq reading[x].shown
=============================================================================
