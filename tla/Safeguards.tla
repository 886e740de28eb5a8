----------------------------- MODULE Safeguards -----------------------------
(***************************************************************************)
(* The handlers of /api/v1/safeguards that change state: create, update,   *)
(* verify, invalidate and restore, with the clock they read.               *)
(*                                                                         *)
(* As in DeviationScenario, one action is one database statement with the  *)
(* Go code up to the next one.  A safeguard has no version: update writes   *)
(* where the id is right, the other handlers where the lifecycle state is. *)
(*                                                                         *)
(* Of the columns that update writes back, the test interval and the        *)
(* evidence note are modelled; a note is the set of the requests whose     *)
(* text is in it.  Time is in units of any length; 0 means never.          *)
(* The history variable overtaken is not in the code and nothing but       *)
(* properties reads it.                                                    *)
(*                                                                         *)
(* An operator with _Mutant in its name is not part of the model: it is the *)
(* operator after it with a plausible bug, for mutation checks.            *)
(***************************************************************************)
EXTENDS Naturals, Access

CONSTANTS Requests,   \* the HTTP requests that may arrive
          Users,
          Role,       \* Role[u]: the role in the token of user u
          Ids,        \* ids of rows of safeguards
          Intervals,  \* the test intervals that clients give
          Tolerance,  \* how far in the future a verification may be dated
          MaxTime,    \* bound: the clock stops there
          Seeds,      \* rows a database may start with
          None

LifecycleStates == {"pending", "active", "expired", "invalid"}

Absent ==
  [state |-> "absent", verifiedAt |-> 0, verifiedBy |-> None, interval |-> 0, evidence |-> {}]

Rows ==
  [state : LifecycleStates, verifiedAt : Nat, verifiedBy : Users \cup {None},
   interval : Intervals, evidence : SUBSET Requests]

(* A row that counts or has counted was verified by somebody.              *)
WasVerified(row) ==
  /\ row.verifiedAt # 0 <=> row.verifiedBy # None
  /\ row.state \in {"active", "expired"} => row.verifiedAt # 0

ASSUME RoleAssumption == Role \in [Users -> Roles]
ASSUME TimeAssumption == MaxTime \in Nat /\ Tolerance \in Nat /\ Intervals \subseteq Nat \ {0}
ASSUME NoneAssumption == None \notin Users \cup Ids
ASSUME SeedAssumption ==
  /\ Seeds \subseteq Rows \cup {Absent}
  /\ \A row \in Seeds : WasVerified(row) /\ row.verifiedAt <= 1 /\ row.evidence = {}

VARIABLES safeguards,  \* the table safeguards
          clock,
          audits,      \* the service's rows in audit_logs
          pc,          \* the statement each request executes next, or how it ended
          req,         \* what each request holds in memory
          overtaken    \* the requests whose row another wrote since they read it

vars == <<safeguards, clock, audits, pc, req, overtaken>>

Operations == {"create", "update", "verify", "invalidate", "restore"}
Statements == {"insert", "update", "sync", "verify", "reread", "change", "reload", "record", "get"}
Final == {"answered", "refused", "aborted"}   \* 2xx, 4xx, cut off
Dates == 1..(MaxTime + Tolerance)             \* of the verifications that clients report

NoRequest ==
  [op |-> "none", user |-> None, id |-> None, date |-> 0, to |-> None,
   before |-> Absent, after |-> Absent]

Init ==
  /\ safeguards \in [Ids -> Seeds]
  /\ clock = 1
  /\ audits = {}
  /\ pc = [r \in Requests |-> "idle"]
  /\ req = [r \in Requests |-> NoRequest]
  /\ overtaken = {}

-----------------------------------------------------------------------------
Go(r, statement) == pc' = [pc EXCEPT ![r] = statement]

Exists(s) == safeguards[s].state # "absent"

ExpiredAt(now, date, interval) == now > date + interval

IsEffectiveAt(row, now) ==
  /\ row.state = "active" /\ row.verifiedAt # 0
  /\ ~ExpiredAt(now, row.verifiedAt, row.interval)

(* A request of user u enters its handler, which holds what h says.        *)
Enter(r, u, h, statement) ==
  /\ pc[r] = "idle"
  /\ HasPermission(Role[u], "safeguard:write")
  /\ req' = [req EXCEPT ![r] = [h EXCEPT !.user = u]]
  /\ Go(r, statement)
  /\ UNCHANGED <<safeguards, clock, audits, overtaken>>

Refuse(r, u) ==
  /\ pc[r] = "idle"
  /\ HasPermission(Role[u], "safeguard:write")
  /\ Go(r, "refused")
  /\ UNCHANGED <<safeguards, clock, audits, req, overtaken>>

(* The statement of r writes its row, and overtakes the requests that have *)
(* read the row and are yet to write what follows from it.                 *)
Write(r, row) ==
  LET s == req[r].id IN
  /\ safeguards' = [safeguards EXCEPT ![s] = row]
  /\ overtaken' = overtaken \cup
       {q \in Requests \ {r} : pc[q] \in {"update", "sync", "reread", "change"}
                               /\ req[q].id = s}

(* Create: the row's state follows from the verification it comes with.    *)
NewRow_Mutant(r, u, interval, date) ==   \* the verifier is not stored
  [state |-> IF date = 0 THEN "pending"
             ELSE IF ExpiredAt(clock, date, interval) THEN "expired" ELSE "active",
   verifiedAt |-> date, verifiedBy |-> None, interval |-> interval, evidence |-> {r}]

NewRow(r, u, interval, date) ==
  [state |-> IF date = 0 THEN "pending"
             ELSE IF ExpiredAt(clock, date, interval) THEN "expired" ELSE "active",
   verifiedAt |-> date, verifiedBy |-> IF date = 0 THEN None ELSE u,
   interval |-> interval, evidence |-> {r}]

LoadTarget(r, u, interval, date) ==
  IF date > clock + Tolerance
  THEN Refuse(r, u)
  ELSE Enter(r, u, [NoRequest EXCEPT !.op = "create", !.after = NewRow(r, u, interval, date)],
             "insert")

Insert(r) ==
  /\ pc[r] = "insert"
  /\ \E s \in Ids :
       /\ ~Exists(s)
       /\ safeguards' = [safeguards EXCEPT ![s] = req[r].after]
       /\ req' = [req EXCEPT ![r].id = s]
  /\ Go(r, "record")
  /\ UNCHANGED <<clock, audits, overtaken>>

(* Update: the row is read, changed in memory and written back, except for *)
(* its lifecycle and verification.  A row that turns out to be expired is  *)
(* then moved by a statement of its own, whose outcome is ignored.         *)
Merged_Mutant(row, r, interval, noted) ==   \* any state expires
  LET edited == [row EXCEPT !.interval = IF interval = None THEN @ ELSE interval,
                            !.evidence = IF noted THEN {r} ELSE @] IN
  [edited EXCEPT !.state =
     IF edited.verifiedAt # 0 /\ ExpiredAt(clock, edited.verifiedAt, edited.interval)
     THEN "expired" ELSE @]

Merged(row, r, interval, noted) ==
  LET edited == [row EXCEPT !.interval = IF interval = None THEN @ ELSE interval,
                            !.evidence = IF noted THEN {r} ELSE @] IN
  [edited EXCEPT !.state =
     IF /\ @ = "active" /\ edited.verifiedAt # 0
        /\ ExpiredAt(clock, edited.verifiedAt, edited.interval)
     THEN "expired" ELSE @]

LoadForUpdate(r, u, s, interval, noted) ==
  /\ Exists(s)
  /\ Enter(r, u, [NoRequest EXCEPT !.op = "update", !.id = s, !.before = safeguards[s],
                    !.after = Merged(safeguards[s], r, interval, noted)], "update")

WrittenBack_Mutant(row, r) ==   \* the lifecycle state is written back, too
  [row EXCEPT !.interval = req[r].after.interval, !.evidence = req[r].after.evidence,
              !.state = req[r].after.state]

WrittenBack(row, r) ==
  [row EXCEPT !.interval = req[r].after.interval, !.evidence = req[r].after.evidence]

Update(r) ==
  /\ pc[r] = "update"
  /\ Write(r, WrittenBack(safeguards[req[r].id], r))
  /\ Go(r, IF req[r].after.state # req[r].before.state THEN "sync" ELSE "record")
  /\ UNCHANGED <<clock, audits, req>>

(* SetLifecycle: UPDATE ... WHERE id = ? AND lifecycle_state IN from       *)
SetLifecycle(r, from, row) ==
  IF safeguards[req[r].id].state \in from
  THEN Write(r, row)
  ELSE UNCHANGED <<safeguards, overtaken>>

SyncLifecycle(r) ==
  /\ pc[r] = "sync"
  /\ SetLifecycle(r, {req[r].before.state},
                  [safeguards[req[r].id] EXCEPT !.state = req[r].after.state])
  /\ Go(r, "record")
  /\ UNCHANGED <<clock, audits, req>>

(* Verify: the reported date is checked against the clock and against the  *)
(* interval of the row as read.                                            *)
LoadForVerify(r, u, s, date) ==
  /\ Exists(s)
  /\ IF date > clock + Tolerance \/ ExpiredAt(clock, date, safeguards[s].interval)
     THEN Refuse(r, u)
     ELSE Enter(r, u, [NoRequest EXCEPT !.op = "verify", !.id = s, !.date = date,
                         !.before = safeguards[s]], "verify")

Verify(r) ==
  /\ pc[r] = "verify"
  /\ SetLifecycle(r, LifecycleStates,
                  [safeguards[req[r].id] EXCEPT
                     !.state = "active", !.verifiedAt = req[r].date,
                     !.verifiedBy = req[r].user, !.evidence = {r}])
  /\ Go(r, "reload")
  /\ UNCHANGED <<clock, audits, req>>

(* Invalidate and restore: a restore reads the row, chooses the state to   *)
(* restore, and reads the row again; both add their reason to the note.    *)
LoadForInvalidate(r, u, s) ==
  /\ Exists(s)
  /\ Enter(r, u, [NoRequest EXCEPT !.op = "invalidate", !.id = s, !.to = "invalid",
                    !.before = safeguards[s]], "change")

LoadForRestore(r, u, s) ==
  /\ Exists(s)
  /\ Enter(r, u, [NoRequest EXCEPT !.op = "restore", !.id = s,
                    !.to = IF IsEffectiveAt(safeguards[s], clock) THEN "active" ELSE "pending"],
           "reread")

Reread(r) ==
  /\ pc[r] = "reread"
  /\ req' = [req EXCEPT ![r].before = safeguards[req[r].id]]
  /\ Go(r, "change")
  /\ UNCHANGED <<safeguards, clock, audits, overtaken>>

From(op) == IF op = "restore" THEN {"invalid"} ELSE {"pending", "active", "expired"}

ChangeLifecycle_Mutant(r) ==   \* the reason replaces the note
  LET s == req[r].id IN
  /\ pc[r] = "change"
  /\ SetLifecycle(r, From(req[r].op),
                  [safeguards[s] EXCEPT !.state = req[r].to, !.evidence = {r}])
  /\ Go(r, IF safeguards[s].state \in From(req[r].op) THEN "reload" ELSE "refused")
  /\ UNCHANGED <<clock, audits, req>>

ChangeLifecycle(r) ==
  LET s == req[r].id IN
  /\ pc[r] = "change"
  /\ SetLifecycle(r, From(req[r].op),
                  [safeguards[s] EXCEPT !.state = req[r].to,
                                        !.evidence = req[r].before.evidence \cup {r}])
  /\ Go(r, IF safeguards[s].state \in From(req[r].op) THEN "reload" ELSE "refused")
  /\ UNCHANGED <<clock, audits, req>>

(* Verify, invalidate and restore read the row again for their audit row;  *)
(* create and update show the row they computed.                           *)
Reload(r) ==
  /\ pc[r] = "reload"
  /\ req' = [req EXCEPT ![r].after = safeguards[req[r].id]]
  /\ Go(r, "record")
  /\ UNCHANGED <<safeguards, clock, audits, overtaken>>

Record(r) ==
  /\ pc[r] = "record"
  /\ audits' = audits \cup {[request |-> r, id |-> req[r].id,
                             before |-> req[r].before, after |-> req[r].after]}
  /\ Go(r, IF req[r].op = "update" THEN "get" ELSE "answered")
  /\ UNCHANGED <<safeguards, clock, req, overtaken>>

Get(r) ==
  /\ pc[r] = "get"
  /\ Go(r, "answered")
  /\ UNCHANGED <<safeguards, clock, audits, req, overtaken>>

(* The client disconnects or a statement fails.                            *)
Abort(r) ==
  /\ pc[r] \in Statements
  /\ Go(r, "aborted")
  /\ UNCHANGED <<safeguards, clock, audits, req, overtaken>>

Tick ==
  /\ clock < MaxTime
  /\ clock' = clock + 1
  /\ UNCHANGED <<safeguards, audits, pc, req, overtaken>>

-----------------------------------------------------------------------------
Arrive(r) ==
  \E u \in Users :
    \/ \E interval \in Intervals, date \in Dates \cup {0} : LoadTarget(r, u, interval, date)
    \/ \E s \in Ids :
         \/ \E interval \in Intervals \cup {None}, noted \in BOOLEAN :
              LoadForUpdate(r, u, s, interval, noted)
         \/ \E date \in Dates : LoadForVerify(r, u, s, date)
         \/ LoadForInvalidate(r, u, s)
         \/ LoadForRestore(r, u, s)

Step(r) ==
  \/ Insert(r) \/ Update(r) \/ SyncLifecycle(r) \/ Verify(r) \/ Reread(r)
  \/ ChangeLifecycle(r) \/ Reload(r) \/ Record(r) \/ Get(r)

Next == Tick \/ \E r \in Requests : Arrive(r) \/ Step(r) \/ Abort(r)

Spec == Init /\ [][Next]_vars

-----------------------------------------------------------------------------
RequestRecords ==
  [op : Operations \cup {"none"}, user : Users \cup {None}, id : Ids \cup {None},
   date : Nat, to : LifecycleStates \cup {None},
   before : Rows \cup {Absent}, after : Rows \cup {Absent}]

AuditRecords ==
  [request : Requests, id : Ids, before : Rows \cup {Absent}, after : Rows]

(* What a request holds fits the statement it executes next.               *)
Holds(r) ==
  LET h == req[r] IN
  /\ pc[r] = "idle" => h = NoRequest
  /\ pc[r] \notin {"idle", "refused"} => h.op \in Operations /\ h.user \in Users
  /\ pc[r] \in (Statements \ {"insert"}) \cup {"answered"} => h.id \in Ids
  /\ pc[r] \in {"insert", "sync", "record", "get"} => h.after \in Rows
  /\ pc[r] = "insert" => h.op = "create" /\ WasVerified(h.after)
  /\ pc[r] \in {"update", "sync"} =>
       /\ h.op = "update" /\ h.before \in Rows /\ h.after \in Rows
       /\ \/ h.after.state = h.before.state
          \/ h.before.state = "active" /\ h.after.state = "expired"
  /\ pc[r] = "sync" => h.before.state = "active" /\ h.after.state = "expired"
  /\ pc[r] = "verify" => h.op = "verify" /\ h.date # 0
  /\ pc[r] \in {"reread", "change"} =>
       \/ h.op = "restore" /\ h.to \in {"active", "pending"}
       \/ h.op = "invalidate" /\ h.to = "invalid"

(* The types of all variables, those of a request by the statement it is   *)
(* at: an update moves no row but one it read as active, and to expired.   *)
TypeOK ==
  /\ safeguards \in [Ids -> Rows \cup {Absent}]
  /\ clock \in Nat
  /\ audits \subseteq AuditRecords
  /\ pc \in [Requests -> {"idle"} \cup Statements \cup Final]
  /\ req \in [Requests -> RequestRecords]
  /\ \A r \in Requests : Holds(r)
  /\ overtaken \subseteq Requests

(* A safeguard is active or expired only after a verification that names   *)
(* its verifier and is not dated in the future: neither a restore nor an   *)
(* update working on an old row makes one count that nobody ever verified. *)
CountedWasVerified ==
  \A s \in Ids :
    /\ WasVerified(safeguards[s])
    /\ safeguards[s].verifiedAt <= clock + Tolerance

(* r writes a note that is all its own: a verification does, and an update *)
(* that gives a new note.                                                  *)
GivesNote(r) == pc[r] = "verify" \/ (pc[r] = "update" /\ req[r].after.evidence = {r})

KeepsEvidence(s) ==
  \A e \in safeguards[s].evidence \ safeguards'[s].evidence :
    \E r \in Requests :
      /\ pc[r] \in {"update", "verify", "change"} /\ pc'[r] # pc[r] /\ req[r].id = s
      /\ GivesNote(r) \/ r \in overtaken

(* Nobody's text leaves the note of a safeguard but by a request that      *)
(* gives a new note, or by one that was overtaken: an update without a     *)
(* note, an invalidation and a restore write back the whole note they read,*)
(* so they lose text only when another request wrote the row in between,   *)
(* since no handler's UPDATE asks for the row to be as it was read.        *)
EvidenceKept == [][\A s \in Ids : KeepsEvidence(s)]_vars

SameVerification(old, new) ==
  new.verifiedAt = old.verifiedAt /\ new.verifiedBy = old.verifiedBy

VerifiedBy(r, old, new) ==
  /\ pc[r] = "verify"
  /\ new = [old EXCEPT !.state = "active", !.verifiedAt = req[r].date,
                       !.verifiedBy = req[r].user, !.evidence = {r}]

ExpiredBy(r, old, new) ==
  /\ pc[r] = "sync"
  /\ old.state = "active" /\ new.state = "expired"
  /\ r \in overtaken \/ ExpiredAt(clock, old.verifiedAt, old.interval)

ChangedBy(r, old, new) ==
  /\ pc[r] = "change"
  /\ \/ req[r].op = "invalidate" /\ old.state # "invalid" /\ new.state = "invalid"
     \/ req[r].op = "restore" /\ old.state = "invalid" /\ new.state = "pending"
     \/ req[r].op = "restore" /\ old.state = "invalid" /\ new.state = "active" /\ r \in overtaken

LawfulStep(s) ==
  LET old == safeguards[s]
      new == safeguards'[s] IN
  \/ old = Absent /\ new.state # "invalid"
  \/ old # Absent /\ new.state = old.state /\ SameVerification(old, new)
  \/ \E r \in Requests :
       /\ req[r].id = s /\ pc'[r] # pc[r]
       /\ \/ VerifiedBy(r, old, new)
          \/ SameVerification(old, new) /\ (ExpiredBy(r, old, new) \/ ChangedBy(r, old, new))

(* Only a verification changes the date and the verifier of a safeguard,   *)
(* and only to its own, together with state and note.  A safeguard only    *)
(* expires when its verification has run out, only an invalidation makes   *)
(* it invalid, and only a restore ends that, to pending; so an update, which *)
(* works on an old row, undoes no invalidation or restore.  Requests that  *)
(* were overtaken are the exception: an update may then expire a safeguard *)
(* that was verified in between, and a restore may lead to active.         *)
LawfulLifecycle == [][\A s \in Ids : LawfulStep(s)]_vars

=============================================================================
