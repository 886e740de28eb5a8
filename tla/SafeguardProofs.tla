-------------------------- MODULE SafeguardProofs ---------------------------
(***************************************************************************)
(* TLAPS proofs of the safety properties of Safeguards.  Every step of a   *)
(* request changes what that request holds and perhaps a row; StepIInv says *)
(* what such a step must see to, and each action is shown to.              *)
(***************************************************************************)
EXTENDS SafeguardInvariant, TLAPS

LEMMA AbsentIsNoRow ==
  /\ Absent \notin Rows /\ Absent.state = "absent" /\ Absent.verifiedAt = 0
  /\ Absent.evidence = {} /\ WasVerified(Absent)
  /\ \A row \in Rows : row.state # "absent"
BY DEF Absent, Rows, LifecycleStates, WasVerified

LEMMA NoRequestType == NoRequest \in RequestRecords /\ NoRequest.before = Absent
                       /\ NoRequest.after = Absent
BY DEF NoRequest, RequestRecords

(* The requests whose row must be as they know it.                         *)
Reading == {"update", "sync", "reread", "change"}

LEMMA StepIInv ==
  ASSUME IInv, NEW r \in Requests,
         NEW h \in RequestRecords, req' = [req EXCEPT ![r] = h],
         NEW st \in {"idle"} \cup Statements \cup Final, Go(r, st),
         clock' = clock, safeguards' \in [Ids -> Rows \cup {Absent}], audits' \subseteq AuditRecords,
         overtaken \subseteq overtaken', overtaken' \subseteq Requests,
         \A s \in Ids : \/ safeguards'[s] = safeguards[s]
                        \/ /\ safeguards'[s] \in Rows /\ Verified(safeguards[s])'
                           /\ safeguards[s].verifiedAt # 0 => safeguards'[s].verifiedAt # 0,
         \A q \in Requests \ {r} :
           pc[q] \in Reading => \/ safeguards'[req[q].id] = safeguards[req[q].id]
                               \/ q \in overtaken',
         Holds(r)', RowStays(r)', DateChecked(r)', Drawn(r)', r \notin overtaken' => UpToDate(r)'
  PROVE  IInv'
<1>1. /\ pc' \in [Requests -> {"idle"} \cup Statements \cup Final]
      /\ req' \in [Requests -> RequestRecords]
      /\ \A q \in Requests : q # r => pc'[q] = pc[q] /\ req'[q] = req[q]
  BY DEF IInv, TypeOK, Go
<1>2. TypeOK'
  <2>1. \A q \in Requests : Holds(q)'
    <3> SUFFICES ASSUME NEW q \in Requests, q # r PROVE Holds(q)'
      OBVIOUS
    <3>1. Holds(q)
      BY DEF IInv, TypeOK
    <3> QED BY <1>1, <3>1 DEF Holds
  <2> QED BY <1>1, <2>1 DEF IInv, TypeOK
<1>3. ASSUME NEW s \in Ids PROVE Verified(safeguards[s])'
  BY DEF IInv, Verified
<1>4. ASSUME NEW q \in Requests, q # r
      PROVE  RowStays(q)' /\ DateChecked(q)' /\ Drawn(q)' /\ (q \notin overtaken' => UpToDate(q)')
  <2>1. pc'[q] = pc[q] /\ req'[q] = req[q] /\ Holds(q)
    BY <1>1, <1>4 DEF IInv, TypeOK
  <2>2. RowStays(q) /\ DateChecked(q) /\ Drawn(q) /\ (q \notin overtaken => UpToDate(q))
    BY DEF IInv
  <2>3. pc[q] \in (Statements \ {"insert"}) \cup {"answered"} => req[q].id \in Ids
    BY <2>1 DEF Holds
  <2>4. RowStays(q)'
    BY <2>1, <2>2, <2>3 DEF RowStays
  <2>5. DateChecked(q)'
    <3>1. pc[q] \in {"reread", "change"} => req[q].id \in Ids
      BY <2>3 DEF Statements
    <3> QED BY <2>1, <2>2, <3>1 DEF DateChecked
  <2>6. Drawn(q)'
    BY <2>1, <2>2 DEF Drawn
  <2>7. ASSUME q \notin overtaken' PROVE UpToDate(q)'
    <3>1. UpToDate(q)
      BY <2>2, <2>7
    <3>2. pc[q] \in Reading => safeguards'[req[q].id] = safeguards[req[q].id]
      BY <1>4, <2>7
    <3> QED BY <2>1, <3>1, <3>2 DEF UpToDate, Reading, WrittenBack
  <2> QED BY <2>4, <2>5, <2>6, <2>7
<1> QED BY <1>2, <1>3, <1>4 DEF IInv

LEMMA InitIInv == Init => IInv
<1> SUFFICES ASSUME Init PROVE IInv
  OBVIOUS
<1>1. safeguards \in [Ids -> Rows \cup {Absent}]
  BY SeedAssumption DEF Init
<1>2. \A s \in Ids : Verified(safeguards[s])
  <2>1. \A s \in Ids : safeguards[s] \in Seeds
    BY DEF Init
  <2>2. \A s \in Ids : safeguards[s].verifiedAt \in Nat
    BY <1>1 DEF Rows, Absent
  <2> QED BY <2>1, <2>2, SeedAssumption, TimeAssumption DEF Verified, Init
<1>3. TypeOK
  BY <1>1, NoRequestType DEF Init, TypeOK, Holds, Statements
<1>4. \A r \in Requests : RowStays(r) /\ DateChecked(r) /\ Drawn(r) /\ UpToDate(r)
  BY DEF Init, RowStays, DateChecked, Drawn, UpToDate, Statements
<1> QED BY <1>2, <1>3, <1>4 DEF IInv

LEMMA TickIInv ==
  ASSUME IInv, Tick
  PROVE  IInv'
<1>1. TypeOK'
  BY DEF IInv, TypeOK, Tick, Holds
<1>2. \A s \in Ids : Verified(safeguards[s])'
  <2>1. \A s \in Ids : safeguards[s].verifiedAt \in Nat
    BY DEF IInv, TypeOK, Rows, Absent
  <2> QED BY <2>1, TimeAssumption DEF IInv, TypeOK, Tick, Verified
<1>3. ASSUME NEW r \in Requests
      PROVE  RowStays(r)' /\ DateChecked(r)' /\ Drawn(r)' /\ (r \notin overtaken' => UpToDate(r)')
  <2>1. req[r].after.verifiedAt \in Nat /\ req[r].date \in Nat /\ clock \in Nat /\ Holds(r)
    BY DEF IInv, TypeOK, RequestRecords, Rows, Absent
  <2>2. DateChecked(r)'
    BY <2>1, TimeAssumption DEF IInv, Tick, DateChecked
  <2>3. Drawn(r)'
    <3>1. pc[r] \in {"update", "sync"} =>
            req[r].before.verifiedAt \in Nat /\ req[r].after.interval \in Nat
      BY <2>1, TimeAssumption DEF Holds, Rows
    <3> QED BY <2>1, <3>1 DEF IInv, Tick, Drawn, ExpiredAt
  <2> QED BY <2>2, <2>3 DEF IInv, Tick, RowStays, UpToDate, WrittenBack
<1> QED BY <1>1, <1>2, <1>3 DEF IInv

(* A step that only moves a request on, holding what it held.              *)
LEMMA MoveIInv ==
  ASSUME IInv, NEW r \in Requests, UNCHANGED <<safeguards, clock, audits, req, overtaken>>,
         NEW st \in {"refused", "answered", "aborted"}, Go(r, st),
         pc[r] \notin Final, pc[r] = "idle" => st = "refused", st = "answered" => pc[r] = "get"
  PROVE  IInv'
<1>1. req[r] \in RequestRecords /\ req' = [req EXCEPT ![r] = req[r]] /\ pc'[r] = st
  BY DEF IInv, TypeOK, Go
<1>2. Holds(r) /\ RowStays(r)
  BY DEF IInv, TypeOK
<1>3. Holds(r)'
  BY <1>1, <1>2 DEF Holds, Statements, Final, Operations
<1>4. RowStays(r)' /\ DateChecked(r)' /\ Drawn(r)' /\ UpToDate(r)'
  BY <1>1, <1>2 DEF RowStays, DateChecked, Drawn, UpToDate, Statements
<1> QED BY <1>1, <1>3, <1>4, StepIInv DEF Final, IInv, TypeOK

LEMMA AbortIInv ==
  ASSUME IInv, NEW r \in Requests, Abort(r)
  PROVE  IInv'
BY MoveIInv DEF Abort, Statements, Final

LEMMA GetIInv ==
  ASSUME IInv, NEW r \in Requests, Get(r)
  PROVE  IInv'
BY MoveIInv DEF Get, Final

LEMMA RefuseIInv ==
  ASSUME IInv, NEW r \in Requests, NEW u \in Users, Refuse(r, u)
  PROVE  IInv'
BY MoveIInv DEF Refuse, Final

-----------------------------------------------------------------------------
(* A request that enters knows what its row is.                            *)
LEMMA EnterIInv ==
  ASSUME IInv, NEW r \in Requests, NEW u \in Users, NEW h \in RequestRecords, NEW st \in Statements,
         Enter(r, u, h, st),
         [h EXCEPT !.user = u] \in RequestRecords =>
           Holds(r)' /\ RowStays(r)' /\ DateChecked(r)' /\ Drawn(r)' /\ UpToDate(r)'
  PROVE  IInv'
<1> DEFINE k == [h EXCEPT !.user = u]
<1>1. k \in RequestRecords
  BY DEF RequestRecords
<1>2. req' = [req EXCEPT ![r] = k] /\ Go(r, st) /\ UNCHANGED <<safeguards, clock, audits, overtaken>>
  BY DEF Enter
<1> HIDE DEF k
<1> QED BY <1>1, <1>2, StepIInv DEF IInv, TypeOK, k

LEMMA NewRowType ==
  ASSUME IInv, NEW r \in Requests, NEW u \in Users, NEW interval \in Intervals,
         NEW date \in Dates \cup {0}, ~(date > clock + Tolerance)
  PROVE  LET row == NewRow(r, u, interval, date) IN
         /\ row \in Rows /\ WasVerified(row)
         /\ row.verifiedAt <= clock + Tolerance /\ row.state # "invalid"
<1>1. date \in Nat /\ clock + Tolerance \in Nat
  BY TimeAssumption DEF Dates, IInv, TypeOK
<1> QED BY <1>1, NoneAssumption DEF NewRow, Rows, WasVerified, LifecycleStates

LEMMA LoadTargetIInv ==
  ASSUME IInv, NEW r \in Requests, NEW u \in Users, NEW interval \in Intervals,
         NEW date \in Dates \cup {0}, LoadTarget(r, u, interval, date)
  PROVE  IInv'
<1>1. CASE date > clock + Tolerance
  BY <1>1, RefuseIInv DEF LoadTarget
<1>2. CASE ~(date > clock + Tolerance)
  <2> DEFINE row == NewRow(r, u, interval, date)
             h == [NoRequest EXCEPT !.op = "create", !.after = row]
  <2>1. /\ row \in Rows /\ WasVerified(row)
        /\ row.verifiedAt <= clock + Tolerance /\ row.state # "invalid"
    BY <1>2, NewRowType
  <2> HIDE DEF row
  <2>2. /\ h \in RequestRecords /\ h.before = Absent /\ h.after = row
        /\ h.op = "create" /\ h.id = None
    BY <2>1, NoRequestType DEF RequestRecords, Operations, NoRequest
  <2>3. Enter(r, u, h, "insert")
    BY <1>2 DEF LoadTarget, row
  <2> HIDE DEF h
  <2>4. /\ pc'[r] = "insert" /\ req'[r] = [h EXCEPT !.user = u] /\ clock' = clock
    BY <2>3 DEF Enter, Go, IInv, TypeOK
  <2>5. /\ req'[r].op = "create" /\ req'[r].user = u /\ req'[r].after = row
        /\ req'[r].before = Absent
    BY <2>2, <2>4 DEF RequestRecords
  <2>6. Holds(r)'
    BY <2>1, <2>4, <2>5 DEF Holds, Operations, Statements
  <2>7. RowStays(r)' /\ DateChecked(r)' /\ Drawn(r)' /\ UpToDate(r)'
    BY <2>1, <2>4, <2>5 DEF RowStays, DateChecked, Drawn, UpToDate
  <2> QED BY <2>2, <2>3, <2>6, <2>7, EnterIInv DEF Statements
<1> QED BY <1>1, <1>2

LEMMA MergedType ==
  ASSUME IInv, NEW r \in Requests, NEW row \in Rows, NEW interval \in Intervals \cup {None},
         NEW noted \in BOOLEAN
  PROVE  LET new == Merged(row, r, interval, noted) IN
         /\ new \in Rows
         /\ new.state = row.state \/ (row.state = "active" /\ new.state = "expired")
         /\ new.state # row.state => ExpiredAt(clock, row.verifiedAt, new.interval)
         /\ new.evidence \in {row.evidence, {r}}
<1> DEFINE edited == [row EXCEPT !.interval = IF interval = None THEN @ ELSE interval,
                                 !.evidence = IF noted THEN {r} ELSE @]
<1>1. /\ edited \in Rows /\ edited.state = row.state /\ edited.verifiedAt = row.verifiedAt
      /\ edited.evidence \in {row.evidence, {r}}
  <2>1. (IF interval = None THEN row.interval ELSE interval) \in Intervals
    BY DEF Rows
  <2>2. (IF noted THEN {r} ELSE row.evidence) \in {row.evidence, {r}}
    OBVIOUS
  <2>3. (IF noted THEN {r} ELSE row.evidence) \in SUBSET Requests
    BY DEF Rows
  <2> QED BY <2>1, <2>2, <2>3 DEF Rows
<1> HIDE DEF edited
<1>2. \/ /\ Merged(row, r, interval, noted) = [edited EXCEPT !.state = "expired"]
         /\ edited.state = "active" /\ ExpiredAt(clock, edited.verifiedAt, edited.interval)
      \/ Merged(row, r, interval, noted) = [edited EXCEPT !.state = edited.state]
  BY DEF Merged, edited
<1>3. CASE /\ Merged(row, r, interval, noted) = [edited EXCEPT !.state = "expired"]
           /\ edited.state = "active" /\ ExpiredAt(clock, edited.verifiedAt, edited.interval)
  <2> DEFINE moved == [edited EXCEPT !.state = "expired"]
  <2>1. /\ moved \in Rows /\ moved.state = "expired" /\ moved.evidence = edited.evidence
        /\ moved.interval = edited.interval
    BY <1>1 DEF Rows, LifecycleStates
  <2> HIDE DEF moved
  <2>2. Merged(row, r, interval, noted) = moved
    BY <1>3 DEF moved
  <2> QED BY <1>1, <1>3, <2>1, <2>2
<1>4. CASE Merged(row, r, interval, noted) = [edited EXCEPT !.state = edited.state]
  <2> DEFINE kept == [edited EXCEPT !.state = edited.state]
  <2>1. kept \in Rows /\ kept.state = edited.state /\ kept.evidence = edited.evidence
    BY <1>1 DEF Rows
  <2> HIDE DEF kept
  <2>2. Merged(row, r, interval, noted) = kept
    BY <1>4 DEF kept
  <2> QED BY <1>1, <2>1, <2>2
<1> QED BY <1>2, <1>3, <1>4

LEMMA ExistingIsRow ==
  ASSUME IInv, NEW s \in Ids, Exists(s)
  PROVE  safeguards[s] \in Rows
BY DEF IInv, TypeOK, Exists, Absent

LEMMA LoadForUpdateIInv ==
  ASSUME IInv, NEW r \in Requests, NEW u \in Users, NEW s \in Ids,
         NEW interval \in Intervals \cup {None}, NEW noted \in BOOLEAN,
         LoadForUpdate(r, u, s, interval, noted)
  PROVE  IInv'
<1> DEFINE row == Merged(safeguards[s], r, interval, noted)
           h == [NoRequest EXCEPT !.op = "update", !.id = s, !.before = safeguards[s], !.after = row]
<1>1. safeguards[s] \in Rows
  BY ExistingIsRow DEF LoadForUpdate
<1>2. /\ row \in Rows /\ row.evidence \in {safeguards[s].evidence, {r}}
      /\ row.state # safeguards[s].state => ExpiredAt(clock, safeguards[s].verifiedAt, row.interval)
      /\ row.state = safeguards[s].state \/ (safeguards[s].state = "active" /\ row.state = "expired")
  BY <1>1, MergedType
<1> HIDE DEF row
<1>3. /\ h \in RequestRecords /\ h.before = safeguards[s] /\ h.after = row
      /\ h.op = "update" /\ h.id = s
  BY <1>1, <1>2, NoRequestType DEF RequestRecords, Operations, NoRequest
<1>4. Enter(r, u, h, "update")
  BY DEF LoadForUpdate, row
<1> HIDE DEF h
<1>5. /\ pc'[r] = "update" /\ req'[r] = [h EXCEPT !.user = u]
      /\ safeguards' = safeguards /\ clock' = clock
  BY <1>4 DEF Enter, Go, IInv, TypeOK
<1>6. /\ req'[r].op = "update" /\ req'[r].user = u /\ req'[r].id = s
      /\ req'[r].after = row /\ req'[r].before = safeguards[s]
  BY <1>3, <1>5 DEF RequestRecords
<1>7. Holds(r)'
  BY <1>1, <1>2, <1>5, <1>6 DEF Holds, Operations, Statements
<1>8. RowStays(r)' /\ DateChecked(r)' /\ UpToDate(r)'
  BY <1>1, <1>5, <1>6 DEF RowStays, DateChecked, UpToDate
<1>9. Drawn(r)'
  BY <1>2, <1>5, <1>6 DEF Drawn
<1> QED BY <1>3, <1>4, <1>7, <1>8, <1>9, EnterIInv DEF Statements

LEMMA LoadForVerifyIInv ==
  ASSUME IInv, NEW r \in Requests, NEW u \in Users, NEW s \in Ids, NEW date \in Dates,
         LoadForVerify(r, u, s, date)
  PROVE  IInv'
<1>1. CASE date > clock + Tolerance \/ ExpiredAt(clock, date, safeguards[s].interval)
  BY <1>1, RefuseIInv DEF LoadForVerify
<1>2. CASE ~(date > clock + Tolerance \/ ExpiredAt(clock, date, safeguards[s].interval))
  <2> DEFINE h == [NoRequest EXCEPT !.op = "verify", !.id = s, !.date = date,
                                    !.before = safeguards[s]]
  <2>1. safeguards[s] \in Rows
    BY ExistingIsRow DEF LoadForVerify
  <2>2. date \in Nat \ {0} /\ date <= clock + Tolerance
    BY <1>2, TimeAssumption DEF Dates, IInv, TypeOK
  <2>3. /\ h \in RequestRecords /\ h.before = safeguards[s] /\ h.after = Absent
        /\ h.op = "verify" /\ h.id = s /\ h.date = date
    BY <2>1, <2>2, NoRequestType DEF RequestRecords, Operations, NoRequest
  <2>4. Enter(r, u, h, "verify")
    BY <1>2 DEF LoadForVerify
  <2> HIDE DEF h
  <2>5. /\ pc'[r] = "verify" /\ req'[r] = [h EXCEPT !.user = u]
        /\ safeguards' = safeguards /\ clock' = clock
    BY <2>4 DEF Enter, Go, IInv, TypeOK
  <2>6. /\ req'[r].op = "verify" /\ req'[r].user = u /\ req'[r].id = s /\ req'[r].date = date
    BY <2>3, <2>5 DEF RequestRecords
  <2>7. Holds(r)'
    BY <2>2, <2>5, <2>6 DEF Holds, Operations, Statements
  <2>8. RowStays(r)' /\ DateChecked(r)' /\ Drawn(r)' /\ UpToDate(r)'
    BY <2>1, <2>2, <2>5, <2>6 DEF RowStays, DateChecked, Drawn, UpToDate
  <2> QED BY <2>3, <2>4, <2>7, <2>8, EnterIInv DEF Statements
<1> QED BY <1>1, <1>2

LEMMA LoadForInvalidateIInv ==
  ASSUME IInv, NEW r \in Requests, NEW u \in Users, NEW s \in Ids, LoadForInvalidate(r, u, s)
  PROVE  IInv'
<1> DEFINE h == [NoRequest EXCEPT !.op = "invalidate", !.id = s, !.to = "invalid",
                                  !.before = safeguards[s]]
<1>1. safeguards[s] \in Rows
  BY ExistingIsRow DEF LoadForInvalidate
<1>2. /\ h \in RequestRecords /\ h.before = safeguards[s] /\ h.after = Absent
      /\ h.op = "invalidate" /\ h.id = s /\ h.to = "invalid"
  BY <1>1, NoRequestType DEF RequestRecords, Operations, NoRequest, LifecycleStates
<1>3. Enter(r, u, h, "change")
  BY DEF LoadForInvalidate
<1> HIDE DEF h
<1>4. /\ pc'[r] = "change" /\ req'[r] = [h EXCEPT !.user = u] /\ safeguards' = safeguards
  BY <1>3 DEF Enter, Go, IInv, TypeOK
<1>5. /\ req'[r].op = "invalidate" /\ req'[r].user = u /\ req'[r].id = s /\ req'[r].to = "invalid"
      /\ req'[r].before = safeguards[s]
  BY <1>2, <1>4 DEF RequestRecords
<1>6. Holds(r)'
  BY <1>4, <1>5 DEF Holds, Operations, Statements
<1>7. RowStays(r)' /\ DateChecked(r)' /\ Drawn(r)' /\ UpToDate(r)'
  BY <1>1, <1>4, <1>5 DEF RowStays, DateChecked, Drawn, UpToDate
<1> QED BY <1>2, <1>3, <1>6, <1>7, EnterIInv DEF Statements

LEMMA LoadForRestoreIInv ==
  ASSUME IInv, NEW r \in Requests, NEW u \in Users, NEW s \in Ids, LoadForRestore(r, u, s)
  PROVE  IInv'
<1> DEFINE to == IF IsEffectiveAt(safeguards[s], clock) THEN "active" ELSE "pending"
           h == [NoRequest EXCEPT !.op = "restore", !.id = s, !.to = to]
<1>1. safeguards[s] \in Rows
  BY ExistingIsRow DEF LoadForRestore
<1>2. /\ to \in {"active", "pending"}
      /\ to = "active" => safeguards[s].verifiedAt # 0 /\ safeguards[s].state = "active"
  BY DEF IsEffectiveAt
<1> HIDE DEF to
<1>3. /\ h \in RequestRecords /\ h.before = Absent /\ h.after = Absent
      /\ h.op = "restore" /\ h.id = s /\ h.to = to
  BY <1>2, NoRequestType DEF RequestRecords, Operations, NoRequest, LifecycleStates
<1>4. Enter(r, u, h, "reread")
  BY DEF LoadForRestore, to
<1> HIDE DEF h
<1>5. /\ pc'[r] = "reread" /\ req'[r] = [h EXCEPT !.user = u] /\ safeguards' = safeguards
  BY <1>4 DEF Enter, Go, IInv, TypeOK
<1>6. /\ req'[r].op = "restore" /\ req'[r].user = u /\ req'[r].id = s /\ req'[r].to = to
  BY <1>3, <1>5 DEF RequestRecords
<1>7. Holds(r)'
  BY <1>2, <1>5, <1>6 DEF Holds, Operations, Statements
<1>8. RowStays(r)' /\ DateChecked(r)' /\ Drawn(r)' /\ UpToDate(r)'
  BY <1>1, <1>2, <1>5, <1>6 DEF RowStays, DateChecked, Drawn, UpToDate
<1> QED BY <1>3, <1>4, <1>7, <1>8, EnterIInv DEF Statements

-----------------------------------------------------------------------------
(* A statement of r that writes the row of r, or leaves it as it is.       *)
LEMMA WriteIInv ==
  ASSUME IInv, NEW r \in Requests, pc[r] \in {"update", "sync", "verify", "change"},
         UNCHANGED <<clock, audits, req>>,
         NEW st \in {"sync", "record", "reload", "refused"}, Go(r, st),
         NEW row,
         \/ UNCHANGED <<safeguards, overtaken>>
         \/ /\ Write(r, row)
            /\ row \in Rows /\ Verified(row)
            /\ safeguards[req[r].id].verifiedAt # 0 => row.verifiedAt # 0,
         st = "sync" => /\ pc[r] = "update" /\ Write(r, row)
                        /\ r \notin overtaken => row = WrittenBack(req[r].before, r),
         Holds(r)'
  PROVE  IInv'
<1> DEFINE s == req[r].id
<1>1. /\ req[r] \in RequestRecords /\ req' = [req EXCEPT ![r] = req[r]] /\ pc'[r] = st
      /\ Holds(r) /\ RowStays(r) /\ Drawn(r)
      /\ safeguards \in [Ids -> Rows \cup {Absent}] /\ overtaken \subseteq Requests
  BY DEF IInv, TypeOK, Go
<1>2. s \in Ids /\ safeguards[s] \in Rows
  BY <1>1 DEF Holds, RowStays, Statements
<1>3. /\ safeguards' \in [Ids -> Rows \cup {Absent}] /\ safeguards'[s] \in Rows
      /\ overtaken \subseteq overtaken' /\ overtaken' \subseteq Requests
      /\ r \in overtaken' => r \in overtaken
  BY <1>1, <1>2 DEF Write
<1>4. \A t \in Ids : \/ safeguards'[t] = safeguards[t]
                     \/ /\ safeguards'[t] \in Rows /\ Verified(safeguards[t])'
                        /\ safeguards[t].verifiedAt # 0 => safeguards'[t].verifiedAt # 0
  <2> SUFFICES ASSUME Write(r, row), row \in Rows, Verified(row),
                      safeguards[s].verifiedAt # 0 => row.verifiedAt # 0
               PROVE  /\ Verified(safeguards[s])'
                      /\ safeguards[s].verifiedAt # 0 => safeguards'[s].verifiedAt # 0
    BY <1>1, <1>2, <1>3 DEF Write
  <2>1. safeguards'[s] = row
    BY <1>1, <1>2 DEF Write
  <2> QED BY <2>1 DEF Verified
<1>5. ASSUME NEW q \in Requests \ {r}, pc[q] \in Reading
      PROVE  safeguards'[req[q].id] = safeguards[req[q].id] \/ q \in overtaken'
  <2>1. req[q].id \in Ids
    BY <1>5 DEF IInv, TypeOK, Holds, Reading, Statements
  <2>2. CASE Write(r, row) /\ req[q].id = s
    BY <1>5, <2>2 DEF Write, Reading
  <2>3. CASE Write(r, row) /\ req[q].id # s
    BY <1>1, <1>2, <2>1, <2>3 DEF Write
  <2> QED BY <2>2, <2>3
<1>6. RowStays(r)' /\ DateChecked(r)' /\ Drawn(r)'
  BY <1>1, <1>3 DEF RowStays, DateChecked, Drawn
<1>7. ASSUME r \notin overtaken' PROVE UpToDate(r)'
  <2>1. CASE st = "sync"
    <3>1. safeguards'[s] = row /\ row = WrittenBack(req[r].before, r)
      BY <1>1, <1>2, <1>3, <1>7, <2>1 DEF Write
    <3> QED BY <1>1, <2>1, <3>1 DEF UpToDate, WrittenBack
  <2> QED BY <1>1, <2>1 DEF UpToDate
<1>8. audits' \subseteq AuditRecords /\ st \in {"idle"} \cup Statements \cup Final
  BY DEF IInv, TypeOK, Statements, Final
<1> QED BY <1>1, <1>3, <1>4, <1>5, <1>6, <1>7, <1>8, StepIInv

(* What the row of r is known to be when r writes it.                      *)
LEMMA RowOfRequest ==
  ASSUME IInv, NEW r \in Requests, pc[r] \in {"update", "sync", "verify", "reread", "change", "reload"}
  PROVE  /\ req[r] \in RequestRecords /\ req[r].id \in Ids /\ req[r].user \in Users
         /\ Holds(r) /\ RowStays(r) /\ DateChecked(r)
         /\ safeguards[req[r].id] \in Rows /\ Verified(safeguards[req[r].id])
BY DEF IInv, TypeOK, Holds, RowStays, Statements

LEMMA UpdateIInv ==
  ASSUME IInv, NEW r \in Requests, Update(r)
  PROVE  IInv'
<1> DEFINE row == WrittenBack(safeguards[req[r].id], r)
           st == IF req[r].after.state # req[r].before.state THEN "sync" ELSE "record"
<1>1. /\ pc[r] = "update" /\ req[r].id \in Ids /\ req[r].after \in Rows
      /\ safeguards[req[r].id] \in Rows
      /\ Verified(safeguards[req[r].id]) /\ Holds(r)
  BY RowOfRequest DEF Update, Holds
<1>2. /\ Write(r, row)
      /\ Go(r, st) /\ pc'[r] = st /\ UNCHANGED <<clock, audits, req>>
  BY <1>1 DEF Update, Go, IInv, TypeOK
<1>3. /\ row \in Rows /\ row.state = safeguards[req[r].id].state
      /\ row.verifiedAt = safeguards[req[r].id].verifiedAt
      /\ row.verifiedBy = safeguards[req[r].id].verifiedBy
  BY <1>1 DEF WrittenBack, Rows
<1>4. r \notin overtaken => row = WrittenBack(req[r].before, r)
  BY <1>1 DEF IInv, UpToDate
<1> HIDE DEF row
<1>5. Verified(row)
  BY <1>1, <1>3 DEF Verified, WasVerified
<1>6. Holds(r)'
  BY <1>1, <1>2 DEF Holds, Statements
<1>7. st \in {"sync", "record"}
  OBVIOUS
<1> HIDE DEF st
<1> QED BY <1>1, <1>2, <1>3, <1>4, <1>5, <1>6, <1>7, WriteIInv

LEMMA SyncIInv ==
  ASSUME IInv, NEW r \in Requests, SyncLifecycle(r)
  PROVE  IInv'
<1> DEFINE old == safeguards[req[r].id]
           new == [old EXCEPT !.state = req[r].after.state]
<1>1. /\ pc[r] = "sync" /\ old \in Rows /\ Verified(old) /\ Holds(r)
      /\ req[r].before.state = "active" /\ req[r].after.state = "expired" /\ req[r].id \in Ids
  BY RowOfRequest DEF SyncLifecycle, Holds
<1>2. /\ UNCHANGED <<safeguards, overtaken>> \/ (old.state = "active" /\ Write(r, new))
      /\ Go(r, "record") /\ pc'[r] = "record" /\ UNCHANGED <<clock, audits, req>>
  BY <1>1 DEF SyncLifecycle, SetLifecycle, Go, IInv, TypeOK
<1>3. /\ new \in Rows /\ new.verifiedAt = old.verifiedAt /\ new.verifiedBy = old.verifiedBy
      /\ new.state = "expired"
  BY <1>1 DEF Rows, LifecycleStates
<1> HIDE DEF new
<1>4. old.state = "active" => Verified(new)
  BY <1>1, <1>3 DEF Verified, WasVerified
<1>5. Holds(r)'
  BY <1>1, <1>2 DEF Holds, Statements
<1> QED BY <1>1, <1>2, <1>3, <1>4, <1>5, WriteIInv

LEMMA VerifyIInv ==
  ASSUME IInv, NEW r \in Requests, Verify(r)
  PROVE  IInv'
<1> DEFINE old == safeguards[req[r].id]
           new == [old EXCEPT !.state = "active", !.verifiedAt = req[r].date,
                              !.verifiedBy = req[r].user, !.evidence = {r}]
<1>1. /\ pc[r] = "verify" /\ old \in Rows /\ Verified(old) /\ Holds(r)
      /\ req[r].id \in Ids /\ req[r].user \in Users
      /\ req[r].date \in Nat \ {0} /\ req[r].date <= clock + Tolerance
  BY RowOfRequest DEF Verify, Holds, DateChecked, RequestRecords
<1>2. /\ UNCHANGED <<safeguards, overtaken>> \/ Write(r, new)
      /\ Go(r, "reload") /\ pc'[r] = "reload" /\ UNCHANGED <<clock, audits, req>>
  BY <1>1 DEF Verify, SetLifecycle, Go, IInv, TypeOK
<1>3. /\ new \in Rows /\ new.state = "active" /\ new.verifiedAt = req[r].date
      /\ new.verifiedBy = req[r].user
  BY <1>1 DEF Rows, LifecycleStates
<1> HIDE DEF new
<1>4. Verified(new)
  BY <1>1, <1>3, NoneAssumption DEF Verified, WasVerified
<1>5. Holds(r)'
  BY <1>1, <1>2 DEF Holds, Statements
<1> QED BY <1>1, <1>2, <1>3, <1>4, <1>5, WriteIInv

LEMMA ChangeIInv ==
  ASSUME IInv, NEW r \in Requests, ChangeLifecycle(r)
  PROVE  IInv'
<1> DEFINE old == safeguards[req[r].id]
           new == [old EXCEPT !.state = req[r].to, !.evidence = req[r].before.evidence \cup {r}]
           st == IF old.state \in From(req[r].op) THEN "reload" ELSE "refused"
<1>1. /\ pc[r] = "change" /\ old \in Rows /\ Verified(old) /\ Holds(r)
      /\ req[r].id \in Ids /\ req[r].to \in {"active", "pending", "invalid"}
      /\ req[r].to = "active" => old.verifiedAt # 0
      /\ req[r].before.evidence \subseteq Requests
  BY RowOfRequest DEF ChangeLifecycle, Holds, DateChecked, RequestRecords, Rows, Absent
<1>2. /\ UNCHANGED <<safeguards, overtaken>> \/ Write(r, new)
      /\ Go(r, st) /\ pc'[r] = st /\ UNCHANGED <<clock, audits, req>>
  BY <1>1 DEF ChangeLifecycle, SetLifecycle, Go, IInv, TypeOK
<1>3. st \in {"refused", "reload"}
  OBVIOUS
<1> HIDE DEF st
<1>4. /\ new \in Rows /\ new.state = req[r].to /\ new.verifiedAt = old.verifiedAt
      /\ new.verifiedBy = old.verifiedBy
  BY <1>1 DEF Rows, LifecycleStates
<1> HIDE DEF new
<1>5. Verified(new)
  BY <1>1, <1>4 DEF Verified, WasVerified
<1>6. Holds(r)'
  BY <1>1, <1>2, <1>3 DEF Holds, Statements, Final
<1> QED BY <1>1, <1>2, <1>3, <1>4, <1>5, <1>6, WriteIInv

-----------------------------------------------------------------------------
LEMMA InsertIInv ==
  ASSUME IInv, NEW r \in Requests, Insert(r)
  PROVE  IInv'
<1>1. PICK s \in Ids : /\ ~Exists(s)
                      /\ safeguards' = [safeguards EXCEPT ![s] = req[r].after]
                      /\ req' = [req EXCEPT ![r].id = s]
  BY DEF Insert
<1> DEFINE h == [req[r] EXCEPT !.id = s]
           row == req[r].after
<1>2. /\ pc[r] = "insert" /\ Go(r, "record") /\ pc'[r] = "record"
      /\ UNCHANGED <<clock, audits, overtaken>>
      /\ req[r] \in RequestRecords /\ Holds(r) /\ DateChecked(r) /\ row \in Rows
  BY DEF Insert, Go, IInv, TypeOK, Holds
<1>3. /\ h \in RequestRecords /\ req' = [req EXCEPT ![r] = h] /\ req'[r] = h
      /\ h.id = s /\ h.op = req[r].op /\ h.user = req[r].user
      /\ h.before = req[r].before /\ h.after = row
  BY <1>1, <1>2 DEF IInv, TypeOK, RequestRecords
<1> HIDE DEF h
<1>4. safeguards' \in [Ids -> Rows \cup {Absent}] /\ safeguards'[s] = row
      /\ \A t : t # s => safeguards'[t] = safeguards[t]
  BY <1>1, <1>2 DEF IInv, TypeOK
<1>5. safeguards[s].verifiedAt = 0
  BY <1>1, AbsentIsNoRow DEF IInv, TypeOK, Exists, Rows, LifecycleStates
<1>6. Verified(safeguards[s])'
  BY <1>2, <1>3, <1>4 DEF DateChecked, Holds, Verified
<1>7. Holds(r)' /\ RowStays(r)' /\ DateChecked(r)' /\ Drawn(r)' /\ UpToDate(r)'
  BY <1>2, <1>3, <1>4 DEF Holds, RowStays, DateChecked, Drawn, UpToDate, Statements
<1>8. ASSUME NEW q \in Requests, pc[q] \in Reading
      PROVE  safeguards'[req[q].id] = safeguards[req[q].id]
  <2>1. safeguards[req[q].id] \in Rows
    BY <1>8 DEF IInv, RowStays, Reading, Statements
  <2> QED BY <1>1, <1>4, <2>1, AbsentIsNoRow DEF Exists
<1>9. /\ audits' \subseteq AuditRecords /\ overtaken' \subseteq Requests
      /\ "record" \in {"idle"} \cup Statements \cup Final
  BY <1>2 DEF IInv, TypeOK, Statements
<1> HIDE DEF row
<1> QED
  BY <1>2, <1>3, <1>4, <1>5, <1>6, <1>7, <1>8, <1>9, StepIInv

(* A request that reads its row again. *)
LEMMA ReadIInv ==
  ASSUME IInv, NEW r \in Requests, pc[r] \in {"reread", "reload"},
         UNCHANGED <<safeguards, clock, audits, overtaken>>,
         NEW h \in RequestRecords, req' = [req EXCEPT ![r] = h],
         NEW st \in {"change", "record"}, Go(r, st),
         h.id = req[r].id, h.to = req[r].to,
         st = "change" => pc[r] = "reread" /\ h.before = safeguards[req[r].id],
         Holds(r)'
  PROVE  IInv'
<1>1. /\ req'[r] = h /\ pc'[r] = st /\ safeguards[req[r].id] \in Rows
      /\ DateChecked(r)
  BY RowOfRequest DEF Go, IInv, TypeOK
<1>2. RowStays(r)' /\ DateChecked(r)' /\ Drawn(r)'
  BY <1>1 DEF RowStays, DateChecked, Drawn
<1>3. r \notin overtaken => UpToDate(r)'
  BY <1>1 DEF IInv, UpToDate
<1>4. /\ audits' \subseteq AuditRecords /\ overtaken' \subseteq Requests
      /\ safeguards' \in [Ids -> Rows \cup {Absent}]
      /\ st \in {"idle"} \cup Statements \cup Final
  BY DEF IInv, TypeOK, Statements
<1> QED BY <1>2, <1>3, <1>4, StepIInv

LEMMA RereadIInv ==
  ASSUME IInv, NEW r \in Requests, Reread(r)
  PROVE  IInv'
<1> DEFINE h == [req[r] EXCEPT !.before = safeguards[req[r].id]]
<1>1. /\ pc[r] = "reread" /\ Holds(r) /\ req[r] \in RequestRecords
      /\ safeguards[req[r].id] \in Rows /\ Go(r, "change") /\ pc'[r] = "change"
      /\ UNCHANGED <<safeguards, clock, audits, overtaken>>
  BY RowOfRequest DEF Reread, Go, IInv, TypeOK
<1>2. /\ h \in RequestRecords /\ req' = [req EXCEPT ![r] = h] /\ req'[r] = h
      /\ h.id = req[r].id /\ h.to = req[r].to /\ h.op = req[r].op /\ h.user = req[r].user
      /\ h.before = safeguards[req[r].id] /\ h.after = req[r].after
  BY <1>1 DEF Reread, IInv, TypeOK, RequestRecords
<1> HIDE DEF h
<1>3. Holds(r)'
  BY <1>1, <1>2 DEF Holds, Statements
<1> QED BY <1>1, <1>2, <1>3, ReadIInv

LEMMA ReloadIInv ==
  ASSUME IInv, NEW r \in Requests, Reload(r)
  PROVE  IInv'
<1> DEFINE h == [req[r] EXCEPT !.after = safeguards[req[r].id]]
<1>1. /\ pc[r] = "reload" /\ Holds(r) /\ req[r] \in RequestRecords
      /\ safeguards[req[r].id] \in Rows /\ Go(r, "record") /\ pc'[r] = "record"
      /\ UNCHANGED <<safeguards, clock, audits, overtaken>>
  BY RowOfRequest DEF Reload, Go, IInv, TypeOK
<1>2. /\ h \in RequestRecords /\ req' = [req EXCEPT ![r] = h] /\ req'[r] = h
      /\ h.id = req[r].id /\ h.to = req[r].to /\ h.op = req[r].op /\ h.user = req[r].user
      /\ h.before = req[r].before /\ h.after = safeguards[req[r].id]
  BY <1>1 DEF Reload, IInv, TypeOK, RequestRecords
<1> HIDE DEF h
<1>3. Holds(r)'
  BY <1>1, <1>2 DEF Holds, Statements
<1> QED BY <1>1, <1>2, <1>3, ReadIInv

LEMMA RecordIInv ==
  ASSUME IInv, NEW r \in Requests, Record(r)
  PROVE  IInv'
<1> DEFINE a == [request |-> r, id |-> req[r].id, before |-> req[r].before, after |-> req[r].after]
           st == IF req[r].op = "update" THEN "get" ELSE "answered"
<1>1. /\ pc[r] = "record" /\ audits' = audits \cup {a} /\ Go(r, st) /\ pc'[r] = st
      /\ UNCHANGED <<safeguards, clock, req, overtaken>> /\ st \in {"get", "answered"}
  BY DEF Record, Go, IInv, TypeOK
<1>2. /\ req[r] \in RequestRecords /\ req' = [req EXCEPT ![r] = req[r]] /\ Holds(r)
      /\ RowStays(r)
  BY <1>1 DEF IInv, TypeOK
<1>3. req[r].id \in Ids /\ req[r].after \in Rows
  BY <1>1, <1>2 DEF Holds, Statements
<1>4. a \in AuditRecords
  BY <1>2, <1>3 DEF AuditRecords, RequestRecords
<1> HIDE DEF st, a
<1>5. Holds(r)' /\ RowStays(r)' /\ DateChecked(r)' /\ Drawn(r)' /\ UpToDate(r)'
  BY <1>1, <1>2, <1>3 DEF Holds, RowStays, DateChecked, Drawn, UpToDate, Statements
<1>6. /\ audits' \subseteq AuditRecords /\ overtaken' \subseteq Requests
      /\ safeguards' \in [Ids -> Rows \cup {Absent}]
      /\ st \in {"idle"} \cup Statements \cup Final
  BY <1>1, <1>4 DEF IInv, TypeOK, Statements, Final
<1> QED BY <1>1, <1>2, <1>5, <1>6, StepIInv

-----------------------------------------------------------------------------
LEMMA ArriveIInv ==
  ASSUME IInv, NEW r \in Requests, Arrive(r)
  PROVE  IInv'
BY LoadTargetIInv, LoadForUpdateIInv, LoadForVerifyIInv, LoadForInvalidateIInv, LoadForRestoreIInv
   DEF Arrive

LEMMA Invariance == Spec => []IInv
<1>1. IInv /\ [Next]_vars => IInv'
  <2> SUFFICES ASSUME IInv, [Next]_vars PROVE IInv'
    OBVIOUS
  <2>1. CASE UNCHANGED vars
    BY <2>1 DEF IInv, TypeOK, Holds, Verified, RowStays, DateChecked, Drawn, UpToDate, WrittenBack,
                vars
  <2>2. ASSUME NEW r \in Requests, Step(r) PROVE IInv'
    BY <2>2, InsertIInv, UpdateIInv, SyncIInv, VerifyIInv, RereadIInv, ChangeIInv, ReloadIInv,
       RecordIInv, GetIInv DEF Step
  <2> QED BY <2>1, <2>2, TickIInv, ArriveIInv, AbortIInv DEF Next
<1> QED BY InitIInv, <1>1, PTL DEF Spec

(* Every variable keeps its type, and what a request holds fits the         *)
(* statement it is at.                                                     *)
THEOREM TypeCorrect == Spec => []TypeOK
BY Invariance, PTL DEF IInv

(* A safeguard never counts that nobody verified, nor by a verification    *)
(* from the future: for every number of requests, rows, users and dates.   *)
THEOREM CountedWasVerifiedCorrect == Spec => []CountedWasVerified
<1>1. IInv => CountedWasVerified
  BY DEF IInv, CountedWasVerified, Verified
<1> QED BY <1>1, Invariance, PTL

-----------------------------------------------------------------------------
(* The steps that leave a row as it is, and what the others make of it.    *)
LEMMA RowOfStep ==
  ASSUME IInv, Next, NEW s \in Ids
  PROVE  \/ safeguards'[s] = safeguards[s]
         \/ \E r \in Requests :
              /\ Insert(r) /\ safeguards[s] = Absent /\ safeguards'[s] = req[r].after
         \/ \E r \in Requests :
              /\ Update(r) \/ SyncLifecycle(r) \/ Verify(r) \/ ChangeLifecycle(r)
              /\ s = req[r].id /\ safeguards[s] \in Rows /\ pc'[r] # pc[r]
              /\ \A row : Write(r, row) => safeguards'[s] = row
<1> SUFFICES ASSUME safeguards'[s] # safeguards[s]
             PROVE  \E r \in Requests :
                      \/ Insert(r) /\ safeguards[s] = Absent /\ safeguards'[s] = req[r].after
                      \/ /\ Update(r) \/ SyncLifecycle(r) \/ Verify(r) \/ ChangeLifecycle(r)
                         /\ s = req[r].id /\ safeguards[s] \in Rows /\ pc'[r] # pc[r]
                         /\ \A row : Write(r, row) => safeguards'[s] = row
  OBVIOUS
<1>1. safeguards \in [Ids -> Rows \cup {Absent}]
  BY DEF IInv, TypeOK
<1>2. PICK r \in Requests :
        Insert(r) \/ Update(r) \/ SyncLifecycle(r) \/ Verify(r) \/ ChangeLifecycle(r)
  <2>1. ~Tick
    BY DEF Tick
  <2>2. ASSUME NEW q \in Requests PROVE ~Arrive(q) /\ ~Abort(q)
    BY DEF Arrive, LoadTarget, LoadForUpdate, LoadForVerify, LoadForInvalidate, LoadForRestore,
           Enter, Refuse, Abort
  <2>3. ASSUME NEW q \in Requests PROVE ~Reread(q) /\ ~Reload(q) /\ ~Record(q) /\ ~Get(q)
    BY DEF Reread, Reload, Record, Get
  <2> QED BY <2>1, <2>2, <2>3 DEF Next, Step
<1>3. CASE Insert(r)
  <2>1. PICK t \in Ids : ~Exists(t) /\ safeguards' = [safeguards EXCEPT ![t] = req[r].after]
    BY <1>3 DEF Insert
  <2>2. s = t
    BY <1>1, <2>1
  <2>3. safeguards[s] = Absent
    BY <1>1, <2>1, <2>2, AbsentIsNoRow DEF Exists, Rows, LifecycleStates
  <2>4. safeguards'[s] = req[r].after
    BY <1>1, <2>1, <2>2
  <2> QED BY <1>3, <2>3, <2>4
<1>4. CASE Update(r) \/ SyncLifecycle(r) \/ Verify(r) \/ ChangeLifecycle(r)
  <2>1. req[r].id \in Ids /\ safeguards[req[r].id] \in Rows
    BY <1>4, RowOfRequest DEF Update, SyncLifecycle, Verify, ChangeLifecycle
  <2>2. s = req[r].id
    BY <1>1, <1>4, <2>1 DEF Update, SyncLifecycle, Verify, ChangeLifecycle, SetLifecycle, Write
  <2>3. pc'[r] # pc[r]
    BY <1>4 DEF Update, SyncLifecycle, Verify, ChangeLifecycle, Go, IInv, TypeOK
  <2>4. \A row : Write(r, row) => safeguards'[s] = row
    BY <1>1, <2>2 DEF Write
  <2> QED BY <1>4, <2>1, <2>2, <2>3, <2>4
<1> QED BY <1>2, <1>3, <1>4

(* Nobody's text leaves a note but by a request that gives a new one, or   *)
(* by one that another request overtook between its read and its write.    *)
THEOREM EvidenceKeptCorrect == Spec => EvidenceKept
<1> DEFINE Kept == \A s \in Ids : KeepsEvidence(s)
<1>1. IInv /\ [Next]_vars => [Kept]_vars
  <2> SUFFICES ASSUME IInv, Next, NEW s \in Ids,
                      NEW e \in safeguards[s].evidence \ safeguards'[s].evidence
               PROVE  \E r \in Requests :
                        /\ pc[r] \in {"update", "verify", "change"}
                        /\ pc'[r] # pc[r] /\ req[r].id = s
                        /\ GivesNote(r) \/ r \in overtaken
    BY DEF KeepsEvidence
  <2> DEFINE old == safeguards[s]
  <2>1. PICK r \in Requests :
          /\ Update(r) \/ SyncLifecycle(r) \/ Verify(r) \/ ChangeLifecycle(r)
          /\ s = req[r].id /\ old \in Rows /\ pc'[r] # pc[r]
          /\ \A row : Write(r, row) => safeguards'[s] = row
    BY RowOfStep, AbsentIsNoRow
  <2>2. r \notin overtaken => UpToDate(r)
    BY DEF IInv
  <2>3. CASE Update(r)
    <3>1. safeguards'[s] = WrittenBack(old, r) /\ pc[r] = "update"
      BY <2>1, <2>3 DEF Update
    <3>2. safeguards'[s].evidence = req[r].after.evidence
      BY <2>1, <3>1 DEF WrittenBack, Rows
    <3>3. r \notin overtaken => old = req[r].before
      BY <2>1, <2>2, <3>1 DEF UpToDate
    <3>4. req[r].after.evidence \in {req[r].before.evidence, {r}}
      BY <3>1 DEF IInv, Drawn
    <3> QED BY <2>1, <3>1, <3>2, <3>3, <3>4 DEF GivesNote
  <2>4. CASE SyncLifecycle(r)
    <3> DEFINE new == [old EXCEPT !.state = req[r].after.state]
    <3>1. safeguards'[s] = old \/ safeguards'[s] = new
      BY <2>1, <2>4 DEF SyncLifecycle, SetLifecycle
    <3>2. new.evidence = old.evidence
      BY <2>1 DEF Rows
    <3> QED BY <3>1, <3>2
  <2>5. CASE Verify(r)
    BY <2>1, <2>5 DEF Verify, GivesNote
  <2>6. CASE ChangeLifecycle(r)
    <3> DEFINE new == [old EXCEPT !.state = req[r].to,
                                  !.evidence = req[r].before.evidence \cup {r}]
    <3>1. (safeguards'[s] = old \/ safeguards'[s] = new) /\ pc[r] = "change"
      BY <2>1, <2>6 DEF ChangeLifecycle, SetLifecycle
    <3>2. new.evidence = req[r].before.evidence \cup {r}
      BY <2>1 DEF Rows
    <3>3. r \notin overtaken => old = req[r].before
      BY <2>1, <2>2, <3>1 DEF UpToDate
    <3> QED BY <2>1, <3>1, <3>2, <3>3
  <2> QED BY <2>1, <2>3, <2>4, <2>5, <2>6
<1> QED BY <1>1, Invariance, PTL DEF Spec, EvidenceKept

(* Only a verification replaces a verification, and to its own.  Without   *)
(* one a safeguard only expires when its verification has run out, becomes *)
(* invalid, or is restored to pending, unless the request was overtaken.   *)
THEOREM LawfulLifecycleCorrect == Spec => LawfulLifecycle
<1> DEFINE Lawful == \A s \in Ids : LawfulStep(s)
<1>1. IInv /\ [Next]_vars => [Lawful]_vars
  <2> SUFFICES ASSUME IInv, Next, NEW s \in Ids PROVE LawfulStep(s)
    OBVIOUS
  <2> DEFINE old == safeguards[s]
  <2>1. ASSUME safeguards'[s] = old PROVE LawfulStep(s)
    BY <2>1, AbsentIsNoRow DEF IInv, TypeOK, LawfulStep, SameVerification
  <2>2. ASSUME NEW r \in Requests, Insert(r), old = Absent, safeguards'[s] = req[r].after
        PROVE  LawfulStep(s)
    BY <2>2 DEF Insert, IInv, DateChecked, LawfulStep
  <2>3. ASSUME NEW r \in Requests,
               Update(r) \/ SyncLifecycle(r) \/ Verify(r) \/ ChangeLifecycle(r),
               s = req[r].id, old \in Rows, pc'[r] # pc[r],
               \A row : Write(r, row) => safeguards'[s] = row
        PROVE  LawfulStep(s)
    <3>1. Holds(r) /\ old # Absent /\ (r \notin overtaken => UpToDate(r))
      BY <2>3, AbsentIsNoRow DEF IInv, TypeOK
    <3>2. CASE Update(r)
      <4>1. safeguards'[s] = WrittenBack(old, r)
        BY <2>3, <3>2 DEF Update
      <4>2. /\ safeguards'[s].state = old.state /\ safeguards'[s].verifiedAt = old.verifiedAt
            /\ safeguards'[s].verifiedBy = old.verifiedBy
        BY <2>3, <4>1 DEF WrittenBack, Rows
      <4> QED BY <3>1, <4>2 DEF LawfulStep, SameVerification
    <3>3. CASE SyncLifecycle(r)
      <4>1. /\ pc[r] = "sync" /\ req[r].before \in Rows /\ req[r].after \in Rows
            /\ req[r].before.state = "active" /\ req[r].after.state = "expired"
        BY <3>1, <3>3 DEF SyncLifecycle, Holds
      <4>2. \/ safeguards'[s] = old
            \/ old.state = "active" /\ safeguards'[s] = [old EXCEPT !.state = "expired"]
        BY <2>3, <3>3, <4>1 DEF SyncLifecycle, SetLifecycle
      <4>3. ASSUME old.state = "active", safeguards'[s] = [old EXCEPT !.state = "expired"]
            PROVE  LawfulStep(s)
        <5>1. /\ safeguards'[s].state = "expired" /\ safeguards'[s].verifiedAt = old.verifiedAt
              /\ safeguards'[s].verifiedBy = old.verifiedBy
          BY <2>3, <4>3 DEF Rows
        <5>2. ExpiredAt(clock, req[r].before.verifiedAt, req[r].after.interval)
          BY <4>1 DEF IInv, Drawn
        <5>3. ASSUME r \notin overtaken
              PROVE  ExpiredAt(clock, old.verifiedAt, old.interval)
          <6>1. old = WrittenBack(req[r].before, r)
            BY <2>3, <3>1, <4>1, <5>3 DEF UpToDate
          <6>2. old.verifiedAt = req[r].before.verifiedAt /\ old.interval = req[r].after.interval
            BY <4>1, <6>1 DEF WrittenBack, Rows
          <6> QED BY <5>2, <6>2
        <5>4. ExpiredBy(r, old, safeguards'[s])
          BY <4>1, <4>3, <5>1, <5>3 DEF ExpiredBy
        <5> QED BY <2>3, <5>1, <5>4 DEF LawfulStep, SameVerification
      <4> QED BY <2>1, <4>2, <4>3
    <3>4. CASE Verify(r)
      <4>1. safeguards'[s] = [old EXCEPT !.state = "active", !.verifiedAt = req[r].date,
                                         !.verifiedBy = req[r].user, !.evidence = {r}]
        BY <2>3, <3>4 DEF Verify, SetLifecycle, Rows
      <4>2. VerifiedBy(r, old, safeguards'[s])
        BY <3>4, <4>1 DEF VerifiedBy, Verify
      <4> QED BY <2>3, <4>2 DEF LawfulStep
    <3>5. CASE ChangeLifecycle(r)
      <4> DEFINE new == [old EXCEPT !.state = req[r].to,
                                    !.evidence = req[r].before.evidence \cup {r}]
      <4>1. /\ \/ safeguards'[s] = old
               \/ old.state \in From(req[r].op) /\ safeguards'[s] = new
            /\ pc[r] = "change"
        BY <2>3, <3>5 DEF ChangeLifecycle, SetLifecycle
      <4>2. ASSUME old.state \in From(req[r].op), safeguards'[s] = new
            PROVE  LawfulStep(s)
        <5>1. /\ safeguards'[s].state = req[r].to /\ safeguards'[s].verifiedAt = old.verifiedAt
              /\ safeguards'[s].verifiedBy = old.verifiedBy
          BY <2>3, <4>2 DEF Rows
        <5>2. req[r].to = "active" => r \in overtaken
          BY <2>3, <3>1, <4>1, <4>2 DEF UpToDate, Holds, From
        <5>3. ChangedBy(r, old, safeguards'[s])
          BY <3>1, <4>1, <4>2, <5>1, <5>2 DEF ChangedBy, Holds, From
        <5> QED BY <2>3, <5>1, <5>3 DEF LawfulStep, SameVerification
      <4> QED BY <2>1, <4>1, <4>2
    <3> QED BY <2>3, <3>2, <3>3, <3>4, <3>5
  <2> QED BY <2>1, <2>2, <2>3, RowOfStep
<1> QED BY <1>1, Invariance, PTL DEF Spec, LawfulLifecycle
=============================================================================
