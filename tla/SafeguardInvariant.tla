------------------------- MODULE SafeguardInvariant -------------------------
(***************************************************************************)
(* The inductive invariant of Safeguards.  Beyond the properties it says   *)
(* what the statements have to find: a row that was read is still there, a *)
(* date that was checked is still not in the future, a restore to active    *)
(* still finds a verification, and the row of a request that nobody         *)
(* overtook is still the one that was read.                                *)
(***************************************************************************)
EXTENDS Safeguards

RowStays(r) ==
  pc[r] \in (Statements \ {"insert"}) \cup {"answered"} => safeguards[req[r].id] \in Rows

(* What r is about to store is dated no later than is allowed.             *)
DateChecked(r) ==
  /\ pc[r] = "insert" =>
       req[r].after.verifiedAt <= clock + Tolerance /\ req[r].after.state # "invalid"
  /\ pc[r] = "verify" => req[r].date <= clock + Tolerance
  /\ pc[r] \in {"reread", "change"} /\ req[r].to = "active" =>
       safeguards[req[r].id].verifiedAt # 0

(* An update expires what it read as expired, and keeps or gives the note. *)
Drawn(r) ==
  pc[r] \in {"update", "sync"} =>
    LET before == req[r].before
        after == req[r].after IN
    /\ after.evidence \in {before.evidence, {r}}
    /\ after.state # before.state => ExpiredAt(clock, before.verifiedAt, after.interval)

(* The row is as r read it, or as r wrote it since.                        *)
UpToDate(r) ==
  LET row == safeguards[req[r].id] IN
  /\ pc[r] \in {"update", "change"} => row = req[r].before
  /\ pc[r] = "sync" => row = WrittenBack(req[r].before, r)
  /\ pc[r] \in {"reread", "change"} /\ req[r].to = "active" => row.state = "active"

Verified(row) == WasVerified(row) /\ row.verifiedAt <= clock + Tolerance

IInv ==
  /\ TypeOK
  /\ \A s \in Ids : Verified(safeguards[s])
  /\ \A r \in Requests :
       /\ RowStays(r) /\ DateChecked(r) /\ Drawn(r)
       /\ r \notin overtaken => UpToDate(r)
=============================================================================
