------------------------- MODULE SafeguardRegister --------------------------
(***************************************************************************)
(* The safeguards of one scenario as they are registered, changed and grow *)
(* old, and what an evaluation of them at any moment computes.  A change   *)
(* here is what the handlers of Safeguards do to a row all in all.         *)
(***************************************************************************)
EXTENDS CoverageAlgorithm

CONSTANTS Keys,             \* independence keys, in their order; NoKey is stored for spaces
          Effectivenesses,  \* the degrees of effectiveness that clients give
          Intervals,        \* test intervals, in days
          Scenarios,        \* [cause, consequence, initial]: the scenarios evaluated
          Ahead,            \* how far in the future a verification may be dated
          MaxRows, MaxTime  \* bounds

ASSUME RegisterAssumption ==
  /\ Keys \subseteq Nat /\ Effectivenesses \subseteq 1..Scale /\ Intervals \subseteq Nat \ {0}
  /\ Ahead \in Nat /\ MaxRows \in Nat /\ MaxTime \in Nat
  /\ \A s \in Scenarios :
       /\ s.initial \in Nat \ {0} /\ 2 * Scale * s.initial <= Precision
       /\ s.cause \in Seq(DOMAIN Lower) /\ s.consequence \in Seq(DOMAIN Lower)

VARIABLES rows,      \* of the table safeguards, as a query may list them
          now,
          scenario

registerVars == <<rows, now, scenario>>

(* Rows as the handlers leave them: validated, and verified to be active.  *)
(* A row in another state, here pending, counts for nothing.               *)
Rows(id) ==
  [id : {id}, key : Keys, effectiveness : Effectivenesses, interval : Intervals,
   verifiedAt : 0..(now + Ahead), state : {"active"}]
  \cup
  [id : {id}, key : Keys, effectiveness : Effectivenesses, interval : Intervals,
   verifiedAt : {Never}, state : {"pending"}]

RegisterInit == rows = <<>> /\ now = 0 /\ scenario \in Scenarios

Register ==
  /\ Len(rows) < MaxRows
  /\ \E row \in Rows(Len(rows) + 1) : rows' = Append(rows, row)
  /\ UNCHANGED <<now, scenario>>

Change ==
  /\ \E i \in DOMAIN rows : \E row \in Rows(i) : rows' = [rows EXCEPT ![i] = row]
  /\ UNCHANGED <<now, scenario>>

Tick ==
  /\ now < MaxTime
  /\ now' = now + 1
  /\ UNCHANGED <<rows, scenario>>

RegisterNext == Register \/ Change \/ Tick

RegisterSpec == RegisterInit /\ [][RegisterNext]_registerVars

-----------------------------------------------------------------------------
snapshot == NewSnapshot(rows, scenario, now)
result == Evaluate(snapshot)
Listed == {rows[i] : i \in DOMAIN rows}

AtMost(p, q) == p[1] * q[2] <= q[1] * p[2]   \* p <= q

(* VerificationExpiresAt and IsEffectiveAt of the row: what the register   *)
(* shows of it, to the unit of time.                                       *)
IsEffectiveAt(row, at) ==
  row.state = "active" /\ row.verifiedAt # Never /\ at <= row.verifiedAt + row.interval * Day

(* What counts according to what the register shows. *)
InForce(row, at) == row.key # NoKey /\ IsEffectiveAt(row, at)

(* The coverage by its definition, without sorting and grouping: a key     *)
(* fails as its best effective layer does, and the keys fail independently.*)
CoverageAsDefined ==
  LET frozen == snapshot
      counting == {s \in ToSet(frozen.safeguards) : InForce(s, frozen.referenceTime)}
      Best(k) == Max({s.effectiveness : s \in {c \in counting : c.key = k}})
      Combine(k, p) == <<p[1] * (Scale - Best(k)), p[2] * Scale>>
  IN result.remaining = FoldSet(Combine, <<1, 1>>, {s.key : s \in counting})

(* Every row is retained, ignored for a stronger or earlier one of its key *)
(* that is retained and named as kept, or rejected, and only one of these. *)
RowsAccountedFor ==
  LET layers == result.layers
      retained == IdsOf(ToSet(layers.retained))
      rejected == IdsOf(layers.rejected)
      ignored == UNION {d.ignored : d \in layers.deduplicated}
  IN /\ retained \cup rejected \cup ignored = DOMAIN rows
     /\ retained \cap rejected = {} /\ retained \cap ignored = {} /\ rejected \cap ignored = {}
     /\ \A i, j \in retained : rows[i].key = rows[j].key => i = j
     /\ \A d \in layers.deduplicated :
          /\ d.kept \in retained /\ rows[d.kept].key = d.key
          /\ \A i \in d.ignored :
               /\ rows[i].key = d.key
               /\ \/ rows[i].effectiveness < rows[d.kept].effectiveness
                  \/ rows[i].effectiveness = rows[d.kept].effectiveness /\ d.kept < i

(* An evaluation is what its definition says: the coverage, and for each   *)
(* row why it counts or not.                                               *)
EvaluationAsDefined == CoverageAsDefined /\ RowsAccountedFor

(* The order in which the database lists the rows shows in nothing, the    *)
(* snapshot and so its hash included.                                      *)
OrderIrrelevant ==
  LET frozen == snapshot IN
  \A p \in Bijection(DOMAIN rows, DOMAIN rows) :
    NewSnapshot([i \in DOMAIN rows |-> rows[p[i]]], scenario, now) = frozen

(* A safeguard with a key that the register shows as effective is not      *)
(* rejected, and one that counts is effective or has expired within this   *)
(* second.                                                                 *)
EffectiveCounts ==
  LET rejected == IdsOf(result.layers.rejected) IN
  \A row \in Listed :
    /\ InForce(row, now) => row.id \notin rejected
    /\ row.id \notin rejected =>
         InForce(row, now) \/ now - (row.verifiedAt + row.interval * Day) \in 1..(Second - 1)

(* Whatever the rounding, the residual risk is between 1 and the initial   *)
(* risk; so no evaluation ranks a scenario worse than it was.              *)
RiskFalls ==
  \A risk \in result.residuals :
    /\ risk \in 1..scenario.initial
    /\ RiskRank(risk) <= RiskRank(scenario.initial)

(* Each cause leads to each consequence by one path, however the statements*)
(* are repeated or spelled, and a scenario always has a path.              *)
PathsComplete ==
  LET paths == result.paths
      Named(parts) == IF \A i \in DOMAIN parts : parts[i] = Blank
                      THEN {"unspecified"}
                      ELSE {Lower[p] : p \in ToSet(parts) \ {Blank}}
      Leads(path) == <<Lower[path.cause], Lower[path.consequence]>>
  IN /\ {Leads(path) : path \in ToSet(paths)} =
          Named(scenario.cause) \X Named(scenario.consequence)
     /\ \A i, j \in DOMAIN paths : Leads(paths[i]) = Leads(paths[j]) => i = j

(* Registering a safeguard never lowers the coverage and never raises the  *)
(* residual risk, whatever its key and whatever it displaces: without any  *)
(* one of the rows the result would be no better.                          *)
AddingNeverHurts ==
  LET new == result
      Without(i) == Evaluate(NewSnapshot(RemoveAt(rows, i), scenario, now))
      Factors(r) == [i \in DOMAIN r.layers.retained |-> r.layers.retained[i].effectiveness]
      Improves(old) ==
        /\ AtMost(new.remaining, old.remaining)
        /\ \/ Factors(new) = Factors(old)   \* the same product
           \/ \A after \in new.residuals, before \in old.residuals : after <= before
  IN \A i \in DOMAIN rows : Improves(Without(i))

(* Layers only help: neither all of them together nor one that is added    *)
(* leaves a scenario worse than it was without.                            *)
LayersNeverHurt == RiskFalls /\ AddingNeverHurts

(* While nothing is changed, the coverage only falls: no safeguard begins  *)
(* to count by itself, not even one whose verification is dated ahead.     *)
WaitingNeverHelps ==
  LET remaining == result.remaining
      RemainingAt(t) == Evaluate(NewSnapshot(rows, scenario, t)).remaining
  IN \A t \in now..MaxTime : AtMost(remaining, RemainingAt(t))

=============================================================================
