------------------------- MODULE CoverageAlgorithm --------------------------
(***************************************************************************)
(* What an evaluation computes: the snapshot of its input, the paths from  *)
(* causes to consequences, the layers that count, the coverage and the     *)
(* residual risk.  These are operators; SafeguardRegister applies them to  *)
(* a register that changes.                                                *)
(*                                                                         *)
(* Effectiveness is in units of 1/Scale and a probability is a fraction    *)
(* <<numerator, denominator>>.  The code computes with float64; where its  *)
(* rounding can reach a result, which is in the ceiling of the residual    *)
(* risk, the result is any value that rounding can give.                   *)
(*                                                                         *)
(* An operator with _Mutant in its name is not part of the model: it is the *)
(* operator after it with a plausible bug, for mutation checks.            *)
(***************************************************************************)
EXTENDS Naturals, SequencesExt

CONSTANTS Scale,   \* an effectiveness of Scale is 1
          Precision,  \* computed, a product of layers is less than 1/Precision off
          Second,  \* units of time in a second
          Day,     \* units of time in a day
          Never,   \* the date of no verification
          Lower    \* Lower[p]: the statement p in lower case; Lower[Blank] = Blank

ASSUME ScaleAssumption ==
  /\ Scale \in Nat \ {0} /\ Precision \in Nat \ {0} /\ Second \in Nat \ {0} /\ Day \in Nat \ {0}
  /\ Day % Second = 0 /\ Never \notin Nat
  /\ "unspecified" \in DOMAIN Lower /\ Lower["unspecified"] = "unspecified"

Blank == ""
NoKey == 0   \* the independence key that is blank

-----------------------------------------------------------------------------
(* The snapshot: rows in the order of their keys and ids, times in seconds.*)
Truncated(t) == IF t = Never THEN Never ELSE t - (t % Second)

Before_Mutant(a, b) == a.key < b.key   \* rows of one key in any order

Before(a, b) == a.key < b.key \/ (a.key = b.key /\ a.id < b.id)

(* sort.Slice: a row comes after those before it; of two rows that neither *)
(* comes before the other, the one listed first.                           *)
Place(rows, i) ==
  Cardinality({j \in DOMAIN rows : \/ Before(rows[j], rows[i])
                                   \/ ~ Before(rows[i], rows[j]) /\ j < i}) + 1

Sorted(rows) == [i \in DOMAIN rows |-> rows[CHOOSE j \in DOMAIN rows : Place(rows, j) = i]]

NewSnapshot_Mutant(rows, scenario, now) ==   \* the reference time is not truncated
  [referenceTime |-> now, scenario |-> scenario,
   safeguards |-> [i \in DOMAIN rows |-> [Sorted(rows)[i] EXCEPT !.verifiedAt = Truncated(@)]]]

NewSnapshot(rows, scenario, now) ==
  LET ordered == Sorted(rows) IN
  [referenceTime |-> Truncated(now), scenario |-> scenario,
   safeguards |-> [i \in DOMAIN rows |->
                     [ordered[i] EXCEPT !.verifiedAt = Truncated(@)]]]

(* A path for each pair of a cause and a consequence.  Blank statements    *)
(* and those that differ only in case from an earlier one are skipped.     *)
splitStatements_Mutant(parts) ==   \* compared as they are spelled
  LET Clean[i \in 0..Len(parts)] ==
        IF i = 0 THEN <<>>
        ELSE LET clean == Clean[i - 1] IN
             IF parts[i] = Blank \/ \E j \in DOMAIN clean : clean[j] = parts[i]
             THEN clean
             ELSE Append(clean, parts[i])
  IN IF Clean[Len(parts)] = <<>> THEN <<"unspecified">> ELSE Clean[Len(parts)]

splitStatements(parts) ==
  LET Clean[i \in 0..Len(parts)] ==
        IF i = 0 THEN <<>>
        ELSE LET clean == Clean[i - 1] IN
             IF parts[i] = Blank \/ \E j \in DOMAIN clean : Lower[clean[j]] = Lower[parts[i]]
             THEN clean
             ELSE Append(clean, parts[i])
  IN IF Clean[Len(parts)] = <<>> THEN <<"unspecified">> ELSE Clean[Len(parts)]

BuildGraph(snapshot) ==
  LET causes == splitStatements(snapshot.scenario.cause)
      consequences == splitStatements(snapshot.scenario.consequence)
      FromCause(c) == [j \in DOMAIN consequences |->
                         [cause |-> c, consequence |-> consequences[j]]]
  IN FlattenSeq([i \in DOMAIN causes |-> FromCause(causes[i])])

(* Of the eligible safeguards that share a key, one is retained; without a *)
(* key none is.                                                            *)
ineligibleReason_Mutant(s, reference) ==   \* a verification after the reference time
  \/ s.state # "active"
  \/ s.effectiveness = 0 \/ s.effectiveness > Scale
  \/ s.verifiedAt = Never
  \/ s.interval = 0
  \/ reference > s.verifiedAt + s.interval * Day
  \/ s.verifiedAt > reference

ineligibleReason(s, reference) ==
  \/ s.state # "active"
  \/ s.effectiveness = 0 \/ s.effectiveness > Scale
  \/ s.verifiedAt = Never
  \/ s.interval = 0
  \/ reference > s.verifiedAt + s.interval * Day

Stronger_MutantWeakest(a, b) ==   \* ascending
  \/ a.effectiveness < b.effectiveness
  \/ a.effectiveness = b.effectiveness /\ a.id < b.id

Stronger_MutantLatest(a, b) ==    \* the later of equals
  \/ a.effectiveness > b.effectiveness
  \/ a.effectiveness = b.effectiveness /\ a.id > b.id

Stronger(a, b) ==
  \/ a.effectiveness > b.effectiveness
  \/ a.effectiveness = b.effectiveness /\ a.id < b.id

IdsOf(layers) == {s.id : s \in layers}

(* sort.Strings *)
Ascending(keys) ==
  [i \in 1..Cardinality(keys) |-> CHOOSE k \in keys : Cardinality({other \in keys : other < k}) = i - 1]

ResolveIndependence(safeguards, reference) ==
  LET all == ToSet(safeguards)
      rejected == {s \in all : s.key = NoKey \/ ineligibleReason(s, reference)}
      keys == {s.key : s \in all \ rejected}
      Group(k) == {s \in all \ rejected : s.key = k}
      Kept(k) == CHOOSE s \in Group(k) : \A other \in Group(k) \ {s} : Stronger(s, other)
      Ignored(k) == Group(k) \ {Kept(k)}
      order == Ascending(keys)
  IN [retained |-> [i \in DOMAIN order |-> Kept(order[i])],
      deduplicated |-> {[key |-> k, kept |-> Kept(k).id, ignored |-> IdsOf(Ignored(k))] :
                          k \in {k \in keys : Ignored(k) # {}}},
      rejected |-> rejected]

(* The score: layers fail independently of each other.                     *)
Remaining(layers) ==
  LET After[i \in 0..Len(layers)] ==
        IF i = 0 THEN <<1, 1>>
        ELSE <<After[i - 1][1] * (Scale - layers[i].effectiveness), After[i - 1][2] * Scale>>
  IN After[Len(layers)]

Covered(remaining) == 2 * remaining[1] <= remaining[2]   \* coveredThreshold

(* The residual risk is the ceiling of a float64 product, which is exact    *)
(* if every layer fails with a probability of 0 or 1/2.                    *)
AtLeastOne(risk) == IF risk < 1 THEN 1 ELSE risk

Ceiling(initial, remaining) == (initial * remaining[1] + remaining[2] - 1) \div remaining[2]

Residuals_Mutant(initial, layers) ==   \* rounded down, plus one
  {AtLeastOne(1 + (initial * Remaining(layers)[1]) \div Remaining(layers)[2])}

(* c is the ceiling of some risk that is less than initial/Precision off.  *)
IsRounding(c, initial, remaining) ==
  LET risk == initial * remaining[1] * Precision   \* in units of 1/(Precision * remaining[2])
  IN /\ risk < (c * Precision + initial) * remaining[2]
     /\ c * Precision * remaining[2] < risk + (Precision + initial) * remaining[2]

Residuals(initial, layers) ==
  LET remaining == Remaining(layers)
      inexact == \E i \in DOMAIN layers : (2 * layers[i].effectiveness) % Scale # 0
  IN {AtLeastOne(c) : c \in IF inexact THEN {c \in 0..(initial + 1) : IsRounding(c, initial, remaining)}
                           ELSE {Ceiling(initial, remaining)}}

(* 0 for low, 1 for medium, 2 for high and 3 for critical.                 *)
RiskRank(score) == Cardinality({bound \in {6, 12, 20} : score >= bound})

Evaluate(snapshot) ==
  LET paths == BuildGraph(snapshot)
      layers == ResolveIndependence(snapshot.safeguards, snapshot.referenceTime)
      remaining == Remaining(layers.retained)
  IN [layers |-> layers,
      remaining |-> remaining,
      paths |-> paths,
      uncovered |-> IF Covered(remaining) THEN <<>> ELSE paths,
      residuals |-> Residuals(snapshot.scenario.initial, layers.retained)]
=============================================================================
