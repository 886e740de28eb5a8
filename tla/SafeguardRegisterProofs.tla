---------------------- MODULE SafeguardRegisterProofs -----------------------
(***************************************************************************)
(* What an evaluation makes of a register of any size.                     *)
(*                                                                         *)
(*   1. The rows: RegisterInv.                                             *)
(*   2. Sorting: Before is a total order on rows of different ids, so the  *)
(*      place of a row is the number of rows before it, however they are   *)
(*      listed, and by counting every place is taken once.                 *)
(*   3. Truncation to seconds keeps the order of a time and an expiry.     *)
(*   4. Where each layer of one product has one at least as strong of its  *)
(*      key in another, the other is at most the first, and reduced by a   *)
(*      part of Scale unless the factors are the same: by induction.       *)
(*   5. The layers of a snapshot: the strongest of each key, in the order  *)
(*      of the keys.                                                       *)
(*   6. Their product is the fold of the definition, which takes the keys  *)
(*      in any order.                                                      *)
(*   7. The product grows as rows expire, and                              *)
(*   8. falls as rows are added, by more than rounding can undo: so does   *)
(*      the residual risk.                                                 *)
(*   9. The statements, and the paths between them.                        *)
(***************************************************************************)
EXTENDS SafeguardRegister, FiniteSetTheorems, SequenceTheorems, WellFoundedInduction, TLAPS

-----------------------------------------------------------------------------
(* 1. The rows.                                                            *)

Row == [id : Nat, key : Keys, effectiveness : Effectivenesses, interval : Intervals,
        verifiedAt : Nat \cup {Never}, state : {"active", "pending"}]

(* Rows are numbered as they are registered, and verified if they are      *)
(* active.                                                                 *)
RegisterInv ==
  /\ now \in Nat /\ scenario \in Scenarios
  /\ rows \in Seq(Row)
  /\ \A i \in DOMAIN rows : rows[i] \in Rows(i)

LEMMA RowsAreRows == ASSUME NEW id \in Nat, now \in Nat PROVE Rows(id) \subseteq Row
<1>1. 0..(now + Ahead) \subseteq Nat
  BY RegisterAssumption
<1> QED BY <1>1 DEF Rows, Row

LEMMA RegisterInvariance == RegisterSpec => []RegisterInv
<1>1. RegisterInit => RegisterInv
  BY DEF RegisterInit, RegisterInv
<1>2. RegisterInv /\ [RegisterNext]_registerVars => RegisterInv'
  <2> SUFFICES ASSUME RegisterInv, [RegisterNext]_registerVars PROVE RegisterInv'
    OBVIOUS
  <2>1. CASE Register
    <3>1. PICK row \in Rows(Len(rows) + 1) : rows' = Append(rows, row)
      BY <2>1 DEF Register
    <3>2. UNCHANGED <<now, scenario>>
      BY <2>1 DEF Register
    <3>3. row \in Row
      BY <3>1, RowsAreRows DEF RegisterInv
    <3>4. \A i \in DOMAIN rows' : rows'[i] \in Rows(i)
      BY <3>1, <3>3 DEF RegisterInv
    <3>5. \A i : Rows(i)' = Rows(i)
      BY <3>2 DEF Rows
    <3> QED BY <3>1, <3>2, <3>3, <3>4, <3>5 DEF RegisterInv
  <2>2. CASE Change
    <3>1. PICK n \in DOMAIN rows : \E row \in Rows(n) : rows' = [rows EXCEPT ![n] = row]
      BY <2>2 DEF Change
    <3>2. PICK row \in Rows(n) : rows' = [rows EXCEPT ![n] = row]
      BY <3>1
    <3>3. UNCHANGED <<now, scenario>>
      BY <2>2 DEF Change
    <3>4. row \in Row
      BY <3>1, <3>2, RowsAreRows DEF RegisterInv
    <3>5. \A i \in DOMAIN rows' : rows'[i] \in Rows(i)
      BY <3>2 DEF RegisterInv
    <3>6. \A i : Rows(i)' = Rows(i)
      BY <3>3 DEF Rows
    <3> QED BY <3>2, <3>3, <3>4, <3>5, <3>6 DEF RegisterInv
  <2>3. CASE Tick
    <3>1. rows' = rows /\ scenario' = scenario /\ now' = now + 1
      BY <2>3 DEF Tick
    <3>2. 0..(now + Ahead) \subseteq 0..(now' + Ahead)
      BY <3>1, RegisterAssumption DEF RegisterInv
    <3>3. \A i : Rows(i) \subseteq Rows(i)'
      BY <3>2 DEF Rows
    <3> QED BY <3>1, <3>3 DEF RegisterInv
  <2>4. CASE UNCHANGED registerVars
    BY <2>4 DEF registerVars, RegisterInv, Rows
  <2> QED BY <2>1, <2>2, <2>3, <2>4 DEF RegisterNext
<1> QED BY <1>1, <1>2, PTL DEF RegisterSpec

-----------------------------------------------------------------------------
(* 2. Sorting.                                                             *)

(* A list of n rows of different ids. *)
Listing(list, n) ==
  /\ DOMAIN list = 1..n
  /\ \A i \in 1..n : list[i].key \in Nat /\ list[i].id \in Nat
  /\ \A i, j \in 1..n : list[i].id = list[j].id => i = j

Preceding(list, i) == {j \in DOMAIN list : Before(list[j], list[i])}

(* No two rows tie, so a row's place does not depend on where it is listed. *)
LEMMA PlaceByRows ==
  ASSUME NEW n \in Nat, NEW list, Listing(list, n), NEW i \in 1..n
  PROVE  Place(list, i) = Cardinality(Preceding(list, i)) + 1
<1>1. \A j \in 1..n : ~ Before(list[i], list[j]) /\ j < i => Before(list[j], list[i])
  BY DEF Before, Listing
<1>2. {j \in DOMAIN list : \/ Before(list[j], list[i])
                           \/ ~ Before(list[i], list[j]) /\ j < i} = Preceding(list, i)
  BY <1>1 DEF Preceding, Listing
<1> QED BY <1>2 DEF Place

(* Every place from 1 to n is that of one row.                             *)
LEMMA PlacesTaken ==
  ASSUME NEW n \in Nat, NEW list, Listing(list, n)
  PROVE  /\ \A i \in 1..n : Place(list, i) \in 1..n
         /\ \A i, j \in 1..n : Place(list, i) = Place(list, j) => i = j
         /\ \A p \in 1..n : \E i \in 1..n : Place(list, i) = p
<1> DEFINE place == [i \in 1..n |-> Place(list, i)]
<1>1. IsFiniteSet(1..n) /\ Cardinality(1..n) = n
  BY FS_Interval
<1>2. ASSUME NEW i \in 1..n
      PROVE  /\ IsFiniteSet(Preceding(list, i)) /\ Cardinality(Preceding(list, i)) \in 0..n - 1
  <2>1. Preceding(list, i) \in SUBSET (1..n \ {i})
    BY DEF Preceding, Listing, Before
  <2>2. IsFiniteSet(1..n \ {i}) /\ Cardinality(1..n \ {i}) = n - 1
    BY <1>1, FS_RemoveElement
  <2>3. /\ IsFiniteSet(Preceding(list, i)) /\ Cardinality(Preceding(list, i)) <= n - 1
        /\ Cardinality(Preceding(list, i)) \in Nat
    BY <2>1, <2>2, FS_Subset, FS_CardinalityType
  <2> QED BY <2>3
<1>3. ASSUME NEW i \in 1..n, NEW j \in 1..n, Before(list[i], list[j])
      PROVE  Place(list, i) < Place(list, j)
  <2>1. Preceding(list, i) \in SUBSET Preceding(list, j)
    BY <1>3 DEF Preceding, Listing, Before
  <2>2. i \in Preceding(list, j) /\ i \notin Preceding(list, i)
    BY <1>3 DEF Preceding, Listing, Before
  <2>3. Cardinality(Preceding(list, i)) < Cardinality(Preceding(list, j))
    <3>1. /\ Cardinality(Preceding(list, i)) <= Cardinality(Preceding(list, j))
          /\ Cardinality(Preceding(list, j)) = Cardinality(Preceding(list, i)) =>
               Preceding(list, j) = Preceding(list, i)
      BY <1>2, <2>1, FS_Subset
    <3> QED BY <1>2, <2>2, <3>1
  <2> QED BY <1>2, <2>3, PlaceByRows
<1>4. \A i \in 1..n : Place(list, i) \in 1..n
  BY <1>2, PlaceByRows
<1>5. \A i, j \in 1..n : Place(list, i) = Place(list, j) => i = j
  <2> SUFFICES ASSUME NEW i \in 1..n, NEW j \in 1..n, Place(list, i) = Place(list, j), i # j
               PROVE  FALSE
    OBVIOUS
  <2>1. Before(list[i], list[j]) \/ Before(list[j], list[i])
    BY DEF Listing, Before
  <2> QED BY <1>3, <1>4, <2>1
<1>6. place \in Injection(1..n, 1..n)
  BY <1>4, <1>5 DEF Injection, IsInjective
<1>7. place \in Surjection(1..n, 1..n)
  BY <1>1, <1>6, FS_Injection
<1>8. \A p \in 1..n : \E i \in 1..n : place[i] = p
  BY <1>7 DEF Surjection
<1> QED BY <1>4, <1>5, <1>8

(* The sorted list holds at p the row whose place is p.                    *)
LEMMA SortedByPlace ==
  ASSUME NEW n \in Nat, NEW list, Listing(list, n), NEW i \in 1..n
  PROVE  DOMAIN Sorted(list) = 1..n /\ Place(list, i) \in 1..n /\ Sorted(list)[Place(list, i)] = list[i]
<1>1. (CHOOSE j \in 1..n : Place(list, j) = Place(list, i)) = i
  BY PlacesTaken
<1> QED BY <1>1, PlacesTaken DEF Sorted, Listing

(* Listed in another order, a row has the same place.                      *)
LEMMA PlaceOfListed ==
  ASSUME NEW n \in Nat, NEW list, Listing(list, n), NEW p \in Bijection(1..n, 1..n), NEW i \in 1..n
  PROVE  /\ Listing([j \in 1..n |-> list[p[j]]], n)
         /\ Place([j \in 1..n |-> list[p[j]]], i) = Place(list, p[i])
<1> DEFINE other == [j \in 1..n |-> list[p[j]]]
<1>1. p \in [1..n -> 1..n] /\ \A j, k \in 1..n : p[j] = p[k] => j = k
  BY DEF Bijection, Injection, IsInjective
<1>2. \A k \in 1..n : \E j \in 1..n : p[j] = k
  BY DEF Bijection, Surjection
<1>3. Listing(other, n)
  BY <1>1 DEF Listing
<1>4. Cardinality(Preceding(other, i)) = Cardinality(Preceding(list, p[i]))
  <2> DEFINE from == Preceding(other, i)
             to == Preceding(list, p[i])
             f == [j \in from |-> p[j]]
  <2>1. from = {j \in 1..n : Before(list[p[j]], list[p[i]])} /\ to = {k \in 1..n : Before(list[k], list[p[i]])}
    BY DEF Preceding, Listing
  <2> HIDE DEF from, to
  <2>2. f \in [from -> to] /\ \A j, k \in from : f[j] = f[k] => j = k
    BY <1>1, <2>1
  <2>3. \A k \in to : \E j \in from : f[j] = k
    BY <1>2, <2>1
  <2>4. f \in Bijection(from, to)
    BY <2>2, <2>3 DEF Bijection, Injection, Surjection, IsInjective
  <2>5. ExistsBijection(from, to)
    BY <2>4 DEF ExistsBijection
  <2>6. IsFiniteSet(from)
    <3>1. from \in SUBSET (1..n) /\ IsFiniteSet(1..n)
      BY <2>1, FS_Interval
    <3> QED BY <3>1, FS_Subset
  <2> QED BY <2>5, <2>6, FS_Bijection DEF from, to
<1>5. p[i] \in 1..n
  BY <1>1
<1> HIDE DEF other
<1>6. Place(other, i) = Place(list, p[i])
  BY <1>3, <1>4, <1>5, PlaceByRows
<1> QED BY <1>3, <1>6 DEF other

LEMMA SortedOfListed ==
  ASSUME NEW n \in Nat, NEW list, Listing(list, n), NEW p \in Bijection(1..n, 1..n)
  PROVE  Sorted([j \in 1..n |-> list[p[j]]]) = Sorted(list)
<1> DEFINE other == [j \in 1..n |-> list[p[j]]]
<1>1. p \in [1..n -> 1..n] /\ \A k \in 1..n : \E j \in 1..n : p[j] = k
  BY DEF Bijection, Injection, Surjection
<1>2. \A i \in 1..n : Listing(other, n) /\ Place(other, i) = Place(list, p[i]) /\ other[i] = list[p[i]]
  BY PlaceOfListed
<1> HIDE DEF other
<1>3. \A q \in 1..n : Sorted(other)[q] = Sorted(list)[q]
  <2> TAKE q \in 1..n
  <2>1. PICK k \in 1..n : Place(list, k) = q
    BY PlacesTaken
  <2>2. PICK i \in 1..n : p[i] = k
    BY <1>1
  <2>3. Sorted(list)[q] = list[k]
    BY <2>1, SortedByPlace
  <2>4. Sorted(other)[q] = other[i]
    <3>1. Listing(other, n) /\ Place(other, i) = q
      BY <1>2, <2>1, <2>2
    <3>2. Sorted(other)[Place(other, i)] = other[i]
      BY <3>1, SortedByPlace
    <3> QED BY <3>1, <3>2
  <2> QED BY <1>2, <2>2, <2>3, <2>4
<1>4. Sorted(other) = [q \in 1..n |-> Sorted(other)[q]] /\ Sorted(list) = [q \in 1..n |-> Sorted(list)[q]]
  <2>1. DOMAIN list = 1..n /\ DOMAIN other = 1..n
    BY DEF Listing, other
  <2> QED BY <2>1 DEF Sorted
<1> QED BY <1>3, <1>4 DEF other

LEMMA RowsListed ==
  ASSUME RegisterInv
  PROVE  /\ Len(rows) \in Nat /\ Listing(rows, Len(rows))
         /\ \A i \in 1..Len(rows) : rows[i] \in Row /\ rows[i].id = i
<1>1. Len(rows) \in Nat /\ DOMAIN rows = 1..Len(rows) /\ \A i \in 1..Len(rows) : rows[i] \in Row
  BY DEF RegisterInv
<1>2. \A i \in 1..Len(rows) : rows[i].id = i
  BY <1>1 DEF RegisterInv, Rows
<1>3. \A i \in 1..Len(rows) : rows[i].key \in Nat /\ rows[i].id \in Nat
  BY <1>1, RegisterAssumption DEF Row
<1> QED BY <1>1, <1>2, <1>3 DEF Listing

LEMMA OrderShowsInNothing == RegisterInv => OrderIrrelevant
<1> SUFFICES ASSUME RegisterInv, NEW p \in Bijection(DOMAIN rows, DOMAIN rows)
             PROVE  NewSnapshot([i \in DOMAIN rows |-> rows[p[i]]], scenario, now) = NewSnapshot(rows, scenario, now)
  BY DEF OrderIrrelevant, snapshot
<1> DEFINE n == Len(rows)
           other == [i \in 1..n |-> rows[p[i]]]
<1>1. n \in Nat /\ Listing(rows, n) /\ DOMAIN rows = 1..n
  BY RowsListed DEF RegisterInv
<1>2. Sorted(other) = Sorted(rows) /\ DOMAIN other = 1..n
  BY <1>1, SortedOfListed
<1> HIDE DEF other, n
<1>3. NewSnapshot(other, scenario, now) = NewSnapshot(rows, scenario, now)
  BY <1>1, <1>2 DEF NewSnapshot
<1> QED BY <1>1, <1>3 DEF other

(* OrderIrrelevant: for a register of any size the snapshot, and with it    *)
(* its hash and all that is computed, is the same in whatever order the    *)
(* database lists the rows.                                                *)
THEOREM OrderIrrelevantCorrect == RegisterSpec => []OrderIrrelevant
BY RegisterInvariance, OrderShowsInNothing, PTL

(* A list of rows as a query gives it, and a row as the snapshot holds it. *)
RowList(list, n) == n \in Nat /\ Listing(list, n) /\ \A i \in 1..n : list[i] \in Row

Frozen(row) == [row EXCEPT !.verifiedAt = Truncated(@)]

LEMMA FrozenRow ==
  ASSUME NEW row \in Row
  PROVE  /\ Frozen(row).id = row.id /\ Frozen(row).key = row.key /\ Frozen(row).state = row.state
         /\ Frozen(row).effectiveness = row.effectiveness /\ Frozen(row).interval = row.interval
         /\ Frozen(row).verifiedAt = Truncated(row.verifiedAt)
         /\ row.id \in Nat /\ row.key \in Nat /\ row.effectiveness \in 1..Scale /\ row.interval \in Nat \ {0}
<1>1. row.id \in Nat /\ row.key \in Keys /\ row.effectiveness \in Effectivenesses /\ row.interval \in Intervals
  BY DEF Row
<1>2. row.key \in Nat /\ row.effectiveness \in 1..Scale /\ row.interval \in Nat \ {0}
  BY <1>1, RegisterAssumption
<1> QED BY <1>1, <1>2 DEF Row, Frozen

LEMMA SnapshotOfList ==
  ASSUME NEW n, NEW list, RowList(list, n), NEW s, NEW t
  PROVE  /\ NewSnapshot(list, s, t).referenceTime = Truncated(t)
         /\ ToSet(NewSnapshot(list, s, t).safeguards) = {Frozen(list[i]) : i \in 1..n}
<1> DEFINE frozen == [i \in 1..n |-> Frozen(Sorted(list)[i])]
<1>1. n \in Nat /\ Listing(list, n) /\ DOMAIN list = 1..n
  BY DEF RowList, Listing
<1>2. NewSnapshot(list, s, t).safeguards = frozen /\ NewSnapshot(list, s, t).referenceTime = Truncated(t)
  BY <1>1 DEF NewSnapshot, Frozen
<1>3. \A j \in 1..n : \E i \in 1..n : Sorted(list)[i] = list[j]
  BY <1>1, SortedByPlace
<1>4. \A i \in 1..n : \E j \in 1..n : Sorted(list)[i] = list[j]
  <2> TAKE i \in 1..n
  <2>1. PICK j \in 1..n : Place(list, j) = i
    BY <1>1, PlacesTaken
  <2> QED BY <1>1, <2>1, SortedByPlace
<1>5. ToSet(frozen) = {Frozen(Sorted(list)[i]) : i \in 1..n}
  BY DEF ToSet
<1> HIDE DEF frozen
<1> QED BY <1>2, <1>3, <1>4, <1>5

LEMMA RowsAreList == ASSUME RegisterInv PROVE RowList(rows, Len(rows)) /\ \A i \in 1..Len(rows) : rows[i].id = i
BY RowsListed DEF RowList

-----------------------------------------------------------------------------
(* 3. Truncation.                                                          *)

(* A time is some seconds and a part of one, which truncation drops.       *)
LEMMA WholeSeconds ==
  ASSUME NEW t \in Nat
  PROVE  \E q \in Nat, part \in 0..Second - 1 : t = Second * q + part /\ Truncated(t) = Second * q
<1>1. t % Second \in 0..Second - 1 /\ t \div Second \in Nat /\ t = Second * (t \div Second) + (t % Second)
  BY ScaleAssumption
<1>2. PICK q \in Nat : q = t \div Second
  BY <1>1
<1>3. PICK part \in 0..Second - 1 : part = t % Second
  BY <1>1
<1>4. t = Second * q + part
  BY <1>1, <1>2, <1>3
<1>5. Truncated(t) = t - part
  BY <1>3, ScaleAssumption DEF Truncated
<1>6. Second * q \in Nat
  BY ScaleAssumption
<1>7. t - part = Second * q
  BY <1>4, <1>6
<1> QED BY <1>4, <1>5, <1>7

LEMMA SecondsInOrder ==
  ASSUME NEW q \in Nat, NEW m \in Nat, NEW part \in 0..Second - 1, NEW rest \in 0..Second - 1,
         Second * q + part <= Second * m + rest
  PROVE  Second * q <= Second * m
<1>1. CASE q >= m + 1
  <2>1. PICK d \in Nat : q = m + 1 + d
    <3>1. q - m - 1 \in Nat /\ q = m + 1 + (q - m - 1)
      BY <1>1
    <3> QED BY <3>1
  <2>2. Second * q = Second * m + Second + Second * d
    BY <2>1, ScaleAssumption
  <2>3. Second * d \in Nat /\ Second * m \in Nat /\ Second \in Nat
    BY ScaleAssumption
  <2> QED BY <2>2, <2>3
<1>2. CASE ~ (q >= m + 1)
  <2>1. PICK d \in Nat : m = q + d
    <3>1. m - q \in Nat /\ m = q + (m - q)
      BY <1>2
    <3> QED BY <3>1
  <2>2. Second * m = Second * q + Second * d /\ Second * d \in Nat /\ Second * q \in Nat
    BY <2>1, ScaleAssumption
  <2> QED BY <2>2
<1> QED BY <1>1, <1>2

(* Days are whole seconds, so truncation keeps the order of a time and an   *)
(* expiry, and delays an expiry by less than a second.                     *)
LEMMA TruncatedExpiry ==
  ASSUME NEW t \in Nat, NEW verified \in Nat, NEW interval \in Nat
  PROVE  /\ Truncated(t) \in Nat /\ Truncated(verified) \in Nat /\ interval * Day \in Nat
         /\ t <= verified + interval * Day => Truncated(t) <= Truncated(verified) + interval * Day
         /\ Truncated(t) <= Truncated(verified) + interval * Day =>
              t <= verified + interval * Day \/ t - (verified + interval * Day) \in 1..(Second - 1)
<1>1. PICK q \in Nat, part \in 0..Second - 1 : t = Second * q + part /\ Truncated(t) = Second * q
  BY WholeSeconds
<1>2. PICK v \in Nat, rest \in 0..Second - 1 : verified = Second * v + rest /\ Truncated(verified) = Second * v
  BY WholeSeconds
<1>3. PICK d \in Nat : Day = Second * d
  <2>1. Day % Second = 0 /\ Day \div Second \in Nat /\ Day = Second * (Day \div Second) + (Day % Second)
    BY ScaleAssumption
  <2>2. PICK d \in Nat : d = Day \div Second
    BY <2>1
  <2>3. Second * d \in Nat
    BY ScaleAssumption
  <2> QED BY <2>1, <2>2, <2>3
<1>4. PICK days \in Nat : interval * Day = Second * days
  <2>1. interval * d \in Nat /\ interval * (Second * d) = Second * (interval * d)
    BY ScaleAssumption
  <2> QED BY <1>3, <2>1
<1>5. Second * (v + days) = Second * v + Second * days
  BY ScaleAssumption
<1>6. /\ Second * q \in Nat /\ Second * v \in Nat /\ Second * days \in Nat /\ v + days \in Nat
      /\ part \in Nat /\ rest \in Nat /\ Second \in Nat /\ part <= Second - 1
  BY ScaleAssumption
<1>7. t <= verified + interval * Day => Second * q + part <= Second * (v + days) + rest
  BY <1>1, <1>2, <1>4, <1>5, <1>6
<1>8. t <= verified + interval * Day => Second * q <= Second * (v + days)
  BY <1>6, <1>7, SecondsInOrder
<1> QED BY <1>1, <1>2, <1>4, <1>5, <1>6, <1>8

LEMMA TruncatedInOrder ==
  ASSUME NEW t \in Nat, NEW later \in Nat, t <= later
  PROVE  Truncated(t) \in Nat /\ Truncated(later) \in Nat /\ Truncated(t) <= Truncated(later)
<1>1. PICK q \in Nat, part \in 0..Second - 1 : t = Second * q + part /\ Truncated(t) = Second * q
  BY WholeSeconds
<1>2. PICK m \in Nat, rest \in 0..Second - 1 : later = Second * m + rest /\ Truncated(later) = Second * m
  BY WholeSeconds
<1>3. Second * q \in Nat /\ Second * m \in Nat
  BY ScaleAssumption
<1>4. Second * q + part <= Second * m + rest
  BY <1>1, <1>2
<1>5. Second * q <= Second * m
  BY <1>4, SecondsInOrder
<1> QED BY <1>1, <1>2, <1>3, <1>5

Rejected(s, reference) == s.key = NoKey \/ ineligibleReason(s, reference)

LEMMA RejectedLayers ==
  result.layers.rejected = {s \in ToSet(snapshot.safeguards) : Rejected(s, snapshot.referenceTime)}
BY DEF result, Evaluate, ResolveIndependence, Rejected

(* A row is rejected if what the snapshot holds of it is.                  *)
LEMMA RejectedByRow ==
  ASSUME RegisterInv, NEW row \in Listed
  PROVE  row.id \in IdsOf(result.layers.rejected) <=>
           Rejected(Frozen(row), Truncated(now))
<1>1. /\ snapshot.referenceTime = Truncated(now)
      /\ ToSet(snapshot.safeguards) = {Frozen(rows[i]) : i \in 1..Len(rows)}
  <2>1. RowList(rows, Len(rows))
    BY RowsAreList
  <2> QED BY <2>1, SnapshotOfList DEF snapshot
<1>2. result.layers.rejected = {s \in {Frozen(r) : r \in Listed} : Rejected(s, Truncated(now))}
  <2>1. Listed = {rows[i] : i \in 1..Len(rows)}
    BY RowsListed DEF Listed, Listing
  <2>2. {Frozen(rows[i]) : i \in 1..Len(rows)} = {Frozen(r) : r \in Listed}
    BY <2>1
  <2> QED BY <1>1, <2>2, RejectedLayers
<1>3. \A r \in Listed : r \in Row /\ Frozen(r).id = r.id
  BY RowsListed, FrozenRow DEF Listed, RegisterInv
<1>4. \A r, other \in Listed : r.id = other.id => r = other
  BY RowsListed DEF Listed, RegisterInv
<1> QED BY <1>2, <1>3, <1>4 DEF IdsOf

LEMMA CountsIfEffective == RegisterInv => EffectiveCounts
<1> SUFFICES ASSUME RegisterInv, NEW row \in Listed
             PROVE  /\ InForce(row, now) => row.id \notin IdsOf(result.layers.rejected)
                    /\ row.id \notin IdsOf(result.layers.rejected) =>
                         \/ InForce(row, now)
                         \/ now - (row.verifiedAt + row.interval * Day) \in 1..(Second - 1)
  BY DEF EffectiveCounts
<1> DEFINE frozen == Frozen(row)
<1>1. PICK i \in 1..Len(rows) : row = rows[i]
  BY RowsListed DEF Listed, RegisterInv
<1>2. row \in Row /\ row \in Rows(i)
  BY <1>1, RowsListed DEF RegisterInv
<1>3. /\ frozen.key = row.key /\ frozen.state = row.state /\ frozen.effectiveness = row.effectiveness
      /\ frozen.interval = row.interval /\ frozen.verifiedAt = Truncated(row.verifiedAt)
  BY <1>2, FrozenRow
<1>4. /\ row.effectiveness \in 1..Scale /\ row.interval \in Nat \ {0} /\ now \in Nat
      /\ row.state = "active" => row.verifiedAt \in Nat
      /\ Second \in Nat
  <2>1. row.effectiveness \in Effectivenesses /\ row.interval \in Intervals /\ now \in Nat
    BY <1>2 DEF Row, RegisterInv
  <2>2. row.state = "active" => row.verifiedAt \in 0..(now + Ahead)
    BY <1>2 DEF Rows
  <2>3. row.state = "active" => row.verifiedAt \in Nat
    BY <2>1, <2>2, RegisterAssumption
  <2>4. row.effectiveness \in 1..Scale /\ row.interval \in Nat \ {0}
    BY <2>1, RegisterAssumption
  <2> QED BY <2>1, <2>3, <2>4, ScaleAssumption
<1> HIDE DEF frozen
<1>5. row.id \in IdsOf(result.layers.rejected) <=> Rejected(frozen, Truncated(now))
  BY RejectedByRow DEF frozen
<1>6. CASE row.state # "active"
  BY <1>3, <1>5, <1>6 DEF Rejected, ineligibleReason, InForce, IsEffectiveAt
<1>7. CASE row.state = "active" /\ row.key = NoKey
  BY <1>3, <1>5, <1>7 DEF Rejected, InForce
<1>8. CASE row.state = "active" /\ row.key # NoKey
  <2>1. row.verifiedAt \in Nat /\ row.verifiedAt # Never
    BY <1>4, <1>8, ScaleAssumption
  <2>2. PICK days \in Nat : days = row.interval * Day
    BY <1>4, TruncatedExpiry, <2>1
  <2>3. /\ Truncated(now) \in Nat /\ Truncated(row.verifiedAt) \in Nat
        /\ now <= row.verifiedAt + days => Truncated(now) <= Truncated(row.verifiedAt) + days
        /\ Truncated(now) <= Truncated(row.verifiedAt) + days =>
             now <= row.verifiedAt + days \/ now - (row.verifiedAt + days) \in 1..(Second - 1)
    BY <1>4, <2>1, <2>2, TruncatedExpiry
  <2>4. Truncated(row.verifiedAt) # Never
    BY <2>3, ScaleAssumption
  <2>5. Rejected(frozen, Truncated(now)) <=> Truncated(now) > Truncated(row.verifiedAt) + days
    <3>1. frozen.interval * Day = days /\ frozen.effectiveness # 0 /\ ~ (frozen.effectiveness > Scale)
          /\ frozen.interval # 0
      BY <1>3, <1>4, <2>2, ScaleAssumption
    <3> QED BY <1>3, <1>8, <2>4, <3>1 DEF Rejected, ineligibleReason
  <2>6. InForce(row, now) <=> now <= row.verifiedAt + days
    BY <1>8, <2>1, <2>2 DEF InForce, IsEffectiveAt
  <2>7. row.verifiedAt + row.interval * Day = row.verifiedAt + days
    BY <2>2
  <2> QED BY <1>4, <1>5, <2>1, <2>3, <2>5, <2>6, <2>7
<1> QED BY <1>6, <1>7, <1>8

(* EffectiveCounts: a safeguard with a key that the register shows as       *)
(* effective counts, and one that counts is effective or expired within    *)
(* this second, for any register, scale and length of a second.            *)
THEOREM EffectiveCountsCorrect == RegisterSpec => []EffectiveCounts
BY RegisterInvariance, CountsIfEffective, PTL

-----------------------------------------------------------------------------
(* 4. Products of layers.                                                  *)

(* Induction: a set of naturals that holds 0 and the successor of each of  *)
(* its members holds all naturals.                                         *)
LEMMA LeastNatural ==
  ASSUME NEW T \in SUBSET Nat, T # {}
  PROVE  \E x \in T : \A y \in T : x <= y
<1> DEFINE less == {ss \in Nat \X Nat : ss[1] < ss[2]}
<1>1. IsWellFoundedOn(less, Nat)
  BY NatLessThanWellFounded, Zenon DEF OpToRel
<1> HIDE DEF less
<1>2. PICK x \in T : \A y \in T : ~ (<<y, x>> \in less)
  BY <1>1, WFMin
<1>3. \A y \in T : ~ (y < x)
  BY <1>2 DEF less
<1> QED BY <1>3

LEMMA InductionOnNaturals ==
  ASSUME NEW S, 0 \in S, \A n \in Nat : n \in S => n + 1 \in S
  PROVE  Nat \subseteq S
<1> SUFFICES ASSUME Nat \ S # {} PROVE FALSE
  OBVIOUS
<1>1. PICK x \in Nat \ S : \A y \in Nat \ S : x <= y
  BY LeastNatural
<1>2. x - 1 \in Nat /\ x - 1 \in S
  BY <1>1
<1> QED BY <1>1, <1>2

(* A fraction, and its product with the probability c/Scale of a failure.  *)
Fraction(x) == x = <<x[1], x[2]>> /\ x[1] \in Nat /\ x[2] \in Nat \ {0}

Times(x, c) == <<x[1] * c, x[2] * Scale>>

(* The product of the first i layers. *)
Product(layers) ==
  CHOOSE after : after = [i \in 0..Len(layers) |->
    IF i = 0 THEN <<1, 1>>
    ELSE <<after[i - 1][1] * (Scale - layers[i].effectiveness), after[i - 1][2] * Scale>>]

LEMMA RemainingIsProduct == ASSUME NEW layers PROVE Remaining(layers) = Product(layers)[Len(layers)]
BY DEF Remaining, Product

LEMMA ProductSteps ==
  ASSUME NEW n \in Nat, NEW layers, Len(layers) = n
  PROVE  /\ Product(layers)[0] = <<1, 1>>
         /\ \A i \in 0..(n - 1) :
              Product(layers)[i + 1] = Times(Product(layers)[i], Scale - layers[i + 1].effectiveness)
<1> DEFINE Is(after, m) == after = [i \in 0..m |->
             IF i = 0 THEN <<1, 1>>
             ELSE <<after[i - 1][1] * (Scale - layers[i].effectiveness), after[i - 1][2] * Scale>>]
           S == {m \in Nat : \E after : Is(after, m)}
<1>1. 0 \in S
  <2>1. Is([i \in 0..0 |-> <<1, 1>>], 0)
    OBVIOUS
  <2> QED BY <2>1
<1>2. ASSUME NEW m \in Nat, m \in S PROVE m + 1 \in S
  <2>1. PICK after : Is(after, m)
    BY <1>2
  <2> DEFINE next == [i \in 0..(m + 1) |-> IF i = m + 1 THEN
               <<after[m][1] * (Scale - layers[m + 1].effectiveness), after[m][2] * Scale>> ELSE after[i]]
  <2>2. \A i \in 0..m : next[i] = after[i] /\ (i # 0 => next[i - 1] = after[i - 1])
    OBVIOUS
  <2>3. next[m] = after[m]
    BY <2>2
  <2>4. \A i \in 0..(m + 1) : next[i] =
          IF i = 0 THEN <<1, 1>>
          ELSE <<next[i - 1][1] * (Scale - layers[i].effectiveness), next[i - 1][2] * Scale>>
    <3> TAKE i \in 0..(m + 1)
    <3>1. CASE i = m + 1
      BY <2>3, <3>1
    <3>2. CASE i # m + 1
      <4>1. i \in 0..m
        BY <3>2
      <4> HIDE DEF next
      <4> QED BY <2>1, <2>2, <4>1
    <3> QED BY <3>1, <3>2
  <2>5. next = [i \in 0..(m + 1) |-> next[i]]
    OBVIOUS
  <2> HIDE DEF next
  <2>6. Is(next, m + 1)
    BY <2>4, <2>5
  <2> QED BY <2>6
<1>3. n \in S
  <2> HIDE DEF S
  <2> QED BY <1>1, <1>2, InductionOnNaturals
<1>4. \E after : Is(after, n)
  BY <1>3
<1>5. Is(Product(layers), n)
  BY <1>4 DEF Product
<1>6. \A i \in 0..(n - 1) : i + 1 \in 0..n /\ i + 1 # 0 /\ (i + 1) - 1 = i
  OBVIOUS
<1>7. Product(layers)[0] = <<1, 1>>
  BY <1>5
<1> HIDE DEF Product
<1>8. \A i \in 0..(n - 1) : Product(layers)[i + 1] =
        <<Product(layers)[i][1] * (Scale - layers[i + 1].effectiveness), Product(layers)[i][2] * Scale>>
  BY <1>5, <1>6
<1> QED BY <1>7, <1>8 DEF Times

(* Products of naturals are in the order of their factors. *)
LEMMA ProductOrder ==
  ASSUME NEW a \in Nat, NEW b \in Nat, NEW c \in Nat, a <= b
  PROVE  a * c \in Nat /\ b * c \in Nat /\ a * c <= b * c /\ (c > 0 /\ a < b => a * c < b * c)
<1>1. PICK d \in Nat : b = a + d
  <2>1. b - a \in Nat /\ b = a + (b - a)
    OBVIOUS
  <2> QED BY <2>1
<1>2. b * c = a * c + d * c /\ d * c \in Nat /\ a * c \in Nat /\ b * c \in Nat
  BY <1>1
<1>3. c > 0 /\ d > 0 => d * c > 0
  OBVIOUS
<1> QED BY <1>1, <1>2, <1>3

LEMMA LesserFactors ==
  ASSUME NEW a \in Nat, NEW b \in Nat, NEW c \in Nat, NEW d \in Nat, a <= b, c <= d
  PROVE  a * c \in Nat /\ b * d \in Nat /\ a * c <= b * d
<1>1. a * c <= b * c /\ a * c \in Nat /\ b * c \in Nat
  BY ProductOrder
<1>2. c * b <= d * b /\ d * b \in Nat
  BY ProductOrder
<1>3. c * b = b * c /\ d * b = b * d
  OBVIOUS
<1> QED BY <1>1, <1>2, <1>3

(* m layers, each of a degree of effectiveness, in the order of their keys.*)
Layering(layers, m) ==
  /\ DOMAIN layers = 1..m /\ Len(layers) = m
  /\ \A i \in 1..m : layers[i].key \in Nat /\ layers[i].effectiveness \in 1..Scale
  /\ \A i, j \in 1..m : i < j => layers[i].key < layers[j].key

(* Layers of effectiveness leave a fraction of at most 1. *)
LEMMA ProductIsFraction ==
  ASSUME NEW m \in Nat, NEW layers, Layering(layers, m), NEW i \in 0..m
  PROVE  Fraction(Product(layers)[i]) /\ Product(layers)[i][1] <= Product(layers)[i][2]
<1> DEFINE P(j) == Fraction(Product(layers)[j]) /\ Product(layers)[j][1] <= Product(layers)[j][2]
           S == {j \in Nat : j \in 0..m => P(j)}
<1>1. 0 \in S
  <2>1. Product(layers)[0] = <<1, 1>>
    BY ProductSteps DEF Layering
  <2> QED BY <2>1 DEF Fraction
<1>2. ASSUME NEW j \in Nat, j \in S PROVE j + 1 \in S
  <2> SUFFICES ASSUME j + 1 \in 0..m PROVE P(j + 1)
    OBVIOUS
  <2>1. P(j)
    BY <1>2
  <2>2. PICK a \in Nat, b \in Nat \ {0} : Product(layers)[j] = <<a, b>> /\ a <= b
    BY <2>1 DEF Fraction
  <2>3. PICK c \in Nat : c = Scale - layers[j + 1].effectiveness /\ c <= Scale
    BY ScaleAssumption DEF Layering
  <2>4. Product(layers)[j + 1] = <<a * c, b * Scale>>
    <3>1. j \in 0..(m - 1)
      OBVIOUS
    <3>2. Product(layers)[j + 1] = Times(Product(layers)[j], Scale - layers[j + 1].effectiveness)
      BY <3>1, ProductSteps DEF Layering
    <3> QED BY <2>2, <2>3, <3>2 DEF Times
  <2>5. a * c \in Nat /\ b * Scale \in Nat \ {0} /\ a * c <= b * Scale
    <3>1. Scale \in Nat \ {0} /\ c <= Scale
      BY <2>3, ScaleAssumption
    <3>2. a * c \in Nat /\ a * c <= b * Scale
      BY <2>2, <3>1, LesserFactors
    <3>3. b * Scale \in Nat \ {0}
      BY <3>1
    <3> QED BY <3>2, <3>3
  <2> QED BY <2>4, <2>5 DEF Fraction
<1>3. i \in S
  <2> HIDE DEF S
  <2> QED BY <1>1, <1>2, InductionOnNaturals
<1> QED BY <1>3

(* x is at least one part of Scale less than y. *)
Reduced(x, y) == AtMost(<<x[1] * Scale, x[2]>>, <<y[1] * (Scale - 1), y[2]>>)

LEMMA ReducedIsLess ==
  ASSUME NEW x, NEW y, Fraction(x), Fraction(y), Reduced(x, y)
  PROVE  AtMost(x, y)
<1>1. PICK a \in Nat, b \in Nat \ {0} : x = <<a, b>>
  BY DEF Fraction
<1>2. PICK p \in Nat, q \in Nat \ {0} : y = <<p, q>>
  BY DEF Fraction
<1>3. PICK u \in Nat, v \in Nat : u = a * q /\ v = p * b
  OBVIOUS
<1>4. u * Scale <= v * (Scale - 1)
  <2>1. (a * Scale) * q <= (p * (Scale - 1)) * b
    BY <1>1, <1>2 DEF Reduced, AtMost
  <2>2. (a * Scale) * q = u * Scale /\ (p * (Scale - 1)) * b = v * (Scale - 1)
    BY <1>3, ScaleAssumption
  <2> QED BY <2>1, <2>2
<1>5. u <= v
  <2> SUFFICES ASSUME v < u PROVE FALSE
    OBVIOUS
  <2>1. v * Scale < u * Scale /\ v * Scale \in Nat /\ u * Scale \in Nat
    BY ProductOrder, ScaleAssumption
  <2>2. v * (Scale - 1) = v * Scale - v
    BY ScaleAssumption
  <2> QED BY <1>4, <2>1, <2>2
<1> QED BY <1>1, <1>2, <1>3, <1>5 DEF AtMost

(* One more layer reduces a product. *)
LEMMA ExtraLayer ==
  ASSUME NEW x, NEW y, Fraction(x), Fraction(y), AtMost(x, y), NEW c \in 0..(Scale - 1)
  PROVE  Reduced(Times(x, c), y)
<1>1. PICK a \in Nat, b \in Nat \ {0} : x = <<a, b>>
  BY DEF Fraction
<1>2. PICK p \in Nat, q \in Nat \ {0} : y = <<p, q>>
  BY DEF Fraction
<1>3. c \in Nat /\ Scale - 1 \in Nat /\ c <= Scale - 1 /\ Scale \in Nat
  BY ScaleAssumption
<1>4. PICK u \in Nat, v \in Nat : u = a * q /\ v = p * b /\ u <= v
  BY <1>1, <1>2 DEF AtMost
<1>5. u * c <= v * (Scale - 1) /\ u * c \in Nat /\ v * (Scale - 1) \in Nat
  BY <1>3, <1>4, LesserFactors
<1>6. (u * c) * Scale <= (v * (Scale - 1)) * Scale
  BY <1>3, <1>5, ProductOrder
<1>7. ((a * c) * Scale) * q = (u * c) * Scale /\ (p * (Scale - 1)) * (b * Scale) = (v * (Scale - 1)) * Scale
  BY <1>3, <1>4
<1> QED BY <1>1, <1>2, <1>6, <1>7 DEF Reduced, AtMost, Times

(* So does a stronger layer in place of another. *)
LEMMA StrongerLayer ==
  ASSUME NEW x, NEW y, Fraction(x), Fraction(y), AtMost(x, y),
         NEW c \in 0..(Scale - 1), NEW d \in 0..(Scale - 1), c <= d
  PROVE  /\ AtMost(Times(x, c), Times(y, d))
         /\ c # d \/ Reduced(x, y) => Reduced(Times(x, c), Times(y, d))
<1>1. PICK a \in Nat, b \in Nat \ {0} : x = <<a, b>>
  BY DEF Fraction
<1>2. PICK p \in Nat, q \in Nat \ {0} : y = <<p, q>>
  BY DEF Fraction
<1>3. c \in Nat /\ d \in Nat /\ Scale \in Nat /\ Scale - 1 \in Nat
  BY ScaleAssumption
<1>4. PICK u \in Nat, v \in Nat : u = a * q /\ v = p * b /\ u <= v
  BY <1>1, <1>2 DEF AtMost
<1>5. AtMost(Times(x, c), Times(y, d))
  <2>1. u * c <= v * d /\ u * c \in Nat /\ v * d \in Nat
    BY <1>3, <1>4, LesserFactors
  <2>2. (u * c) * Scale <= (v * d) * Scale
    BY <1>3, <2>1, ProductOrder
  <2>3. (a * c) * (q * Scale) = (u * c) * Scale /\ (p * d) * (b * Scale) = (v * d) * Scale
    BY <1>3, <1>4
  <2> QED BY <1>1, <1>2, <2>2, <2>3 DEF AtMost, Times
<1>6. ASSUME c # d \/ Reduced(x, y) PROVE Reduced(Times(x, c), Times(y, d))
  <2>1. (u * Scale) * c <= (v * (Scale - 1)) * d /\ (u * Scale) * c \in Nat /\ (v * (Scale - 1)) * d \in Nat
    <3>1. CASE c # d
      <4>1. c * Scale <= d * (Scale - 1)
        <5>1. PICK e \in Nat : d = c + 1 + e
          <6>1. d - c - 1 \in Nat /\ d = c + 1 + (d - c - 1)
            BY <1>3, <3>1
          <6> QED BY <6>1
        <5>2. PICK f \in Nat, g \in Nat : f = e * Scale /\ g = c * Scale
          BY <1>3
        <5>3. d * (Scale - 1) = g + (Scale + f) - d
          BY <1>3, <5>1, <5>2
        <5>4. g <= g + (Scale + f) - d
          BY <1>3
        <5> QED BY <5>2, <5>3, <5>4
      <4>2. c * Scale \in Nat /\ d * (Scale - 1) \in Nat
        BY <1>3
      <4>3. u * (c * Scale) <= v * (d * (Scale - 1))
        BY <1>4, <4>1, <4>2, LesserFactors
      <4>4. u * (c * Scale) = (u * Scale) * c /\ v * (d * (Scale - 1)) = (v * (Scale - 1)) * d
        BY <1>3
      <4> QED BY <1>3, <4>3, <4>4
    <3>2. CASE Reduced(x, y)
      <4>1. (a * Scale) * q <= (p * (Scale - 1)) * b
        BY <1>1, <1>2, <3>2 DEF Reduced, AtMost
      <4>2. (a * Scale) * q = u * Scale /\ (p * (Scale - 1)) * b = v * (Scale - 1)
        BY <1>3, <1>4
      <4>3. u * Scale \in Nat /\ v * (Scale - 1) \in Nat /\ u * Scale <= v * (Scale - 1)
        BY <1>3, <4>1, <4>2
      <4> QED BY <1>3, <4>3, LesserFactors
    <3> QED BY <1>6, <3>1, <3>2
  <2>2. ((u * Scale) * c) * Scale <= ((v * (Scale - 1)) * d) * Scale
    BY <1>3, <2>1, ProductOrder
  <2>3. ((a * c) * Scale) * (q * Scale) = ((u * Scale) * c) * Scale
    BY <1>3, <1>4
  <2>4. ((p * d) * (Scale - 1)) * (b * Scale) = ((v * (Scale - 1)) * d) * Scale
    BY <1>3, <1>4
  <2> QED BY <1>1, <1>2, <2>2, <2>3, <2>4 DEF Reduced, AtMost, Times
<1> QED BY <1>5, <1>6

(* The layers of new cover those of old: there is one of the same key and  *)
(* at least the same effectiveness for each.                               *)
Covers(new, j, old, i) ==
  \A k \in 1..i : \E l \in 1..j : new[l].key = old[k].key /\ new[l].effectiveness >= old[k].effectiveness

SameFactors(new, n, old, m) ==
  m = n /\ \A k \in 1..m : new[k].effectiveness = old[k].effectiveness

(* Then no more remains, and what does is reduced unless the factors are   *)
(* the same.                                                               *)
LEMMA MoreLayersCoverMore ==
  ASSUME NEW m \in Nat, NEW n \in Nat, NEW old, NEW new, Layering(old, m), Layering(new, n),
         Covers(new, n, old, m)
  PROVE  /\ AtMost(Product(new)[n], Product(old)[m])
         /\ SameFactors(new, n, old, m) \/ Reduced(Product(new)[n], Product(old)[m])
<1> DEFINE Less(j, i) ==
             /\ AtMost(Product(new)[j], Product(old)[i])
             /\ SameFactors(new, j, old, i) \/ Reduced(Product(new)[j], Product(old)[i])
           S == {j \in Nat : j \in 0..n => \A i \in 0..m : Covers(new, j, old, i) => Less(j, i)}
<1>1. 0 \in S
  <2> SUFFICES ASSUME NEW i \in 0..m, Covers(new, 0, old, i) PROVE Less(0, i)
    OBVIOUS
  <2>1. i = 0
    BY DEF Covers
  <2>2. Product(new)[0] = <<1, 1>> /\ Product(old)[0] = <<1, 1>>
    BY ProductSteps DEF Layering
  <2> QED BY <2>1, <2>2 DEF AtMost, SameFactors
<1>2. ASSUME NEW j \in Nat, j \in S PROVE j + 1 \in S
  <2> SUFFICES ASSUME j + 1 \in 0..n, NEW i \in 0..m, Covers(new, j + 1, old, i) PROVE Less(j + 1, i)
    OBVIOUS
  <2>1. PICK x : x = Product(new)[j] /\ Fraction(x)
    BY ProductIsFraction
  <2>2. PICK c \in 0..(Scale - 1) : c = Scale - new[j + 1].effectiveness
    BY ScaleAssumption DEF Layering
  <2>3. Product(new)[j + 1] = Times(x, c)
    <3>1. j \in 0..(n - 1)
      OBVIOUS
    <3> QED BY <2>1, <2>2, <3>1, ProductSteps DEF Layering
  <2>4. CASE Covers(new, j, old, i)
    <3>1. Less(j, i)
      BY <1>2, <2>4
    <3>2. PICK y : y = Product(old)[i] /\ Fraction(y)
      BY ProductIsFraction
    <3>3. Reduced(Times(x, c), y)
      BY <2>1, <3>1, <3>2, ExtraLayer
    <3>4. Fraction(Product(new)[j + 1])
      BY ProductIsFraction
    <3>5. AtMost(Times(x, c), y)
      BY <2>3, <3>2, <3>3, <3>4, ReducedIsLess
    <3> QED BY <2>3, <3>2, <3>3, <3>5
  <2>5. CASE ~ Covers(new, j, old, i)
    <3>1. PICK k \in 1..i : ~ \E l \in 1..j : new[l].key = old[k].key /\ new[l].effectiveness >= old[k].effectiveness
      BY <2>5 DEF Covers
    <3>2. new[j + 1].key = old[k].key /\ new[j + 1].effectiveness >= old[k].effectiveness
      <4>1. PICK l \in 1..(j + 1) : new[l].key = old[k].key /\ new[l].effectiveness >= old[k].effectiveness
        BY DEF Covers
      <4> QED BY <3>1, <4>1
    <3>3. k = i
      <4> SUFFICES ASSUME k < i PROVE FALSE
        OBVIOUS
      <4>1. PICK l \in 1..(j + 1) : new[l].key = old[i].key
        BY DEF Covers
      <4>2. old[k].key < old[i].key
        BY DEF Layering
      <4>3. l = j + 1 \/ new[l].key < new[j + 1].key
        BY DEF Layering
      <4>4. new[l].key \in Nat /\ new[j + 1].key \in Nat
        BY DEF Layering
      <4> QED BY <3>2, <4>1, <4>2, <4>3, <4>4
    <3>4. i - 1 \in 0..(m - 1) /\ i - 1 \in 0..m /\ i = (i - 1) + 1
      BY <3>3
    <3>5. Covers(new, j, old, i - 1)
      <4> SUFFICES ASSUME NEW h \in 1..(i - 1)
                   PROVE  \E l \in 1..j : new[l].key = old[h].key /\ new[l].effectiveness >= old[h].effectiveness
        BY DEF Covers
      <4>1. PICK l \in 1..(j + 1) : new[l].key = old[h].key /\ new[l].effectiveness >= old[h].effectiveness
        BY DEF Covers
      <4>2. old[h].key < old[i].key /\ old[h].key \in Nat /\ old[i].key \in Nat
        BY DEF Layering
      <4>3. l # j + 1
        BY <3>2, <3>3, <4>1, <4>2
      <4> QED BY <4>1, <4>3
    <3>6. Less(j, i - 1)
      BY <1>2, <3>4, <3>5
    <3>7. PICK y : y = Product(old)[i - 1] /\ Fraction(y)
      BY <3>4, ProductIsFraction
    <3>8. PICK d \in 0..(Scale - 1) : d = Scale - old[i].effectiveness /\ c <= d
      <4>1. new[j + 1].effectiveness \in 1..Scale /\ old[i].effectiveness \in 1..Scale /\ Scale \in Nat
        BY <3>3, ScaleAssumption DEF Layering
      <4> QED BY <2>2, <3>2, <3>3, <4>1
    <3>9. Product(old)[i] = Times(y, d)
      <4>1. Product(old)[(i - 1) + 1] = Times(Product(old)[i - 1], Scale - old[(i - 1) + 1].effectiveness)
        BY <3>4, ProductSteps DEF Layering
      <4> QED BY <3>4, <3>7, <3>8, <4>1
    <3>10. /\ AtMost(Times(x, c), Times(y, d))
           /\ c # d \/ Reduced(x, y) => Reduced(Times(x, c), Times(y, d))
      BY <2>1, <3>6, <3>7, <3>8, StrongerLayer
    <3>11. CASE c # d \/ Reduced(x, y)
      BY <2>3, <3>9, <3>10, <3>11
    <3>12. CASE c = d /\ SameFactors(new, j, old, i - 1)
      <4>1. j + 1 = i /\ \A h \in 1..(i - 1) : new[h].effectiveness = old[h].effectiveness
        BY <3>12 DEF SameFactors
      <4>2. new[j + 1].effectiveness = old[i].effectiveness
        BY <2>2, <3>3, <3>8, <3>12, ScaleAssumption DEF Layering
      <4>3. SameFactors(new, j + 1, old, i)
        BY <4>1, <4>2 DEF SameFactors
      <4> QED BY <2>3, <3>9, <3>10, <4>3
    <3> QED BY <2>1, <3>6, <3>7, <3>11, <3>12
  <2> QED BY <2>4, <2>5
<1>3. n \in S
  <2> HIDE DEF S
  <2> QED BY <1>1, <1>2, InductionOnNaturals
<1>4. n \in 0..n /\ m \in 0..m
  OBVIOUS
<1> QED BY <1>3, <1>4

-----------------------------------------------------------------------------
(* 5. The layers.                                                          *)

(* The keys in their order: each has as many before it as its place says.  *)
LEMMA AscendingKeys ==
  ASSUME NEW keys \in SUBSET Nat, IsFiniteSet(keys), NEW m, m = Cardinality(keys)
  PROVE  /\ m \in Nat /\ DOMAIN Ascending(keys) = 1..m
         /\ \A i \in 1..m : Ascending(keys)[i] \in keys
         /\ \A i, j \in 1..m : i < j => Ascending(keys)[i] < Ascending(keys)[j]
         /\ \A k \in keys : \E i \in 1..m : Ascending(keys)[i] = k
<1> DEFINE Below(k) == {other \in keys : other < k}
           rank == [k \in keys |-> Cardinality(Below(k))]
<1>1. m \in Nat
  BY FS_CardinalityType
<1>2. ASSUME NEW k \in keys
      PROVE  IsFiniteSet(Below(k)) /\ Cardinality(Below(k)) \in 0..(m - 1)
  <2>1. Below(k) \in SUBSET (keys \ {k})
    OBVIOUS
  <2>2. IsFiniteSet(keys \ {k}) /\ Cardinality(keys \ {k}) = m - 1
    BY FS_RemoveElement
  <2>3. /\ IsFiniteSet(Below(k)) /\ Cardinality(Below(k)) <= m - 1
        /\ Cardinality(Below(k)) \in Nat
    BY <2>1, <2>2, FS_Subset, FS_CardinalityType
  <2> QED BY <1>1, <2>3
<1>3. ASSUME NEW k \in keys, NEW l \in keys, k < l
      PROVE  Cardinality(Below(k)) < Cardinality(Below(l))
  <2>1. Below(k) \in SUBSET Below(l) /\ k \in Below(l) /\ k \notin Below(k)
    <3>1. k \in Nat /\ l \in Nat /\ k < l /\ \A other \in keys : other \in Nat
      BY <1>3
    <3>2. \A other \in keys : other < k => other < l
      BY <3>1
    <3>3. ~ (k < k)
      BY <3>1
    <3> QED BY <3>1, <3>2, <3>3
  <2> HIDE DEF Below
  <2>2. /\ Cardinality(Below(k)) <= Cardinality(Below(l))
        /\ Cardinality(Below(l)) = Cardinality(Below(k)) => Below(l) = Below(k)
    BY <1>2, <2>1, FS_Subset
  <2>3. Cardinality(Below(l)) # Cardinality(Below(k))
    BY <2>1, <2>2
  <2>4. Cardinality(Below(k)) \in 0..(m - 1) /\ Cardinality(Below(l)) \in 0..(m - 1)
    BY <1>2
  <2> QED BY <2>2, <2>3, <2>4
<1>4. rank \in [keys -> 0..(m - 1)] /\ \A k, l \in keys : (k < l => rank[k] < rank[l]) /\ (rank[k] = rank[l] => k = l)
  <2>1. rank \in [keys -> 0..(m - 1)]
    BY <1>2
  <2>2. \A k, l \in keys : k < l => rank[k] < rank[l]
    BY <1>3
  <2>3. \A k, l \in keys : rank[k] = rank[l] => k = l
    <3> SUFFICES ASSUME NEW k \in keys, NEW l \in keys, rank[k] = rank[l], k # l PROVE FALSE
      OBVIOUS
    <3>1. k < l \/ l < k
      OBVIOUS
    <3>2. rank[k] \in 0..(m - 1)
      BY <2>1
    <3> HIDE DEF rank
    <3> QED BY <2>2, <3>1, <3>2
  <2> QED BY <2>1, <2>2, <2>3
<1>5. \A p \in 0..(m - 1) : \E k \in keys : rank[k] = p
  <2>1. rank \in Injection(keys, 0..(m - 1))
    BY <1>4 DEF Injection, IsInjective
  <2>2. IsFiniteSet(0..(m - 1)) /\ Cardinality(0..(m - 1)) = m
    <3>1. 0 \in Int /\ m - 1 \in Int /\ m - 1 - 0 + 1 = m /\ (0 > m - 1 => m = 0)
      BY <1>1
    <3> QED BY <3>1, FS_Interval
  <2> HIDE DEF rank
  <2>3. rank \in Surjection(keys, 0..(m - 1))
    BY <2>1, <2>2, FS_Injection
  <2> QED BY <2>3 DEF Surjection
<1>6. \A i \in 1..m : Ascending(keys)[i] \in keys /\ rank[Ascending(keys)[i]] = i - 1
  <2> TAKE i \in 1..m
  <2>1. PICK k \in keys : rank[k] = i - 1
    BY <1>1, <1>5
  <2>2. \E l \in keys : Cardinality({other \in keys : other < l}) = i - 1
    BY <2>1
  <2>3. Ascending(keys)[i] = CHOOSE l \in keys : Cardinality({other \in keys : other < l}) = i - 1
    BY DEF Ascending
  <2> QED BY <2>2, <2>3
<1>7. DOMAIN Ascending(keys) = 1..m
  BY DEF Ascending
<1> HIDE DEF rank
<1>8. ASSUME NEW i \in 1..m, NEW j \in 1..m, i < j PROVE Ascending(keys)[i] < Ascending(keys)[j]
  <2>1. PICK k \in keys, l \in keys : k = Ascending(keys)[i] /\ l = Ascending(keys)[j] /\ rank[k] = i - 1 /\ rank[l] = j - 1
    BY <1>6
  <2>2. rank[k] < rank[l]
    BY <1>1, <1>8, <2>1
  <2>3. ~ (l < k) /\ l # k
    BY <1>4, <2>2
  <2> QED BY <2>1, <2>3
<1>9. ASSUME NEW k \in keys PROVE \E i \in 1..m : Ascending(keys)[i] = k
  <2>1. PICK i \in 1..m : i = rank[k] + 1
    BY <1>1, <1>4
  <2>2. rank[Ascending(keys)[i]] = rank[k] /\ Ascending(keys)[i] \in keys
    BY <1>4, <1>6, <2>1
  <2> QED BY <1>4, <2>2
<1> QED BY <1>1, <1>6, <1>7, <1>8, <1>9

(* Of safeguards of different ids, one is stronger than all others.        *)
Ranked(set) ==
  /\ \A s \in set : s.id \in Nat /\ s.effectiveness \in 1..Scale
  /\ \A s, other \in set : s.id = other.id => s = other

LEMMA OneIsStrongest ==
  ASSUME NEW set, set # {}, Ranked(set)
  PROVE  \E s \in set : \A other \in set \ {s} : Stronger(s, other)
<1>1. PICK lack \in Nat : /\ \E s \in set : Scale - s.effectiveness = lack
                          /\ \A s \in set : lack <= Scale - s.effectiveness
  <2> DEFINE T == {Scale - s.effectiveness : s \in set}
  <2>1. T \in SUBSET Nat /\ T # {}
    BY ScaleAssumption DEF Ranked
  <2>2. PICK x \in T : \A y \in T : x <= y
    BY <2>1, LeastNatural
  <2> QED BY <2>1, <2>2
<1>2. PICK id \in Nat : /\ \E s \in set : Scale - s.effectiveness = lack /\ s.id = id
                        /\ \A s \in set : Scale - s.effectiveness = lack => id <= s.id
  <2> DEFINE T == {s.id : s \in {x \in set : Scale - x.effectiveness = lack}}
  <2>1. T \in SUBSET Nat /\ T # {}
    BY <1>1 DEF Ranked
  <2>2. PICK x \in T : \A y \in T : x <= y
    BY <2>1, LeastNatural
  <2> QED BY <2>1, <2>2
<1>3. PICK s \in set : Scale - s.effectiveness = lack /\ s.id = id
  BY <1>2
<1>4. ASSUME NEW other \in set \ {s} PROVE Stronger(s, other)
  <2>1. /\ s.effectiveness \in 1..Scale /\ other.effectiveness \in 1..Scale /\ Scale \in Nat
        /\ s.id \in Nat /\ other.id \in Nat /\ s.id # other.id
    BY ScaleAssumption DEF Ranked
  <2>2. lack <= Scale - other.effectiveness /\ (Scale - other.effectiveness = lack => id <= other.id)
    BY <1>1, <1>2
  <2> QED BY <1>3, <2>1, <2>2 DEF Stronger
<1> QED BY <1>4

Counting(safeguards, reference) ==
  ToSet(safeguards) \ {s \in ToSet(safeguards) : s.key = NoKey \/ ineligibleReason(s, reference)}

LEMMA CountingAreEligible ==
  ASSUME NEW safeguards, NEW reference
  PROVE  Counting(safeguards, reference) = {s \in ToSet(safeguards) : ~ Rejected(s, reference)}
BY DEF Counting, Rejected

Group(set, k) == {s \in set : s.key = k}

Strongest(set) == CHOOSE s \in set : \A other \in set \ {s} : Stronger(s, other)

LEMMA StrongestIsStronger ==
  ASSUME NEW set, Ranked(set), NEW s \in set
  PROVE  Strongest(set) \in set /\ (Strongest(set) = s \/ Stronger(Strongest(set), s))
<1>1. \E x \in set : \A other \in set \ {x} : Stronger(x, other)
  BY OneIsStrongest
<1>2. Strongest(set) \in set /\ \A other \in set \ {Strongest(set)} : Stronger(Strongest(set), other)
  BY <1>1 DEF Strongest
<1> QED BY <1>2

LEMMA RetainedByKey ==
  ASSUME NEW safeguards, NEW reference
  PROVE  ResolveIndependence(safeguards, reference).retained =
           [i \in DOMAIN Ascending({s.key : s \in Counting(safeguards, reference)}) |->
              Strongest(Group(Counting(safeguards, reference),
                              Ascending({s.key : s \in Counting(safeguards, reference)})[i]))]
BY DEF ResolveIndependence, Counting, Group, Strongest

LEMMA DeduplicatedByKey ==
  ASSUME NEW safeguards, NEW reference, NEW set, set = Counting(safeguards, reference)
  PROVE  ResolveIndependence(safeguards, reference).deduplicated =
           {[key |-> k, kept |-> Strongest(Group(set, k)).id,
             ignored |-> IdsOf(Group(set, k) \ {Strongest(Group(set, k))})] :
              k \in {k \in {s.key : s \in set} : Group(set, k) \ {Strongest(Group(set, k))} # {}}}
<1>1. ResolveIndependence(safeguards, reference).deduplicated =
        {[key |-> k, kept |-> Strongest(Group(Counting(safeguards, reference), k)).id,
          ignored |-> IdsOf(Group(Counting(safeguards, reference), k) \
                            {Strongest(Group(Counting(safeguards, reference), k))})] :
           k \in {k \in {s.key : s \in Counting(safeguards, reference)} :
                   Group(Counting(safeguards, reference), k) \
                   {Strongest(Group(Counting(safeguards, reference), k))} # {}}}
  BY DEF ResolveIndependence, Counting, Group, Strongest
<1> QED BY <1>1

(* The layers retained of a set that counts: one of each key, in the order *)
(* of the keys, and the strongest of its key.                              *)
LayersOf(layers, set) ==
  /\ Len(layers) \in Nat /\ Layering(layers, Len(layers))
  /\ \A i \in 1..Len(layers) : layers[i] \in set
  /\ \A s \in set : \E i \in 1..Len(layers) :
       layers[i].key = s.key /\ (layers[i] = s \/ Stronger(layers[i], s))
  /\ \A i \in 1..Len(layers) : layers[i] = Strongest(Group(set, layers[i].key))

LEMMA RetainedLayers ==
  ASSUME NEW safeguards, NEW reference, NEW set, set = Counting(safeguards, reference),
         IsFiniteSet(set), Ranked(set), \A s \in set : s.key \in Nat
  PROVE  LayersOf(ResolveIndependence(safeguards, reference).retained, set)
<1> DEFINE keys == {s.key : s \in set}
           layers == ResolveIndependence(safeguards, reference).retained
           m == Cardinality(keys)
<1>1. keys \in SUBSET Nat /\ IsFiniteSet(keys)
  <2> DEFINE f == [s \in set |-> s.key]
  <2>1. f \in Surjection(set, keys)
    BY DEF Surjection
  <2> QED BY <2>1, FS_Surjection
<1>2. PICK order : order = Ascending(keys)
  OBVIOUS
<1>3. layers = [i \in DOMAIN order |-> Strongest(Group(set, order[i]))]
  BY <1>2, RetainedByKey
<1> HIDE DEF layers, m
<1>4. /\ m \in Nat /\ DOMAIN order = 1..m /\ \A i \in 1..m : order[i] \in keys
      /\ \A i, j \in 1..m : i < j => order[i] < order[j]
      /\ \A k \in keys : \E i \in 1..m : order[i] = k
  <2> HIDE DEF keys
  <2> QED BY <1>1, <1>2, AscendingKeys DEF m
<1>5. \A k \in keys : \A s \in Group(set, k) :
        /\ Strongest(Group(set, k)) \in Group(set, k)
        /\ Strongest(Group(set, k)) = s \/ Stronger(Strongest(Group(set, k)), s)
  <2> TAKE k \in keys
  <2> TAKE s \in Group(set, k)
  <2>1. Ranked(Group(set, k))
    BY DEF Ranked, Group
  <2> QED BY <2>1, StrongestIsStronger
<1>6. \A k \in keys : \E s \in set : s.key = k /\ s \in Group(set, k)
  BY DEF Group
<1>7. \A i \in 1..m : layers[i] = Strongest(Group(set, order[i])) /\ layers[i] \in set /\ layers[i].key = order[i]
  <2> TAKE i \in 1..m
  <2>1. layers[i] = Strongest(Group(set, order[i])) /\ order[i] \in keys
    BY <1>3, <1>4
  <2>2. layers[i] \in Group(set, order[i])
    BY <1>5, <1>6, <2>1
  <2> QED BY <2>1, <2>2 DEF Group
<1>8. DOMAIN layers = 1..m /\ Len(layers) = m
  <2>1. layers \in Seq(set)
    <3>1. layers = [i \in 1..m |-> layers[i]]
      BY <1>3, <1>4
    <3> QED BY <1>4, <1>7, <3>1
  <2> QED BY <1>3, <1>4, <2>1
<1>9. Layering(layers, m)
  <2>1. \A i \in 1..m : layers[i].key \in Nat /\ layers[i].effectiveness \in 1..Scale
    BY <1>7 DEF Ranked
  <2>2. \A i, j \in 1..m : i < j => layers[i].key < layers[j].key
    BY <1>4, <1>7
  <2> QED BY <1>8, <2>1, <2>2 DEF Layering
<1>10. ASSUME NEW s \in set
       PROVE  \E i \in 1..m : layers[i].key = s.key /\ (layers[i] = s \/ Stronger(layers[i], s))
  <2>1. s.key \in keys /\ s \in Group(set, s.key)
    BY DEF Group
  <2>2. PICK i \in 1..m : order[i] = s.key
    BY <1>4, <2>1
  <2> QED BY <1>5, <1>7, <2>1, <2>2
<1>11. \A i \in 1..m : layers[i] = Strongest(Group(set, layers[i].key))
  BY <1>7
<1> QED BY <1>4, <1>7, <1>8, <1>9, <1>10, <1>11 DEF LayersOf, layers

(* Of a snapshot, those that count are rows of different ids. *)
CountingRows(list, s, t) == Counting(NewSnapshot(list, s, t).safeguards, Truncated(t))

LEMMA CountingInList ==
  ASSUME NEW n, NEW list, RowList(list, n), NEW s, NEW t
  PROVE  /\ CountingRows(list, s, t) = {f \in {Frozen(list[i]) : i \in 1..n} : ~ Rejected(f, Truncated(t))}
         /\ IsFiniteSet(CountingRows(list, s, t)) /\ Ranked(CountingRows(list, s, t))
         /\ \A f \in CountingRows(list, s, t) : f.key \in Nat
<1> DEFINE set == CountingRows(list, s, t)
           f == [i \in 1..n |-> Frozen(list[i])]
<1>1. set = {x \in {Frozen(list[i]) : i \in 1..n} : ~ Rejected(x, Truncated(t))}
  BY CountingAreEligible, SnapshotOfList DEF CountingRows
<1> HIDE DEF set
<1>2. IsFiniteSet(set)
  <2>1. f \in Surjection(1..n, {Frozen(list[i]) : i \in 1..n})
    BY DEF Surjection
  <2>2. IsFiniteSet(1..n)
    BY FS_Interval DEF RowList
  <2>3. IsFiniteSet({Frozen(list[i]) : i \in 1..n})
    BY <2>1, <2>2, FS_Surjection
  <2> QED BY <1>1, <2>3, FS_Subset
<1>3. \A i \in 1..n : LET x == Frozen(list[i]) IN
        x.id = list[i].id /\ x.id \in Nat /\ x.key \in Nat /\ x.effectiveness \in 1..Scale
  BY FrozenRow DEF RowList
<1>4. \A i, j \in 1..n : Frozen(list[i]).id = Frozen(list[j]).id => i = j
  BY <1>3 DEF RowList, Listing
<1>5. Ranked(set)
  BY <1>1, <1>3, <1>4 DEF Ranked
<1> QED BY <1>1, <1>2, <1>3, <1>5 DEF set

LEMMA LayersOfList ==
  ASSUME NEW n, NEW list, RowList(list, n), NEW s, NEW t
  PROVE  LayersOf(Evaluate(NewSnapshot(list, s, t)).layers.retained, CountingRows(list, s, t))
<1> DEFINE frozen == NewSnapshot(list, s, t)
<1>1. Evaluate(frozen).layers = ResolveIndependence(frozen.safeguards, Truncated(t))
  BY SnapshotOfList DEF Evaluate
<1> QED BY <1>1, CountingInList, RetainedLayers DEF CountingRows

LEMMA EveryRowAccountedFor == RegisterInv => RowsAccountedFor
<1> SUFFICES ASSUME RegisterInv PROVE RowsAccountedFor
  OBVIOUS
<1> DEFINE n == Len(rows)
           set == CountingRows(rows, scenario, now)
           best(k) == Strongest(Group(set, k))
           layers == result.layers
<1>1. n \in Nat /\ RowList(rows, n) /\ DOMAIN rows = 1..n /\ \A i \in 1..n : rows[i].id = i /\ rows[i] \in Row
  BY RowsAreList DEF RowList, RegisterInv
<1>2. layers = ResolveIndependence(snapshot.safeguards, Truncated(now))
  <2>1. snapshot.referenceTime = Truncated(now)
    BY <1>1, SnapshotOfList DEF snapshot
  <2> QED BY <2>1 DEF result, Evaluate
<1>3. /\ set = {f \in {Frozen(rows[i]) : i \in 1..n} : ~ Rejected(f, Truncated(now))}
      /\ Ranked(set) /\ LayersOf(layers.retained, set)
  BY <1>1, CountingInList, LayersOfList DEF result, snapshot
<1>4. layers.rejected = {f \in {Frozen(rows[i]) : i \in 1..n} : Rejected(f, Truncated(now))}
  <2>1. snapshot.referenceTime = Truncated(now) /\ ToSet(snapshot.safeguards) = {Frozen(rows[i]) : i \in 1..n}
    BY <1>1, SnapshotOfList DEF snapshot
  <2>2. layers.rejected = {s \in ToSet(snapshot.safeguards) : Rejected(s, snapshot.referenceTime)}
    BY RejectedLayers
  <2> QED BY <2>1, <2>2
<1>5. layers.deduplicated =
        {[key |-> k, kept |-> best(k).id, ignored |-> IdsOf(Group(set, k) \ {best(k)})] :
           k \in {k \in {s.key : s \in set} : Group(set, k) \ {best(k)} # {}}}
  BY <1>2, DeduplicatedByKey DEF CountingRows, snapshot
<1>6. \A i \in 1..n : LET f == Frozen(rows[i]) IN
        f.id = i /\ f.key = rows[i].key /\ f.effectiveness = rows[i].effectiveness
  BY <1>1, FrozenRow
<1> HIDE DEF n, set, layers
<1>7. \A s \in set : s.id \in 1..n /\ s = Frozen(rows[s.id]) /\ s.key = rows[s.id].key
                     /\ s.effectiveness = rows[s.id].effectiveness
  BY <1>3, <1>6
<1>8. \A s \in set : best(s.key) \in set /\ best(s.key).key = s.key
                     /\ (best(s.key) = s \/ Stronger(best(s.key), s))
  <2> TAKE s \in set
  <2>1. s \in Group(set, s.key) /\ Ranked(Group(set, s.key))
    BY <1>3 DEF Group, Ranked
  <2>2. best(s.key) \in Group(set, s.key) /\ (best(s.key) = s \/ Stronger(best(s.key), s))
    BY <2>1, StrongestIsStronger
  <2> QED BY <2>2 DEF Group
<1> HIDE DEF best
<1> DEFINE retained == IdsOf(ToSet(layers.retained))
           rejected == IdsOf(layers.rejected)
           ignored == UNION {d.ignored : d \in layers.deduplicated}
           keeps == {s \in set : s = best(s.key)}
<1>9. ToSet(layers.retained) = keeps
  <2> DEFINE m == Len(layers.retained)
  <2>1. /\ m \in Nat /\ DOMAIN layers.retained = 1..m
        /\ \A i \in 1..m : layers.retained[i] \in set /\ layers.retained[i] = best(layers.retained[i].key)
        /\ \A s \in set : \E i \in 1..m : layers.retained[i].key = s.key
    BY <1>3 DEF LayersOf, Layering, best
  <2>2. ToSet(layers.retained) = {layers.retained[i] : i \in 1..m}
    BY <2>1 DEF ToSet
  <2> HIDE DEF m
  <2>3. \A i \in 1..m : layers.retained[i] \in keeps
    BY <2>1
  <2>4. \A s \in keeps : \E i \in 1..m : layers.retained[i] = s
    <3> TAKE s \in keeps
    <3>1. PICK i \in 1..m : layers.retained[i].key = s.key
      BY <2>1
    <3> QED BY <2>1, <3>1
  <2> QED BY <2>2, <2>3, <2>4
<1>10. retained = {s.id : s \in keeps}
  BY <1>9 DEF IdsOf
<1>11. \A d \in layers.deduplicated :
         \E k \in {s.key : s \in set} :
           d.key = k /\ d.kept = best(k).id /\ d.ignored = {s.id : s \in Group(set, k) \ {best(k)}}
  BY <1>5 DEF IdsOf
<1>12. \A s \in set \ keeps : \E d \in layers.deduplicated : s.id \in d.ignored
  <2> TAKE s \in set \ keeps
  <2> DEFINE d == [key |-> s.key, kept |-> best(s.key).id, ignored |-> IdsOf(Group(set, s.key) \ {best(s.key)})]
  <2>1. s \in Group(set, s.key) \ {best(s.key)}
    BY DEF Group
  <2>2. d \in layers.deduplicated
    BY <1>5, <2>1
  <2>3. s.id \in d.ignored
    BY <2>1 DEF IdsOf
  <2> QED BY <2>2, <2>3
<1>13. \A d \in layers.deduplicated : \A i \in d.ignored : \E s \in set \ keeps :
         s.id = i /\ s.key = d.key /\ d.kept = best(s.key).id
  <2> TAKE d \in layers.deduplicated
  <2> TAKE i \in d.ignored
  <2>1. PICK k \in {s.key : s \in set} :
          d.key = k /\ d.kept = best(k).id /\ d.ignored = {s.id : s \in Group(set, k) \ {best(k)}}
    BY <1>11
  <2>2. PICK s \in Group(set, k) \ {best(k)} : s.id = i
    BY <2>1
  <2>3. s \in set \ keeps /\ s.key = k
    BY <2>2 DEF Group
  <2> QED BY <2>1, <2>2, <2>3
<1>14. ignored = {s.id : s \in set \ keeps}
  <2>1. ASSUME NEW i \in ignored PROVE \E s \in set \ keeps : s.id = i
    BY <1>13
  <2>2. ASSUME NEW s \in set \ keeps PROVE s.id \in ignored
    BY <1>12
  <2> HIDE DEF ignored
  <2> QED BY <2>1, <2>2
<1>15. rejected = {i \in 1..n : Rejected(Frozen(rows[i]), Truncated(now))}
  BY <1>4, <1>6 DEF IdsOf
<1>16. \A i \in 1..n : Rejected(Frozen(rows[i]), Truncated(now)) \/ Frozen(rows[i]) \in set
  BY <1>3
<1>17. \A s \in set : s.id \notin rejected
  BY <1>3, <1>7, <1>15
<1>18. \A s, other \in set : s.id = other.id => s = other
  BY <1>3 DEF Ranked
<1> HIDE DEF retained, rejected, ignored
<1>19. retained \cup rejected \cup ignored = DOMAIN rows
  <2>1. retained \subseteq 1..n /\ rejected \subseteq 1..n /\ ignored \subseteq 1..n
    BY <1>7, <1>10, <1>14, <1>15
  <2>2. ASSUME NEW i \in 1..n PROVE i \in retained \cup rejected \cup ignored
    <3>1. CASE Rejected(Frozen(rows[i]), Truncated(now))
      BY <1>15, <3>1
    <3>2. CASE ~ Rejected(Frozen(rows[i]), Truncated(now))
      <4>1. Frozen(rows[i]) \in set /\ Frozen(rows[i]).id = i
        BY <1>6, <1>16, <3>2
      <4> QED BY <1>10, <1>14, <4>1
    <3> QED BY <3>1, <3>2
  <2> QED BY <1>1, <2>1, <2>2 DEF n
<1>20. retained \cap rejected = {} /\ retained \cap ignored = {} /\ rejected \cap ignored = {}
  <2>1. retained \cap rejected = {} /\ ignored \cap rejected = {}
    BY <1>10, <1>14, <1>17
  <2>2. retained \cap ignored = {}
    BY <1>10, <1>14, <1>18
  <2> QED BY <2>1, <2>2
<1>21. \A i, j \in retained : rows[i].key = rows[j].key => i = j
  BY <1>7, <1>10
<1>22. ASSUME NEW d \in layers.deduplicated
       PROVE  /\ d.kept \in retained /\ rows[d.kept].key = d.key
              /\ \A i \in d.ignored :
                   /\ rows[i].key = d.key
                   /\ \/ rows[i].effectiveness < rows[d.kept].effectiveness
                      \/ rows[i].effectiveness = rows[d.kept].effectiveness /\ d.kept < i
  <2>1. PICK k \in {s.key : s \in set} : d.key = k /\ d.kept = best(k).id
    BY <1>11
  <2>2. best(k) \in set /\ best(k).key = k
    BY <1>8
  <2>3. d.kept \in retained /\ rows[d.kept].key = d.key
    BY <1>7, <1>10, <2>1, <2>2
  <2>4. ASSUME NEW i \in d.ignored
        PROVE  /\ rows[i].key = d.key
               /\ \/ rows[i].effectiveness < rows[d.kept].effectiveness
                  \/ rows[i].effectiveness = rows[d.kept].effectiveness /\ d.kept < i
    <3>1. PICK s \in set \ keeps : s.id = i /\ s.key = d.key
      BY <1>13
    <3>2. Stronger(best(k), s)
      BY <1>8, <2>1, <3>1
    <3>3. /\ s.effectiveness = rows[i].effectiveness /\ s.key = rows[i].key
          /\ best(k).effectiveness = rows[d.kept].effectiveness
          /\ s.effectiveness \in 1..Scale /\ best(k).effectiveness \in 1..Scale /\ Scale \in Nat
      BY <1>3, <1>7, <2>1, <2>2, <3>1, ScaleAssumption DEF Ranked
    <3> QED BY <2>1, <3>1, <3>2, <3>3 DEF Stronger
  <2> QED BY <2>3, <2>4
<1> QED BY <1>19, <1>20, <1>21, <1>22 DEF RowsAccountedFor, retained, rejected, ignored, layers

-----------------------------------------------------------------------------
(* 6. The definition of the coverage.                                      *)

(* The fold of the definition. *)
Best(set, k) == Max({s.effectiveness : s \in {c \in set : c.key = k}})

Folds(iter, set, sets) ==
  iter = [s \in sets |->
            IF s = {} THEN <<1, 1>>
            ELSE LET y == CHOOSE x \in s : TRUE IN Times(iter[s \ {y}], Scale - Best(set, y))]

Fold(set) == CHOOSE iter : Folds(iter, set, SUBSET {s.key : s \in set})

LEMMA DefinitionFolds ==
  ASSUME NEW set, set = {s \in ToSet(snapshot.safeguards) : InForce(s, snapshot.referenceTime)}
  PROVE  CoverageAsDefined <=> result.remaining = Fold(set)[{s.key : s \in set}]
BY DEF CoverageAsDefined, FoldSet, MapThenFoldSet, Fold, Folds, Best, Times

LEMMA FoldExists ==
  ASSUME NEW set, IsFiniteSet({s.key : s \in set})
  PROVE  Folds(Fold(set), set, SUBSET {s.key : s \in set})
<1> DEFINE keys == {s.key : s \in set}
           Small(n) == {s \in SUBSET keys : Cardinality(s) <= n}
           S == {n \in Nat : \E iter : Folds(iter, set, Small(n))}
<1>1. ASSUME NEW s \in SUBSET keys
      PROVE  /\ IsFiniteSet(s) /\ Cardinality(s) \in Nat /\ Cardinality(s) <= Cardinality(keys)
             /\ \A y \in s : Cardinality(s \ {y}) = Cardinality(s) - 1 /\ s \ {y} \in SUBSET keys
             /\ Cardinality(s) = 0 => s = {}
  <2>1. IsFiniteSet(s) /\ Cardinality(s) <= Cardinality(keys)
    BY FS_Subset
  <2> QED BY <2>1, FS_CardinalityType, FS_RemoveElement, FS_EmptySet
<1> HIDE DEF keys
<1>2. 0 \in S
  <2> DEFINE iter == [s \in Small(0) |-> <<1, 1>>]
  <2>1. \A s \in Small(0) : s = {}
    BY <1>1
  <2>2. Folds(iter, set, Small(0))
    BY <2>1 DEF Folds
  <2> QED BY <2>2
<1>3. ASSUME NEW n \in Nat, n \in S PROVE n + 1 \in S
  <2>1. PICK iter : Folds(iter, set, Small(n))
    BY <1>3
  <2> DEFINE Next1(s) == LET y == CHOOSE x \in s : TRUE IN Times(iter[s \ {y}], Scale - Best(set, y))
             next == [s \in Small(n + 1) |-> IF s \in Small(n) THEN iter[s] ELSE Next1(s)]
  <2>2. ASSUME NEW s \in Small(n + 1), s # {}
        PROVE  \E y : y = (CHOOSE x \in s : TRUE) /\ s \ {y} \in Small(n) /\ s \ {y} \in Small(n + 1)
    <3>1. PICK y : y = (CHOOSE x \in s : TRUE)
      OBVIOUS
    <3>2. y \in s
      BY <2>2, <3>1
    <3>3. Cardinality(s \ {y}) = Cardinality(s) - 1 /\ s \ {y} \in SUBSET keys /\ Cardinality(s) \in Nat
      BY <1>1, <3>2
    <3>4. s \ {y} \in Small(n) /\ s \ {y} \in Small(n + 1)
      BY <3>3
    <3> QED BY <3>1, <3>4
  <2>3. \A s \in Small(n) : iter[s] = IF s = {} THEN <<1, 1>> ELSE Next1(s)
    BY <2>1 DEF Folds
  <2>4. {} \in Small(n)
    BY FS_EmptySet
  <2>5. ASSUME NEW s \in Small(n + 1)
        PROVE  next[s] = IF s = {} THEN <<1, 1>>
                         ELSE LET y == CHOOSE x \in s : TRUE IN Times(next[s \ {y}], Scale - Best(set, y))
    <3>1. CASE s = {}
      BY <2>3, <2>4, <3>1
    <3>2. CASE s # {}
      <4>1. PICK y : y = (CHOOSE x \in s : TRUE) /\ s \ {y} \in Small(n) /\ s \ {y} \in Small(n + 1)
        BY <2>2, <3>2
      <4>2. next[s \ {y}] = iter[s \ {y}]
        BY <4>1
      <4>3. next[s] = Next1(s)
        BY <2>3, <3>2
      <4> HIDE DEF next, Small
      <4> QED BY <3>2, <4>1, <4>2, <4>3
    <3> QED BY <3>1, <3>2
  <2>6. next = [s \in Small(n + 1) |-> next[s]]
    OBVIOUS
  <2> HIDE DEF next, Small
  <2>7. Folds(next, set, Small(n + 1))
    BY <2>5, <2>6 DEF Folds
  <2> QED BY <2>7
<1>4. Nat \subseteq S
  <2> HIDE DEF S
  <2> QED BY <1>2, <1>3, InductionOnNaturals
<1>5. PICK n \in Nat : n = Cardinality(keys)
  BY <1>1
<1>6. Small(n) = SUBSET keys
  BY <1>1, <1>5
<1>7. \E iter : Folds(iter, set, SUBSET keys)
  BY <1>4, <1>6
<1> QED BY <1>7 DEF Fold, keys

Pair(p) == p = <<p[1], p[2]>> /\ p[1] \in Nat /\ p[2] \in Nat

LEMMA TimesCommute ==
  ASSUME NEW p, Pair(p), NEW a \in Nat, NEW b \in Nat
  PROVE  Pair(Times(p, a)) /\ Times(Times(p, a), b) = Times(Times(p, b), a)
<1>1. PICK c \in Nat, d \in Nat : p = <<c, d>>
  BY DEF Pair
<1>2. (c * a) * b = (c * b) * a /\ c * a \in Nat /\ d * Scale \in Nat
  BY ScaleAssumption
<1> QED BY <1>1, <1>2 DEF Pair, Times

(* Any key may be taken as the last. *)
LEMMA FoldInAnyOrder ==
  ASSUME NEW set, NEW keys, keys = {s.key : s \in set}, IsFiniteSet(keys),
         \A k \in keys : Scale - Best(set, k) \in Nat
  PROVE  /\ Fold(set)[{}] = <<1, 1>>
         /\ \A s \in SUBSET keys : \A x \in s : Fold(set)[s] = Times(Fold(set)[s \ {x}], Scale - Best(set, x))
<1> DEFINE F == Fold(set)
           Left(k) == Scale - Best(set, k)
           Right(s) == Pair(F[s]) /\ \A x \in s : F[s] = Times(F[s \ {x}], Left(x))
           S == {n \in Nat : \A s \in SUBSET keys : Cardinality(s) <= n => Right(s)}
<1>1. F = [s \in SUBSET keys |->
             IF s = {} THEN <<1, 1>>
             ELSE LET y == CHOOSE x \in s : TRUE IN Times(F[s \ {y}], Left(y))]
  BY FoldExists DEF Folds
<1>2. ASSUME NEW s \in SUBSET keys
      PROVE  /\ IsFiniteSet(s) /\ Cardinality(s) \in Nat /\ (Cardinality(s) = 0 => s = {})
             /\ \A y \in s : Cardinality(s \ {y}) = Cardinality(s) - 1 /\ s \ {y} \in SUBSET keys
  <2>1. IsFiniteSet(s)
    BY FS_Subset
  <2> QED BY <2>1, FS_CardinalityType, FS_RemoveElement, FS_EmptySet
<1>3. F[{}] = <<1, 1>>
  BY <1>1
<1>4. ASSUME NEW s \in SUBSET keys, s # {}
      PROVE  \E y \in s : F[s] = Times(F[s \ {y}], Left(y))
  BY <1>1, <1>4
<1> HIDE DEF F
<1>5. 0 \in S
  <2>1. \A s \in SUBSET keys : Cardinality(s) <= 0 => s = {}
    BY <1>2
  <2>2. Right({})
    BY <1>3 DEF Pair
  <2> HIDE DEF Right
  <2> QED BY <2>1, <2>2
<1>6. ASSUME NEW n \in Nat, n \in S PROVE n + 1 \in S
  <2> SUFFICES ASSUME NEW s \in SUBSET keys, Cardinality(s) <= n + 1, s # {} PROVE Right(s)
    <3>1. Right({})
      BY <1>3 DEF Pair
    <3> HIDE DEF Right
    <3> QED BY <3>1
  <2>1. s # {}
    OBVIOUS
  <2>2. PICK y \in s : F[s] = Times(F[s \ {y}], Left(y))
    BY <1>4, <2>1
  <2>3. \A x \in s : s \ {x} \in SUBSET keys /\ Right(s \ {x})
    <3> TAKE x \in s
    <3>1. Cardinality(s \ {x}) <= n /\ s \ {x} \in SUBSET keys
      BY <1>2
    <3> QED BY <1>6, <3>1
  <2>4. \A x \in s : Left(x) \in Nat
    OBVIOUS
  <2> HIDE DEF Left, S
  <2>5. Pair(F[s])
    <3>1. Pair(F[s \ {y}]) /\ Left(y) \in Nat
      BY <2>3, <2>4
    <3>2. Pair(Times(F[s \ {y}], Left(y)))
      BY <3>1, TimesCommute
    <3> QED BY <2>2, <3>2
  <2>6. ASSUME NEW x \in s PROVE F[s] = Times(F[s \ {x}], Left(x))
    <3>1. CASE x = y
      BY <2>2, <3>1
    <3>2. CASE x # y
      <4> DEFINE rest == (s \ {y}) \ {x}
      <4>1. rest = (s \ {x}) \ {y} /\ x \in s \ {y} /\ y \in s \ {x}
        BY <3>2
      <4>2. F[s \ {y}] = Times(F[rest], Left(x)) /\ F[s \ {x}] = Times(F[rest], Left(y))
        BY <2>3, <4>1
      <4>3. Pair(F[rest])
        <5>1. s \ {y} \in SUBSET keys /\ rest \in SUBSET keys
          BY <1>2
        <5>2. Cardinality(s \ {y}) = Cardinality(s) - 1 /\ Cardinality(rest) = Cardinality(s \ {y}) - 1
          BY <1>2, <4>1, <5>1
        <5>3. Cardinality(rest) <= n
          BY <1>2, <5>1, <5>2
        <5>4. Right(rest)
          BY <1>6, <5>1, <5>3 DEF S
        <5> QED BY <5>4
      <4> HIDE DEF rest
      <4>4. Times(Times(F[rest], Left(x)), Left(y)) = Times(Times(F[rest], Left(y)), Left(x))
        BY <2>4, <4>3, TimesCommute
      <4> QED BY <2>2, <4>2, <4>4
    <3> QED BY <3>1, <3>2
  <2> QED BY <2>5, <2>6
<1>7. Nat \subseteq S
  <2> HIDE DEF S
  <2> QED BY <1>5, <1>6, InductionOnNaturals
<1>8. \A s \in SUBSET keys : Right(s)
  BY <1>2, <1>7
<1> QED BY <1>3, <1>8 DEF F

(* The best of a key is its layer. *)
LEMMA BestIsLayer ==
  ASSUME NEW set, Ranked(set), NEW layers, LayersOf(layers, set), NEW i \in 1..Len(layers)
  PROVE  Best(set, layers[i].key) = layers[i].effectiveness
<1> DEFINE m == Len(layers)
           T == {s.effectiveness : s \in {c \in set : c.key = layers[i].key}}
           e == layers[i].effectiveness
<1>1. m \in Nat /\ Layering(layers, m) /\ layers[i] \in set
  BY DEF LayersOf
<1>2. e \in T
  BY <1>1
<1>3. T \subseteq 1..Scale /\ Scale \in Nat
  BY ScaleAssumption DEF Ranked
<1>4. \A f \in T : e >= f
  <2> SUFFICES ASSUME NEW s \in set, s.key = layers[i].key PROVE e >= s.effectiveness
    OBVIOUS
  <2>1. PICK j \in 1..m : layers[j].key = s.key /\ (layers[j] = s \/ Stronger(layers[j], s))
    BY DEF LayersOf
  <2>2. layers[i].key \in Nat /\ layers[j].key \in Nat
    BY <1>1 DEF Layering
  <2>3. ~ (i < j) /\ ~ (j < i)
    BY <1>1, <2>1, <2>2 DEF Layering
  <2>4. i = j
    BY <1>1, <2>3
  <2>5. e \in 1..Scale /\ s.effectiveness \in 1..Scale
    BY <1>1 DEF Ranked
  <2> QED BY <1>3, <2>1, <2>4, <2>5 DEF Stronger
<1> HIDE DEF T, e
<1>5. \A x \in T : (\A f \in T : x >= f) => x = e
  BY <1>2, <1>3, <1>4
<1>6. Max(T) = e
  BY <1>2, <1>4, <1>5 DEF Max
<1> QED BY <1>6 DEF Best, T, e

(* Taking the keys in their order, the fold is the product of the layers.  *)
LEMMA FoldIsProduct ==
  ASSUME NEW set, Ranked(set), NEW layers, LayersOf(layers, set),
         NEW keys, keys = {s.key : s \in set}, IsFiniteSet(keys)
  PROVE  Fold(set)[keys] = Product(layers)[Len(layers)]
<1> DEFINE first(i) == {layers[j].key : j \in 1..i}
<1>1. PICK m \in Nat : m = Len(layers) /\ Layering(layers, m) /\ \A i \in 1..m : layers[i] \in set
  BY DEF LayersOf
<1>2. keys = first(m)
  <2>1. \A i \in 1..m : layers[i].key \in keys
    BY <1>1
  <2>2. \A k \in keys : \E i \in 1..m : layers[i].key = k
    BY <1>1 DEF LayersOf
  <2> QED BY <2>1, <2>2
<1>3. \A i \in 1..m : Best(set, layers[i].key) = layers[i].effectiveness /\ layers[i].effectiveness \in 1..Scale
  BY <1>1, BestIsLayer DEF Layering
<1>4. \A k \in keys : Scale - Best(set, k) \in Nat
  <2> TAKE k \in keys
  <2>1. PICK i \in 1..m : k = layers[i].key
    BY <1>2
  <2>2. Best(set, k) \in 1..Scale
    BY <1>3, <2>1
  <2> QED BY <2>2, ScaleAssumption
<1>5. /\ Fold(set)[{}] = <<1, 1>>
      /\ \A s \in SUBSET keys : \A x \in s : Fold(set)[s] = Times(Fold(set)[s \ {x}], Scale - Best(set, x))
  BY <1>4, FoldInAnyOrder
<1> DEFINE S == {i \in Nat : i <= m => Fold(set)[first(i)] = Product(layers)[i]}
<1>6. 0 \in S
  <2>1. first(0) = {}
    OBVIOUS
  <2>2. Product(layers)[0] = <<1, 1>>
    BY <1>1, ProductSteps
  <2> QED BY <1>5, <2>1, <2>2
<1>7. ASSUME NEW i \in Nat, i \in S PROVE i + 1 \in S
  <2> SUFFICES ASSUME i + 1 <= m PROVE Fold(set)[first(i + 1)] = Product(layers)[i + 1]
    OBVIOUS
  <2>1. i + 1 \in 1..m /\ i \in 0..(m - 1)
    BY <1>1
  <2> DEFINE k == layers[i + 1].key
  <2>2. k \in first(i + 1) /\ first(i + 1) \in SUBSET keys
    <3>1. 1..(i + 1) \subseteq 1..m /\ i + 1 \in 1..(i + 1)
      BY <2>1
    <3>2. first(i + 1) \subseteq first(m)
      BY <3>1
    <3> QED BY <1>2, <3>1, <3>2
  <2>3. \A j \in 1..i : layers[j].key # k
    <3> TAKE j \in 1..i
    <3>1. layers[j].key < k /\ layers[j].key \in Nat /\ k \in Nat
      BY <1>1, <2>1 DEF Layering
    <3> QED BY <3>1
  <2>4. first(i + 1) \ {k} = first(i)
    BY <2>3
  <2>5. Fold(set)[first(i + 1)] = Times(Fold(set)[first(i)], Scale - Best(set, k))
    <3> HIDE DEF first, k
    <3> QED BY <1>5, <2>2, <2>4
  <2>6. Scale - Best(set, k) = Scale - layers[i + 1].effectiveness
    BY <1>3, <2>1
  <2>7. Product(layers)[i + 1] = Times(Product(layers)[i], Scale - layers[i + 1].effectiveness)
    BY <1>1, <2>1, ProductSteps
  <2>8. Fold(set)[first(i)] = Product(layers)[i]
    BY <1>7
  <2> HIDE DEF first, k
  <2> QED BY <2>5, <2>6, <2>7, <2>8
<1>8. m \in S
  <2> HIDE DEF S
  <2> QED BY <1>1, <1>6, <1>7, InductionOnNaturals
<1> HIDE DEF first
<1>9. Fold(set)[first(m)] = Product(layers)[m]
  BY <1>8
<1> QED BY <1>1, <1>2, <1>9

(* What counts by definition is what is not rejected. *)
LEMMA InForceCounts ==
  ASSUME NEW row \in Row, row.state = "active" => row.verifiedAt \in Nat, NEW t \in Nat
  PROVE  InForce(Frozen(row), Truncated(t)) <=> ~ Rejected(Frozen(row), Truncated(t))
<1>1. /\ Frozen(row).key = row.key /\ Frozen(row).state = row.state
      /\ Frozen(row).effectiveness = row.effectiveness /\ Frozen(row).interval = row.interval
      /\ Frozen(row).verifiedAt = Truncated(row.verifiedAt)
      /\ row.effectiveness \in 1..Scale /\ row.interval \in Nat \ {0}
  BY FrozenRow
<1>2. CASE row.state # "active"
  BY <1>1, <1>2 DEF InForce, IsEffectiveAt, Rejected, ineligibleReason
<1>3. CASE row.state = "active"
  <2>1. Truncated(row.verifiedAt) \in Nat /\ Truncated(t) \in Nat
    BY <1>3, TruncatedInOrder
  <2>2. Truncated(row.verifiedAt) # Never
    BY <2>1, ScaleAssumption
  <2>3. row.effectiveness # 0 /\ ~ (row.effectiveness > Scale) /\ row.interval # 0
    BY <1>1, ScaleAssumption
  <2>4. PICK days \in Nat : days = row.interval * Day
    BY <1>1, ScaleAssumption
  <2>5. Truncated(t) <= Truncated(row.verifiedAt) + days <=> ~ (Truncated(t) > Truncated(row.verifiedAt) + days)
    BY <2>1
  <2> QED BY <1>1, <1>3, <2>2, <2>3, <2>4, <2>5 DEF InForce, IsEffectiveAt, Rejected, ineligibleReason
<1> QED BY <1>2, <1>3

LEMMA CoverageIsDefined == RegisterInv => CoverageAsDefined
<1> SUFFICES ASSUME RegisterInv PROVE CoverageAsDefined
  OBVIOUS
<1> DEFINE n == Len(rows)
           set == CountingRows(rows, scenario, now)
           keys == {s.key : s \in set}
<1>1. RowList(rows, n) /\ n \in Nat /\ \A i \in 1..n : rows[i] \in Row /\ rows[i] \in Rows(i)
  BY RowsAreList DEF RowList, RegisterInv
<1>2. /\ set = {f \in {Frozen(rows[i]) : i \in 1..n} : ~ Rejected(f, Truncated(now))}
      /\ IsFiniteSet(set) /\ Ranked(set)
  BY <1>1, CountingInList
<1>3. LayersOf(result.layers.retained, set)
  BY <1>1, LayersOfList DEF result, snapshot
<1>4. snapshot.referenceTime = Truncated(now) /\ ToSet(snapshot.safeguards) = {Frozen(rows[i]) : i \in 1..n}
  BY <1>1, SnapshotOfList DEF snapshot
<1>5. \A i \in 1..n : InForce(Frozen(rows[i]), Truncated(now)) <=> ~ Rejected(Frozen(rows[i]), Truncated(now))
  <2> TAKE i \in 1..n
  <2>1. rows[i].state = "active" => rows[i].verifiedAt \in Nat
    BY <1>1, RegisterAssumption DEF Rows, RegisterInv
  <2> QED BY <1>1, <2>1, InForceCounts DEF RegisterInv
<1> HIDE DEF n
<1>6. set = {s \in ToSet(snapshot.safeguards) : InForce(s, snapshot.referenceTime)}
  BY <1>2, <1>4, <1>5
<1>7. IsFiniteSet(keys)
  <2> DEFINE f == [s \in set |-> s.key]
  <2> HIDE DEF set
  <2>1. f \in Surjection(set, keys)
    BY DEF Surjection
  <2> QED BY <1>2, <2>1, FS_Surjection
<1> HIDE DEF set
<1>8. Fold(set)[keys] = Product(result.layers.retained)[Len(result.layers.retained)]
  BY <1>2, <1>3, <1>7, FoldIsProduct
<1>9. result.remaining = Product(result.layers.retained)[Len(result.layers.retained)]
  BY RemainingIsProduct DEF result, Evaluate
<1>10. result.remaining = Fold(set)[keys]
  BY <1>8, <1>9
<1> QED BY <1>6, <1>10, DefinitionFolds

(* EvaluationAsDefined: of a register of any size, sorting and grouping     *)
(* computes the coverage of the definition, and each row is retained,      *)
(* ignored for the layer named as kept, or rejected.                       *)
THEOREM EvaluationAsDefinedCorrect == RegisterSpec => []EvaluationAsDefined
<1>1. RegisterInv => EvaluationAsDefined
  BY CoverageIsDefined, EveryRowAccountedFor DEF EvaluationAsDefined
<1> QED BY <1>1, RegisterInvariance, PTL

-----------------------------------------------------------------------------
(* 7. What waiting changes.                                                *)

(* What remains when some of a set count is at least what remains when all *)
(* of it does.                                                             *)
LEMMA MoreCountLessRemains ==
  ASSUME NEW few, NEW all, few \subseteq all, NEW old, NEW new, LayersOf(old, few), LayersOf(new, all),
         Ranked(all)
  PROVE  /\ Fraction(Remaining(new)) /\ Fraction(Remaining(old)) /\ AtMost(Remaining(new), Remaining(old))
         /\ SameFactors(new, Len(new), old, Len(old)) \/ Reduced(Remaining(new), Remaining(old))
<1> DEFINE m == Len(old)
           n == Len(new)
<1>1. m \in Nat /\ n \in Nat /\ Layering(old, m) /\ Layering(new, n)
  BY DEF LayersOf
<1>2. Covers(new, n, old, m)
  <2> SUFFICES ASSUME NEW k \in 1..m
               PROVE  \E l \in 1..n : new[l].key = old[k].key /\ new[l].effectiveness >= old[k].effectiveness
    BY DEF Covers
  <2>1. old[k] \in all
    BY DEF LayersOf
  <2>2. PICK l \in 1..n : new[l].key = old[k].key /\ (new[l] = old[k] \/ Stronger(new[l], old[k]))
    BY <2>1 DEF LayersOf
  <2>3. new[l].effectiveness \in 1..Scale /\ old[k].effectiveness \in 1..Scale /\ Scale \in Nat
    BY <1>1, ScaleAssumption DEF Layering
  <2>4. new[l].effectiveness >= old[k].effectiveness
    BY <2>2, <2>3 DEF Stronger
  <2> QED BY <2>2, <2>4
<1>3. Remaining(new) = Product(new)[n] /\ Remaining(old) = Product(old)[m]
  BY RemainingIsProduct
<1>4. Fraction(Product(new)[n]) /\ Fraction(Product(old)[m])
  BY <1>1, ProductIsFraction
<1> QED BY <1>1, <1>2, <1>3, <1>4, MoreLayersCoverMore

(* What is rejected stays so. *)
LEMMA RejectedLater ==
  ASSUME NEW row \in Row, NEW t \in Nat, NEW later \in Nat, t <= later, Rejected(Frozen(row), Truncated(t))
  PROVE  Rejected(Frozen(row), Truncated(later))
<1>1. CASE row.verifiedAt \in Nat
  <2>1. Truncated(row.verifiedAt) \in Nat /\ Truncated(t) \in Nat /\ Truncated(later) \in Nat
        /\ Truncated(t) <= Truncated(later)
    BY <1>1, TruncatedInOrder
  <2>2. PICK days \in Nat : days = row.interval * Day
    BY FrozenRow, ScaleAssumption
  <2>3. Truncated(t) > Truncated(row.verifiedAt) + days => Truncated(later) > Truncated(row.verifiedAt) + days
    BY <2>1
  <2> QED BY <2>2, <2>3, FrozenRow DEF Rejected, ineligibleReason
<1>2. CASE row.verifiedAt = Never
  BY <1>2, FrozenRow DEF Rejected, ineligibleReason, Truncated
<1> QED BY <1>1, <1>2 DEF Row

LEMMA WaitingHelpsNot == RegisterInv => WaitingNeverHelps
<1> SUFFICES ASSUME RegisterInv, NEW t \in now..MaxTime
             PROVE  AtMost(result.remaining, Evaluate(NewSnapshot(rows, scenario, t)).remaining)
  BY DEF WaitingNeverHelps
<1> DEFINE n == Len(rows)
           all == CountingRows(rows, scenario, now)
           few == CountingRows(rows, scenario, t)
           new == Evaluate(NewSnapshot(rows, scenario, now)).layers.retained
           old == Evaluate(NewSnapshot(rows, scenario, t)).layers.retained
<1>1. now \in Nat /\ t \in Nat /\ now <= t
  BY RegisterAssumption DEF RegisterInv
<1>2. RowList(rows, n)
  BY RowsAreList
<1>3. few \subseteq all
  <2>1. ASSUME NEW i \in 1..n, Rejected(Frozen(rows[i]), Truncated(now))
        PROVE  Rejected(Frozen(rows[i]), Truncated(t))
    BY <1>1, <1>2, <2>1, RejectedLater DEF RowList
  <2>2. /\ all = {f \in {Frozen(rows[i]) : i \in 1..n} : ~ Rejected(f, Truncated(now))}
        /\ few = {f \in {Frozen(rows[i]) : i \in 1..n} : ~ Rejected(f, Truncated(t))}
    BY <1>2, CountingInList
  <2> HIDE DEF all, few
  <2> QED BY <2>1, <2>2
<1>4. LayersOf(new, all) /\ LayersOf(old, few) /\ Ranked(all)
  BY <1>2, LayersOfList, CountingInList
<1>5. result.remaining = Remaining(new) /\ Evaluate(NewSnapshot(rows, scenario, t)).remaining = Remaining(old)
  BY DEF result, snapshot, Evaluate
<1> HIDE DEF all, few, new, old
<1>6. AtMost(Remaining(new), Remaining(old))
  BY <1>3, <1>4, MoreCountLessRemains
<1> QED BY <1>5, <1>6

(* WaitingNeverHelps: while no row is changed, what remains uncovered only  *)
(* grows, for any register.                                                *)
THEOREM WaitingNeverHelpsCorrect == RegisterSpec => []WaitingNeverHelps
BY RegisterInvariance, WaitingHelpsNot, PTL

-----------------------------------------------------------------------------
(* 8. The residual risk.                                                   *)

(* The ceiling of a fraction of the initial risk is one of its roundings.  *)
LEMMA Division ==
  ASSUME NEW t \in Nat, NEW b \in Nat \ {0}
  PROVE  t \div b \in Nat /\ t % b \in 0..(b - 1) /\ t = b * (t \div b) + (t % b)
OBVIOUS

LEMMA CeilingIsRounding ==
  ASSUME NEW risk \in Nat \ {0}, NEW x, Fraction(x)
  PROVE  Ceiling(risk, x) \in Nat /\ IsRounding(Ceiling(risk, x), risk, x)
<1>1. PICK a \in Nat, b \in Nat \ {0} : x = <<a, b>>
  BY DEF Fraction
<1>2. PICK p \in Nat : p = risk * a
  OBVIOUS
<1>3. p + b - 1 \in Nat
  OBVIOUS
<1>4. PICK c \in Nat, r \in 0..(b - 1) : c = (p + b - 1) \div b /\ p + b - 1 = b * c + r
  BY <1>3, Division
<1>5. Ceiling(risk, x) = c
  BY <1>1, <1>2, <1>4 DEF Ceiling
<1>6. PICK k \in Nat : k = c * b
  OBVIOUS
<1>7. p <= k /\ k < p + b
  BY <1>4, <1>6
<1>8. Precision \in Nat /\ Precision > 0
  BY ScaleAssumption
<1>9. p * Precision <= k * Precision /\ k * Precision < (p + b) * Precision
  BY <1>7, <1>8, ProductOrder
<1>10. PICK s \in Nat \ {0} : s = risk * b
  OBVIOUS
<1>11. p * Precision < (c * Precision + risk) * b
  <2>1. (c * Precision + risk) * b = k * Precision + s
    BY <1>6, <1>8, <1>10
  <2>2. p * Precision \in Nat /\ k * Precision \in Nat
    BY <1>8
  <2> QED BY <1>9, <2>1, <2>2
<1>12. c * Precision * b < p * Precision + (Precision + risk) * b
  <2>1. c * Precision * b = k * Precision
    BY <1>6, <1>8
  <2>2. p * Precision + (Precision + risk) * b = (p + b) * Precision + s
    BY <1>8, <1>10
  <2>3. (p + b) * Precision \in Nat /\ k * Precision \in Nat
    BY <1>8
  <2> QED BY <1>9, <2>1, <2>2, <2>3
<1> QED BY <1>1, <1>2, <1>5, <1>11, <1>12 DEF IsRounding

LEMMA Lesser ==
  ASSUME NEW a \in Nat, NEW b \in Nat, NEW k \in Nat, a * k < b * k
  PROVE  a < b
<1>1. ~ (b <= a)
  <2> SUFFICES ASSUME b <= a PROVE FALSE
    OBVIOUS
  <2>1. b * k <= a * k /\ b * k \in Nat /\ a * k \in Nat
    BY ProductOrder
  <2> QED BY <2>1
<1> QED BY <1>1

(* A product that is reduced, and not below 1, is reduced by more than     *)
(* rounding adds.                                                          *)
LEMMA RoundingsInOrder ==
  ASSUME NEW risk \in Nat \ {0}, 2 * Scale * risk <= Precision,
         NEW x, NEW y, Fraction(x), Fraction(y), Reduced(x, y),
         NEW c \in Nat, NEW d \in Nat, IsRounding(c, risk, x), IsRounding(d, risk, y)
  PROVE  AtLeastOne(c) <= AtLeastOne(d)
<1> SUFFICES ASSUME c >= d + 1, c >= 2 PROVE FALSE
  BY DEF AtLeastOne
<1>1. PICK a \in Nat, b \in Nat \ {0} : x = <<a, b>>
  BY DEF Fraction
<1>2. PICK p \in Nat, q \in Nat \ {0} : y = <<p, q>>
  BY DEF Fraction
<1>3. PICK k \in Nat \ {0} : c = k + 1 /\ d <= k
  <2>1. c - 1 \in Nat \ {0} /\ c = (c - 1) + 1 /\ d <= c - 1
    OBVIOUS
  <2> QED BY <2>1
<1>4. Scale \in Nat \ {0} /\ Precision \in Nat \ {0} /\ Scale - 1 \in Nat
  BY ScaleAssumption
<1>5. PICK P \in Nat \ {0}, S \in Nat \ {0}, T \in Nat : P = Precision /\ S = Scale /\ T = Scale - 1 /\ S = T + 1
  BY <1>4
<1>6. (a * S) * q <= (p * T) * b
  BY <1>1, <1>2, <1>5 DEF Reduced, AtMost
<1>7. c * P * b < risk * a * P + (P + risk) * b
  BY <1>1, <1>5 DEF IsRounding
<1>8. risk * p * P < (d * P + risk) * q
  BY <1>2, <1>5 DEF IsRounding
(* e is the upper bound of a risk, in units of 1/P, that k may round. *)
<1>9. PICK e \in Nat \ {0} : e = k * P + risk
  <2>1. k * P \in Nat
    OBVIOUS
  <2>2. k * P + risk \in Nat \ {0}
    BY <2>1
  <2> QED BY <2>2
<1>10. (risk * p * P) * (T * b) <= (e * q) * (T * b)
  <2>1. risk * p * P <= e * q
    <3>1. d * P <= k * P /\ d * P \in Nat /\ k * P \in Nat
      BY <1>3, ProductOrder
    <3>2. d * P + risk \in Nat /\ d * P + risk <= e
      BY <1>9, <3>1
    <3>3. (d * P + risk) * q <= e * q /\ (d * P + risk) * q \in Nat /\ e * q \in Nat
      BY <3>2, ProductOrder
    <3>4. risk * p * P \in Nat
      OBVIOUS
    <3> QED BY <1>8, <3>3, <3>4
  <2>2. risk * p * P \in Nat /\ e * q \in Nat /\ T * b \in Nat
    OBVIOUS
  <2> QED BY <2>1, <2>2, ProductOrder
<1>11. (risk * a * S * P) * q <= (e * T * b) * q
  <2>1. ((a * S) * q) * (risk * P) <= ((p * T) * b) * (risk * P)
    <3>1. (a * S) * q \in Nat /\ (p * T) * b \in Nat /\ risk * P \in Nat
      OBVIOUS
    <3> QED BY <1>6, <3>1, ProductOrder
  <2>2. ((a * S) * q) * (risk * P) = (risk * a * S * P) * q
    OBVIOUS
  <2>3. ((p * T) * b) * (risk * P) = (risk * p * P) * (T * b)
    OBVIOUS
  <2>4. (e * q) * (T * b) = (e * T * b) * q
    OBVIOUS
  <2>5. /\ (risk * a * S * P) * q \in Nat /\ (risk * p * P) * (T * b) \in Nat
        /\ (e * T * b) * q \in Nat
    OBVIOUS
  <2> QED BY <1>10, <2>1, <2>2, <2>3, <2>4, <2>5
<1>12. risk * a * S * P <= e * T * b
  <2>1. risk * a * S * P \in Nat /\ e * T * b \in Nat
    OBVIOUS
  <2>2. ~ (e * T * b < risk * a * S * P)
    <3> SUFFICES ASSUME e * T * b < risk * a * S * P PROVE FALSE
      OBVIOUS
    <3>1. (e * T * b) * q < (risk * a * S * P) * q
      BY <2>1, ProductOrder
    <3>2. (risk * a * S * P) * q \in Nat /\ (e * T * b) * q \in Nat
      OBVIOUS
    <3> QED BY <1>11, <3>1, <3>2
  <2> QED BY <2>1, <2>2
<1>13. (k * P * S) * b < (e * T + risk * S) * b
  <2>1. k * P * b < risk * a * P + risk * b
    <3>1. c * P * b = k * P * b + P * b
      BY <1>3
    <3>2. (P + risk) * b = P * b + risk * b
      OBVIOUS
    <3>3. P * b \in Nat /\ risk * b \in Nat /\ k * P * b \in Nat /\ risk * a * P \in Nat
      OBVIOUS
    <3> QED BY <1>7, <3>1, <3>2, <3>3
  <2>2. (k * P * b) * S < (risk * a * P + risk * b) * S
    <3>1. k * P * b \in Nat /\ risk * a * P + risk * b \in Nat
      OBVIOUS
    <3> QED BY <2>1, <3>1, ProductOrder
  <2>3. (risk * a * P + risk * b) * S = risk * a * S * P + risk * S * b
    OBVIOUS
  <2>4. (k * P * b) * S = (k * P * S) * b /\ e * T * b + risk * S * b = (e * T + risk * S) * b
    OBVIOUS
  <2>5. /\ risk * a * S * P \in Nat /\ risk * S * b \in Nat /\ e * T * b \in Nat
        /\ (k * P * S) * b \in Nat /\ (e * T + risk * S) * b \in Nat
    OBVIOUS
  <2> QED BY <1>12, <2>2, <2>3, <2>4, <2>5
<1>14. k * P * S < e * T + risk * S
  <2>1. k * P * S \in Nat /\ e * T + risk * S \in Nat
    OBVIOUS
  <2> QED BY <1>13, <2>1, Lesser
<1>15. k * P < risk * (T + S)
  <2>1. e * T = k * P * T + risk * T
    BY <1>9
  <2>2. k * P * S = k * P * T + k * P
    BY <1>5
  <2>3. risk * (T + S) = risk * T + risk * S
    OBVIOUS
  <2>4. k * P * T \in Nat /\ k * P \in Nat /\ risk * T \in Nat /\ risk * S \in Nat
    OBVIOUS
  <2> QED BY <1>14, <2>1, <2>2, <2>3, <2>4
<1>16. P <= k * P /\ k * P \in Nat
  <2>1. 1 * P <= k * P
    BY ProductOrder
  <2> QED BY <2>1
<1>17. risk * (T + S) = 2 * S * risk - risk
  BY <1>5
<1>18. 2 * S * risk <= P /\ 2 * S * risk \in Nat
  BY <1>5
<1> QED BY <1>15, <1>16, <1>17, <1>18

LEMMA ResidualsAreRoundings ==
  ASSUME NEW initial \in Nat \ {0}, NEW layers, Fraction(Remaining(layers)), NEW r \in Residuals(initial, layers)
  PROVE  /\ \E c \in Nat : r = AtLeastOne(c) /\ IsRounding(c, initial, Remaining(layers))
         /\ DOMAIN layers = {} => r = AtLeastOne(Ceiling(initial, Remaining(layers)))
<1> DEFINE x == Remaining(layers)
           inexact == \E i \in DOMAIN layers : (2 * layers[i].effectiveness) % Scale # 0
<1>1. r \in {AtLeastOne(c) : c \in IF inexact THEN {c \in 0..(initial + 1) : IsRounding(c, initial, x)}
                                   ELSE {Ceiling(initial, x)}}
  BY DEF Residuals
<1>2. DOMAIN layers = {} => ~ inexact
  OBVIOUS
<1>3. Ceiling(initial, x) \in Nat /\ IsRounding(Ceiling(initial, x), initial, x)
  BY CeilingIsRounding
<1> HIDE DEF x, inexact
<1>4. CASE inexact
  <2>1. PICK c \in 0..(initial + 1) : r = AtLeastOne(c) /\ IsRounding(c, initial, x)
    BY <1>1, <1>4
  <2>2. c \in Nat
    OBVIOUS
  <2> QED BY <1>2, <1>4, <2>1, <2>2 DEF x
<1>5. CASE ~ inexact
  <2>1. r = AtLeastOne(Ceiling(initial, x))
    BY <1>1, <1>5
  <2> QED BY <1>3, <2>1 DEF x
<1> QED BY <1>4, <1>5

(* Any layer leaves less than all. *)
LEMMA LayersLeaveLess ==
  ASSUME NEW layers, NEW n \in Nat, Layering(layers, n), Len(layers) = n
  PROVE  /\ Fraction(Remaining(layers))
         /\ IF n = 0 THEN Remaining(layers) = <<1, 1>> ELSE Reduced(Remaining(layers), <<1, 1>>)
<1>1. Layering(<<>>, 0) /\ Product(<<>>)[0] = <<1, 1>> /\ Product(layers)[0] = <<1, 1>>
  <2>1. Layering(<<>>, 0)
    BY DEF Layering
  <2> QED BY <2>1, ProductSteps DEF Layering
<1>2. Covers(layers, n, <<>>, 0)
  BY DEF Covers
<1>3. Remaining(layers) = Product(layers)[n] /\ Fraction(Product(layers)[n])
  BY RemainingIsProduct, ProductIsFraction
<1>4. SameFactors(layers, n, <<>>, 0) \/ Reduced(Product(layers)[n], Product(<<>>)[0])
  BY <1>1, <1>2, MoreLayersCoverMore
<1> QED BY <1>1, <1>3, <1>4 DEF SameFactors

LEMMA RanksInOrder ==
  ASSUME NEW low \in Nat, NEW high \in Nat, low <= high
  PROVE  RiskRank(low) <= RiskRank(high)
<1>1. {bound \in {6, 12, 20} : low >= bound} \in SUBSET {bound \in {6, 12, 20} : high >= bound}
  OBVIOUS
<1>2. IsFiniteSet({6, 12, 20})
  <2>1. {6, 12, 20} \in SUBSET (0..20)
    OBVIOUS
  <2>2. 0 \in Int /\ 20 \in Int
    OBVIOUS
  <2>3. IsFiniteSet(0..20)
    BY <2>2, FS_Interval, Zenon
  <2> QED BY <2>1, <2>3, FS_Subset
<1>3. IsFiniteSet({bound \in {6, 12, 20} : high >= bound})
  BY <1>2, FS_Subset
<1> QED BY <1>1, <1>3, FS_Subset DEF RiskRank

(* The layers of the current register. *)
LEMMA LayersNow ==
  ASSUME RegisterInv
  PROVE  /\ LayersOf(result.layers.retained, CountingRows(rows, scenario, now))
         /\ result.remaining = Remaining(result.layers.retained)
         /\ result.residuals = Residuals(scenario.initial, result.layers.retained)
         /\ scenario.initial \in Nat \ {0} /\ 2 * Scale * scenario.initial <= Precision
<1>1. LayersOf(result.layers.retained, CountingRows(rows, scenario, now))
  BY RowsAreList, LayersOfList DEF result, snapshot
<1>2. snapshot.scenario = scenario
  BY DEF snapshot, NewSnapshot
<1>3. /\ result.remaining = Remaining(result.layers.retained)
      /\ result.residuals = Residuals(scenario.initial, result.layers.retained)
  BY <1>2 DEF result, Evaluate
<1> QED BY <1>1, <1>3, RegisterAssumption DEF RegisterInv

LEMMA ResidualBelowInitial == RegisterInv => RiskFalls
<1> SUFFICES ASSUME RegisterInv, NEW risk \in result.residuals
             PROVE  risk \in 1..scenario.initial /\ RiskRank(risk) <= RiskRank(scenario.initial)
  BY DEF RiskFalls
<1>1. PICK initial \in Nat \ {0} : initial = scenario.initial /\ 2 * Scale * initial <= Precision
  BY LayersNow
<1>2. PICK layers : layers = result.layers.retained
  OBVIOUS
<1>3. Len(layers) \in Nat /\ Layering(layers, Len(layers)) /\ DOMAIN layers = 1..Len(layers)
  BY <1>2, LayersNow DEF LayersOf, Layering
<1>4. PICK x : /\ x = Remaining(layers) /\ Fraction(x)
               /\ IF Len(layers) = 0 THEN x = <<1, 1>> ELSE Reduced(x, <<1, 1>>)
  BY <1>3, LayersLeaveLess
<1>5. risk \in Residuals(initial, layers)
  BY <1>1, <1>2, LayersNow
<1>6. Fraction(<<1, 1>>) /\ Ceiling(initial, <<1, 1>>) = initial
  BY DEF Fraction, Ceiling
<1>7. IsRounding(initial, initial, <<1, 1>>)
  BY <1>6, CeilingIsRounding
<1>8. PICK c \in Nat : risk = AtLeastOne(c) /\ (IF Len(layers) = 0 THEN c = initial ELSE IsRounding(c, initial, x))
  <2>1. CASE Len(layers) = 0
    <3>1. risk = AtLeastOne(initial)
      BY <1>3, <1>4, <1>5, <1>6, <2>1, ResidualsAreRoundings
    <3> QED BY <2>1, <3>1
  <2>2. CASE Len(layers) # 0
    BY <1>4, <1>5, <2>2, ResidualsAreRoundings
  <2> QED BY <2>1, <2>2
<1>9. AtLeastOne(c) <= AtLeastOne(initial)
  <2>1. CASE Len(layers) # 0
    BY <1>1, <1>4, <1>6, <1>7, <1>8, <2>1, RoundingsInOrder
  <2> QED BY <1>8, <2>1 DEF AtLeastOne
<1>10. risk \in 1..initial
  BY <1>8, <1>9 DEF AtLeastOne
<1>11. RiskRank(risk) <= RiskRank(initial)
  BY <1>10, RanksInOrder
<1> QED BY <1>1, <1>10, <1>11

(* The register without one of its rows. *)
LEMMA WithoutRow ==
  ASSUME RegisterInv, NEW i \in DOMAIN rows
  PROVE  /\ RowList(RemoveAt(rows, i), Len(rows) - 1)
         /\ \A j \in 1..(Len(rows) - 1) : \E k \in 1..Len(rows) : RemoveAt(rows, i)[j] = rows[k]
<1> DEFINE n == Len(rows)
           list == RemoveAt(rows, i)
<1>1. n \in Nat /\ RowList(rows, n) /\ rows \in Seq(Row) /\ i \in 1..n /\ \A j \in 1..n : rows[j].id = j
  BY RowsAreList DEF RowList, RegisterInv
<1>2. PICK front \in Seq(Row) : /\ front = SubSeq(rows, 1, i - 1) /\ Len(front) = i - 1
                                /\ \A j \in 1..(i - 1) : front[j] = rows[j]
  <2>1. SubSeq(rows, 1, i - 1) \in Seq(Row) /\ Len(SubSeq(rows, 1, i - 1)) = i - 1
        /\ \A j \in 1..(i - 1) : SubSeq(rows, 1, i - 1)[j] = rows[j]
    BY <1>1
  <2> QED BY <2>1, Zenon
<1>3. PICK back \in Seq(Row) : /\ back = SubSeq(rows, i + 1, n) /\ Len(back) = n - i
                               /\ \A j \in 1..(n - i) : back[j] = rows[i + j]
  <2>1. SubSeq(rows, i + 1, n) \in Seq(Row) /\ Len(SubSeq(rows, i + 1, n)) = n - i
        /\ \A j \in 1..(n - i) : SubSeq(rows, i + 1, n)[j] = rows[i + j]
    BY <1>1
  <2> QED BY <2>1, Zenon
<1>4. list = front \o back
  BY <1>2, <1>3 DEF RemoveAt
<1> HIDE DEF list, n
<1>5. /\ list \in Seq(Row) /\ Len(list) = n - 1 /\ DOMAIN list = 1..(n - 1)
      /\ \A j \in 1..(n - 1) : list[j] = IF j <= i - 1 THEN front[j] ELSE back[j - (i - 1)]
  <2>1. /\ front \o back \in Seq(Row) /\ Len(front \o back) = Len(front) + Len(back)
        /\ \A j \in 1..(Len(front) + Len(back)) :
             (front \o back)[j] = IF j <= Len(front) THEN front[j] ELSE back[j - Len(front)]
    BY ConcatProperties
  <2>2. Len(front) = i - 1 /\ Len(back) = n - i /\ Len(front) + Len(back) = n - 1
    BY <1>1, <1>2, <1>3
  <2>3. list \in Seq(Row) /\ Len(list) = n - 1
    BY <1>4, <2>1, <2>2
  <2>4. \A j \in 1..(n - 1) : list[j] = IF j <= i - 1 THEN front[j] ELSE back[j - (i - 1)]
    BY <1>4, <2>1, <2>2
  <2>5. DOMAIN list = 1..(n - 1)
    BY <2>3
  <2> QED BY <2>3, <2>4, <2>5
<1>6. \A j \in 1..(n - 1) : list[j] = rows[IF j < i THEN j ELSE j + 1]
  <2> TAKE j \in 1..(n - 1)
  <2>1. CASE j < i
    BY <1>1, <1>2, <1>5, <2>1
  <2>2. CASE ~ (j < i)
    <3>1. list[j] = back[j - (i - 1)] /\ j - (i - 1) \in 1..(n - i)
      BY <1>1, <1>5, <2>2
    <3>2. i + (j - (i - 1)) = j + 1
      BY <1>1
    <3> QED BY <1>3, <2>2, <3>1, <3>2
  <2> QED BY <2>1, <2>2
<1>7. \A j \in 1..(n - 1) : LET k == IF j < i THEN j ELSE j + 1 IN k \in 1..n /\ list[j] = rows[k] /\ list[j].id = k
  BY <1>1, <1>6
<1>8. \A j \in 1..(n - 1) : list[j].key \in Nat /\ list[j].id \in Nat /\ list[j] \in Row
  BY <1>1, <1>7 DEF RowList, Listing
<1>9. \A j, k \in 1..(n - 1) : list[j].id = list[k].id => j = k
  BY <1>1, <1>7
<1> QED BY <1>1, <1>5, <1>7, <1>8, <1>9 DEF RowList, Listing, list, n

LEMMA ResidualsInOrder ==
  ASSUME NEW initial \in Nat \ {0}, 2 * Scale * initial <= Precision,
         NEW few, NEW all, few \subseteq all, Ranked(all),
         NEW old, NEW new, LayersOf(old, few), LayersOf(new, all)
  PROVE  /\ AtMost(Remaining(new), Remaining(old))
         /\ \/ [i \in DOMAIN new |-> new[i].effectiveness] = [i \in DOMAIN old |-> old[i].effectiveness]
            \/ \A after \in Residuals(initial, new), before \in Residuals(initial, old) : after <= before
<1>1. PICK x, y : x = Remaining(new) /\ y = Remaining(old)
  OBVIOUS
<1>2. /\ Fraction(x) /\ Fraction(y) /\ AtMost(x, y)
      /\ SameFactors(new, Len(new), old, Len(old)) \/ Reduced(x, y)
  BY <1>1, MoreCountLessRemains
<1>3. CASE SameFactors(new, Len(new), old, Len(old))
  <2>1. DOMAIN new = 1..Len(old) /\ DOMAIN old = 1..Len(old)
    BY <1>3 DEF LayersOf, Layering, SameFactors
  <2>2. [i \in DOMAIN new |-> new[i].effectiveness] = [i \in DOMAIN old |-> old[i].effectiveness]
    BY <1>3, <2>1 DEF SameFactors
  <2> QED BY <1>1, <1>2, <2>2
<1>4. CASE Reduced(x, y)
  <2>1. ASSUME NEW after \in Residuals(initial, new), NEW before \in Residuals(initial, old)
        PROVE  after <= before
    <3>1. PICK c \in Nat : after = AtLeastOne(c) /\ IsRounding(c, initial, x)
      BY <1>1, <1>2, ResidualsAreRoundings
    <3>2. PICK d \in Nat : before = AtLeastOne(d) /\ IsRounding(d, initial, y)
      BY <1>1, <1>2, ResidualsAreRoundings
    <3> QED BY <1>2, <1>4, <3>1, <3>2, RoundingsInOrder
  <2> QED BY <1>1, <1>2, <2>1
<1> QED BY <1>2, <1>3, <1>4

LEMMA AddingHurtsNot == RegisterInv => AddingNeverHurts
<1> SUFFICES ASSUME RegisterInv, NEW i \in DOMAIN rows, NEW without,
                    without = Evaluate(NewSnapshot(RemoveAt(rows, i), scenario, now))
             PROVE  /\ AtMost(result.remaining, without.remaining)
                    /\ \/ [j \in DOMAIN result.layers.retained |-> result.layers.retained[j].effectiveness] =
                          [j \in DOMAIN without.layers.retained |-> without.layers.retained[j].effectiveness]
                       \/ \A after \in result.residuals, before \in without.residuals : after <= before
  BY DEF AddingNeverHurts
<1> DEFINE n == Len(rows)
           list == RemoveAt(rows, i)
           all == CountingRows(rows, scenario, now)
           few == CountingRows(list, scenario, now)
           new == result.layers.retained
           old == without.layers.retained
<1>1. RowList(rows, n) /\ RowList(list, n - 1) /\ \A j \in 1..(n - 1) : \E k \in 1..n : list[j] = rows[k]
  BY RowsAreList, WithoutRow
<1>2. few \subseteq all
  <2>1. /\ all = {f \in {Frozen(rows[k]) : k \in 1..n} : ~ Rejected(f, Truncated(now))}
        /\ few = {f \in {Frozen(list[j]) : j \in 1..(n - 1)} : ~ Rejected(f, Truncated(now))}
    BY <1>1, CountingInList
  <2> HIDE DEF all, few, list, n
  <2> QED BY <1>1, <2>1
<1>3. LayersOf(new, all) /\ result.remaining = Remaining(new)
      /\ result.residuals = Residuals(scenario.initial, new)
      /\ scenario.initial \in Nat \ {0} /\ 2 * Scale * scenario.initial <= Precision
  BY LayersNow
<1>4. LayersOf(old, few) /\ Ranked(all)
  BY <1>1, LayersOfList, CountingInList
<1>5. without.remaining = Remaining(old) /\ without.residuals = Residuals(scenario.initial, old)
  <2>1. NewSnapshot(list, scenario, now).scenario = scenario
    BY DEF NewSnapshot
  <2> QED BY <2>1 DEF Evaluate
<1> HIDE DEF all, few, new, old
<1>6. /\ AtMost(Remaining(new), Remaining(old))
      /\ \/ [j \in DOMAIN new |-> new[j].effectiveness] = [j \in DOMAIN old |-> old[j].effectiveness]
         \/ \A after \in Residuals(scenario.initial, new), before \in Residuals(scenario.initial, old) : after <= before
  BY <1>2, <1>3, <1>4, ResidualsInOrder
<1> QED BY <1>3, <1>5, <1>6 DEF new, old

(* LayersNeverHurt: whatever the rounding, the residual risk is between 1   *)
(* and the initial risk, and no safeguard of the register makes the        *)
(* coverage or the residual risk worse than they would be without it.      *)
THEOREM LayersNeverHurtCorrect == RegisterSpec => []LayersNeverHurt
<1>1. RegisterInv => LayersNeverHurt
  BY ResidualBelowInitial, AddingHurtsNot DEF LayersNeverHurt
<1> QED BY <1>1, RegisterInvariance, PTL

-----------------------------------------------------------------------------
(* 9. The paths.                                                           *)

(* Statements without two of one spelling in lower case, where these are   *)
(* the names.                                                              *)
Statements(list, names) ==
  /\ list \in Seq(DOMAIN Lower)
  /\ \A i \in 1..Len(list) : Lower[list[i]] \in names
  /\ \A name \in names : \E i \in 1..Len(list) : Lower[list[i]] = name
  /\ \A i, j \in 1..Len(list) : Lower[list[i]] = Lower[list[j]] => i = j

LEMMA OneMoreStatement ==
  ASSUME NEW list, NEW names, Statements(list, names), NEW p \in DOMAIN Lower, Lower[p] \notin names
  PROVE  Statements(Append(list, p), names \cup {Lower[p]})
<1> DEFINE n == Len(list)
           more == Append(list, p)
<1>1. n \in Nat /\ list \in Seq(DOMAIN Lower)
  BY DEF Statements
<1>2. more \in Seq(DOMAIN Lower) /\ Len(more) = n + 1 /\ more[n + 1] = p /\ \A i \in 1..n : more[i] = list[i]
  BY <1>1, AppendProperties
<1> HIDE DEF more
<1>3. \A i \in 1..(n + 1) : i \in 1..n \/ i = n + 1
  BY <1>1
<1>4. n + 1 \in 1..(n + 1) /\ 1..n \subseteq 1..(n + 1)
  BY <1>1
<1>5. \A i \in 1..n : Lower[list[i]] \in names
  BY DEF Statements
<1>6. \A i \in 1..(n + 1) : Lower[more[i]] \in names \cup {Lower[p]}
  BY <1>2, <1>3, <1>5
<1>7. \A name \in names \cup {Lower[p]} : \E i \in 1..(n + 1) : Lower[more[i]] = name
  BY <1>2, <1>4 DEF Statements
<1>8. \A i, j \in 1..(n + 1) : Lower[more[i]] = Lower[more[j]] => i = j
  <2>1. \A i, j \in 1..n : Lower[list[i]] = Lower[list[j]] => i = j
    BY DEF Statements
  <2> QED BY <1>2, <1>3, <1>5, <2>1
<1> HIDE DEF n
<1> QED BY <1>2, <1>6, <1>7, <1>8 DEF Statements, more

(* Clean after each of the parts. *)
Cleaned(parts) ==
  CHOOSE Clean : Clean = [i \in 0..Len(parts) |->
    IF i = 0 THEN <<>>
    ELSE LET clean == Clean[i - 1] IN
         IF parts[i] = Blank \/ \E j \in DOMAIN clean : Lower[clean[j]] = Lower[parts[i]]
         THEN clean
         ELSE Append(clean, parts[i])]

LEMMA SplitIsCleaned ==
  ASSUME NEW parts
  PROVE  splitStatements(parts) = IF Cleaned(parts)[Len(parts)] = <<>> THEN <<"unspecified">>
                                  ELSE Cleaned(parts)[Len(parts)]
BY DEF splitStatements, Cleaned

(* What is added to clean of a part. *)
Added(clean, p) ==
  IF p = Blank \/ \E j \in DOMAIN clean : Lower[clean[j]] = Lower[p] THEN clean ELSE Append(clean, p)

LEMMA CleanedSteps ==
  ASSUME NEW n \in Nat, NEW parts, Len(parts) = n
  PROVE  /\ Cleaned(parts)[0] = <<>>
         /\ \A i \in 0..(n - 1) : Cleaned(parts)[i + 1] = Added(Cleaned(parts)[i], parts[i + 1])
<1> DEFINE Is(Clean, m) == Clean = [i \in 0..m |-> IF i = 0 THEN <<>> ELSE Added(Clean[i - 1], parts[i])]
           S == {m \in Nat : \E Clean : Is(Clean, m)}
<1>1. 0 \in S
  <2>1. Is([i \in 0..0 |-> <<>>], 0)
    OBVIOUS
  <2> QED BY <2>1
<1>2. ASSUME NEW m \in Nat, m \in S PROVE m + 1 \in S
  <2>1. PICK Clean : Is(Clean, m)
    BY <1>2
  <2> DEFINE next == [i \in 0..(m + 1) |-> IF i = m + 1 THEN Added(Clean[m], parts[m + 1]) ELSE Clean[i]]
  <2>2. \A i \in 0..m : next[i] = Clean[i] /\ (i # 0 => next[i - 1] = Clean[i - 1])
    OBVIOUS
  <2>3. next[m] = Clean[m]
    BY <2>2
  <2>4. \A i \in 0..(m + 1) : next[i] = IF i = 0 THEN <<>> ELSE Added(next[i - 1], parts[i])
    <3> TAKE i \in 0..(m + 1)
    <3>1. CASE i = m + 1
      BY <2>3, <3>1
    <3>2. CASE i # m + 1
      <4>1. i \in 0..m
        BY <3>2
      <4> HIDE DEF next
      <4> QED BY <2>1, <2>2, <4>1
    <3> QED BY <3>1, <3>2
  <2>5. next = [i \in 0..(m + 1) |-> next[i]]
    OBVIOUS
  <2> HIDE DEF next
  <2>6. Is(next, m + 1)
    BY <2>4, <2>5
  <2> QED BY <2>6
<1>3. n \in S
  <2> HIDE DEF S
  <2> QED BY <1>1, <1>2, InductionOnNaturals
<1>4. \E Clean : Is(Clean, n)
  BY <1>3
<1>5. Is(Cleaned(parts), n)
  BY <1>4 DEF Cleaned, Added
<1> HIDE DEF Cleaned
<1>6. \A i \in 0..(n - 1) : i + 1 \in 0..n /\ i + 1 # 0 /\ (i + 1) - 1 = i
  OBVIOUS
<1>7. 0 \in 0..n
  OBVIOUS
<1> QED BY <1>5, <1>6, <1>7

(* The names of parts. *)
Named(parts) ==
  IF \A i \in DOMAIN parts : parts[i] = Blank THEN {"unspecified"}
  ELSE {Lower[p] : p \in ToSet(parts) \ {Blank}}

LEMMA SplitNames ==
  ASSUME NEW parts \in Seq(DOMAIN Lower)
  PROVE  Statements(splitStatements(parts), Named(parts))
<1> DEFINE Names(i) == {Lower[parts[j]] : j \in {k \in 1..i : parts[k] # Blank}}
<1>1. PICK n \in Nat : n = Len(parts) /\ DOMAIN parts = 1..n /\ \A i \in 1..n : parts[i] \in DOMAIN Lower
  OBVIOUS
<1> DEFINE S == {i \in Nat : i <= n => Statements(Cleaned(parts)[i], Names(i))}
<1>2. 0 \in S
  <2>1. Cleaned(parts)[0] = <<>>
    BY <1>1, CleanedSteps
  <2>2. Names(0) = {}
    OBVIOUS
  <2>3. <<>> \in Seq(DOMAIN Lower) /\ Len(<<>>) = 0
    OBVIOUS
  <2> HIDE DEF Names
  <2>4. Statements(Cleaned(parts)[0], Names(0))
    BY <2>1, <2>2, <2>3 DEF Statements
  <2> QED BY <2>4
<1>3. ASSUME NEW i \in Nat, i \in S PROVE i + 1 \in S
  <2> SUFFICES ASSUME i + 1 <= n PROVE Statements(Cleaned(parts)[i + 1], Names(i + 1))
    OBVIOUS
  <2>1. PICK clean : clean = Cleaned(parts)[i] /\ Statements(clean, Names(i))
    <3>1. i <= n
      BY <1>1
    <3> HIDE DEF Names
    <3> QED BY <1>3, <3>1
  <2>2. PICK p \in DOMAIN Lower : p = parts[i + 1]
    BY <1>1
  <2>3. Cleaned(parts)[i + 1] = Added(clean, p)
    <3>1. i \in 0..(n - 1)
      BY <1>1
    <3> QED BY <1>1, <2>1, <2>2, <3>1, CleanedSteps
  <2>4. Names(i + 1) = IF p = Blank THEN Names(i) ELSE Names(i) \cup {Lower[p]}
    <3>1. \A k \in 1..(i + 1) : k \in 1..i \/ k = i + 1
      OBVIOUS
    <3>2. 1..i \subseteq 1..(i + 1) /\ i + 1 \in 1..(i + 1)
      OBVIOUS
    <3> QED BY <2>2, <3>1, <3>2
  <2> HIDE DEF Names
  <2>5. DOMAIN clean = 1..Len(clean)
    BY <2>1 DEF Statements
  <2>6. (\E j \in DOMAIN clean : Lower[clean[j]] = Lower[p]) <=> Lower[p] \in Names(i)
    BY <2>1, <2>5 DEF Statements
  <2>7. CASE p = Blank
    BY <2>1, <2>3, <2>4, <2>7 DEF Added
  <2>8. CASE p # Blank /\ Lower[p] \in Names(i)
    <3>1. Names(i + 1) = Names(i)
      BY <2>4, <2>8
    <3> QED BY <2>1, <2>3, <2>6, <2>8, <3>1 DEF Added
  <2>9. CASE p # Blank /\ Lower[p] \notin Names(i)
    <3>1. Cleaned(parts)[i + 1] = Append(clean, p)
      BY <2>3, <2>6, <2>9 DEF Added
    <3> QED BY <2>1, <2>4, <2>9, <3>1, OneMoreStatement
  <2> QED BY <2>7, <2>8, <2>9
<1>4. n \in S
  <2> HIDE DEF S
  <2> QED BY <1>2, <1>3, InductionOnNaturals
<1>5. Statements(Cleaned(parts)[n], Names(n))
  BY <1>4
<1>6. splitStatements(parts) = IF Cleaned(parts)[n] = <<>> THEN <<"unspecified">> ELSE Cleaned(parts)[n]
  BY <1>1, SplitIsCleaned
<1>7. Names(n) = {Lower[p] : p \in ToSet(parts) \ {Blank}}
  BY <1>1 DEF ToSet
<1>8. CASE \A i \in DOMAIN parts : parts[i] = Blank
  <2>1. Names(n) = {}
    BY <1>1, <1>8
  <2> HIDE DEF Names
  <2>2. Cleaned(parts)[n] = <<>>
    <3>1. Cleaned(parts)[n] \in Seq(DOMAIN Lower) /\ Len(Cleaned(parts)[n]) \in Nat
          /\ \A i \in 1..Len(Cleaned(parts)[n]) : FALSE
      BY <1>5, <2>1 DEF Statements
    <3>2. Len(Cleaned(parts)[n]) = 0
      BY <3>1
    <3> QED BY <3>1, <3>2, EmptySeq
  <2>3. splitStatements(parts) = <<"unspecified">> /\ Named(parts) = {"unspecified"}
    BY <1>6, <1>8, <2>2 DEF Named
  <2>4. Statements(<<"unspecified">>, {"unspecified"})
    BY ScaleAssumption DEF Statements
  <2> QED BY <2>3, <2>4
<1>9. CASE ~ \A i \in DOMAIN parts : parts[i] = Blank
  <2>1. Named(parts) = Names(n)
    BY <1>7, <1>9 DEF Named
  <2>2. \E x : x \in Names(n)
    BY <1>1, <1>9
  <2> HIDE DEF Names
  <2>3. Cleaned(parts)[n] # <<>>
    BY <1>5, <2>2 DEF Statements
  <2> QED BY <1>5, <1>6, <2>1, <2>3
<1> QED BY <1>8, <1>9

(* Flattening one list more puts it behind the others. *)
Flattened(seqs) ==
  CHOOSE flatten : flatten = [i \in 1..Len(seqs) |-> IF i = 1 THEN seqs[i] ELSE flatten[i - 1] \o seqs[i]]

LEMMA FlattenSteps ==
  ASSUME NEW n \in Nat \ {0}, NEW seqs, Len(seqs) = n
  PROVE  /\ FlattenSeq(seqs) = Flattened(seqs)[n] /\ Flattened(seqs)[1] = seqs[1]
         /\ \A i \in 1..(n - 1) : Flattened(seqs)[i + 1] = Flattened(seqs)[i] \o seqs[i + 1]
<1> DEFINE Is(flatten, m) == flatten = [i \in 1..m |-> IF i = 1 THEN seqs[i] ELSE flatten[i - 1] \o seqs[i]]
           S == {m \in Nat : \E flatten : Is(flatten, m)}
<1>1. 0 \in S
  <2>1. Is([i \in 1..0 |-> <<>>], 0)
    OBVIOUS
  <2> QED BY <2>1
<1>2. ASSUME NEW m \in Nat, m \in S PROVE m + 1 \in S
  <2>1. PICK flatten : Is(flatten, m)
    BY <1>2
  <2> DEFINE next == [i \in 1..(m + 1) |->
               IF i = m + 1 THEN (IF i = 1 THEN seqs[i] ELSE flatten[m] \o seqs[i]) ELSE flatten[i]]
  <2>2. \A i \in 1..m : next[i] = flatten[i] /\ (i # 1 => next[i - 1] = flatten[i - 1])
    OBVIOUS
  <2>3. m # 0 => next[m] = flatten[m]
    BY <2>2
  <2>4. \A i \in 1..(m + 1) : next[i] = IF i = 1 THEN seqs[i] ELSE next[i - 1] \o seqs[i]
    <3> TAKE i \in 1..(m + 1)
    <3>1. CASE i = m + 1
      BY <2>3, <3>1
    <3>2. CASE i # m + 1
      <4>1. i \in 1..m
        BY <3>2
      <4> HIDE DEF next
      <4> QED BY <2>1, <2>2, <4>1
    <3> QED BY <3>1, <3>2
  <2>5. next = [i \in 1..(m + 1) |-> next[i]]
    OBVIOUS
  <2> HIDE DEF next
  <2>6. Is(next, m + 1)
    BY <2>4, <2>5
  <2> HIDE DEF Is
  <2> QED BY <2>6
<1>3. n \in S
  <2> HIDE DEF S
  <2> QED BY <1>1, <1>2, InductionOnNaturals
<1>4. \E flatten : Is(flatten, n)
  BY <1>3
<1>5. Is(Flattened(seqs), n)
  BY <1>4 DEF Flattened
<1>6. FlattenSeq(seqs) = Flattened(seqs)[n]
  BY DEF FlattenSeq, Flattened
<1> HIDE DEF Flattened
<1>7. \A i \in 1..(n - 1) : i + 1 \in 1..n /\ i + 1 # 1 /\ (i + 1) - 1 = i
  OBVIOUS
<1>8. 1 \in 1..n
  OBVIOUS
<1> QED BY <1>5, <1>6, <1>7, <1>8

Path == [cause : DOMAIN Lower, consequence : DOMAIN Lower]

Leads(path) == <<Lower[path.cause], Lower[path.consequence]>>

(* Paths that lead from each of the causes to each of the consequences, by  *)
(* name, and only once.                                                    *)
Leading(paths, causes, consequences) ==
  /\ paths \in Seq(Path)
  /\ \A i \in 1..Len(paths) : Leads(paths[i]) \in causes \X consequences
  /\ \A pair \in causes \X consequences : \E i \in 1..Len(paths) : Leads(paths[i]) = pair
  /\ \A i, j \in 1..Len(paths) : Leads(paths[i]) = Leads(paths[j]) => i = j

(* The paths from one more cause lead elsewhere. *)
LEMMA OneMoreCause ==
  ASSUME NEW paths, NEW more, NEW causes, NEW name, NEW consequences, name \notin causes,
         Leading(paths, causes, consequences), Leading(more, {name}, consequences)
  PROVE  Leading(paths \o more, causes \cup {name}, consequences)
<1> DEFINE all == paths \o more
<1>1. PICK n \in Nat, m \in Nat : n = Len(paths) /\ m = Len(more) /\ paths \in Seq(Path) /\ more \in Seq(Path)
  BY DEF Leading
<1>2. all \in Seq(Path) /\ Len(all) = n + m
      /\ \A i \in 1..(n + m) : all[i] = IF i <= n THEN paths[i] ELSE more[i - n]
  BY <1>1, ConcatProperties
<1> HIDE DEF all
<1>3. \A i \in 1..n : i \in 1..(n + m) /\ all[i] = paths[i]
  BY <1>2
<1>4. \A j \in 1..m : n + j \in 1..(n + m) /\ all[n + j] = more[j]
  <2> TAKE j \in 1..m
  <2>1. n + j \in 1..(n + m) /\ ~ (n + j <= n) /\ (n + j) - n = j
    OBVIOUS
  <2> QED BY <1>2, <2>1
<1>5. \A i \in 1..(n + m) : i \in 1..n \/ \E j \in 1..m : i = n + j
  <2> TAKE i \in 1..(n + m)
  <2>1. i \in 1..n \/ (i - n \in 1..m /\ i = n + (i - n))
    OBVIOUS
  <2> QED BY <2>1
<1>6. /\ \A i \in 1..n : Leads(paths[i]) \in causes \X consequences
      /\ \A pair \in causes \X consequences : \E i \in 1..n : Leads(paths[i]) = pair
      /\ \A i, j \in 1..n : Leads(paths[i]) = Leads(paths[j]) => i = j
  BY <1>1 DEF Leading
<1>7. /\ \A i \in 1..m : Leads(more[i]) \in {name} \X consequences
      /\ \A pair \in {name} \X consequences : \E i \in 1..m : Leads(more[i]) = pair
      /\ \A i, j \in 1..m : Leads(more[i]) = Leads(more[j]) => i = j
  BY <1>1 DEF Leading
<1>8. \A i \in 1..(n + m) : Leads(all[i]) \in (causes \cup {name}) \X consequences
  <2> TAKE i \in 1..(n + m)
  <2>1. CASE i \in 1..n
    <3>1. Leads(all[i]) \in causes \X consequences
      BY <1>3, <1>6, <2>1
    <3> QED BY <3>1
  <2>2. CASE \E j \in 1..m : i = n + j
    <3>1. Leads(all[i]) \in {name} \X consequences
      BY <1>4, <1>7, <2>2
    <3> QED BY <3>1
  <2> QED BY <1>5, <2>1, <2>2
<1>9. \A pair \in (causes \cup {name}) \X consequences : \E i \in 1..(n + m) : Leads(all[i]) = pair
  <2> TAKE pair \in (causes \cup {name}) \X consequences
  <2>1. pair \in causes \X consequences \/ pair \in {name} \X consequences
    OBVIOUS
  <2>2. CASE pair \in causes \X consequences
    <3>1. PICK i \in 1..n : Leads(paths[i]) = pair
      BY <1>6, <2>2
    <3> QED BY <1>3, <3>1
  <2>3. CASE pair \in {name} \X consequences
    <3>1. PICK j \in 1..m : Leads(more[j]) = pair
      BY <1>7, <2>3
    <3> QED BY <1>4, <3>1
  <2> QED BY <2>1, <2>2, <2>3
<1>10. \A pair : ~ (pair \in causes \X consequences /\ pair \in {name} \X consequences)
  OBVIOUS
<1>11. ASSUME NEW i \in 1..(n + m), NEW j \in 1..(n + m), Leads(all[i]) = Leads(all[j]) PROVE i = j
  <2>1. CASE i \in 1..n /\ j \in 1..n
    BY <1>3, <1>6, <1>11, <2>1
  <2>2. CASE i \in 1..n /\ \E l \in 1..m : j = n + l
    BY <1>3, <1>4, <1>6, <1>7, <1>10, <1>11, <2>2
  <2>3. CASE (\E k \in 1..m : i = n + k) /\ j \in 1..n
    BY <1>3, <1>4, <1>6, <1>7, <1>10, <1>11, <2>3
  <2>4. CASE (\E k \in 1..m : i = n + k) /\ (\E l \in 1..m : j = n + l)
    <3>1. PICK k \in 1..m, l \in 1..m : i = n + k /\ j = n + l
      BY <2>4
    <3>2. Leads(more[k]) = Leads(more[l])
      BY <1>4, <1>11, <3>1
    <3> QED BY <1>7, <3>1, <3>2
  <2> QED BY <1>5, <2>1, <2>2, <2>3, <2>4
<1> QED BY <1>2, <1>8, <1>9, <1>11 DEF Leading, all

(* The paths from one cause. *)
LEMMA PathsFromCause ==
  ASSUME NEW c \in DOMAIN Lower, NEW list, NEW names, Statements(list, names)
  PROVE  Leading([j \in DOMAIN list |-> [cause |-> c, consequence |-> list[j]]], {Lower[c]}, names)
<1> DEFINE paths == [j \in DOMAIN list |-> [cause |-> c, consequence |-> list[j]]]
<1>1. PICK m \in Nat : m = Len(list) /\ DOMAIN list = 1..m /\ \A j \in 1..m : list[j] \in DOMAIN Lower
  BY DEF Statements
<1>2. \A j \in 1..m : /\ paths[j] \in Path
                      /\ Leads(paths[j]) = <<Lower[c], Lower[list[j]]>>
  BY <1>1 DEF Path, Leads
<1>3. paths \in Seq(Path) /\ Len(paths) = m
  <2>1. paths = [j \in 1..m |-> paths[j]]
    BY <1>1
  <2> HIDE DEF paths
  <2>2. paths \in Seq(Path)
    BY <1>2, <2>1
  <2> QED BY <1>1, <2>1, <2>2
<1> HIDE DEF paths
<1>4. /\ \A i \in 1..m : Lower[list[i]] \in names
      /\ \A name \in names : \E i \in 1..m : Lower[list[i]] = name
      /\ \A i, j \in 1..m : Lower[list[i]] = Lower[list[j]] => i = j
  BY <1>1 DEF Statements
<1>5. \A i \in 1..m : Leads(paths[i]) \in {Lower[c]} \X names
  BY <1>2, <1>4
<1>6. \A pair \in {Lower[c]} \X names : \E i \in 1..m : Leads(paths[i]) = pair
  <2> TAKE pair \in {Lower[c]} \X names
  <2>1. PICK name \in names : pair = <<Lower[c], name>>
    OBVIOUS
  <2> QED BY <1>2, <1>4, <2>1
<1>7. \A i, j \in 1..m : Leads(paths[i]) = Leads(paths[j]) => i = j
  BY <1>2, <1>4
<1> QED BY <1>3, <1>5, <1>6, <1>7 DEF Leading, paths

LEMMA GraphLeads ==
  ASSUME NEW frozen, NEW causes, NEW consequences,
         Statements(splitStatements(frozen.scenario.cause), causes), causes # {},
         Statements(splitStatements(frozen.scenario.consequence), consequences)
  PROVE  Leading(BuildGraph(frozen), causes, consequences)
<1>1. PICK list : list = splitStatements(frozen.scenario.cause) /\ Statements(list, causes)
  OBVIOUS
<1>2. PICK other : other = splitStatements(frozen.scenario.consequence) /\ Statements(other, consequences)
  OBVIOUS
<1> DEFINE From(c) == [j \in DOMAIN other |-> [cause |-> c, consequence |-> other[j]]]
           seqs == [i \in DOMAIN list |-> From(list[i])]
           Names(i) == {Lower[list[j]] : j \in 1..i}
<1>3. BuildGraph(frozen) = FlattenSeq(seqs)
  BY <1>1, <1>2 DEF BuildGraph
<1>4. PICK n \in Nat : /\ n = Len(list) /\ DOMAIN list = 1..n /\ \A i \in 1..n : list[i] \in DOMAIN Lower
                       /\ \A i, j \in 1..n : Lower[list[i]] = Lower[list[j]] => i = j
  <2>1. list \in Seq(DOMAIN Lower)
    BY <1>1 DEF Statements
  <2>2. \A i, j \in 1..Len(list) : Lower[list[i]] = Lower[list[j]] => i = j
    BY <1>1 DEF Statements
  <2> QED BY <2>1, <2>2
<1>5. n # 0 /\ Names(n) = causes
  <2>1. \A i \in 1..n : Lower[list[i]] \in causes
    BY <1>1, <1>4 DEF Statements
  <2>2. \A name \in causes : \E i \in 1..n : Lower[list[i]] = name
    BY <1>1, <1>4 DEF Statements
  <2> QED BY <2>1, <2>2
<1>6. \A i \in 1..n : Leading(seqs[i], {Lower[list[i]]}, consequences)
  BY <1>2, <1>4, PathsFromCause
<1>7. Len(seqs) = n
  <2>1. seqs \in Seq(Seq(Path))
    <3>1. seqs = [i \in 1..n |-> seqs[i]]
      BY <1>4
    <3>2. \A i \in 1..n : seqs[i] \in Seq(Path)
      BY <1>6 DEF Leading
    <3> HIDE DEF seqs
    <3> QED BY <3>1, <3>2
  <2>2. DOMAIN seqs = 1..n
    BY <1>4
  <2> HIDE DEF seqs
  <2> QED BY <2>1, <2>2
<1> HIDE DEF seqs
<1>8. /\ FlattenSeq(seqs) = Flattened(seqs)[n] /\ Flattened(seqs)[1] = seqs[1]
      /\ \A i \in 1..(n - 1) : Flattened(seqs)[i + 1] = Flattened(seqs)[i] \o seqs[i + 1]
  <2>1. n \in Nat \ {0}
    BY <1>5
  <2> QED BY <1>7, <2>1, FlattenSteps
<1> DEFINE S == {i \in Nat : i + 1 <= n => Leading(Flattened(seqs)[i + 1], Names(i + 1), consequences)}
<1>9. 0 \in S
  <2>1. Names(1) = {Lower[list[1]]} /\ 1 \in 1..n
    BY <1>5
  <2> HIDE DEF Names
  <2>2. Leading(Flattened(seqs)[1], Names(1), consequences)
    BY <1>6, <1>8, <2>1
  <2>3. 0 + 1 = 1
    OBVIOUS
  <2> QED BY <2>2, <2>3
<1>10. ASSUME NEW i \in Nat, i \in S PROVE i + 1 \in S
  <2> SUFFICES ASSUME (i + 1) + 1 <= n
               PROVE  Leading(Flattened(seqs)[(i + 1) + 1], Names((i + 1) + 1), consequences)
    OBVIOUS
  <2>1. PICK k \in 1..(n - 1) : k = i + 1
    BY <1>4
  <2>2. k + 1 \in 1..n
    BY <2>1
  <2>3. Names(k + 1) = Names(k) \cup {Lower[list[k + 1]]}
    <3>1. \A j \in 1..(k + 1) : j \in 1..k \/ j = k + 1
      OBVIOUS
    <3>2. 1..k \subseteq 1..(k + 1) /\ k + 1 \in 1..(k + 1)
      OBVIOUS
    <3> QED BY <3>1, <3>2
  <2>4. Lower[list[k + 1]] \notin Names(k)
    BY <1>4, <2>2
  <2>5. i + 1 <= n
    BY <2>1
  <2> HIDE DEF Names
  <2>6. Leading(Flattened(seqs)[k], Names(k), consequences)
    BY <1>10, <2>1, <2>5
  <2>7. Flattened(seqs)[k + 1] = Flattened(seqs)[k] \o seqs[k + 1]
    BY <1>8
  <2>8. Leading(seqs[k + 1], {Lower[list[k + 1]]}, consequences)
    BY <1>6, <2>2
  <2>9. Leading(Flattened(seqs)[k + 1], Names(k + 1), consequences)
    BY <2>3, <2>4, <2>6, <2>7, <2>8, OneMoreCause
  <2> QED BY <2>1, <2>9
<1>11. n - 1 \in S
  <2>1. n - 1 \in Nat
    BY <1>5
  <2> HIDE DEF S
  <2> QED BY <1>9, <1>10, <2>1, InductionOnNaturals
<1> HIDE DEF Names
<1>12. Leading(Flattened(seqs)[n], Names(n), consequences)
  <2>1. (n - 1) + 1 = n
    OBVIOUS
  <2> QED BY <1>11, <2>1
<1> QED BY <1>3, <1>5, <1>8, <1>12

LEMMA PathsAreComplete == RegisterInv => PathsComplete
<1> SUFFICES ASSUME RegisterInv PROVE PathsComplete
  OBVIOUS
<1>1. /\ scenario.cause \in Seq(DOMAIN Lower) /\ scenario.consequence \in Seq(DOMAIN Lower)
      /\ snapshot.scenario = scenario
  BY RegisterAssumption DEF RegisterInv, snapshot, NewSnapshot
<1>2. Named(scenario.cause) # {}
  BY <1>1 DEF Named, ToSet
<1>3. Leading(BuildGraph(snapshot), Named(scenario.cause), Named(scenario.consequence))
  BY <1>1, <1>2, SplitNames, GraphLeads
<1>4. result.paths = BuildGraph(snapshot)
  BY DEF result, Evaluate
<1>5. DOMAIN result.paths = 1..Len(result.paths)
  BY <1>3, <1>4 DEF Leading
<1>6. {Leads(path) : path \in ToSet(result.paths)} = Named(scenario.cause) \X Named(scenario.consequence)
  BY <1>3, <1>4, <1>5 DEF Leading, ToSet
<1>7. \A i, j \in DOMAIN result.paths : Leads(result.paths[i]) = Leads(result.paths[j]) => i = j
  BY <1>3, <1>4, <1>5 DEF Leading
<1> QED BY <1>6, <1>7 DEF PathsComplete, Leads, Named

(* PathsComplete: of any lists of statements, each cause leads to each      *)
(* consequence by one path.                                                *)
THEOREM PathsCompleteCorrect == RegisterSpec => []PathsComplete
BY RegisterInvariance, PathsAreComplete, PTL
=============================================================================
