-------------------------- MODULE MiddlewareProofs --------------------------
(***************************************************************************)
(* The rate limiter and the audit log.                                     *)
(*                                                                         *)
(* The windows of the rate limiter never overlap.  The invariant is what a *)
(* sweep leaves true of the windows it deletes: each is over for every     *)
(* request that has read its clock and still waits for the lock, because   *)
(* the sweep waits two windows and a request waits at most one.  The bound *)
(* on bursts rests on an assignment of each request that has counted to    *)
(* the window it counted in, of which the invariant says there is one.     *)
(*                                                                         *)
(* The timeline of a scenario is in order and the pages of the list miss   *)
(* nothing.  A change begins when all that was recorded before it has its  *)
(* row, and its own row takes its time and id later: so it is newer than   *)
(* theirs.  New rows only move old ones to a later page, so what a reader  *)
(* has not been shown is still ahead of the page they are at.              *)
(***************************************************************************)
EXTENDS RateLimiter, AuditLog, FiniteSetTheorems, TLAPS

IInv == TypeOK /\ SweptIsOver

(* A sweep leaves each window alone or deletes it, and it deletes only      *)
(* what has been over for a window's length.                               *)
LEMMA SweptCase ==
  ASSUME NEW kept, NEW t, NEW k \in Keys,
         kept = [j \in Keys |-> kept[j]]
  PROVE  Swept(kept, t)[k] = kept[k] \/
         (Swept(kept, t)[k] = NoWindow /\ t - kept[k].start > 2 * Window)
BY DEF Swept

(* It keeps the shape of the windows. *)
LEMMA SweptType ==
  ASSUME NEW kept \in [Keys -> [start : Nat, count : Nat]], NEW t
  PROVE  Swept(kept, t) \in [Keys -> [start : Nat, count : Nat]]
BY DEF Swept, NoWindow

(* A request counts in its key's window, which has started and is not over, *)
(* or opens one at its own time, when there is none or it is over.          *)
LEMMA CountedCase ==
  ASSUME NEW window \in [start : Nat, count : Nat], NEW t \in Nat \ {0}
  PROVE  /\ Counted(window, t) \in [start : Nat, count : Nat]
         /\ \/ /\ Counted(window, t).start = t
               /\ window.start = 0 \/ t - window.start >= Window
            \/ /\ Counted(window, t).start = window.start
               /\ window.start # 0 /\ t - window.start < Window
BY LimiterAssumption DEF Counted

(* What a request that counts does to each key: nothing, or it sweeps an    *)
(* old window of another key, or the window of its own key is counted in.   *)
LEMMA CountCase ==
  ASSUME IInv, NEW r \in Requests, Count(r), NEW k \in Keys
  PROVE  \/ windows'[k] = windows[k] /\ opened'[k] = opened[k] /\ k # key[r]
         \/ /\ windows'[k] = NoWindow /\ opened'[k] = opened[k] /\ k # key[r]
            /\ windows[k] = NoWindow \/ now[r] - opened[k] > 2 * Window
         \/ /\ k = key[r]
            /\ windows'[k].start = opened'[k] /\ opened'[k] # 0
            /\ opened'[k] = opened[k] \/ opened[k] = 0 \/ opened'[k] >= opened[k] + Window
<1> DEFINE window == Counted(windows[key[r]], now[r])
           kept == [windows EXCEPT ![key[r]] = window]
<1>1. /\ key[r] \in Keys /\ now[r] \in Nat \ {0} /\ now[r] \in Nat
      /\ windows \in [Keys -> [start : Nat, count : Nat]]
      /\ windows[key[r]] \in [start : Nat, count : Nat]
      /\ opened \in [Keys -> Nat] /\ pc[r] = "lock"
  BY DEF IInv, TypeOK, Count
<1>2. /\ windows' = Swept(kept, now[r])
      /\ opened' = [opened EXCEPT ![key[r]] = window.start]
  BY DEF Count
<1>3. window \in [start : Nat, count : Nat]
  BY <1>1, CountedCase
<1>4. kept \in [Keys -> [start : Nat, count : Nat]]
  BY <1>1, <1>3
<1>5. windows'[k] = kept[k] \/ (windows'[k] = NoWindow /\ now[r] - kept[k].start > 2 * Window)
  <2>1. kept = [j \in Keys |-> kept[j]]
    BY <1>4
  <2> QED BY <2>1, <1>2, SweptCase
<1>6. windows[k] = NoWindow \/ (windows[k].start = opened[k] /\ opened[k] # 0)
  BY DEF IInv, TypeOK
<1>7. CASE k # key[r]
  <2>1. kept[k] = windows[k] /\ opened'[k] = opened[k]
    BY <1>1, <1>2, <1>7
  <2> QED BY <2>1, <1>5, <1>6, <1>7
<1>8. CASE k = key[r]
  <2>1. kept[k] = window /\ opened'[k] = window.start
    BY <1>1, <1>2, <1>8
  <2>2. \/ window.start = now[r] /\ (windows[k].start = 0 \/ now[r] - windows[k].start >= Window)
        \/ window.start = windows[k].start /\ windows[k].start # 0 /\ now[r] - windows[k].start < Window
    BY <1>1, <1>8, CountedCase
  <2>3. window.start \in Nat /\ opened[k] \in Nat /\ windows[k].start \in Nat
    BY <1>1, <1>3
  <2>4. window.start # 0 /\ now[r] - window.start < Window
    BY <1>1, <2>2, <2>3, LimiterAssumption
  <2>5. windows'[k] = window
    BY <1>1, <1>5, <2>1, <2>3, <2>4, LimiterAssumption
  <2>6. windows[k] = NoWindow => opened[k] = 0 \/ now[r] >= opened[k] + Window
    BY <1>1 DEF IInv, SweptIsOver
  <2>7. windows[k].start = 0 => windows[k] = NoWindow
    BY <1>6
  <2>8. window.start = opened[k] \/ opened[k] = 0 \/ window.start >= opened[k] + Window
    <3>1. CASE windows[k] = NoWindow
      BY <3>1, <1>1, <2>2, <2>3, <2>6 DEF NoWindow
    <3>2. CASE windows[k].start = opened[k] /\ opened[k] # 0
      BY <3>2, <1>1, <2>2, <2>3, LimiterAssumption
    <3> QED BY <3>1, <3>2, <1>6
  <2> QED BY <1>8, <2>1, <2>4, <2>5, <2>8
<1> QED BY <1>7, <1>8

LEMMA InitIInv == Init => IInv
BY LimiterAssumption DEF Init, IInv, TypeOK, SweptIsOver, NoWindow

LEMMA ReadClockIInv ==
  ASSUME IInv, NEW r \in Requests, ReadClock(r)
  PROVE  IInv'
<1>1. TypeOK'
  BY LimiterAssumption DEF IInv, TypeOK, ReadClock
<1>2. SweptIsOver'
  BY LimiterAssumption DEF IInv, TypeOK, SweptIsOver, ReadClock
<1> QED BY <1>1, <1>2 DEF IInv

LEMMA TickIInv ==
  ASSUME IInv, Tick
  PROVE  IInv'
<1>1. TypeOK'
  BY LimiterAssumption DEF IInv, TypeOK, Tick
<1>2. SweptIsOver'
  BY LimiterAssumption DEF IInv, TypeOK, SweptIsOver, Tick
<1> QED BY <1>1, <1>2 DEF IInv

LEMMA CountIInv ==
  ASSUME IInv, NEW r \in Requests, Count(r)
  PROVE  IInv'
<1> DEFINE window == Counted(windows[key[r]], now[r])
<1>1. TypeOK'
  <2>1. window \in [start : Nat, count : Nat] /\ key[r] \in Keys
    <3>1. key[r] \in Keys /\ windows[key[r]] \in [start : Nat, count : Nat] /\ now[r] \in Nat \ {0}
      BY DEF IInv, TypeOK, Count
    <3> QED BY <3>1, CountedCase
  <2>2. windows' \in [Keys -> [start : Nat, count : Nat]]
    <3>1. [windows EXCEPT ![key[r]] = window] \in [Keys -> [start : Nat, count : Nat]]
      BY <2>1 DEF IInv, TypeOK
    <3> QED BY <3>1, SweptType DEF Count
  <2>3. opened' \in [Keys -> Nat]
    BY <2>1 DEF IInv, TypeOK, Count
  <2>4. \A k \in Keys : windows'[k] = NoWindow \/ (windows'[k].start = opened'[k] /\ opened'[k] # 0)
    BY CountCase DEF IInv, TypeOK
  <2>5. /\ clock' \in Nat \ {0} /\ key' \in [Requests -> Keys] /\ now' \in [Requests -> Nat]
        /\ pc' \in [Requests -> {"idle", "lock", "allowed", "limited"}]
        /\ counted' \in [Requests -> Nat]
    BY DEF IInv, TypeOK, Count
  <2>6. /\ \A q \in Requests : pc'[q] # "idle" => now'[q] \in 1..clock'
        /\ \A q \in Requests : pc'[q] = "lock" => clock' - now'[q] <= MaxStall
    BY DEF IInv, TypeOK, Count
  <2> QED BY <2>2, <2>3, <2>4, <2>5, <2>6 DEF TypeOK
<1>2. SweptIsOver'
  <2> SUFFICES ASSUME NEW k \in Keys, windows'[k] = NoWindow, opened'[k] # 0
               PROVE  /\ clock' >= opened'[k] + Window
                      /\ \A q \in Requests : pc'[q] = "lock" => now'[q] >= opened'[k] + Window
    BY DEF SweptIsOver
  <2>1. clock' = clock /\ now' = now /\ \A q \in Requests : pc'[q] = "lock" => pc[q] = "lock"
    BY DEF Count, IInv, TypeOK
  <2>2. opened'[k] = opened[k] /\ (windows[k] = NoWindow \/ now[r] - opened[k] > 2 * Window)
    <3>1. ~ (windows'[k].start = opened'[k])
      BY DEF NoWindow
    <3> QED BY <3>1, CountCase
  <2>3. CASE windows[k] = NoWindow
    BY <2>1, <2>2, <2>3 DEF IInv, SweptIsOver
  <2>4. CASE now[r] - opened[k] > 2 * Window
    <3>1. clock \in Nat /\ now \in [Requests -> Nat] /\ opened[k] \in Nat /\ now[r] <= clock
      BY DEF IInv, TypeOK, Count
    <3>2. \A q \in Requests : pc[q] = "lock" => clock - now[q] <= Window
      BY <3>1, LimiterAssumption DEF IInv, TypeOK
    <3> QED BY <2>1, <2>2, <2>4, <3>1, <3>2, LimiterAssumption
  <2> QED BY <2>2, <2>3, <2>4
<1> QED BY <1>1, <1>2 DEF IInv

LEMMA IInvNext == IInv /\ [Next]_vars => IInv'
<1> SUFFICES ASSUME IInv, [Next]_vars PROVE IInv'
  OBVIOUS
<1>1. CASE UNCHANGED vars
  BY <1>1 DEF IInv, TypeOK, SweptIsOver, vars
<1>2. CASE Next
  BY <1>2, TickIInv, ReadClockIInv, CountIInv DEF Next
<1> QED BY <1>1, <1>2

LEMMA Invariance == Spec => []IInv
BY InitIInv, IInvNext, PTL DEF Spec

(* The records keep their types, a window is the last one its key opened,   *)
(* and a request that waits has a time of the recent past.                 *)
THEOREM TypeCorrect == Spec => []TypeOK
BY Invariance, PTL DEF IInv

(* A sweep lets nobody in early: what it deletes is over for every request  *)
(* that may still count, for every limit, window and number of keys.       *)
THEOREM SweptIsOverCorrect == Spec => []SweptIsOver
BY Invariance, PTL DEF IInv

(* The windows of a key start a window's length or more apart.             *)
THEOREM WindowsApartCorrect == Spec => WindowsApart
<1> DEFINE Apart == \A k \in Keys : opened'[k] # opened[k] =>
                      opened[k] = 0 \/ opened'[k] >= opened[k] + Window
<1>1. IInv /\ [Next]_vars => [Apart]_vars
  <2> SUFFICES ASSUME IInv, Next PROVE Apart
    OBVIOUS
  <2>1. CASE Tick \/ \E r \in Requests : ReadClock(r)
    BY <2>1 DEF Tick, ReadClock
  <2>2. ASSUME NEW r \in Requests, Count(r) PROVE Apart
    BY <2>2, CountCase
  <2> QED BY <2>1, <2>2 DEF Next
<1>2. Spec => []IInv
  BY Invariance
<1> QED BY <1>1, <1>2, PTL DEF Spec, WindowsApart
-----------------------------------------------------------------------------
(* Of which window a request that has counted is, the model does not keep: *)
(* the invariant says that there is such an assignment.                    *)
HasCounted(r) == pc[r] \in {"allowed", "limited"}

Admitted(keys, results, win, k, start) ==
  {r \in Requests : keys[r] = k /\ results[r] = "allowed" /\ win[r] = start}

(* A request counts in a window that has started and is not over at the    *)
(* time it read, and waits for the lock only so long.                      *)
InItsWindow(win) ==
  \A r \in Requests : HasCounted(r) =>
    /\ win[r] \in 1..opened[key[r]] /\ win[r] <= counted[r] /\ counted[r] <= clock
    /\ now[r] < win[r] + Window /\ counted[r] - MaxStall <= now[r] /\ now[r] <= counted[r]
    /\ win[r] = opened[key[r]] \/ win[r] + Window <= opened[key[r]]

ApartForAll(win) ==
  \A r, q \in Requests : HasCounted(r) /\ HasCounted(q) /\ key[r] = key[q] =>
    \/ win[r] = win[q] \/ win[r] + Window <= win[q] \/ win[q] + Window <= win[r]

(* The count of a window is that of its admissions, up to the limit.       *)
AdmissionsCounted(win) ==
  /\ \A k \in Keys : windows[k] # NoWindow =>
       Cardinality(Admitted(key, pc, win, k, opened[k])) =
         IF windows[k].count <= Limit THEN windows[k].count ELSE Limit
  /\ \A k \in Keys : \A start \in Nat : Cardinality(Admitted(key, pc, win, k, start)) <= Limit
  /\ \A r \in Requests : pc[r] = "limited" => Cardinality(Admitted(key, pc, win, key[r], win[r])) = Limit

WindowOfEach(win) == InItsWindow(win) /\ ApartForAll(win) /\ AdmissionsCounted(win)

Arrived == {r \in Requests : pc[r] # "idle"}

BurstInv ==
  /\ IInv /\ IsFiniteSet(Arrived)
  /\ \A k \in Keys : opened[k] <= clock
  /\ \E win \in [Requests -> Nat] : WindowOfEach(win)

(* From a state of the invariant. *)
LEMMA AdmittedFinite ==
  ASSUME IsFiniteSet(Arrived), NEW k, NEW start, NEW win
  PROVE  IsFiniteSet(Admitted(key, pc, win, k, start)) /\ Cardinality(Admitted(key, pc, win, k, start)) \in Nat
<1>1. Admitted(key, pc, win, k, start) \in SUBSET Arrived
  BY DEF Admitted, Arrived
<1> QED
  BY <1>1, FS_Subset, FS_CardinalityType

(* Requests admitted close together are of two windows of their key.       *)
LEMMA BurstInTwo == BurstInv => BurstBound
<1> SUFFICES ASSUME BurstInv, NEW k \in Keys, NEW t \in 1..clock
             PROVE  Cardinality({r \in Requests : key[r] = k /\ pc[r] = "allowed" /\
                      counted[r] \in t..(t + Window - MaxStall - 1)}) <= 2 * Limit
  BY DEF BurstBound
<1> DEFINE B == {r \in Requests : key[r] = k /\ pc[r] = "allowed" /\
                   counted[r] \in t..(t + Window - MaxStall - 1)}
<1>1. PICK win \in [Requests -> Nat] : WindowOfEach(win)
  BY DEF BurstInv
<1>2. /\ t \in Nat /\ Limit \in Nat /\ Window \in Nat \ {0} /\ MaxStall \in 0..Window
      /\ \A r \in Requests : counted[r] \in Nat /\ now[r] \in Nat /\ win[r] \in Nat
  BY LimiterAssumption DEF BurstInv, IInv, TypeOK
<1>3. ASSUME NEW r \in B
      PROVE  r \in Requests /\ t - Window - MaxStall < win[r] /\ win[r] < t + Window - MaxStall
  <2>1. r \in Requests /\ HasCounted(r) /\ counted[r] \in t..(t + Window - MaxStall - 1)
    BY DEF HasCounted
  <2>2. /\ win[r] <= counted[r] /\ now[r] < win[r] + Window /\ counted[r] - MaxStall <= now[r]
    BY <1>1, <2>1 DEF WindowOfEach, InItsWindow
  <2> QED
    BY <1>2, <2>1, <2>2
<1>4. ASSUME NEW r \in B, NEW q \in B
      PROVE  win[r] = win[q] \/ win[r] + Window <= win[q] \/ win[q] + Window <= win[r]
  <2>1. r \in Requests /\ q \in Requests /\ HasCounted(r) /\ HasCounted(q) /\ key[r] = key[q]
    BY DEF HasCounted
  <2> QED
    BY <1>1, <2>1 DEF WindowOfEach, ApartForAll
<1>5. \E s1, s2 \in Nat : B \subseteq Admitted(key, pc, win, k, s1) \cup Admitted(key, pc, win, k, s2)
  <2>1. CASE B = {}
    BY <2>1
  <2>2. ASSUME NEW r1 \in B PROVE \E s1, s2 \in Nat : B \subseteq Admitted(key, pc, win, k, s1) \cup Admitted(key, pc, win, k, s2)
    <3>1. CASE \A q \in B : win[q] = win[r1]
      BY <1>2, <1>3, <3>1 DEF Admitted
    <3>2. ASSUME NEW r2 \in B, win[r2] # win[r1]
          PROVE  \A q \in B : win[q] = win[r1] \/ win[q] = win[r2]
      <4> TAKE q \in B
      <4>1. win[q] \in Nat /\ win[r1] \in Nat /\ win[r2] \in Nat
        BY <1>2, <1>3
      <4> QED
        BY <1>2, <1>3, <1>4, <3>2, <4>1
    <3>3. ASSUME NEW r2 \in B, win[r2] # win[r1]
          PROVE  B \subseteq Admitted(key, pc, win, k, win[r1]) \cup Admitted(key, pc, win, k, win[r2])
      BY <3>2, <3>3 DEF Admitted
    <3>4. \A q \in B : win[q] \in Nat
      BY <1>2, <1>3
    <3> QED
      BY <3>1, <3>3, <3>4
  <2> QED
    BY <2>1, <2>2
<1>6. PICK s1 \in Nat, s2 \in Nat : B \subseteq Admitted(key, pc, win, k, s1) \cup Admitted(key, pc, win, k, s2)
  BY <1>5
<1> DEFINE A1 == Admitted(key, pc, win, k, s1)
           A2 == Admitted(key, pc, win, k, s2)
<1>7. /\ IsFiniteSet(A1) /\ Cardinality(A1) \in Nat /\ Cardinality(A1) <= Limit
      /\ IsFiniteSet(A2) /\ Cardinality(A2) \in Nat /\ Cardinality(A2) <= Limit
  BY <1>1, AdmittedFinite DEF BurstInv, WindowOfEach, AdmissionsCounted
<1>8. IsFiniteSet(A1 \cup A2) /\ IsFiniteSet(A1 \cap A2) /\ Cardinality(A1 \cup A2) \in Nat
      /\ Cardinality(A1 \cap A2) \in Nat
      /\ Cardinality(A1 \cup A2) = Cardinality(A1) + Cardinality(A2) - Cardinality(A1 \cap A2)
  <2>1. A1 \cap A2 \in SUBSET A1
    OBVIOUS
  <2> QED
    BY <1>7, <2>1, FS_Union, FS_Subset, FS_CardinalityType
<1>9. IsFiniteSet(B) /\ Cardinality(B) \in Nat /\ Cardinality(B) <= Cardinality(A1 \cup A2)
  <2>1. B \in SUBSET (A1 \cup A2)
    BY <1>6
  <2> HIDE DEF B, A1, A2
  <2> QED
    BY <1>8, <2>1, FS_Subset, FS_CardinalityType
<1> HIDE DEF B, A1, A2
<1>10. Cardinality(B) <= 2 * Limit
  BY <1>2, <1>7, <1>8, <1>9
<1> QED
  BY <1>10 DEF B

(* A limited request shares its window with as many as the limit, and they *)
(* read their clocks not long before it.                                   *)
LEMMA LimitedInFull == BurstInv => LimitedWhenFull
<1> SUFFICES ASSUME BurstInv, NEW r \in Requests, pc[r] = "limited"
             PROVE  Cardinality({q \in Requests : key[q] = key[r] /\ pc[q] = "allowed" /\
                      now[q] > now[r] - Window - MaxStall}) >= Limit
  BY DEF LimitedWhenFull
<1> DEFINE F == {q \in Requests : key[q] = key[r] /\ pc[q] = "allowed" /\
                   now[q] > now[r] - Window - MaxStall}
<1>1. PICK win \in [Requests -> Nat] : WindowOfEach(win)
  BY DEF BurstInv
<1> DEFINE A == Admitted(key, pc, win, key[r], win[r])
<1>2. Cardinality(A) = Limit
  BY <1>1 DEF WindowOfEach, AdmissionsCounted
<1>3. A \in SUBSET F
  <2> SUFFICES ASSUME NEW q \in A PROVE q \in F
    OBVIOUS
  <2>1. q \in Requests /\ key[q] = key[r] /\ pc[q] = "allowed" /\ win[q] = win[r]
    BY DEF Admitted
  <2>2. HasCounted(q) /\ HasCounted(r)
    BY <2>1 DEF HasCounted
  <2>3. win[q] <= counted[q] /\ counted[q] - MaxStall <= now[q] /\ now[r] < win[r] + Window
    BY <1>1, <2>1, <2>2 DEF WindowOfEach, InItsWindow
  <2>4. /\ counted[q] \in Nat /\ now[q] \in Nat /\ now[r] \in Nat /\ win[q] \in Nat /\ win[r] \in Nat
        /\ MaxStall \in Nat /\ Window \in Nat
    BY <2>1, LimiterAssumption DEF BurstInv, IInv, TypeOK
  <2>5. now[q] > now[r] - Window - MaxStall
    BY <2>1, <2>3, <2>4
  <2> QED
    BY <2>1, <2>5
<1>4. F \in SUBSET Arrived
  BY DEF Arrived
<1> HIDE DEF A, F
<1>5. IsFiniteSet(F) /\ Cardinality(F) \in Nat
  BY <1>4, FS_Subset, FS_CardinalityType DEF BurstInv
<1>6. Cardinality(A) <= Cardinality(F)
  BY <1>3, <1>5, FS_Subset
<1>7. Cardinality(F) >= Limit
  BY <1>2, <1>5, <1>6, LimiterAssumption
<1> QED
  BY <1>7 DEF F

(* A request that counts: it is one more in its key's window, or the first  *)
(* of a window that starts a window's length after the one before.         *)
LEMMA CountsIn ==
  ASSUME IInv, NEW r \in Requests, Count(r)
  PROVE  LET k == key[r] IN
         /\ opened'[k] \in Nat \ {0} /\ now[r] < opened'[k] + Window
         /\ windows'[k].start = opened'[k] /\ windows'[k].count \in Nat
         /\ pc' = [pc EXCEPT ![r] = IF windows'[k].count <= Limit THEN "allowed" ELSE "limited"]
         /\ \/ /\ opened'[k] = opened[k] /\ windows[k] # NoWindow
               /\ windows'[k].count = windows[k].count + 1
            \/ /\ opened'[k] = now[r] /\ windows'[k].count = 1
               /\ opened[k] = 0 \/ opened'[k] >= opened[k] + Window
<1> DEFINE k == key[r]
           window == Counted(windows[k], now[r])
           kept == [windows EXCEPT ![k] = window]
<1>1. /\ k \in Keys /\ now[r] \in Nat \ {0} /\ opened[k] \in Nat
      /\ windows \in [Keys -> [start : Nat, count : Nat]] /\ windows[k] \in [start : Nat, count : Nat]
      /\ opened \in [Keys -> Nat] /\ pc[r] = "lock"
      /\ Window \in Nat \ {0}
  BY LimiterAssumption DEF IInv, TypeOK, Count
<1>2. /\ windows' = Swept(kept, now[r]) /\ opened' = [opened EXCEPT ![k] = window.start]
      /\ pc' = [pc EXCEPT ![r] = IF window.count <= Limit THEN "allowed" ELSE "limited"]
  BY DEF Count
<1>3. /\ window \in [start : Nat, count : Nat]
      /\ \/ /\ window.start = now[r] /\ window.count = 1
            /\ windows[k].start = 0 \/ now[r] - windows[k].start >= Window
         \/ /\ window.start = windows[k].start /\ window.count = windows[k].count + 1
            /\ windows[k].start # 0 /\ now[r] - windows[k].start < Window
  BY <1>1 DEF Counted
<1>4. windows[k] = NoWindow \/ (windows[k].start = opened[k] /\ opened[k] # 0)
  BY <1>1 DEF IInv, TypeOK
<1>5. windows[k] = NoWindow => opened[k] = 0 \/ now[r] >= opened[k] + Window
  BY <1>1 DEF IInv, SweptIsOver
<1>6. opened'[k] = window.start /\ kept[k] = window /\ kept = [j \in Keys |-> kept[j]]
  BY <1>1, <1>2, <1>3
<1>7. windows[k].start \in Nat /\ windows[k].count \in Nat /\ window.start \in Nat /\ window.count \in Nat
      /\ NoWindow.start = 0
  BY <1>1, <1>3 DEF NoWindow
<1> HIDE DEF window, kept, k
<1>8. window.start # 0 /\ now[r] < window.start + Window
  BY <1>1, <1>3, <1>7
<1>9. windows'[k] = window
  <2>1. windows'[k] = kept[k] \/ (windows'[k] = NoWindow /\ now[r] - kept[k].start > 2 * Window)
    BY <1>1, <1>2, <1>6, SweptCase
  <2> QED
    BY <1>1, <1>6, <1>7, <1>8, <2>1
<1>10. \/ window.start = opened[k] /\ windows[k] # NoWindow /\ window.count = windows[k].count + 1
       \/ /\ window.start = now[r] /\ window.count = 1
          /\ opened[k] = 0 \/ window.start >= opened[k] + Window
  BY <1>1, <1>3, <1>4, <1>5, <1>7
<1> QED
  BY <1>2, <1>6, <1>7, <1>8, <1>9, <1>10 DEF k

LEMMA CountWindows ==
  ASSUME IInv, IsFiniteSet(Arrived), \A k \in Keys : opened[k] <= clock,
         NEW r \in Requests, Count(r), NEW win \in [Requests -> Nat], WindowOfEach(win)
  PROVE  /\ \A k \in Keys : opened'[k] <= clock'
         /\ \E w \in [Requests -> Nat] : WindowOfEach(w)'
<1>a. PICK k \in Keys : k = key[r]
  BY DEF IInv, TypeOK
<1>b. PICK start \in Nat \ {0} : start = opened'[k]
  BY <1>a, CountsIn
<1>c. PICK w \in [Requests -> Nat] : w = [win EXCEPT ![r] = start]
  OBVIOUS
<1>d. PICK result \in {"allowed", "limited"} :
        result = IF windows'[k].count <= Limit THEN "allowed" ELSE "limited"
  OBVIOUS
<1>1. /\ now[r] < start + Window
      /\ windows'[k].start = start /\ windows'[k].count \in Nat
      /\ pc' = [pc EXCEPT ![r] = result]
      /\ \/ start = opened[k] /\ windows[k] # NoWindow /\ windows'[k].count = windows[k].count + 1
         \/ /\ start = now[r] /\ windows'[k].count = 1
            /\ opened[k] = 0 \/ start >= opened[k] + Window
  BY <1>a, <1>b, <1>d, CountsIn
<1>2. /\ pc[r] = "lock" /\ now[r] \in 1..clock /\ clock - now[r] <= MaxStall
      /\ clock \in Nat /\ opened \in [Keys -> Nat] /\ opened[k] \in Nat
      /\ pc \in [Requests -> {"idle", "lock", "allowed", "limited"}]
      /\ now \in [Requests -> Nat] /\ counted \in [Requests -> Nat]
      /\ windows \in [Keys -> [start : Nat, count : Nat]]
      /\ Window \in Nat \ {0} /\ Limit \in Nat /\ MaxStall \in Nat
  BY <1>a, LimiterAssumption DEF IInv, TypeOK, Count
<1>3. TypeOK /\ clock' = clock /\ key' = key /\ now' = now /\ counted' = [counted EXCEPT ![r] = clock]
  BY DEF Count, IInv
<1>4. \A j \in Keys \ {k} : opened'[j] = opened[j] /\ (windows'[j] = windows[j] \/ windows'[j] = NoWindow)
  BY <1>a, CountCase
<1>5. w[r] = start /\ \A q \in Requests \ {r} : w[q] = win[q]
  BY <1>c
<1>6. \A q \in Requests \ {r} :
        pc'[q] = pc[q] /\ counted'[q] = counted[q] /\ (HasCounted(q)' <=> HasCounted(q))
  BY <1>1, <1>2, <1>3 DEF HasCounted
<1>7. pc'[r] = result /\ counted'[r] = clock /\ result \in {"allowed", "limited"}
  BY <1>1, <1>2, <1>3
<1>8. start <= clock /\ opened[k] <= start
  BY <1>1, <1>2
<1>9. \A j \in Keys : opened'[j] <= clock'
  BY <1>b, <1>3, <1>4, <1>8
<1>10. \A q \in Requests : key[q] \in Keys
  BY DEF IInv, TypeOK
<1>11. ASSUME NEW q \in Requests \ {r}, HasCounted(q), key[q] = k
       PROVE  /\ win[q] \in 1..start
              /\ win[q] = start \/ win[q] + Window <= start
  <2>1. /\ win[q] \in 1..opened[k]
        /\ win[q] = opened[k] \/ win[q] + Window <= opened[k]
    BY <1>11 DEF WindowOfEach, InItsWindow
  <2> QED
    BY <1>1, <1>2, <1>8, <2>1
<1>12. InItsWindow(w)'
  <2> SUFFICES ASSUME NEW q \in Requests, HasCounted(q)'
               PROVE  /\ w[q] \in 1..opened'[key[q]] /\ w[q] <= counted'[q] /\ counted'[q] <= clock
                      /\ now[q] < w[q] + Window /\ counted'[q] - MaxStall <= now[q] /\ now[q] <= counted'[q]
                      /\ w[q] = opened'[key[q]] \/ w[q] + Window <= opened'[key[q]]
    BY <1>3 DEF InItsWindow
  <2>1. CASE q = r
    <3>1. opened'[key[r]] = start
      BY <1>a, <1>b
    <3> QED
      BY <1>1, <1>2, <1>5, <1>7, <1>8, <2>1, <3>1
  <2>2. CASE q # r
    <3>1. HasCounted(q) /\ w[q] = win[q] /\ counted'[q] = counted[q]
      BY <1>5, <1>6, <2>2
    <3>2. /\ win[q] \in 1..opened[key[q]] /\ win[q] <= counted[q] /\ counted[q] <= clock
          /\ now[q] < win[q] + Window /\ counted[q] - MaxStall <= now[q] /\ now[q] <= counted[q]
          /\ win[q] = opened[key[q]] \/ win[q] + Window <= opened[key[q]]
      BY <3>1 DEF WindowOfEach, InItsWindow
    <3>3. CASE key[q] = k
      <4>1. opened'[key[q]] = start
        BY <1>b, <3>3
      <4> QED
        BY <1>11, <2>2, <3>1, <3>2, <3>3, <4>1
    <3>4. CASE key[q] # k
      BY <1>4, <1>10, <3>1, <3>2, <3>4
    <3> QED
      BY <3>3, <3>4
  <2> QED
    BY <2>1, <2>2
<1>13. ApartForAll(w)'
  <2> SUFFICES ASSUME NEW p \in Requests, NEW q \in Requests, HasCounted(p)', HasCounted(q)', key[p] = key[q]
               PROVE  w[p] = w[q] \/ w[p] + Window <= w[q] \/ w[q] + Window <= w[p]
    BY <1>3 DEF ApartForAll
  <2>1. CASE p # r /\ q # r
    BY <1>5, <1>6, <2>1 DEF WindowOfEach, ApartForAll
  <2>2. CASE p = r /\ q # r
    BY <1>a, <1>5, <1>6, <1>11, <2>2
  <2>3. CASE p # r /\ q = r
    BY <1>a, <1>5, <1>6, <1>11, <2>3
  <2>4. CASE p = r /\ q = r
    BY <2>4
  <2> QED
    BY <2>1, <2>2, <2>3, <2>4
<1>14. ASSUME NEW j, NEW s
       PROVE  Admitted(key', pc', w, j, s) = IF j = k /\ s = start /\ result = "allowed"
                                   THEN Admitted(key, pc, win, j, s) \cup {r} ELSE Admitted(key, pc, win, j, s)
  <2>1. r \notin Admitted(key, pc, win, j, s)
    BY <1>2 DEF Admitted
  <2>2. ASSUME NEW q \in Requests
        PROVE  q \in Admitted(key', pc', w, j, s) <=>
                 IF q = r THEN j = k /\ s = start /\ result = "allowed"
                 ELSE q \in Admitted(key, pc, win, j, s)
    BY <1>a, <1>3, <1>5, <1>6, <1>7, <2>1 DEF Admitted
  <2>3. Admitted(key', pc', w, j, s) \subseteq Requests /\ Admitted(key, pc, win, j, s) \subseteq Requests
    BY DEF Admitted
  <2> QED
    BY <2>1, <2>2, <2>3
<1>15. ASSUME NEW j, NEW s
       PROVE  /\ IsFiniteSet(Admitted(key, pc, win, j, s)) /\ Cardinality(Admitted(key, pc, win, j, s)) \in Nat
              /\ Cardinality(Admitted(key, pc, win, j, s) \cup {r}) = Cardinality(Admitted(key, pc, win, j, s)) + 1
  <2>1. r \notin Admitted(key, pc, win, j, s)
    BY <1>2 DEF Admitted
  <2> QED
    BY <2>1, AdmittedFinite, FS_AddElement
<1> DEFINE Size(j, s) == Cardinality(Admitted(key, pc, win, j, s))
<1>16. /\ \A j \in Keys : windows[j] # NoWindow =>
            Size(j, opened[j]) = IF windows[j].count <= Limit THEN windows[j].count ELSE Limit
       /\ \A j \in Keys : \A s \in Nat : Size(j, s) <= Limit
       /\ \A q \in Requests : pc[q] = "limited" => Size(key[q], win[q]) = Limit
  BY DEF WindowOfEach, AdmissionsCounted
<1>17. Size(k, start) = IF windows'[k].count - 1 <= Limit THEN windows'[k].count - 1 ELSE Limit
  <2>1. CASE start = opened[k] /\ windows[k] # NoWindow /\ windows'[k].count = windows[k].count + 1
    <3>1. windows[k].count \in Nat
      BY <1>2
    <3> QED
      BY <1>2, <1>16, <2>1, <3>1
  <2>2. CASE windows'[k].count = 1 /\ (opened[k] = 0 \/ start >= opened[k] + Window)
    <3>1. ASSUME NEW q \in Requests, key[q] = k, HasCounted(q) PROVE win[q] # start
      <4>1. win[q] \in 1..opened[k]
        BY <3>1 DEF WindowOfEach, InItsWindow
      <4> QED
        BY <1>1, <1>2, <2>2, <4>1
    <3>2. Admitted(key, pc, win, k, start) = {}
      BY <3>1 DEF Admitted, HasCounted
    <3> QED
      BY <1>2, <2>2, <3>2, FS_EmptySet
  <2> QED
    BY <1>1, <2>1, <2>2
<1>18. Cardinality(Admitted(key', pc', w, k, start)) = IF windows'[k].count <= Limit THEN windows'[k].count ELSE Limit
  <2>1. CASE windows'[k].count <= Limit
    <3>1. Admitted(key', pc', w, k, start) = Admitted(key, pc, win, k, start) \cup {r}
      BY <1>d, <1>14, <2>1
    <3>2. Cardinality(Admitted(key, pc, win, k, start)) = windows'[k].count - 1
      BY <1>1, <1>2, <1>17, <2>1
    <3>3. Cardinality(Admitted(key', pc', w, k, start)) = (windows'[k].count - 1) + 1
      BY <1>15, <3>1, <3>2
    <3> QED
      BY <1>1, <2>1, <3>3
  <2>2. CASE ~(windows'[k].count <= Limit)
    <3>1. Admitted(key', pc', w, k, start) = Admitted(key, pc, win, k, start)
      BY <1>d, <1>14, <2>2
    <3> QED
      BY <1>1, <1>2, <1>17, <2>2, <3>1
  <2> QED
    BY <2>1, <2>2
<1>19. ASSUME NEW j, NEW s, j # k \/ s # start
       PROVE  Cardinality(Admitted(key', pc', w, j, s)) = Size(j, s)
  BY <1>14, <1>19
<1> HIDE DEF Size
<1>20. \A j \in Keys : windows'[j] # NoWindow =>
         Cardinality(Admitted(key', pc', w, j, opened'[j])) =
           IF windows'[j].count <= Limit THEN windows'[j].count ELSE Limit
  <2> SUFFICES ASSUME NEW j \in Keys, windows'[j] # NoWindow
               PROVE  Cardinality(Admitted(key', pc', w, j, opened'[j])) =
                        IF windows'[j].count <= Limit THEN windows'[j].count ELSE Limit
    OBVIOUS
  <2>1. CASE j = k
    BY <1>b, <1>18, <2>1
  <2>2. CASE j # k
    <3>1. Cardinality(Admitted(key', pc', w, j, opened'[j])) = Size(j, opened[j])
      BY <1>4, <1>19, <2>2
    <3> QED
      BY <1>4, <1>16, <2>2, <3>1
  <2> QED
    BY <2>1, <2>2
<1>21. \A j \in Keys : \A s \in Nat : Cardinality(Admitted(key', pc', w, j, s)) <= Limit
  <2> SUFFICES ASSUME NEW j \in Keys, NEW s \in Nat PROVE Cardinality(Admitted(key', pc', w, j, s)) <= Limit
    OBVIOUS
  <2>1. CASE j = k /\ s = start
    BY <1>1, <1>2, <1>18, <2>1
  <2>2. CASE j # k \/ s # start
    BY <1>16, <1>19, <2>2
  <2> QED
    BY <2>1, <2>2
<1>22. ASSUME NEW q \in Requests, pc'[q] = "limited"
       PROVE  Cardinality(Admitted(key', pc', w, key[q], w[q])) = Limit
  <2>1. CASE q = r
    <3>1. ~(windows'[k].count <= Limit)
      BY <1>d, <1>7, <1>22, <2>1
    <3> QED
      BY <1>a, <1>5, <1>18, <2>1, <3>1
  <2>2. CASE q # r
    <3>1. pc[q] = "limited" /\ w[q] = win[q]
      BY <1>5, <1>6, <1>22, <2>2
    <3>2. Size(key[q], win[q]) = Limit
      BY <1>16, <3>1
    <3>3. CASE key[q] = k /\ win[q] = start
      <4>1. windows'[k].count - 1 >= Limit
        BY <1>1, <1>2, <1>17, <3>2, <3>3
      <4>2. ~(windows'[k].count <= Limit)
        BY <1>1, <1>2, <4>1
      <4> QED
        BY <1>18, <3>1, <3>3, <4>2
    <3>4. CASE key[q] # k \/ win[q] # start
      BY <1>19, <3>1, <3>2, <3>4
    <3> QED
      BY <3>3, <3>4
  <2> QED
    BY <2>1, <2>2
<1>23. AdmissionsCounted(w)'
  BY <1>3, <1>20, <1>21, <1>22 DEF AdmissionsCounted
<1> QED
  BY <1>9, <1>12, <1>13, <1>23 DEF WindowOfEach

LEMMA BurstInitInv == Init => BurstInv
<1> SUFFICES ASSUME Init PROVE BurstInv
  OBVIOUS
<1>1. Arrived = {}
  BY DEF Init, Arrived
<1>2. \A k \in Keys : opened[k] <= clock
  BY DEF Init
<1>3. PICK win \in [Requests -> Nat] : win = [r \in Requests |-> 0]
  OBVIOUS
<1>4. InItsWindow(win) /\ ApartForAll(win)
  BY DEF Init, InItsWindow, ApartForAll, HasCounted
<1>5. \A k, start : Admitted(key, pc, win, k, start) = {}
  BY DEF Init, Admitted
<1>6. AdmissionsCounted(win)
  BY <1>5, FS_EmptySet, LimiterAssumption DEF Init, AdmissionsCounted
<1> QED
  BY <1>1, <1>2, <1>4, <1>6, InitIInv, FS_EmptySet DEF BurstInv, WindowOfEach

(* Nothing but a request that counts changes a window.                     *)
LEMMA OthersKeepWindows ==
  ASSUME TypeOK, NEW win \in [Requests -> Nat], WindowOfEach(win),
         Tick \/ (\E r \in Requests : ReadClock(r)) \/ UNCHANGED vars
  PROVE  WindowOfEach(win)'
<1>1. UNCHANGED <<windows, opened, key, counted>> /\ clock \in Nat /\ clock' \in Nat /\ clock <= clock'
  BY DEF TypeOK, Tick, ReadClock, vars
<1>2. \A q \in Requests : /\ HasCounted(q)' <=> HasCounted(q)
                          /\ pc'[q] = "allowed" <=> pc[q] = "allowed"
                          /\ pc'[q] = "limited" <=> pc[q] = "limited"
                          /\ HasCounted(q) => now'[q] = now[q]
  BY DEF TypeOK, HasCounted, Tick, ReadClock, vars
<1>3. InItsWindow(win)'
  <2> SUFFICES ASSUME NEW q \in Requests, HasCounted(q)'
               PROVE  /\ win[q] \in 1..opened[key[q]] /\ win[q] <= counted[q] /\ counted[q] <= clock'
                      /\ now'[q] < win[q] + Window /\ counted[q] - MaxStall <= now'[q] /\ now'[q] <= counted[q]
                      /\ win[q] = opened[key[q]] \/ win[q] + Window <= opened[key[q]]
    BY <1>1 DEF InItsWindow
  <2>1. HasCounted(q) /\ now'[q] = now[q] /\ counted[q] \in Nat
    BY <1>2 DEF TypeOK
  <2>2. counted[q] <= clock
    BY <2>1 DEF WindowOfEach, InItsWindow
  <2>3. counted[q] <= clock'
    BY <1>1, <2>1, <2>2
  <2> QED
    BY <2>1, <2>3 DEF WindowOfEach, InItsWindow
<1>4. ApartForAll(win)'
  BY <1>1, <1>2 DEF WindowOfEach, ApartForAll
<1>5. \A k, start : Admitted(key', pc', win, k, start) = Admitted(key, pc, win, k, start)
  BY <1>1, <1>2 DEF Admitted
<1>6. AdmissionsCounted(win)'
  <2>1. \A r \in Requests : pc'[r] = "limited" => Cardinality(Admitted(key', pc', win, key[r], win[r])) = Limit
    BY <1>2, <1>5 DEF WindowOfEach, AdmissionsCounted
  <2>2. /\ \A k \in Keys : windows[k] # NoWindow =>
             Cardinality(Admitted(key', pc', win, k, opened[k])) =
               IF windows[k].count <= Limit THEN windows[k].count ELSE Limit
        /\ \A k \in Keys : \A start \in Nat : Cardinality(Admitted(key', pc', win, k, start)) <= Limit
    BY <1>5 DEF WindowOfEach, AdmissionsCounted
  <2> QED
    BY <1>1, <2>1, <2>2 DEF AdmissionsCounted
<1> QED
  BY <1>3, <1>4, <1>6 DEF WindowOfEach

LEMMA BurstNextInv == BurstInv /\ [Next]_vars => BurstInv'
<1> SUFFICES ASSUME BurstInv, [Next]_vars PROVE BurstInv'
  OBVIOUS
<1>1. IInv'
  BY IInvNext DEF BurstInv
<1>2. PICK win \in [Requests -> Nat] : WindowOfEach(win)
  BY DEF BurstInv
<1>3. CASE Tick \/ (\E r \in Requests : ReadClock(r)) \/ UNCHANGED vars
  <2>1. WindowOfEach(win)'
    BY <1>2, <1>3, OthersKeepWindows DEF BurstInv, IInv
  <2>2. IsFiniteSet(Arrived')
    <3>1. CASE pc' = pc
      BY <3>1 DEF Arrived, BurstInv
    <3>2. ASSUME NEW r \in Requests, ReadClock(r) PROVE IsFiniteSet(Arrived')
      <4>1. Arrived' \in SUBSET (Arrived \cup {r})
        BY <3>2 DEF Arrived, ReadClock, BurstInv, IInv, TypeOK
      <4>2. IsFiniteSet(Arrived \cup {r})
        BY FS_AddElement DEF BurstInv
      <4> QED
        BY <4>1, <4>2, FS_Subset
    <3> QED
      BY <1>3, <3>1, <3>2 DEF Tick, vars
  <2>3. \A k \in Keys : opened'[k] <= clock'
    <3>1. opened' = opened /\ clock \in Nat /\ clock' \in Nat /\ clock <= clock' /\ opened \in [Keys -> Nat]
      BY <1>3 DEF Tick, ReadClock, vars, BurstInv, IInv, TypeOK
    <3> QED
      BY <3>1 DEF BurstInv
  <2> QED
    BY <1>1, <2>1, <2>2, <2>3 DEF BurstInv
<1>4. ASSUME NEW r \in Requests, Count(r) PROVE BurstInv'
  <2>1. /\ \A k \in Keys : opened'[k] <= clock'
        /\ \E w \in [Requests -> Nat] : WindowOfEach(w)'
    BY <1>2, <1>4, CountWindows DEF BurstInv
  <2>2. Arrived' = Arrived
    BY <1>4 DEF Count, Arrived, BurstInv, IInv, TypeOK
  <2> QED
    BY <1>1, <2>1, <2>2 DEF BurstInv
<1> QED
  BY <1>3, <1>4 DEF Next

LEMMA BurstInvariance == Spec => []BurstInv
BY BurstInitInv, BurstNextInv, PTL DEF Spec

(* BurstBound: requests of a key that are admitted within a window less    *)
(* the longest wait for the lock are at most twice the limit, whatever the  *)
(* limit, the window, the number of keys and requests, and whatever is     *)
(* swept meanwhile.                                                        *)
THEOREM BurstBoundCorrect == Spec => []BurstBound
BY BurstInvariance, BurstInTwo, PTL

(* LimitedWhenFull: a request is limited only when the limit of its key was  *)
(* used up by requests of that key that were not long before it.           *)
THEOREM LimitedWhenFullCorrect == Spec => []LimitedWhenFull
BY BurstInvariance, LimitedInFull, PTL

-----------------------------------------------------------------------------
(* The audit log. *)

Recorded == {"answered", "answered stamped", "done", "lost"}

Steps == Recorded \cup {"idle", "changed", "stamped"}

Events == {"create", "transition", "update"}

LogTypeInv ==
  /\ time \in 0..MaxAuditTime
  /\ created \subseteq Scenarios
  /\ step \in [Writes -> Steps]
  /\ scenario \in [Writes -> Scenarios]
  /\ action \in [Writes -> Events \cup {"none"}]
  /\ \A r \in Writes : step[r] # "idle" => action[r] \in Events
  /\ at \in [Writes -> 0..time]
  /\ earlier \in [Writes -> SUBSET Writes]

(* Ids are given out in order, and no row is of the future. *)
RowsInv ==
  /\ rows \subseteq AuditLog /\ IsFiniteSet(rows)
  /\ \A a \in rows : a.id <= Cardinality(rows) /\ a.at <= time
  /\ \A a, b \in rows : a.id = b.id => a = b

(* What was recorded before a change is older than the row of that change, *)
(* and a change has no row before it is recorded.                          *)
OrderInv ==
  /\ \A a \in Matching({Service}) : step[a.by] \in Recorded
  /\ \A r \in Writes : \A q \in earlier[r] : step[q] \in Recorded
  /\ \A r \in Writes : \A b \in Matching({Service}) :
       step[r] = "stamped" /\ b.by \in earlier[r] => b.at <= at[r]
  /\ \A a, b \in Matching({Service}) : b.by \in earlier[a.by] => Newer(a, b)

(* What a reader is still to be shown is beyond the pages they have read.  *)
ReadersInv ==
  /\ reading \in [Readers -> [filter : SUBSET {Service, Http}, page : Nat, had : SUBSET rows,
                              shown : SUBSET rows, done : BOOLEAN]]
  /\ \A x \in Readers :
       /\ reading[x].had \subseteq Matching(reading[x].filter)
       /\ \A row \in reading[x].had \ reading[x].shown :
            /\ ~ reading[x].done
            /\ Position(row, reading[x].filter) > reading[x].page * PageSize

LogInv == LogTypeInv /\ RowsInv /\ OrderInv /\ ReadersInv

-----------------------------------------------------------------------------
(* Newer orders the rows of the table.                                     *)
LEMMA NewerOrders ==
  /\ \A a, b \in AuditLog : ~ (Newer(a, b) /\ Newer(b, a))
  /\ \A a, b, c \in AuditLog : Newer(a, b) /\ Newer(b, c) => Newer(a, c)
  /\ \A a, b \in AuditLog : a.id # b.id => Newer(a, b) \/ Newer(b, a)
BY DEF Newer, AuditLog

(* A row comes after those that are newer, at a place from 1.              *)
LEMMA PositionOfNewer ==
  ASSUME RowsInv, NEW filter
  PROVE  /\ IsFiniteSet(Matching(filter)) /\ Cardinality(Matching(filter)) \in Nat
         /\ \A row \in Matching(filter) : Position(row, filter) \in 1..Cardinality(Matching(filter))
         /\ \A a, b \in Matching(filter) : Newer(a, b) => Position(a, filter) < Position(b, filter)
<1> DEFINE M == Matching(filter)
           Before(row) == {other \in M : Newer(other, row)}
<1>1. IsFiniteSet(M) /\ Cardinality(M) \in Nat /\ M \subseteq AuditLog
  BY FS_Subset, FS_CardinalityType DEF Matching, RowsInv
<1>2. \A row : IsFiniteSet(Before(row)) /\ Cardinality(Before(row)) \in Nat
  <2> TAKE row
  <2>1. Before(row) \in SUBSET M
    OBVIOUS
  <2> QED BY <1>1, <2>1, FS_Subset, FS_CardinalityType
<1>3. \A row : Position(row, filter) = Cardinality(Before(row)) + 1
  BY DEF Position
<1>4. \A a, b \in M : Newer(a, b) => Cardinality(Before(a)) < Cardinality(Before(b))
  <2> SUFFICES ASSUME NEW a \in M, NEW b \in M, Newer(a, b)
               PROVE  Cardinality(Before(a)) < Cardinality(Before(b))
    OBVIOUS
  <2>1. Before(a) \in SUBSET Before(b)
    BY <1>1, NewerOrders
  <2>2. a \in Before(b) /\ a \notin Before(a)
    BY <1>1, NewerOrders
  <2>3. /\ Cardinality(Before(a)) <= Cardinality(Before(b))
        /\ Cardinality(Before(b)) = Cardinality(Before(a)) => Before(b) = Before(a)
    BY <1>2, <2>1, FS_Subset
  <2>4. Cardinality(Before(a)) # Cardinality(Before(b))
    BY <2>2, <2>3
  <2> HIDE DEF Before
  <2> QED BY <1>2, <2>3, <2>4
<1>5. \A row \in M : Cardinality(Before(row)) + 1 \in 1..Cardinality(M)
  <2> TAKE row \in M
  <2>1. Before(row) \in SUBSET (M \ {row})
    BY <1>1, NewerOrders
  <2>2. IsFiniteSet(M \ {row}) /\ Cardinality(M \ {row}) = Cardinality(M) - 1
    BY <1>1, FS_RemoveElement
  <2>3. Cardinality(Before(row)) <= Cardinality(M \ {row})
    BY <2>1, <2>2, FS_Subset
  <2> HIDE DEF Before, M
  <2> QED BY <1>1, <1>2, <2>2, <2>3
<1> HIDE DEF Before
<1> QED BY <1>1, <1>2, <1>3, <1>4, <1>5

(* No two rows have the same place, so every place is taken.               *)
LEMMA PositionsTaken ==
  ASSUME RowsInv, NEW filter
  PROVE  /\ \A a, b \in Matching(filter) : Position(a, filter) = Position(b, filter) => a = b
         /\ \A n \in 1..Cardinality(Matching(filter)) :
              \E row \in Matching(filter) : Position(row, filter) = n
<1> DEFINE M == Matching(filter)
           place == [row \in M |-> Position(row, filter)]
<1>1. /\ IsFiniteSet(M) /\ Cardinality(M) \in Nat
      /\ \A row \in M : Position(row, filter) \in 1..Cardinality(M)
      /\ \A a, b \in M : Newer(a, b) => Position(a, filter) < Position(b, filter)
  BY PositionOfNewer
<1>2. \A a, b \in M : Position(a, filter) = Position(b, filter) => a = b
  <2> SUFFICES ASSUME NEW a \in M, NEW b \in M, Position(a, filter) = Position(b, filter), a # b
               PROVE  FALSE
    OBVIOUS
  <2>1. a \in AuditLog /\ b \in AuditLog /\ a.id # b.id
    BY DEF Matching, RowsInv
  <2>2. Newer(a, b) \/ Newer(b, a)
    BY <2>1, NewerOrders
  <2>3. Position(a, filter) \in Nat /\ Position(b, filter) \in Nat
    BY <1>1
  <2> QED BY <1>1, <2>2, <2>3
<1>3. place \in Injection(M, 1..Cardinality(M))
  BY <1>1, <1>2 DEF Injection, IsInjective
<1>4. IsFiniteSet(1..Cardinality(M)) /\ Cardinality(1..Cardinality(M)) = Cardinality(M)
  BY <1>1, FS_Interval
<1>5. place \in Surjection(M, 1..Cardinality(M))
  BY <1>3, <1>4, FS_Injection
<1>6. \A n \in 1..Cardinality(M) : \E row \in M : place[row] = n
  BY <1>5 DEF Surjection
<1> QED BY <1>2, <1>6

(* A page that is not the last is full.                                    *)
LEMMA PageFull ==
  ASSUME RowsInv, NEW filter, NEW page \in Nat \ {0}, NEW size \in Nat \ {0},
         page * size <= Cardinality(Matching(filter))
  PROVE  Cardinality(Page(filter, page, size)) = size
<1> DEFINE M == Matching(filter)
           P == Page(filter, page, size)
           first == (page - 1) * size + 1
           last == page * size
           place == [row \in P |-> Position(row, filter)]
<1>1. /\ first \in 1..last /\ last \in Nat /\ last - first + 1 = size
      /\ last <= Cardinality(M) /\ Cardinality(M) \in Nat
  <2>1. \E before \in Nat : (page - 1) * size = before /\ page * size = before + size
    OBVIOUS
  <2> QED BY <2>1, PositionOfNewer
<1>2. P = {row \in M : Position(row, filter) \in first..last}
  BY DEF Page
<1> HIDE DEF P, first, last
<1>3. first..last \subseteq 1..Cardinality(M)
  BY <1>1
<1>4. place \in Injection(P, first..last)
  BY <1>2, PositionsTaken DEF Injection, IsInjective
<1>5. place \in Surjection(P, first..last)
  <2>1. \A n \in first..last : \E row \in P : place[row] = n
    BY <1>2, <1>3, PositionsTaken
  <2> QED BY <1>4, <2>1 DEF Injection, Surjection
<1>6. IsFiniteSet(first..last) /\ Cardinality(first..last) = size
  <2>1. first \in Int /\ last \in Int /\ ~ (first > last)
    BY <1>1
  <2>2. IsFiniteSet(first..last) /\ Cardinality(first..last) = last - first + 1
    BY <2>1, FS_Interval
  <2> QED BY <1>1, <2>2
<1>7. Cardinality(P) = Cardinality(first..last)
  BY <1>4, <1>5, <1>6, FS_Injection
<1> QED BY <1>6, <1>7 DEF P

-----------------------------------------------------------------------------
(* What the invariant says of the timeline and of the pages. *)
LEMMA InOrder == LogInv => TimelineInOrder
<1> SUFFICES ASSUME LogInv, NEW s \in Scenarios, NEW event \in Timeline(s), NEW next \in Timeline(s),
                    Precedes(event, next), next.by \in earlier[event.by]
             PROVE  FALSE
  BY DEF TimelineInOrder
<1>1. event \in Matching({Service}) /\ next \in Matching({Service})
  BY DEF Timeline, Page
<1>2. event \in AuditLog /\ next \in AuditLog
  BY <1>1 DEF Matching, LogInv, RowsInv
<1>3. Newer(event, next)
  BY <1>1 DEF LogInv, OrderInv
<1> QED BY <1>2, <1>3, NewerOrders DEF Precedes

LEMMA KeepsNewest == LogInv => TimelineKeepsNewest
<1> SUFFICES ASSUME LogInv, NEW s \in Scenarios, NEW old \in Timeline(s), NEW new \in Matching({Service}),
                    new.scenario = s /\ new.action \in {"create", "transition"},
                    old.by \in earlier[new.by]
             PROVE  new \in Timeline(s)
  BY DEF TimelineKeepsNewest
<1>1. /\ old \in Matching({Service})
      /\ Position(old, {Service}) \in (1 - 1) * TimelineRows + 1..1 * TimelineRows
  BY DEF Timeline, Page
<1>2. Newer(new, old)
  BY <1>1 DEF LogInv, OrderInv
<1>3. /\ Position(new, {Service}) < Position(old, {Service})
      /\ Position(new, {Service}) \in 1..Cardinality(Matching({Service}))
      /\ Cardinality(Matching({Service})) \in Nat
  BY <1>1, <1>2, PositionOfNewer DEF LogInv
<1>4. Position(new, {Service}) \in (1 - 1) * TimelineRows + 1..1 * TimelineRows
  BY <1>1, <1>3, AuditAssumption
<1> QED BY <1>4 DEF Timeline, Page

LEMMA InLog == LogInv => AuditInv /\ PagesMissNothing
<1> SUFFICES ASSUME LogInv PROVE AuditInv /\ PagesMissNothing
  OBVIOUS
<1>1. AuditTypeOK
  <2>1. \A x \in Readers : reading[x].shown \subseteq rows
    BY DEF LogInv, ReadersInv
  <2> QED BY <2>1 DEF AuditTypeOK, LogInv, LogTypeInv, RowsInv
<1>2. PagesMissNothing
  BY DEF PagesMissNothing, LogInv, ReadersInv
<1> QED BY <1>1, <1>2, InOrder, KeepsNewest DEF AuditInv

-----------------------------------------------------------------------------
LEMMA ReadingWithin ==
  ASSUME NEW filter1, NEW filter2, NEW page1, NEW page2, NEW row1, NEW row2, NEW done1, NEW done2,
         filter1 \subseteq filter2, page1 \subseteq page2, row1 \subseteq row2, done1 \subseteq done2
  PROVE  [filter : filter1, page : page1, had : row1, shown : row1, done : done1]
           \subseteq [filter : filter2, page : page2, had : row2, shown : row2, done : done2]
OBVIOUS

LEMMA LogInitInv == AuditInit => LogInv
<1> SUFFICES ASSUME AuditInit PROVE LogInv
  OBVIOUS
<1>1. rows = {} /\ IsFiniteSet(rows)
  BY FS_EmptySet DEF AuditInit
<1>2. \A filter : Matching(filter) = {}
  BY <1>1 DEF Matching
<1>3. LogTypeInv
  BY AuditAssumption DEF AuditInit, LogTypeInv, Steps, Recorded, Events
<1>4. RowsInv
  BY <1>1 DEF RowsInv
<1>5. OrderInv
  BY <1>2 DEF OrderInv, AuditInit
<1>6. ReadersInv
  <2>1. \A x \in Readers :
          /\ reading[x] \in [filter : {{Service, Http}, {Service}}, page : {0}, had : {{}},
                             shown : {{}}, done : {FALSE}]
          /\ reading[x].had = {}
    BY DEF AuditInit
  <2>2. reading \in [Readers -> [filter : SUBSET {Service, Http}, page : Nat, had : SUBSET rows,
                                 shown : SUBSET rows, done : BOOLEAN]]
    <3>1. \A x \in Readers : reading[x] \in [filter : SUBSET {Service, Http}, page : Nat,
                               had : SUBSET rows, shown : SUBSET rows, done : BOOLEAN]
      <4>1. /\ {{Service, Http}, {Service}} \subseteq SUBSET {Service, Http}
            /\ {0} \subseteq Nat /\ {{}} \subseteq SUBSET rows /\ {FALSE} \subseteq BOOLEAN
        OBVIOUS
      <4> QED BY <2>1, <4>1, ReadingWithin
    <3>2. reading = [x \in Readers |-> reading[x]]
      BY DEF AuditInit
    <3> QED BY <3>1, <3>2
  <2> QED BY <2>1, <2>2 DEF ReadersInv
<1> QED BY <1>3, <1>4, <1>5, <1>6 DEF LogInv

(* A step that adds no row and leaves the readers alone.                   *)
LEMMA SameRows ==
  ASSUME RowsInv, ReadersInv, time' \in Nat, time \in Nat, time' >= time, UNCHANGED <<rows, reading>>
  PROVE  /\ RowsInv' /\ ReadersInv'
         /\ \A filter : Matching(filter)' = Matching(filter)
<1>1. \A filter : Matching(filter)' = Matching(filter)
  BY DEF Matching
<1>2. RowsInv'
  <2>1. \A a \in rows : a.at <= time'
    <3> TAKE a \in rows
    <3>1. a.at \in Nat /\ a.at <= time
      BY DEF RowsInv, AuditLog
    <3> QED BY <3>1
  <2> QED BY <2>1 DEF RowsInv
<1>3. \A row, filter : Position(row, filter)' = Position(row, filter)
  BY <1>1 DEF Position
<1>4. ReadersInv'
  BY <1>1, <1>3 DEF ReadersInv
<1> QED BY <1>1, <1>2, <1>4

(* A row that is added moves no row to an earlier page.                    *)
LEMMA NewRow ==
  ASSUME RowsInv, ReadersInv, time \in Nat, NEW row \in AuditLog,
         row.id = Cardinality(rows) + 1, row.at <= time,
         rows' = rows \cup {row}, UNCHANGED <<time, reading>>
  PROVE  /\ RowsInv' /\ ReadersInv'
         /\ \A b \in rows : b.id < row.id
<1>1. Cardinality(rows) \in Nat /\ \A b \in rows : b.id < row.id
  BY FS_CardinalityType DEF RowsInv, AuditLog
<1>2. IsFiniteSet(rows') /\ Cardinality(rows') = Cardinality(rows) + 1
  BY <1>1, FS_AddElement DEF RowsInv, AuditLog
<1>3. RowsInv'
  <2>1. \A a \in rows' : a.id <= Cardinality(rows') /\ a.at <= time'
    BY <1>1, <1>2 DEF RowsInv, AuditLog
  <2>2. \A a, b \in rows' : a.id = b.id => a = b
    BY <1>1 DEF RowsInv, AuditLog
  <2>3. rows' \subseteq AuditLog
    BY DEF RowsInv
  <2> QED BY <1>2, <2>1, <2>2, <2>3 DEF RowsInv
<1>4. \A filter : Matching(filter) \subseteq Matching(filter)'
  BY DEF Matching
<1>5. ASSUME NEW filter, NEW old \in Matching(filter)
      PROVE  /\ Position(old, filter) \in Nat /\ Position(old, filter)' \in Nat
             /\ Position(old, filter) <= Position(old, filter)'
  <2> DEFINE Before == {other \in Matching(filter) : Newer(other, old)}
             After == {other \in Matching(filter)' : Newer(other, old)}
  <2>1. IsFiniteSet(After) /\ Before \in SUBSET After
    <3>1. IsFiniteSet(Matching(filter)')
      BY <1>2, FS_Subset DEF Matching
    <3> QED BY <1>4, <3>1, FS_Subset
  <2>2. /\ IsFiniteSet(Before) /\ Cardinality(Before) <= Cardinality(After)
        /\ Cardinality(Before) \in Nat /\ Cardinality(After) \in Nat
    BY <2>1, FS_Subset, FS_CardinalityType
  <2>3. Position(old, filter) = Cardinality(Before) + 1 /\ Position(old, filter)' = Cardinality(After) + 1
    BY DEF Position
  <2> HIDE DEF Before, After
  <2> QED BY <2>2, <2>3
<1>6. ReadersInv'
  <2>1. reading' \in [Readers -> [filter : SUBSET {Service, Http}, page : Nat, had : SUBSET rows',
                                  shown : SUBSET rows', done : BOOLEAN]]
    <3>1. \A x \in Readers : reading[x] \in [filter : SUBSET {Service, Http}, page : Nat,
                               had : SUBSET rows', shown : SUBSET rows', done : BOOLEAN]
      <4> TAKE x \in Readers
      <4>1. reading[x] \in [filter : SUBSET {Service, Http}, page : Nat,
                            had : SUBSET rows, shown : SUBSET rows, done : BOOLEAN]
        BY DEF ReadersInv
      <4>2. SUBSET rows \subseteq SUBSET rows'
        OBVIOUS
      <4> QED BY <4>1, <4>2
    <3> QED BY <3>1 DEF ReadersInv
  <2>2. ASSUME NEW x \in Readers
        PROVE  /\ reading[x].had \subseteq Matching(reading[x].filter)'
               /\ \A old \in reading[x].had \ reading[x].shown :
                    /\ ~ reading[x].done
                    /\ Position(old, reading[x].filter)' > reading[x].page * PageSize
    <3>1. PICK filter : filter = reading[x].filter
      OBVIOUS
    <3>2. PICK seen \in Nat : seen = reading[x].page * PageSize
      BY AuditAssumption DEF ReadersInv
    <3>3. /\ reading[x].had \subseteq Matching(filter)
          /\ \A old \in reading[x].had \ reading[x].shown :
               /\ ~ reading[x].done
               /\ Position(old, filter) > seen
      BY <3>1, <3>2 DEF ReadersInv
    <3>4. \A old \in reading[x].had \ reading[x].shown : Position(old, filter)' > seen
      BY <1>5, <3>3
    <3> QED BY <1>4, <3>1, <3>2, <3>3, <3>4
  <2> QED BY <2>1, <2>2 DEF ReadersInv
<1> QED BY <1>1, <1>3, <1>6

(* The order is kept by a step of a request that adds no row of the service. *)
LEMMA SameOrder ==
  ASSUME LogTypeInv, OrderInv, NEW r \in Writes,
         Matching({Service})' = Matching({Service}), Matching({Service}) \subseteq AuditLog,
         earlier' = earlier,
         \A q \in Writes : step[q] \in Recorded => step'[q] \in Recorded,
         \A q \in Writes : q # r => step'[q] = step[q] /\ at'[q] = at[q],
         step'[r] = "stamped" => \A b \in Matching({Service}) : b.at <= at'[r]
  PROVE  OrderInv'
<1>1. \A a \in Matching({Service}) : a.by \in Writes
  BY DEF AuditLog
<1>2. \A a \in Matching({Service})' : step'[a.by] \in Recorded
  BY <1>1 DEF OrderInv
<1>3. \A q \in Writes : \A w \in earlier'[q] : step'[w] \in Recorded
  BY DEF OrderInv, LogTypeInv
<1>4. \A q \in Writes : \A b \in Matching({Service})' :
        step'[q] = "stamped" /\ b.by \in earlier'[q] => b.at <= at'[q]
  BY DEF OrderInv
<1>5. \A a, b \in Matching({Service})' : b.by \in earlier'[a.by] => Newer(a, b)
  BY DEF OrderInv
<1> QED BY <1>2, <1>3, <1>4, <1>5 DEF OrderInv

LEMMA ChangeInv ==
  ASSUME LogInv, NEW r \in Writes, Change(r)
  PROVE  LogInv'
<1>1. /\ RowsInv' /\ ReadersInv' /\ Matching({Service})' = Matching({Service})
      /\ Matching({Service}) \subseteq AuditLog
  BY SameRows DEF LogInv, LogTypeInv, RowsInv, Matching, Change
<1>2. PICK before \in SUBSET Writes : before = {row.by : row \in Matching({Service})}
  BY <1>1 DEF AuditLog
<1>3. step' = [step EXCEPT ![r] = "changed"] /\ earlier' = [earlier EXCEPT ![r] = before]
  BY <1>2 DEF Change
<1>4. LogTypeInv'
  <2>1. time' \in 0..MaxAuditTime /\ created' \subseteq Scenarios /\ scenario' \in [Writes -> Scenarios]
    BY DEF LogInv, LogTypeInv, Change
  <2>2. step' \in [Writes -> Steps] /\ earlier' \in [Writes -> SUBSET Writes] /\ at' \in [Writes -> 0..time']
    BY <1>3 DEF LogInv, LogTypeInv, Steps, Change
  <2>3. PICK change \in Events : action' = [action EXCEPT ![r] = change]
    BY DEF Change, Events
  <2>4. /\ action' \in [Writes -> Events \cup {"none"}]
        /\ \A q \in Writes : step'[q] # "idle" => action'[q] \in Events
    BY <1>3, <2>3 DEF LogInv, LogTypeInv
  <2> QED BY <2>1, <2>2, <2>4 DEF LogTypeInv
<1>5. OrderInv'
  <2>1. \A a \in Matching({Service}) : a.by \in Writes /\ a.by # r /\ step'[a.by] \in Recorded
    <3> TAKE a \in Matching({Service})
    <3>1. a.by \in Writes /\ step[a.by] \in Recorded
      BY <1>1 DEF AuditLog, LogInv, OrderInv
    <3>2. step[r] = "idle"
      BY DEF Change
    <3> QED BY <1>3, <3>1, <3>2 DEF Recorded, LogInv, LogTypeInv
  <2>2. \A q \in Writes : \A w \in earlier'[q] : step'[w] \in Recorded
    <3> SUFFICES ASSUME NEW q \in Writes, NEW w \in earlier'[q] PROVE step'[w] \in Recorded
      OBVIOUS
    <3>1. CASE q = r
      BY <1>2, <1>3, <2>1, <3>1 DEF LogInv, LogTypeInv
    <3>2. CASE q # r
      <4>1. w \in Writes /\ step[w] \in Recorded
        BY <1>3, <3>2 DEF LogInv, LogTypeInv, OrderInv
      <4>2. w # r
        BY <4>1 DEF Change, Recorded
      <4> QED BY <1>3, <4>1, <4>2 DEF LogInv, LogTypeInv
    <3> QED BY <3>1, <3>2
  <2>3. \A q \in Writes : \A b \in Matching({Service}) :
          step'[q] = "stamped" /\ b.by \in earlier'[q] => b.at <= at'[q]
    BY <1>3 DEF LogInv, LogTypeInv, OrderInv, Change
  <2>4. \A a, b \in Matching({Service}) : b.by \in earlier'[a.by] => Newer(a, b)
    <3>1. \A a \in Matching({Service}) : earlier'[a.by] = earlier[a.by]
      BY <1>3, <2>1 DEF LogInv, LogTypeInv
    <3> QED BY <3>1 DEF LogInv, OrderInv
  <2> QED BY <1>1, <2>1, <2>2, <2>3, <2>4 DEF OrderInv
<1> QED BY <1>1, <1>4, <1>5 DEF LogInv

LEMMA TimeType == LogInv => time \in Nat /\ time \in 0..time /\ time >= time
BY AuditAssumption DEF LogInv, LogTypeInv

LEMMA StampInv ==
  ASSUME LogInv, NEW r \in Writes,
         Stamp(r, "changed", "stamped") \/ Stamp(r, "answered", "answered stamped")
  PROVE  LogInv'
<1>1. /\ RowsInv' /\ ReadersInv' /\ Matching({Service})' = Matching({Service})
      /\ Matching({Service}) \subseteq AuditLog
  <2>1. rows' = rows /\ reading' = reading /\ time' = time
    BY DEF Stamp
  <2>3. time \in Nat /\ time' \in Nat /\ time' >= time
    BY <2>1, TimeType
  <2>2. Matching({Service}) \subseteq AuditLog
    BY DEF LogInv, RowsInv, Matching
  <2> QED BY <2>1, <2>2, <2>3, SameRows DEF LogInv
<1>2. LogTypeInv'
  <2>1. /\ time' \in 0..MaxAuditTime /\ time' = time /\ created' \subseteq Scenarios
        /\ scenario' \in [Writes -> Scenarios] /\ earlier' \in [Writes -> SUBSET Writes]
        /\ action' \in [Writes -> Events \cup {"none"}]
    BY DEF LogInv, LogTypeInv, Stamp
  <2>2. step' \in [Writes -> Steps]
    BY DEF LogInv, LogTypeInv, Steps, Recorded, Stamp
  <2>4. at' \in [Writes -> 0..time']
    <3>1. time \in 0..time /\ at' = [at EXCEPT ![r] = time] /\ at \in [Writes -> 0..time]
      BY TimeType DEF LogInv, LogTypeInv, Stamp
    <3> QED BY <2>1, <3>1
  <2>3. \A q \in Writes : step'[q] # "idle" => action'[q] \in Events
    BY DEF LogInv, LogTypeInv, Stamp
  <2> QED BY <2>1, <2>2, <2>3, <2>4 DEF LogTypeInv
<1>3. OrderInv'
  <2>1. /\ earlier' = earlier /\ at'[r] = time
        /\ \A q \in Writes : q # r => step'[q] = step[q] /\ at'[q] = at[q]
    BY DEF Stamp, LogInv, LogTypeInv
  <2>2. \A q \in Writes : step[q] \in Recorded => step'[q] \in Recorded
    BY DEF Stamp, Recorded, LogInv, LogTypeInv
  <2>3. \A b \in Matching({Service}) : b.at <= at'[r]
    BY <2>1 DEF Matching, LogInv, RowsInv
  <2> QED BY <1>1, <2>1, <2>2, <2>3, SameOrder DEF LogInv
<1> QED BY <1>1, <1>2, <1>3 DEF LogInv

LEMMA LoseInv ==
  ASSUME LogInv, NEW r \in Writes, Lose(r)
  PROVE  LogInv'
<1>1. /\ RowsInv' /\ ReadersInv' /\ Matching({Service})' = Matching({Service})
      /\ Matching({Service}) \subseteq AuditLog
  <2>1. rows' = rows /\ reading' = reading /\ time' = time
    BY DEF Lose
  <2>3. time \in Nat /\ time' \in Nat /\ time' >= time
    BY <2>1, TimeType
  <2>2. Matching({Service}) \subseteq AuditLog
    BY DEF LogInv, RowsInv, Matching
  <2> QED BY <2>1, <2>2, <2>3, SameRows DEF LogInv
<1>2. LogTypeInv'
  BY DEF LogInv, LogTypeInv, Steps, Recorded, Lose
<1>3. OrderInv'
  <2>1. /\ earlier' = earlier /\ step'[r] = "lost"
        /\ \A q \in Writes : q # r => step'[q] = step[q] /\ at'[q] = at[q]
        /\ \A q \in Writes : step[q] \in Recorded => step'[q] \in Recorded
    BY DEF Lose, LogInv, LogTypeInv, Recorded
  <2> QED BY <1>1, <2>1, SameOrder DEF LogInv
<1> QED BY <1>1, <1>2, <1>3 DEF LogInv

LEMMA AuditTickInv ==
  ASSUME LogInv, AuditTick
  PROVE  LogInv'
<1>1. /\ RowsInv' /\ ReadersInv' /\ Matching({Service})' = Matching({Service})
  BY AuditAssumption, SameRows DEF LogInv, LogTypeInv, AuditTick
<1>2. LogTypeInv'
  BY AuditAssumption DEF LogInv, LogTypeInv, AuditTick
<1>3. OrderInv'
  BY <1>1 DEF LogInv, OrderInv, AuditTick
<1> QED BY <1>1, <1>2, <1>3 DEF LogInv

LEMMA RowType ==
  ASSUME LogInv, NEW r \in Writes, NEW entity \in {Service, Http}, NEW what \in Events \cup {"http_write"}
  PROVE  /\ Row(r, entity, what) \in AuditLog
         /\ Row(r, entity, what).id = Cardinality(rows) + 1
         /\ Row(r, entity, what).at = at[r] /\ at[r] <= time
         /\ Row(r, entity, what).by = r /\ Row(r, entity, what).entity = entity
<1>1. Cardinality(rows) + 1 \in Nat \ {0}
  BY FS_CardinalityType DEF LogInv, RowsInv
<1>2. at[r] \in Nat /\ at[r] <= time /\ scenario[r] \in Scenarios
  BY TimeType DEF LogInv, LogTypeInv
<1> QED BY <1>1, <1>2 DEF Row, AuditLog, Events

(* The row of the middleware is not one of the service.                    *)
LEMMA AuditRowInv ==
  ASSUME LogInv, NEW r \in Writes, Audit(r)
  PROVE  LogInv'
<1>1. PICK row : row = Row(r, Http, "http_write")
  OBVIOUS
<1>2. row \in AuditLog /\ row.id = Cardinality(rows) + 1 /\ row.at <= time /\ row.entity = Http
  BY <1>1, RowType
<1>3. rows' = rows \cup {row} /\ UNCHANGED <<time, reading>>
  BY <1>1 DEF Audit
<1>4. RowsInv' /\ ReadersInv'
  BY <1>2, <1>3, TimeType, NewRow DEF LogInv
<1>5. Matching({Service})' = Matching({Service}) /\ Matching({Service}) \subseteq AuditLog
  BY <1>2, <1>3 DEF Matching, Service, Http, LogInv, RowsInv
<1>6. LogTypeInv'
  BY DEF LogInv, LogTypeInv, Steps, Recorded, Audit
<1>7. OrderInv'
  <2>1. /\ earlier' = earlier /\ step'[r] = "done"
        /\ \A q \in Writes : q # r => step'[q] = step[q] /\ at'[q] = at[q]
        /\ \A q \in Writes : step[q] \in Recorded => step'[q] \in Recorded
    BY DEF Audit, LogInv, LogTypeInv, Recorded
  <2> QED BY <1>5, <2>1, SameOrder DEF LogInv
<1> QED BY <1>4, <1>6, <1>7 DEF LogInv

LEMMA RecordAuditInv ==
  ASSUME LogInv, NEW r \in Writes, RecordAudit(r)
  PROVE  LogInv'
<1>1. PICK row : row = Row(r, Service, action[r])
  OBVIOUS
<1>2. /\ row \in AuditLog /\ row.id = Cardinality(rows) + 1 /\ row.by = r
      /\ row.at = at[r] /\ row.at <= time /\ row.entity = Service
  <2>1. action[r] \in Events
    BY DEF LogInv, LogTypeInv, RecordAudit
  <2> QED BY <1>1, <2>1, RowType
<1>3. rows' = rows \cup {row} /\ UNCHANGED <<time, reading, at, earlier>>
  BY <1>1 DEF RecordAudit
<1>4. RowsInv' /\ ReadersInv' /\ \A b \in rows : b.id < row.id
  BY <1>2, <1>3, TimeType, NewRow DEF LogInv
<1>5. /\ Matching({Service})' = Matching({Service}) \cup {row}
      /\ Matching({Service}) \subseteq rows /\ rows \subseteq AuditLog
  BY <1>2, <1>3 DEF Matching, LogInv, RowsInv
<1>6. LogTypeInv'
  BY DEF LogInv, LogTypeInv, Steps, Recorded, RecordAudit
<1>7. OrderInv'
  <2>1. /\ step[r] = "stamped" /\ step'[r] = "answered"
        /\ \A q \in Writes : q # r => step'[q] = step[q]
    BY DEF RecordAudit, LogInv, LogTypeInv
  <2>2. \A q \in Writes : step[q] \in Recorded => step'[q] \in Recorded
    BY <2>1 DEF Recorded
  <2>3. \A a \in Matching({Service})' : step'[a.by] \in Recorded
    <3>1. \A a \in Matching({Service}) : a.by \in Writes
      BY <1>5 DEF AuditLog
    <3> QED BY <1>2, <1>5, <2>1, <2>2, <3>1 DEF LogInv, OrderInv, Recorded
  <2>4. \A q \in Writes : \A w \in earlier'[q] : w # r /\ step'[w] \in Recorded
    <3> SUFFICES ASSUME NEW q \in Writes, NEW w \in earlier[q] PROVE w # r /\ step'[w] \in Recorded
      BY <1>3
    <3>1. w \in Writes /\ step[w] \in Recorded
      BY DEF LogInv, LogTypeInv, OrderInv
    <3> QED BY <2>1, <2>2, <3>1 DEF Recorded
  <2>5. \A q \in Writes : \A b \in Matching({Service})' :
          step'[q] = "stamped" /\ b.by \in earlier'[q] => b.at <= at'[q]
    BY <1>2, <1>3, <1>5, <2>1, <2>4 DEF LogInv, OrderInv
  <2>6. ASSUME NEW a \in Matching({Service})', NEW b \in Matching({Service})', b.by \in earlier'[a.by]
        PROVE  Newer(a, b)
    <3>1. a.by \in Writes
      BY <1>2, <1>5 DEF AuditLog
    <3>2. b \in Matching({Service}) /\ b.by \in earlier[a.by]
      BY <1>2, <1>3, <1>5, <2>4, <2>6, <3>1
    <3>3. CASE a = row
      <4>1. b.at <= row.at /\ b.id < row.id
        BY <1>2, <1>4, <1>5, <2>1, <3>2, <3>3 DEF LogInv, OrderInv
      <4>2. b.at \in Nat /\ row.at \in Nat /\ b.id \in Nat /\ row.id \in Nat
        BY <1>2, <1>5, <3>2 DEF AuditLog
      <4> QED BY <3>3, <4>1, <4>2 DEF Newer
    <3>4. CASE a \in Matching({Service})
      BY <3>2, <3>4 DEF LogInv, OrderInv
    <3> QED BY <1>5, <3>3, <3>4
  <2> QED BY <2>3, <2>4, <2>5, <2>6 DEF OrderInv
<1> QED BY <1>4, <1>6, <1>7 DEF LogInv

(* Who is not shown a row has had every page before it, all of them full.  *)
LEMMA ListInv ==
  ASSUME LogInv, NEW x \in Readers, List(x)
  PROVE  LogInv'
<1> DEFINE record == [filter : SUBSET {Service, Http}, page : Nat, had : SUBSET rows,
                      shown : SUBSET rows, done : BOOLEAN]
<1>1. UNCHANGED <<time, rows, created, step, scenario, action, at, earlier>>
  BY DEF List
<1>2. \A filter : Matching(filter)' = Matching(filter)
  BY <1>1 DEF Matching
<1>3. \A row, filter : Position(row, filter)' = Position(row, filter)
  BY <1>2 DEF Position
<1>4. LogTypeInv' /\ RowsInv' /\ OrderInv'
  BY <1>1, <1>2 DEF LogInv, LogTypeInv, RowsInv, OrderInv
<1>5. PICK old \in record : old = reading[x]
  BY DEF LogInv, ReadersInv
<1>6. PICK filter \in SUBSET {Service, Http} : filter = old.filter
  BY <1>5
<1>7. PICK page \in Nat \ {0} : page = old.page + 1
  BY <1>5
<1>8. PICK items \in SUBSET rows : items = Page(filter, page, PageSize)
  BY DEF Page, Matching
<1>9. PICK had \in SUBSET rows : had = IF page = 1 THEN Matching(filter) ELSE old.had
  BY <1>5 DEF Matching
<1>10. /\ reading' = [reading EXCEPT ![x].page = page, ![x].had = had,
                                     ![x].shown = old.shown \cup items, ![x].done = Cardinality(items) < PageSize]
       /\ ~ old.done
  <2>1. /\ reading' = [reading EXCEPT
             ![x].page = reading[x].page + 1,
             ![x].had = IF reading[x].page + 1 = 1 THEN Matching(reading[x].filter) ELSE @,
             ![x].shown = @ \cup Page(reading[x].filter, reading[x].page + 1, PageSize),
             ![x].done = Cardinality(Page(reading[x].filter, reading[x].page + 1, PageSize)) < PageSize]
        /\ ~ reading[x].done
    BY DEF List
  <2>2. /\ reading[x].filter = filter /\ reading[x].page + 1 = page
        /\ Page(reading[x].filter, reading[x].page + 1, PageSize) = items
    BY <1>5, <1>6, <1>7, <1>8
  <2>3. reading[x].had = old.had /\ reading[x].shown = old.shown /\ reading[x] = old
    BY <1>5
  <2> QED BY <1>9, <2>1, <2>2, <2>3
<1>11. /\ reading'[x] \in record
       /\ reading'[x].filter = filter /\ reading'[x].page = page /\ reading'[x].had = had
       /\ reading'[x].shown = old.shown \cup items
       /\ reading'[x].done <=> Cardinality(items) < PageSize
  <2>1. PICK shown \in SUBSET rows : shown = old.shown \cup items
    BY <1>5
  <2>2. PICK done : done = (Cardinality(items) < PageSize)
    OBVIOUS
  <2>3. done \in BOOLEAN /\ (done <=> Cardinality(items) < PageSize)
    <3>1. (Cardinality(items) < PageSize) \in BOOLEAN
      BY SMT
    <3> QED BY <2>2, <3>1
  <2>4. reading' = [reading EXCEPT ![x].page = page, ![x].had = had, ![x].shown = shown, ![x].done = done]
    BY <1>10, <2>1, <2>2
  <2>5. PICK new : new = [old EXCEPT !.page = page, !.had = had, !.shown = shown, !.done = done]
    OBVIOUS
  <2>6. reading'[x] = new
    BY <1>5, <2>4, <2>5 DEF LogInv, ReadersInv
  <2>7. new \in record
    BY <1>5, <2>3, <2>5
  <2>8. new.filter = filter /\ new.page = page /\ new.had = had /\ new.shown = shown /\ new.done = done
    BY <1>5, <1>6, <2>5
  <2> QED BY <2>1, <2>3, <2>6, <2>7, <2>8
<1>12. reading' \in [Readers -> record] /\ \A y \in Readers : y # x => reading'[y] = reading[y]
  BY <1>10, <1>11 DEF LogInv, ReadersInv
<1>13. had \subseteq Matching(filter)
  BY <1>5, <1>6, <1>9 DEF LogInv, ReadersInv
<1>14. \E read \in Nat : /\ (page - 1) * PageSize = read /\ page * PageSize = read + PageSize
                         /\ page = 1 => read = 0
  BY AuditAssumption
<1>15. ASSUME NEW row \in had \ (old.shown \cup items)
       PROVE  Position(row, filter) > page * PageSize /\ Cardinality(items) = PageSize
  <2>1. /\ row \in Matching(filter)
        /\ Position(row, filter) \in 1..Cardinality(Matching(filter)) /\ Cardinality(Matching(filter)) \in Nat
    BY <1>13, PositionOfNewer DEF LogInv
  <2>2. Position(row, filter) > (page - 1) * PageSize
    <3>1. CASE page = 1
      BY <1>14, <2>1, <3>1
    <3>2. CASE page # 1
      <4>1. row \in reading[x].had \ reading[x].shown
        BY <1>5, <1>9, <3>2
      <4>2. Position(row, reading[x].filter) > reading[x].page * PageSize
        BY <4>1 DEF LogInv, ReadersInv
      <4>3. reading[x].page = page - 1 /\ reading[x].filter = filter
        BY <1>5, <1>6, <1>7
      <4> QED BY <4>2, <4>3
    <3> QED BY <3>1, <3>2
  <2>3. ~ (Position(row, filter) \in (page - 1) * PageSize + 1..page * PageSize)
    BY <1>8, <2>1 DEF Page
  <2>4. Position(row, filter) > page * PageSize
    BY <1>14, <2>1, <2>2, <2>3, AuditAssumption
  <2>5. page * PageSize <= Cardinality(Matching(filter))
    BY <1>14, <2>1, <2>4, AuditAssumption
  <2>6. Cardinality(items) = PageSize
    BY <1>8, <2>5, PageFull, AuditAssumption DEF LogInv
  <2> QED BY <2>4, <2>6
<1>16. ASSUME NEW y \in Readers
       PROVE  /\ reading'[y].had \subseteq Matching(reading'[y].filter)
              /\ \A row \in reading'[y].had \ reading'[y].shown :
                   /\ ~ reading'[y].done
                   /\ Position(row, reading'[y].filter) > reading'[y].page * PageSize
  <2>1. CASE y = x
    <3>1. \A row \in had \ (old.shown \cup items) :
            ~ (Cardinality(items) < PageSize) /\ Position(row, filter) > page * PageSize
      BY <1>15, AuditAssumption
    <3> QED BY <1>11, <1>13, <2>1, <3>1
  <2>2. CASE y # x
    BY <1>12, <2>2 DEF LogInv, ReadersInv
  <2> QED BY <2>1, <2>2
<1>17. ReadersInv'
  BY <1>1, <1>2, <1>3, <1>12, <1>16 DEF ReadersInv
<1> QED BY <1>4, <1>17 DEF LogInv

LEMMA LogInvariance == AuditSpec => []LogInv
<1>1. LogInv /\ [AuditNext]_auditVars => LogInv'
  <2> SUFFICES ASSUME LogInv, [AuditNext]_auditVars PROVE LogInv'
    OBVIOUS
  <2>1. CASE AuditTick
    BY <2>1, AuditTickInv
  <2>2. ASSUME NEW x \in Readers, List(x) PROVE LogInv'
    BY <2>2, ListInv
  <2>3. ASSUME NEW r \in Writes,
               \/ Change(r) \/ RecordAudit(r) \/ Lose(r) \/ Audit(r)
               \/ Stamp(r, "changed", "stamped") \/ Stamp(r, "answered", "answered stamped")
        PROVE  LogInv'
    BY <2>3, ChangeInv, RecordAuditInv, LoseInv, AuditRowInv, StampInv
  <2>4. CASE UNCHANGED auditVars
    <3>1. UNCHANGED <<time, rows, created, step, scenario, action, at, earlier, reading>>
      BY <2>4 DEF auditVars
    <3>2. /\ RowsInv' /\ ReadersInv' /\ Matching({Service})' = Matching({Service})
      BY <3>1, TimeType, SameRows DEF LogInv
    <3> QED BY <3>1, <3>2 DEF LogInv, LogTypeInv, OrderInv
  <2> QED BY <2>1, <2>2, <2>3, <2>4 DEF AuditNext
<1> QED BY LogInitInv, <1>1, PTL DEF AuditSpec

(* AuditInv: for any number of writes, rows, readers and scenarios, and     *)
(* however late the rows arrive, the timeline shows no change before one   *)
(* that was recorded when it began, and what it leaves out is older.        *)
THEOREM AuditInvCorrect == AuditSpec => []AuditInv
BY LogInvariance, InLog, PTL

(* PagesMissNothing: who pages to the end of the list has been shown every *)
(* row that was there when they began, for any page size and filter.       *)
THEOREM PagesMissNothingCorrect == AuditSpec => []PagesMissNothing
BY LogInvariance, InLog, PTL
=============================================================================
