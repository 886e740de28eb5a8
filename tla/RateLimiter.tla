---------------------------- MODULE RateLimiter -----------------------------
(***************************************************************************)
(* The rate limiter of the login and of the runs and replays: a window of  *)
(* requests for each key, all under one lock, and a sweep when there are   *)
(* too many.  A request reads the clock before it takes the lock, so that   *)
(* requests may count in another order than that of their times.           *)
(*                                                                         *)
(* Time is in units of any length.  MaxStall bounds how long a request can *)
(* wait between the clock and the lock.                                     *)
(*                                                                         *)
(* An operator with _Mutant in its name is not part of the model: it is the *)
(* operator after it with a plausible bug, for mutation checks.            *)
(***************************************************************************)
EXTENDS Integers, FiniteSets

CONSTANTS Requests, Keys,
          Limit,        \* admissions in a window
          Window,       \* length of a window: a minute
          MaxWindows,   \* windows kept before a sweep
          MaxStall,
          MaxTime       \* bound: the clock stops there

ASSUME LimiterAssumption ==
  /\ Limit \in Nat /\ Window \in Nat \ {0} /\ MaxWindows \in Nat
  /\ MaxStall \in 0..Window /\ MaxTime \in Nat

VARIABLES clock,
          windows,   \* [start, count] of each key; a start of 0 is no window
          opened,    \* start of the last window of each key, kept or swept
          pc, key, now,
          counted    \* when each request was counted

vars == <<clock, windows, opened, pc, key, now, counted>>

NoWindow == [start |-> 0, count |-> 0]

Init ==
  /\ clock = 1
  /\ windows = [k \in Keys |-> NoWindow]
  /\ opened = [k \in Keys |-> 0]
  /\ pc = [r \in Requests |-> "idle"]
  /\ key \in [Requests -> Keys]
  /\ now = [r \in Requests |-> 0]
  /\ counted = [r \in Requests |-> 0]

-----------------------------------------------------------------------------
ReadClock(r) ==
  /\ pc[r] = "idle"
  /\ now' = [now EXCEPT ![r] = clock]
  /\ pc' = [pc EXCEPT ![r] = "lock"]
  /\ UNCHANGED <<clock, windows, opened, key, counted>>

Counted_MutantLate(window, t) ==   \* a request from before the window opens another
  IF window.start = 0 \/ t < window.start \/ t - window.start >= Window
  THEN [start |-> t, count |-> 1]
  ELSE [window EXCEPT !.count = @ + 1]

Counted_MutantSlide(window, t) ==   \* the window slides
  IF window.start = 0 \/ t - window.start >= Window
  THEN [start |-> t, count |-> 1]
  ELSE [start |-> t, count |-> window.count + 1]

Counted(window, t) ==
  IF window.start = 0 \/ t - window.start >= Window
  THEN [start |-> t, count |-> 1]
  ELSE [window EXCEPT !.count = @ + 1]

Swept_Mutant(kept, t) ==   \* every window that is over, and then some
  IF Cardinality({k \in Keys : kept[k].start # 0}) > MaxWindows
  THEN [k \in Keys |-> IF t - kept[k].start >= Window - 1 THEN NoWindow ELSE kept[k]]
  ELSE kept

Swept_MutantReset(kept, t) ==   \* reset, not deleted
  IF Cardinality({k \in Keys : kept[k].start # 0}) > MaxWindows
  THEN [k \in Keys |-> IF t - kept[k].start > 2 * Window THEN [start |-> t, count |-> 0] ELSE kept[k]]
  ELSE kept

Swept(kept, t) ==
  IF Cardinality({k \in Keys : kept[k].start # 0}) > MaxWindows
  THEN [k \in Keys |-> IF t - kept[k].start > 2 * Window THEN NoWindow ELSE kept[k]]
  ELSE kept

(* With the lock held. *)
Count(r) ==
  LET k == key[r]
      window == Counted(windows[k], now[r]) IN
  /\ pc[r] = "lock"
  /\ windows' = Swept([windows EXCEPT ![k] = window], now[r])
  /\ opened' = [opened EXCEPT ![k] = window.start]
  /\ pc' = [pc EXCEPT ![r] = IF window.count <= Limit THEN "allowed" ELSE "limited"]
  /\ counted' = [counted EXCEPT ![r] = clock]
  /\ UNCHANGED <<clock, key, now>>

Tick ==
  /\ clock < MaxTime
  /\ \A r \in Requests : pc[r] = "lock" => clock - now[r] < MaxStall
  /\ clock' = clock + 1
  /\ UNCHANGED <<windows, opened, pc, key, now, counted>>

Next == Tick \/ \E r \in Requests : ReadClock(r) \/ Count(r)

Spec == Init /\ [][Next]_vars

-----------------------------------------------------------------------------
(* A window that is swept is over for every request that may still count:  *)
(* sweeping, which runs at another key's request, lets nobody in early.    *)
SweptIsOver ==
  \A k \in Keys : windows[k] = NoWindow /\ opened[k] # 0 =>
    /\ clock >= opened[k] + Window
    /\ \A r \in Requests : pc[r] = "lock" => now[r] >= opened[k] + Window

TypeOK ==
  /\ clock \in Nat \ {0}
  /\ windows \in [Keys -> [start : Nat, count : Nat]]
  /\ opened \in [Keys -> Nat]
  /\ pc \in [Requests -> {"idle", "lock", "allowed", "limited"}]
  /\ key \in [Requests -> Keys]
  /\ now \in [Requests -> Nat]
  /\ counted \in [Requests -> Nat]
  /\ \A k \in Keys : windows[k] = NoWindow \/ (windows[k].start = opened[k] /\ opened[k] # 0)
  /\ \A r \in Requests : pc[r] # "idle" => now[r] \in 1..clock
  /\ \A r \in Requests : pc[r] = "lock" => clock - now[r] <= MaxStall

(* The windows of a key do not overlap, in whatever order requests take    *)
(* the lock and whatever is swept: each starts a window's length or more   *)
(* after the one before.                                                   *)
WindowsApart ==
  [][\A k \in Keys : opened'[k] # opened[k] =>
       opened[k] = 0 \/ opened'[k] >= opened[k] + Window]_vars

(* Requests of a key that are admitted within a window's length less the   *)
(* longest stall fall in two windows: there are no more than twice the     *)
(* limit of them.                                                          *)
BurstBound ==
  \A k \in Keys : \A t \in 1..clock :
    Cardinality({r \in Requests : key[r] = k /\ pc[r] = "allowed" /\
                   counted[r] \in t..(t + Window - MaxStall - 1)}) <= 2 * Limit

(* A request is limited only if the limit of its key was admitted no more  *)
(* than a window and the longest stall before it: no other key and no      *)
(* sweep uses up a key's admissions.                                       *)
LimitedWhenFull ==
  \A r \in Requests : pc[r] = "limited" =>
    Cardinality({q \in Requests : key[q] = key[r] /\ pc[q] = "allowed" /\
                   now[q] > now[r] - Window - MaxStall}) >= Limit
=============================================================================
