---------------------------- MODULE MCMiddleware ----------------------------
(* Instances of RateLimiter and AuditLog for TLC.  They share no variable,  *)
(* so a behaviour of both is one of each: one of them moves, and the other *)
(* stays where it starts.                                                  *)
EXTENDS RateLimiter, AuditLog, TLC

VARIABLE moving

(* A reader reads all of the log while two writes arrive, or nobody reads. *)
MCInit ==
  /\ Init /\ AuditInit
  /\ moving \in {"limiter", "timeline", "pages"}
  /\ moving # "pages" => \A x \in Readers : reading[x].filter = {Service}
  /\ \/ moving = "limiter" /\ \E s \in Scenarios : scenario = [w \in Writes |-> s]
     \/ moving \in {"timeline", "pages"} /\ \E k \in Keys : key = [r \in Requests |-> k]

Arriving(n) == Cardinality({w \in Writes : step'[w] # "idle"}) <= n

MCNext ==
  /\ UNCHANGED moving
  /\ \/ moving = "limiter" /\ Next /\ UNCHANGED auditVars
     \/ moving = "timeline" /\ AuditNext /\ UNCHANGED <<reading, vars>>
     \/ moving = "pages" /\ AuditNext /\ Arriving(2) /\ UNCHANGED vars

MCSpec == MCInit /\ [][MCNext]_<<vars, auditVars, moving>>

Symmetric == Permutations(Writes) \cup Permutations(Keys)
=============================================================================
