------------------------------- MODULE Server -------------------------------
(***************************************************************************)
(* The life of the server process: it opens the database, seeds it in one  *)
(* transaction, serves, and on a signal drains its requests and closes the *)
(* database.  It may crash at any point and is started again (restart:     *)
(* unless-stopped); several may share a database.                          *)
(*                                                                         *)
(* One action is one statement of the seeding transaction, or one event of *)
(* the process.  A transaction sees what is committed and what it wrote    *)
(* itself; an insert whose unique key another transaction has written      *)
(* waits for that one to end.  Closing the connection rolls back.          *)
(*                                                                         *)
(* An operator with _Mutant in its name is not part of the model: it is the *)
(* operator after it with a plausible bug, for mutation checks.            *)
(***************************************************************************)
EXTENDS Naturals, Sequences

CONSTANTS Servers,
          accounts,     \* the accounts seeded, in their order
          Requests,
          NoServer,
          MaxCrashes    \* bound

Accounts == {accounts[i] : i \in DOMAIN accounts}

ASSUME ServerAssumption == NoServer \notin Servers /\ MaxCrashes \in Nat
ASSUME AccountsAssumption == accounts \in Seq(Accounts) /\ accounts # <<>>
Domain == {"nodes", "scenarios", "safeguards"}

VARIABLES users, domain,   \* the seed rows that are committed
          seedings,        \* how often seed nodes were committed
          tx,              \* what each server's transaction has written, and its next account
          stage,           \* what each server does next
          request,         \* [server, status] of each request
          crashes

serverVars == <<users, domain, seedings, tx, stage, request, crashes>>

Seeding == {"user", "insert", "count", "nodes", "scenarios", "safeguards", "commit"}
Phases == Seeding \cup {"down", "serving", "draining", "stopped"}
NoTransaction == [users |-> {}, domain |-> {}, turn |-> 1]

ServersAt(first) ==
  /\ users = {} /\ domain = {} /\ seedings = 0
  /\ tx = [s \in Servers |-> NoTransaction]
  /\ stage = [s \in Servers |-> first]
  /\ request = [q \in Requests |-> [server |-> NoServer, status |-> "idle"]]
  /\ crashes = 0

ServerInit == ServersAt("down")

-----------------------------------------------------------------------------
Go(s, next) == stage' = [stage EXCEPT ![s] = next]

RunningOn(s) == {q \in Requests : request[q] = [server |-> s, status |-> "running"]}

(* The process ends: what it has not committed or answered is lost.        *)
End(s, next) ==
  /\ Go(s, next)
  /\ tx' = [tx EXCEPT ![s] = NoTransaction]
  /\ request' = [q \in Requests |-> IF q \in RunningOn(s) THEN [request[q] EXCEPT !.status = "cut"]
                                    ELSE request[q]]

(* Open connects and migrates, which changes nothing on tables that exist. *)
Start(s) ==
  /\ stage[s] = "down"
  /\ Go(s, "user")
  /\ UNCHANGED <<users, domain, seedings, tx, request, crashes>>

(* seed: find each account, or create it.                                  *)
FindUser(s) ==
  /\ stage[s] = "user"
  /\ IF tx[s].turn > Len(accounts)
     THEN Go(s, "count") /\ UNCHANGED tx
     ELSE IF accounts[tx[s].turn] \in users
          THEN tx' = [tx EXCEPT ![s].turn = @ + 1] /\ UNCHANGED stage
          ELSE Go(s, "insert") /\ UNCHANGED tx
  /\ UNCHANGED <<users, domain, seedings, request, crashes>>

CreateUser_Mutant(s) ==   \* usernames are not unique
  /\ stage[s] = "insert"
  /\ tx' = [tx EXCEPT ![s].users = @ \cup {accounts[tx[s].turn]}, ![s].turn = @ + 1]
  /\ Go(s, "user")
  /\ UNCHANGED <<users, domain, seedings, request, crashes>>

CreateUser(s) ==
  LET account == accounts[tx[s].turn] IN
  /\ stage[s] = "insert"
  /\ \A o \in Servers \ {s} : account \notin tx[o].users
  /\ IF account \in users
     THEN End(s, "down")   \* unique username
     ELSE /\ tx' = [tx EXCEPT ![s].users = @ \cup {account}, ![s].turn = @ + 1]
          /\ Go(s, "user")
          /\ UNCHANGED request
  /\ UNCHANGED <<users, domain, seedings, crashes>>

(* seedDomain: nothing if there are nodes, else the three tables.          *)
CountNodes_Mutant(s) ==   \* seed at every start
  /\ stage[s] = "count"
  /\ Go(s, "nodes")
  /\ UNCHANGED <<users, domain, seedings, tx, request, crashes>>

CountNodes(s) ==
  /\ stage[s] = "count"
  /\ Go(s, IF "nodes" \in domain THEN "commit" ELSE "nodes")
  /\ UNCHANGED <<users, domain, seedings, tx, request, crashes>>

CreateNodes(s) ==
  /\ stage[s] = "nodes"
  /\ \A o \in Servers \ {s} : "nodes" \notin tx[o].domain
  /\ IF "nodes" \in domain
     THEN End(s, "down")   \* unique node_code
     ELSE /\ tx' = [tx EXCEPT ![s].domain = @ \cup {"nodes"}]
          /\ Go(s, "scenarios")
          /\ UNCHANGED request
  /\ UNCHANGED <<users, domain, seedings, crashes>>

CreateRest(s, table, next) ==
  /\ stage[s] = table
  /\ tx' = [tx EXCEPT ![s].domain = @ \cup {table}]
  /\ Go(s, next)
  /\ UNCHANGED <<users, domain, seedings, request, crashes>>

Commit_Mutant(s) ==   \* the domain is seeded by a transaction of its own, not awaited
  /\ stage[s] = "commit"
  /\ users' = users \cup tx[s].users
  /\ tx' = [tx EXCEPT ![s].users = {}]
  /\ Go(s, "serving")
  /\ UNCHANGED <<domain, seedings, request, crashes>>

Commit(s) ==
  /\ stage[s] = "commit"
  /\ users' = users \cup tx[s].users
  /\ domain' = domain \cup tx[s].domain
  /\ seedings' = seedings + (IF tx[s].domain = {} THEN 0 ELSE 1)
  /\ tx' = [tx EXCEPT ![s] = NoTransaction]
  /\ Go(s, "serving")
  /\ UNCHANGED <<request, crashes>>

Accept(q, s) ==
  /\ stage[s] = "serving" /\ request[q].status = "idle"
  /\ request' = [request EXCEPT ![q] = [server |-> s, status |-> "running"]]
  /\ UNCHANGED <<users, domain, seedings, tx, stage, crashes>>

Answer(q) ==
  /\ request[q].status = "running"
  /\ request' = [request EXCEPT ![q].status = "answered"]
  /\ UNCHANGED <<users, domain, seedings, tx, stage, crashes>>

(* A signal: Shutdown accepts no more requests and waits for those that    *)
(* run, for a time; then the database is closed and the process ends.      *)
Signal(s) ==
  /\ stage[s] = "serving"
  /\ Go(s, "draining")
  /\ UNCHANGED <<users, domain, seedings, tx, request, crashes>>

(* Before run asks for signals, one ends the process at once.              *)
Killed(s) ==
  /\ stage[s] \in Seeding
  /\ End(s, "stopped")
  /\ UNCHANGED <<users, domain, seedings, crashes>>

Drained_Mutant(s) ==   \* Close instead of Shutdown
  /\ stage[s] = "draining"
  /\ Go(s, "stopped")
  /\ UNCHANGED <<users, domain, seedings, tx, request, crashes>>

Drained(s) ==
  /\ stage[s] = "draining" /\ RunningOn(s) = {}
  /\ Go(s, "stopped")
  /\ UNCHANGED <<users, domain, seedings, tx, request, crashes>>

TimedOut(s) ==
  /\ stage[s] = "draining" /\ RunningOn(s) # {}
  /\ End(s, "stopped")
  /\ UNCHANGED <<users, domain, seedings, crashes>>

Crash(s) ==
  /\ stage[s] \notin {"down", "stopped"} /\ crashes < MaxCrashes
  /\ End(s, "down")
  /\ crashes' = crashes + 1
  /\ UNCHANGED <<users, domain, seedings>>

-----------------------------------------------------------------------------
Opening(s) ==
  \/ Start(s) \/ FindUser(s) \/ CreateUser(s) \/ CountNodes(s) \/ CreateNodes(s)
  \/ CreateRest(s, "scenarios", "safeguards") \/ CreateRest(s, "safeguards", "commit")
  \/ Commit(s)

ServerNext ==
  \/ \E s \in Servers : Opening(s) \/ Signal(s) \/ Killed(s) \/ Drained(s) \/ TimedOut(s) \/ Crash(s)
  \/ \E q \in Requests : Answer(q) \/ \E s \in Servers : Accept(q, s)

ServerSpec == ServerInit /\ [][ServerNext]_serverVars

(* A process that is not stopped on purpose runs, is started again when it *)
(* fails, and a shutdown ends.                                             *)
ServerFairness ==
  \A s \in Servers : WF_serverVars(Opening(s)) /\ WF_serverVars(Drained(s) \/ TimedOut(s))

-----------------------------------------------------------------------------
ServerTypeOK ==
  /\ users \subseteq Accounts /\ domain \subseteq Domain
  /\ seedings \in Nat
  /\ tx \in [Servers -> [users : SUBSET Accounts, domain : SUBSET Domain, turn : 1..Len(accounts) + 1]]
  /\ stage \in [Servers -> Phases]
  /\ \A s \in Servers : stage[s] \notin Seeding => tx[s] = NoTransaction
  /\ request \in [Requests -> [server : Servers \cup {NoServer},
                               status : {"idle", "running", "answered", "cut"}]]
  /\ crashes \in 0..MaxCrashes

(* The seed data are there as a whole or not at all, and once: whatever    *)
(* crashes between two statements, however often servers start and race.   *)
SeededAtOnce ==
  /\ users \in {{}, Accounts}
  /\ domain \in {{}, Domain}
  /\ (domain = {}) = (users = {})
  /\ seedings = (IF domain = {} THEN 0 ELSE 1)

(* Two transactions that seed do not overlap beyond the first account.     *)
OneSeeds ==
  \A s, o \in Servers :
    tx[s].users # {} /\ tx[o].users # {} => s = o

(* A request runs on a live server, over the complete seed data.           *)
ServedOverSeed ==
  \A q \in Requests : request[q].status = "running" =>
    /\ request[q].server \in Servers /\ stage[request[q].server] \in {"serving", "draining"}
    /\ users = Accounts /\ domain = Domain

Before(i) == {accounts[k] : k \in 1..i - 1}

WrittenAt(step) ==
  CASE step = "scenarios" -> {"nodes"} [] step = "safeguards" -> {"nodes", "scenarios"}
    [] step = "commit" -> Domain [] OTHER -> {}

(* A transaction either seeds, over an empty database, and has written all *)
(* that comes before its next statement; or it has written nothing, and    *)
(* past the first account that is because the seed data are there.         *)
TransactionsSeed ==
  \A s \in Servers :
    /\ stage[s] \in Seeding =>
         \/ /\ tx[s].users = {} /\ tx[s].domain = {}
            /\ tx[s].turn = 1 \/ users = Accounts
            /\ stage[s] \notin Domain
         \/ /\ tx[s].users = Before(tx[s].turn) /\ tx[s].domain = WrittenAt(stage[s])
            /\ tx[s].turn # 1 /\ users = {}
    /\ stage[s] = "insert" => tx[s].turn <= Len(accounts)
    /\ stage[s] \in Seeding \ {"user", "insert"} => tx[s].turn = Len(accounts) + 1
    /\ stage[s] \in {"serving", "draining"} => users = Accounts

(* The invariant of the servers on one database: types, seed data that are *)
(* there as a whole and once, one transaction that seeds at a time, and    *)
(* requests that run only over all of the seed data.                       *)
ServerInv == ServerTypeOK /\ SeededAtOnce /\ OneSeeds /\ ServedOverSeed /\ TransactionsSeed

(* A server that was started or failed serves in the end, unless it was    *)
(* told to stop; and one that was told to stop does.                       *)
ServesAgain ==
  \A s \in Servers :
    /\ stage[s] = "down" ~> stage[s] \in {"serving", "stopped"}
    /\ stage[s] = "draining" ~> stage[s] # "draining"
=============================================================================
