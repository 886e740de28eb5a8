--------------------------- MODULE ProcessProofs ----------------------------
(***************************************************************************)
(* Proofs about the two processes around the request handlers: the server  *)
(* that seeds its database and serves, and the page that watches an        *)
(* evaluation.                                                             *)
(***************************************************************************)
EXTENDS CoverageWatch, Server, TLAPS

(* The accounts before the next one, at both ends and from one to the next. *)
LEMMA AccountsInOrder ==
  /\ Len(accounts) \in Nat \ {0} /\ DOMAIN accounts = 1..Len(accounts)
  /\ Before(1) = {} /\ Before(Len(accounts) + 1) = Accounts
  /\ \A i \in 1..Len(accounts) :
       accounts[i] \in Accounts /\ Before(i + 1) = Before(i) \cup {accounts[i]}
  /\ \A i \in 1..Len(accounts) + 1 : Before(i) \subseteq Accounts /\ (i # 1 => accounts[1] \in Before(i))
<1>1. Len(accounts) \in Nat \ {0} /\ DOMAIN accounts = 1..Len(accounts)
  BY AccountsAssumption
<1>2. ASSUME NEW i \in 1..Len(accounts) PROVE Before(i + 1) = Before(i) \cup {accounts[i]}
  <2>1. 1..(i + 1) - 1 = (1..i - 1) \cup {i}
    BY <1>1
  <2> QED
    BY <2>1 DEF Before
<1>3. Before(1) = {} /\ Before(Len(accounts) + 1) = Accounts
  <2>1. 1..1 - 1 = {} /\ 1..(Len(accounts) + 1) - 1 = 1..Len(accounts)
    BY <1>1
  <2> QED
    BY <1>1, <2>1 DEF Before, Accounts
<1>4. ASSUME NEW i \in 1..Len(accounts) + 1
      PROVE  Before(i) \subseteq Accounts /\ (i # 1 => accounts[1] \in Before(i))
  BY <1>1 DEF Before, Accounts
<1>5. \A i \in 1..Len(accounts) : accounts[i] \in Accounts
  BY <1>1 DEF Accounts
<1> QED
  BY <1>1, <1>2, <1>3, <1>4, <1>5

LEMMA ServerInitInv == ServerInit => ServerInv
<1> SUFFICES ASSUME ServerInit PROVE ServerInv
  OBVIOUS
<1>1. NoTransaction \in [users : SUBSET Accounts, domain : SUBSET Domain, turn : 1..Len(accounts) + 1]
  BY AccountsInOrder DEF NoTransaction
<1>2. ServerTypeOK
  BY <1>1, ServerAssumption DEF ServerInit, ServersAt, ServerTypeOK, Phases, Seeding
<1>3. SeededAtOnce
  BY DEF ServerInit, ServersAt, SeededAtOnce
<1>4. OneSeeds /\ ServedOverSeed
  BY DEF ServerInit, ServersAt, OneSeeds, ServedOverSeed, NoTransaction
<1>5. TransactionsSeed
  BY DEF ServerInit, ServersAt, TransactionsSeed, Seeding
<1> QED
  BY <1>2, <1>3, <1>4, <1>5 DEF ServerInv

(* What one transaction may hold at a stage: TransactionsSeed, for one.     *)
Seeds(t, step) ==
  /\ \/ t.users = {} /\ t.domain = {} /\ (t.turn = 1 \/ users = Accounts) /\ step \notin Domain
     \/ t.users = Before(t.turn) /\ t.domain = WrittenAt(step) /\ t.turn # 1 /\ users = {}
  /\ step = "insert" => t.turn <= Len(accounts)
  /\ step \in Seeding \ {"user", "insert"} => t.turn = Len(accounts) + 1

LEMMA TransactionSeeds ==
  ASSUME ServerInv, NEW s \in Servers, stage[s] \in Seeding
  PROVE  Seeds(tx[s], stage[s])
BY DEF ServerInv, TransactionsSeed, Seeds, Seeding

Transactions == [users : SUBSET Accounts, domain : SUBSET Domain, turn : 1..Len(accounts) + 1]

(* A statement of a transaction changes what that transaction has written  *)
(* and where its server is, and nothing that others see.                   *)
LEMMA StatementInv ==
  ASSUME ServerInv, NEW s \in Servers, NEW t \in Transactions, NEW step \in Seeding,
         stage[s] \in Seeding \cup {"down"},
         tx' = [tx EXCEPT ![s] = t], Go(s, step),
         UNCHANGED <<users, domain, seedings, request, crashes>>,
         Seeds(t, step),
         t.users # {} => \A o \in Servers \ {s} : tx[o].users = {}
  PROVE  ServerInv'
<1> USE DEF ServerInv, Go
<1>1. ServerTypeOK'
  BY DEF ServerTypeOK, Transactions, Phases
<1>2. SeededAtOnce'
  BY DEF SeededAtOnce
<1>3. OneSeeds'
  BY DEF OneSeeds, ServerTypeOK
<1>4. ServedOverSeed'
  BY DEF ServedOverSeed, ServerTypeOK, Seeding
<1>5. TransactionsSeed'
  <2>1. tx'[s] = t /\ stage'[s] = step /\ \A o \in Servers \ {s} : tx'[o] = tx[o] /\ stage'[o] = stage[o]
    BY DEF ServerTypeOK
  <2> QED
    BY <2>1 DEF TransactionsSeed, Seeds, Seeding, Before, WrittenAt
<1> QED
  BY <1>1, <1>2, <1>3, <1>4, <1>5

(* A process that ends loses its transaction, and cuts its requests.       *)
LEMMA EndInv ==
  ASSUME ServerInv, NEW s \in Servers, NEW next \in {"down", "stopped"}, End(s, next),
         UNCHANGED <<users, domain, seedings>>, crashes' \in 0..MaxCrashes
  PROVE  ServerInv'
<1> USE DEF ServerInv, End, Go
<1>0. NoTransaction \in Transactions
  BY AccountsInOrder DEF NoTransaction, Transactions
<1>1. ServerTypeOK'
  <2>1. request' \in [Requests -> [server : Servers \cup {NoServer},
                                   status : {"idle", "running", "answered", "cut"}]]
    BY DEF ServerTypeOK, RunningOn
  <2> QED
    BY <1>0, <2>1 DEF ServerTypeOK, Transactions, Phases, Seeding
<1>2. SeededAtOnce' /\ OneSeeds'
  BY DEF SeededAtOnce, OneSeeds, ServerTypeOK, NoTransaction
<1>3. ServedOverSeed'
  <2>1. ASSUME NEW q \in Requests, request'[q].status = "running"
        PROVE  request'[q] = request[q] /\ request[q].server # s
    BY <2>1 DEF ServerTypeOK, RunningOn
  <2> QED
    BY <2>1 DEF ServedOverSeed, ServerTypeOK
<1>4. TransactionsSeed'
  BY DEF TransactionsSeed, ServerTypeOK, Seeding, Before
<1> QED
  BY <1>1, <1>2, <1>3, <1>4

LEMMA FindUserInv ==
  ASSUME ServerInv, NEW s \in Servers, FindUser(s)
  PROVE  ServerInv'
<1> DEFINE t == tx[s]
<1>0. t \in Transactions /\ stage[s] = "user" /\ Seeds(t, "user")
  BY TransactionSeeds DEF ServerInv, ServerTypeOK, Transactions, FindUser, Seeding
<1>1. t.users # {} => \A o \in Servers \ {s} : tx[o].users = {}
  BY DEF ServerInv, OneSeeds
<1>2. tx = [tx EXCEPT ![s] = t] /\ stage = [stage EXCEPT ![s] = stage[s]]
  BY DEF ServerInv, ServerTypeOK
<1>3. CASE t.turn > Len(accounts)
  <2>1. t.turn = Len(accounts) + 1
    BY <1>0, <1>3, AccountsInOrder DEF Transactions
  <2>2. Seeds(t, "count")
    BY <1>0, <2>1 DEF Seeds, Seeding, WrittenAt, Domain
  <2> QED
    BY <1>0, <1>1, <1>2, <1>3, <2>2, StatementInv DEF FindUser, Seeding
<1>4. CASE t.turn <= Len(accounts) /\ accounts[t.turn] \in users
  <2> DEFINE new == [t EXCEPT !.turn = @ + 1]
  <2>1. users = Accounts
    BY <1>4 DEF ServerInv, SeededAtOnce
  <2>2. t.users = {} /\ t.domain = {}
    BY <1>0, <1>4 DEF Seeds
  <2>3. new \in Transactions /\ new.users = {} /\ new.domain = {} /\ new.turn # 1
    BY <1>0, <1>4, <2>2, AccountsInOrder DEF Transactions
  <2>4. Seeds(new, "user")
    BY <2>1, <2>3 DEF Seeds, Seeding, Domain
  <2>5. ~(t.turn > Len(accounts))
    BY <1>0, <1>4, AccountsInOrder DEF Transactions
  <2>6. tx' = [tx EXCEPT ![s] = new] /\ Go(s, "user")
    BY <1>0, <1>2, <1>4, <2>5 DEF FindUser, Go
  <2> QED
    BY <1>0, <2>3, <2>4, <2>6, StatementInv DEF FindUser, Seeding
<1>5. CASE t.turn <= Len(accounts) /\ accounts[t.turn] \notin users
  <2>1. Seeds(t, "insert")
    BY <1>0, <1>5 DEF Seeds, Seeding, WrittenAt, Domain
  <2>2. ~(t.turn > Len(accounts))
    BY <1>0, <1>5, AccountsInOrder DEF Transactions
  <2> QED
    BY <1>0, <1>1, <1>2, <1>5, <2>1, <2>2, StatementInv DEF FindUser, Seeding
<1> QED
  BY <1>0, <1>3, <1>4, <1>5, AccountsInOrder DEF Transactions

LEMMA CreateUserInv ==
  ASSUME ServerInv, NEW s \in Servers, CreateUser(s)
  PROVE  ServerInv'
<1> DEFINE t == tx[s]
           account == accounts[t.turn]
           new == [t EXCEPT !.users = @ \cup {account}, !.turn = @ + 1]
<1>0. t \in Transactions /\ stage[s] = "insert" /\ Seeds(t, "insert") /\ t.turn <= Len(accounts)
  BY TransactionSeeds DEF ServerInv, ServerTypeOK, Transactions, CreateUser, Seeding, Seeds
<1>1. t.turn \in 1..Len(accounts) /\ account \in Accounts
  BY <1>0, AccountsInOrder DEF Transactions
<1>2. CASE account \in users
  BY <1>2, EndInv DEF CreateUser, ServerInv, ServerTypeOK
<1>3. CASE account \notin users
  <2>1. users = {} /\ t.users = Before(t.turn) /\ t.domain = {}
    BY <1>0, <1>1, <1>3, AccountsInOrder DEF ServerInv, SeededAtOnce, Seeds, WrittenAt, Domain
  <2>2. new.users = Before(t.turn + 1) /\ new.domain = {} /\ new.turn = t.turn + 1
    BY <1>0, <1>1, <2>1, AccountsInOrder DEF Transactions
  <2>3. new \in Transactions /\ new.turn # 1
    <3>1. t.turn + 1 \in 1..Len(accounts) + 1 /\ t.turn + 1 # 1
      BY <1>1, AccountsInOrder
    <3>2. Before(t.turn + 1) \subseteq Accounts
      BY <3>1, AccountsInOrder
    <3> QED
      BY <1>0, <2>2, <3>1, <3>2 DEF Transactions
  <2>4. Seeds(new, "user")
    BY <2>1, <2>2, <2>3 DEF Seeds, Seeding, WrittenAt
  <2>5. ASSUME NEW o \in Servers \ {s} PROVE tx[o].users = {}
    <3>1. CASE t.users # {}
      BY <3>1 DEF ServerInv, OneSeeds
    <3>2. CASE t.users = {}
      <4>1. t.turn = 1
        <5>1. t.turn \in 1..Len(accounts) + 1
          BY <1>1, AccountsInOrder
        <5> QED
          BY <2>1, <3>2, <5>1, AccountsInOrder
      <4>2. accounts[1] \notin tx[o].users
        BY <4>1 DEF CreateUser
      <4>3. tx[o].users # {} => stage[o] \in Seeding
        BY DEF ServerInv, ServerTypeOK, NoTransaction
      <4>4. tx[o].users # {} => tx[o].users = Before(tx[o].turn) /\ tx[o].turn # 1
        BY <4>3, TransactionSeeds DEF Seeds
      <4>5. tx[o].turn \in 1..Len(accounts) + 1
        BY DEF ServerInv, ServerTypeOK
      <4> QED
        BY <4>2, <4>4, <4>5, AccountsInOrder
    <3> QED
      BY <3>1, <3>2
  <2>6. tx' = [tx EXCEPT ![s] = new] /\ Go(s, "user")
    BY <1>3 DEF CreateUser, ServerInv, ServerTypeOK
  <2> QED
    BY <1>0, <1>3, <2>3, <2>4, <2>5, <2>6, StatementInv DEF CreateUser, Seeding
<1> QED
  BY <1>2, <1>3

(* The three statements of seedDomain: only a transaction that seeds comes *)
(* to them, and no other has written a table then.                         *)
LEMMA CountNodesInv ==
  ASSUME ServerInv, NEW s \in Servers, CountNodes(s)
  PROVE  ServerInv'
<1> DEFINE t == tx[s]
           next == IF "nodes" \in domain THEN "commit" ELSE "nodes"
<1>0. t \in Transactions /\ stage[s] = "count" /\ Seeds(t, "count") /\ t.turn = Len(accounts) + 1
  BY TransactionSeeds DEF ServerInv, ServerTypeOK, Transactions, CountNodes, Seeding, Seeds
<1>1. t.users # {} => \A o \in Servers \ {s} : tx[o].users = {}
  BY DEF ServerInv, OneSeeds
<1>2. tx' = [tx EXCEPT ![s] = t] /\ Go(s, next)
  BY DEF CountNodes, ServerInv, ServerTypeOK
<1>3. (users = {}) <=> ("nodes" \notin domain)
  BY DEF ServerInv, SeededAtOnce, Domain
<1>4. Accounts # {} /\ Len(accounts) + 1 # 1
  BY AccountsInOrder
<1>5. Seeds(t, next)
  BY <1>0, <1>3, <1>4 DEF Seeds, Seeding, WrittenAt, Domain
<1> QED
  BY <1>0, <1>1, <1>2, <1>5, StatementInv DEF CountNodes, Seeding

LEMMA CreateTableInv ==
  ASSUME ServerInv, NEW s \in Servers, NEW table \in Domain, NEW next \in Seeding,
         stage[s] = table, WrittenAt(next) = WrittenAt(table) \cup {table},
         next \notin {"user", "insert"},
         tx' = [tx EXCEPT ![s].domain = @ \cup {table}], Go(s, next),
         UNCHANGED <<users, domain, seedings, request, crashes>>
  PROVE  ServerInv'
<1> DEFINE t == tx[s]
           new == [t EXCEPT !.domain = @ \cup {table}]
<1>0. t \in Transactions /\ stage[s] \in Seeding /\ Seeds(t, table)
  BY TransactionSeeds DEF ServerInv, ServerTypeOK, Transactions, Seeding, Domain
<1>1. t.turn = Len(accounts) + 1
  BY <1>0 DEF Seeds, Seeding, Domain
<1>2. new \in Transactions /\ new.users = t.users /\ new.turn = t.turn /\ new.domain = t.domain \cup {table}
  BY <1>0 DEF Transactions
<1>3. Seeds(new, next)
  BY <1>0, <1>1, <1>2 DEF Seeds
<1>4. t.users # {} => \A o \in Servers \ {s} : tx[o].users = {}
  BY DEF ServerInv, OneSeeds
<1>5. tx' = [tx EXCEPT ![s] = new]
  BY DEF ServerInv, ServerTypeOK
<1> QED
  BY <1>0, <1>2, <1>3, <1>4, <1>5, StatementInv

LEMMA CreateNodesInv ==
  ASSUME ServerInv, NEW s \in Servers, CreateNodes(s)
  PROVE  ServerInv'
<1>1. CASE "nodes" \in domain
  BY <1>1, EndInv DEF CreateNodes, ServerInv, ServerTypeOK
<1>2. CASE "nodes" \notin domain
  <2>1. WrittenAt("scenarios") = WrittenAt("nodes") \cup {"nodes"}
    BY DEF WrittenAt
  <2> QED
    BY <1>2, <2>1, CreateTableInv DEF CreateNodes, Seeding, Domain
<1> QED
  BY <1>1, <1>2

LEMMA CreateRestInv ==
  ASSUME ServerInv, NEW s \in Servers,
         CreateRest(s, "scenarios", "safeguards") \/ CreateRest(s, "safeguards", "commit")
  PROVE  ServerInv'
<1>1. /\ WrittenAt("safeguards") = WrittenAt("scenarios") \cup {"scenarios"}
      /\ WrittenAt("commit") = WrittenAt("safeguards") \cup {"safeguards"}
  BY DEF WrittenAt, Domain
<1> QED
  BY <1>1, CreateTableInv DEF CreateRest, Seeding, Domain

(* The commit: what is written then is all of the seed data, or nothing    *)
(* because they are there.                                                 *)
LEMMA CommitInv ==
  ASSUME ServerInv, NEW s \in Servers, Commit(s)
  PROVE  ServerInv'
<1> DEFINE t == tx[s]
<1>0. t \in Transactions /\ stage[s] = "commit" /\ Seeds(t, "commit") /\ t.turn = Len(accounts) + 1
  BY TransactionSeeds DEF ServerInv, ServerTypeOK, Transactions, Commit, Seeding, Seeds
<1>1. Accounts # {} /\ t.turn # 1 /\ Before(t.turn) = Accounts /\ Domain # {}
  BY <1>0, AccountsInOrder DEF Domain
<1>2. \/ t.users = {} /\ t.domain = {} /\ users = Accounts /\ domain = Domain
      \/ t.users = Accounts /\ t.domain = Domain /\ users = {} /\ domain = {}
  BY <1>0, <1>1 DEF Seeds, WrittenAt, ServerInv, SeededAtOnce
<1>3. users' = Accounts /\ domain' = Domain /\ seedings' = 1
  BY <1>1, <1>2 DEF Commit, ServerInv, SeededAtOnce
<1>4. tx'[s] = NoTransaction /\ stage'[s] = "serving"
  BY DEF Commit, Go, ServerInv, ServerTypeOK
<1>5. ASSUME NEW o \in Servers \ {s}
      PROVE  /\ tx'[o] = tx[o] /\ stage'[o] = stage[o]
             /\ tx[o].users # {} => users' = users
  <2>1. tx'[o] = tx[o] /\ stage'[o] = stage[o]
    BY DEF Commit, Go, ServerInv, ServerTypeOK
  <2>2. tx[o].users # {} => t.users = {}
    BY DEF ServerInv, OneSeeds
  <2> QED
    BY <1>2, <1>3, <2>1, <2>2
<1>6. ServerTypeOK'
  <2>1. NoTransaction \in Transactions
    BY AccountsInOrder DEF NoTransaction, Transactions
  <2> QED
    BY <1>3, <2>1 DEF Commit, Go, ServerInv, ServerTypeOK, Transactions, Phases, Seeding
<1>7. SeededAtOnce'
  BY <1>1, <1>3 DEF SeededAtOnce
<1>8. OneSeeds'
  BY <1>4, <1>5 DEF ServerInv, OneSeeds, NoTransaction
<1>9. ServedOverSeed'
  BY <1>3, <1>4, <1>5 DEF Commit, ServerInv, ServedOverSeed
<1>10. TransactionsSeed'
  <2>1. ASSUME NEW o \in Servers \ {s}, stage[o] \in Seeding
        PROVE  /\ \/ /\ tx[o].users = {} /\ tx[o].domain = {}
                     /\ stage[o] \notin Domain
                  \/ /\ tx[o].users = Before(tx[o].turn) /\ tx[o].domain = WrittenAt(stage[o])
                     /\ tx[o].turn # 1 /\ users' = {}
    <3>1. Seeds(tx[o], stage[o]) /\ tx[o].turn \in 1..Len(accounts) + 1
      BY <2>1, TransactionSeeds DEF ServerInv, ServerTypeOK
    <3>2. CASE tx[o].users = {}
      <4>1. tx[o].turn = 1 \/ Before(tx[o].turn) # {}
        BY <3>1, AccountsInOrder
      <4> QED
        BY <3>1, <3>2, <4>1 DEF Seeds
    <3>3. CASE tx[o].users # {}
      BY <1>5, <2>1, <3>1, <3>3 DEF Seeds
    <3> QED
      BY <3>2, <3>3
  <2>2. ASSUME NEW o \in Servers \ {s}
        PROVE  /\ stage[o] = "insert" => tx[o].turn <= Len(accounts)
               /\ stage[o] \in Seeding \ {"user", "insert"} => tx[o].turn = Len(accounts) + 1
    BY DEF ServerInv, TransactionsSeed
  <2>3. Before(tx[s].turn)' = Before(tx'[s].turn) /\ "serving" \notin Seeding
    BY DEF Before, Seeding
  <2> QED
    BY <1>3, <1>4, <1>5, <2>1, <2>2, <2>3 DEF TransactionsSeed, Before, WrittenAt
<1> QED
  BY <1>6, <1>7, <1>8, <1>9, <1>10 DEF ServerInv

LEMMA StartInv ==
  ASSUME ServerInv, NEW s \in Servers, Start(s)
  PROVE  ServerInv'
<1>1. tx[s] = NoTransaction /\ NoTransaction \in Transactions
  BY AccountsInOrder DEF Start, ServerInv, ServerTypeOK, Seeding, NoTransaction, Transactions
<1>2. Seeds(tx[s], "user") /\ tx[s].users = {}
  BY <1>1 DEF Seeds, NoTransaction, Seeding, Domain
<1>3. tx' = [tx EXCEPT ![s] = tx[s]]
  BY DEF Start, ServerInv, ServerTypeOK
<1> QED
  BY <1>1, <1>2, <1>3, StatementInv DEF Start, Seeding

(* Requests come and go on servers that serve.                             *)
LEMMA RequestInv ==
  ASSUME ServerInv, NEW q \in Requests, Answer(q) \/ \E s \in Servers : Accept(q, s)
  PROVE  ServerInv'
<1>1. ServerTypeOK'
  <2>1. request' \in [Requests -> [server : Servers \cup {NoServer},
                                   status : {"idle", "running", "answered", "cut"}]]
    <3>1. CASE Answer(q)
      BY <3>1 DEF ServerInv, ServerTypeOK, Answer
    <3>2. ASSUME NEW s \in Servers, Accept(q, s)
          PROVE  request' \in [Requests -> [server : Servers \cup {NoServer},
                                            status : {"idle", "running", "answered", "cut"}]]
      BY <3>2 DEF ServerInv, ServerTypeOK, Accept
    <3> QED
      BY <3>1, <3>2
  <2> QED
    BY <2>1 DEF ServerInv, ServerTypeOK, Answer, Accept
<1>2. SeededAtOnce' /\ OneSeeds' /\ TransactionsSeed'
  BY DEF ServerInv, SeededAtOnce, OneSeeds, TransactionsSeed, Answer, Accept, Before, WrittenAt
<1>3. ServedOverSeed'
  <2>1. ASSUME NEW s \in Servers, Accept(q, s) PROVE users = Accounts /\ domain = Domain
    <3>1. users = Accounts /\ Accounts # {}
      BY <2>1, AccountsInOrder DEF ServerInv, TransactionsSeed, Accept
    <3> QED
      BY <3>1 DEF ServerInv, SeededAtOnce
  <2>2. CASE Answer(q)
    BY <2>2 DEF ServerInv, ServerTypeOK, ServedOverSeed, Answer
  <2>3. ASSUME NEW s \in Servers, Accept(q, s) PROVE ServedOverSeed'
    BY <2>1, <2>3 DEF ServerInv, ServerTypeOK, ServedOverSeed, Accept
  <2> QED
    BY <2>2, <2>3
<1> QED
  BY <1>1, <1>2, <1>3 DEF ServerInv

(* A signal and a complete drain leave no request on a stopped server.     *)
LEMMA ShutdownInv ==
  ASSUME ServerInv, NEW s \in Servers, Signal(s) \/ Drained(s)
  PROVE  ServerInv'
<1>1. ServerTypeOK'
  BY DEF ServerInv, ServerTypeOK, Signal, Drained, Go, Phases, Seeding
<1>2. SeededAtOnce' /\ OneSeeds'
  BY DEF ServerInv, SeededAtOnce, OneSeeds, Signal, Drained
<1>3. ServedOverSeed'
  <2>1. CASE Signal(s)
    BY <2>1 DEF ServerInv, ServerTypeOK, ServedOverSeed, Signal, Go
  <2>2. CASE Drained(s)
    <3>1. \A q \in Requests : request[q].status = "running" => request[q].server # s
      BY <2>2 DEF Drained, RunningOn, ServerInv, ServerTypeOK
    <3> QED
      BY <2>2, <3>1 DEF ServerInv, ServerTypeOK, ServedOverSeed, Drained, Go
  <2> QED
    BY <2>1, <2>2
<1>4. TransactionsSeed'
  BY DEF ServerInv, ServerTypeOK, TransactionsSeed, Signal, Drained, Go, Seeding, Before, WrittenAt
<1> QED
  BY <1>1, <1>2, <1>3, <1>4 DEF ServerInv

LEMMA ServerNextInv == ServerInv /\ [ServerNext]_serverVars => ServerInv'
<1> SUFFICES ASSUME ServerInv, [ServerNext]_serverVars PROVE ServerInv'
  OBVIOUS
<1>1. ASSUME NEW s \in Servers, Opening(s) PROVE ServerInv'
  BY <1>1, StartInv, FindUserInv, CreateUserInv, CountNodesInv, CreateNodesInv, CreateRestInv,
     CommitInv DEF Opening
<1>2. ASSUME NEW s \in Servers, Signal(s) \/ Drained(s) PROVE ServerInv'
  BY <1>2, ShutdownInv
<1>3. ASSUME NEW s \in Servers, Killed(s) \/ TimedOut(s) \/ Crash(s) PROVE ServerInv'
  <2>1. crashes \in 0..MaxCrashes
    BY DEF ServerInv, ServerTypeOK
  <2>2. crashes' \in 0..MaxCrashes
    BY <1>3, <2>1, ServerAssumption DEF Killed, TimedOut, Crash
  <2> QED
    BY <1>3, <2>2, EndInv DEF Killed, TimedOut, Crash
<1>4. ASSUME NEW q \in Requests, Answer(q) \/ \E s \in Servers : Accept(q, s) PROVE ServerInv'
  BY <1>4, RequestInv
<1>5. CASE UNCHANGED serverVars
  BY <1>5 DEF serverVars, ServerInv, ServerTypeOK, SeededAtOnce, OneSeeds, ServedOverSeed, RunningOn,
              TransactionsSeed, Before, WrittenAt
<1> QED
  BY <1>1, <1>2, <1>3, <1>4, <1>5 DEF ServerNext

(* ServerInv: however many servers start, race, crash and are stopped on    *)
(* one database, and whatever the list of accounts: the seed data are      *)
(* committed as a whole and once, one transaction seeds at a time, and     *)
(* requests run on live servers over all of the seed data.                 *)
THEOREM ServerInvCorrect == ServerSpec => []ServerInv
BY ServerInitInv, ServerNextInv, PTL DEF ServerSpec

-----------------------------------------------------------------------------
(* The watcher.  What an open page knows of its launches: hook is that of  *)
(* the page, and of its launches at most one is under way.                 *)
UnderWay == Awaited \cup {"waiting"}

Hooks == [life : {"new", "open", "gone"}, generation : Nat, running : BOOLEAN, polling : BOOLEAN]

LEMMA HooksType == WatchInv => hook \in [Pages -> Hooks]
BY DEF WatchInv, TypeOK, Hooks

LEMMA StoppedType ==
  ASSUME NEW h \in Hooks
  PROVE  /\ Stopped(h) \in Hooks /\ Stopped(h).life = h.life /\ Stopped(h).running = h.running
         /\ [Stopped(h) EXCEPT !.life = "gone"] \in Hooks
         /\ [Stopped(h) EXCEPT !.running = TRUE] \in Hooks
<1>1. h.generation + 1 \in Nat
  BY DEF Hooks
<1>2. Stopped(h) \in Hooks /\ Stopped(h).life = h.life /\ Stopped(h).running = h.running
  BY <1>1 DEF Hooks, Stopped
<1> QED
  BY <1>2 DEF Hooks

LEMMA WatchInitInv == Init => WatchInv
<1> SUFFICES ASSUME Init PROVE WatchInv
  OBVIOUS
<1>1. TypeOK /\ LaunchesKnown
  BY DEF Init, PagesIn, TypeOK, LaunchesKnown, Watching
<1>2. OneLaunchPerPage
  BY DEF Init, PagesIn, OneLaunchPerPage
<1> QED
  BY <1>1, <1>2 DEF WatchInv

LEMMA OpenInv ==
  ASSUME WatchInv, NEW p \in Pages, Open(p)
  PROVE  WatchInv'
<1>1. TypeOK'
  BY DEF WatchInv, TypeOK, Open
<1>2. OneLaunchPerPage'
  BY DEF WatchInv, TypeOK, OneLaunchPerPage, LaunchesKnown, Open, Awaited, Watching
<1>3. LaunchesKnown'
  BY DEF WatchInv, TypeOK, LaunchesKnown, Open
<1> QED
  BY <1>1, <1>2, <1>3 DEF WatchInv

LEMMA LeaveInv ==
  ASSUME WatchInv, NEW p \in Pages, Leave(p)
  PROVE  WatchInv'
<1>0. phase' = [l \in Launches |-> IF page[l] = p /\ phase[l] = "waiting" THEN "stopped" ELSE phase[l]]
  BY DEF Leave, TimersCleared
<1>1. TypeOK'
  <2>1. hook' = [hook EXCEPT ![p] = [Stopped(hook[p]) EXCEPT !.life = "gone"]]
    BY DEF Leave
  <2>2. [Stopped(hook[p]) EXCEPT !.life = "gone"] \in Hooks
    BY HooksType, StoppedType
  <2>3. hook' \in [Pages -> Hooks]
    BY <2>1, <2>2 DEF WatchInv, TypeOK, Hooks
  <2>4. phase' \in [Launches -> {"idle", "waiting"} \cup Awaited \cup Ended]
    BY <1>0 DEF WatchInv, TypeOK, Ended
  <2>5. \A l \in Launches : phase'[l] = phase[l] \/ (phase[l] = "waiting" /\ phase'[l] = "stopped")
    BY <1>0
  <2> QED
    BY <2>3, <2>4, <2>5 DEF WatchInv, TypeOK, Leave, Watching, Hooks
<1>2. OneLaunchPerPage'
  <2>1. \A q \in Pages : hook'[q].life = "open" => q # p /\ hook'[q] = hook[q]
    BY DEF WatchInv, TypeOK, Leave
  <2>2. \A l \in Launches : page'[l] = page[l] /\ active'[l] = active[l] /\ (page[l] # p => phase'[l] = phase[l])
    BY <1>0 DEF Leave
  <2> QED
    BY <2>1, <2>2 DEF WatchInv, OneLaunchPerPage
<1>3. LaunchesKnown'
  BY <1>0 DEF WatchInv, TypeOK, LaunchesKnown, Leave, Watching
<1> QED
  BY <1>1, <1>2, <1>3 DEF WatchInv

(* On an open page whose button is enabled no launch is under way, and no  *)
(* timer runs.                                                             *)
LEMMA LaunchInv ==
  ASSUME WatchInv, NEW p \in Pages, NEW l \in Launches, Launch(p, l)
  PROVE  WatchInv'
<1>1. \A k \in Launches : page[k] = p => phase[k] \notin UnderWay
  BY DEF WatchInv, OneLaunchPerPage, Launch, UnderWay
<1>2. phase' = [phase EXCEPT ![l] = "posting"]
  BY <1>1 DEF WatchInv, TypeOK, Launch, TimersCleared, UnderWay
<1>3. TypeOK'
  <2>1. hook' = [hook EXCEPT ![p] = [Stopped(hook[p]) EXCEPT !.running = TRUE]]
    BY DEF Launch
  <2>2. [Stopped(hook[p]) EXCEPT !.running = TRUE] \in Hooks
    BY HooksType, StoppedType
  <2>3. hook' \in [Pages -> Hooks]
    BY HooksType, <2>1, <2>2
  <2> QED
    BY <1>2, <2>3 DEF WatchInv, TypeOK, Launch, Awaited, Watching, Hooks
<1>4. LaunchesKnown'
  BY <1>2 DEF WatchInv, TypeOK, LaunchesKnown, Launch, Stopped, Watching
<1>5. OneLaunchPerPage'
  <2>1. \A k \in Launches \ {l} : page'[k] = page[k] /\ phase'[k] = phase[k] /\ active'[k] = active[k]
    BY <1>2 DEF WatchInv, TypeOK, Launch
  <2>2. page'[l] = p /\ phase'[l] = "posting" /\ hook'[p].running
    BY <1>2 DEF WatchInv, TypeOK, Launch, Stopped
  <2>3. \A q \in Pages \ {p} : hook'[q] = hook[q]
    BY DEF WatchInv, TypeOK, Launch
  <2>4. phase[l] = "idle" /\ "idle" \notin UnderWay \cup Watching /\ "posting" \in UnderWay /\ "posting" \notin Watching
    BY DEF Launch, UnderWay, Awaited, Watching
  <2>5. Watching \subseteq UnderWay
    BY DEF Watching, UnderWay, Awaited
  <2>6. ASSUME NEW q \in Pages, hook'[q].life = "open", q = p
        PROVE  /\ hook'[q].running <=> \E k \in Launches : page'[k] = q /\ phase'[k] \in UnderWay
               /\ \A k \in Launches : page'[k] = q /\ phase'[k] \in Watching =>
                    hook'[q].polling /\ active'[k] = hook'[q].generation
               /\ \A k, m \in Launches :
                    page'[k] = q /\ page'[m] = q /\ {phase'[k], phase'[m]} \subseteq UnderWay => k = m
    BY <1>1, <2>1, <2>2, <2>4, <2>5, <2>6
  <2>7. ASSUME NEW q \in Pages, hook'[q].life = "open", q # p
        PROVE  /\ hook'[q].running <=> \E k \in Launches : page'[k] = q /\ phase'[k] \in UnderWay
               /\ \A k \in Launches : page'[k] = q /\ phase'[k] \in Watching =>
                    hook'[q].polling /\ active'[k] = hook'[q].generation
               /\ \A k, m \in Launches :
                    page'[k] = q /\ page'[m] = q /\ {phase'[k], phase'[m]} \subseteq UnderWay => k = m
    BY <2>1, <2>2, <2>3, <2>4, <2>7 DEF WatchInv, OneLaunchPerPage, UnderWay
  <2> QED
    BY <2>6, <2>7 DEF OneLaunchPerPage, UnderWay
<1> QED
  BY <1>3, <1>4, <1>5 DEF WatchInv

(* A launch that goes on, from one await to the next of its kind.           *)
LEMMA SameLaunches ==
  ASSUME OneLaunchPerPage, UNCHANGED <<page, active, hook>>,
         \A k \in Launches : /\ phase'[k] \in UnderWay <=> phase[k] \in UnderWay
                             /\ phase'[k] \in Watching <=> phase[k] \in Watching
  PROVE  OneLaunchPerPage'
<1>1. ASSUME NEW q \in Pages, hook[q].life = "open"
      PROVE  /\ hook[q].running <=> \E k \in Launches : page[k] = q /\ phase'[k] \in UnderWay
             /\ \A k \in Launches : page[k] = q /\ phase'[k] \in Watching =>
                  hook[q].polling /\ active[k] = hook[q].generation
             /\ \A k, m \in Launches :
                  page[k] = q /\ page[m] = q /\ {phase'[k], phase'[m]} \subseteq UnderWay => k = m
  <2>1. /\ hook[q].running <=> \E k \in Launches : page[k] = q /\ phase[k] \in UnderWay
        /\ \A k \in Launches : page[k] = q /\ phase[k] \in Watching =>
             hook[q].polling /\ active[k] = hook[q].generation
        /\ \A k, m \in Launches :
             page[k] = q /\ page[m] = q /\ {phase[k], phase[m]} \subseteq UnderWay => k = m
    BY <1>1 DEF OneLaunchPerPage, UnderWay
  <2>2. hook[q].running <=> \E k \in Launches : page[k] = q /\ phase'[k] \in UnderWay
    BY <2>1
  <2>3. ASSUME NEW k \in Launches, NEW m \in Launches, page[k] = q, page[m] = q,
               {phase'[k], phase'[m]} \subseteq UnderWay
        PROVE  k = m
    BY <2>1, <2>3
  <2>4. ASSUME NEW k \in Launches, page[k] = q, phase'[k] \in Watching
        PROVE  hook[q].polling /\ active[k] = hook[q].generation
    BY <2>1, <2>4
  <2> QED
    BY <2>2, <2>3, <2>4
<1> QED
  BY <1>1 DEF OneLaunchPerPage, UnderWay

(* Loop: the launch waits again, on a page whose generation is its own, or *)
(* it is done.                                                             *)
LEMMA LoopInv ==
  ASSUME WatchInv, NEW l \in Launches, phase[l] \in {"listing", "refreshing"},
         NEW h \in Hooks,
         h.life = hook[page[l]].life, h.running = hook[page[l]].running,
         NEW state \in CoverageStateValues,
         current' = [current EXCEPT ![l] = state], evaluation' = evaluation, page' = page,
         NEW generation \in Nat, active' = [active EXCEPT ![l] = generation],
         state \notin terminal /\ hook[page[l]].life = "open" => h.polling,
         evaluation[l] # "none",
         Loop(l, state, h)
  PROVE  WatchInv'
<1> DEFINE p == page[l]
<1>0. p \in Pages
  BY DEF WatchInv, TypeOK
<1>1. PICK to \in {"waiting", "done"}, new \in Hooks :
        /\ phase' = [phase EXCEPT ![l] = to] /\ hook' = [hook EXCEPT ![p] = new]
        /\ new.life = hook[p].life
        /\ to = "waiting" => new.running = hook[p].running /\ new.generation = active'[l]
                             /\ (new.life = "open" => new.polling) /\ state \notin terminal
        /\ to = "done" => ~new.running
  <2>1. CASE state \notin terminal /\ h.generation = active'[l]
    <3>1. phase' = [phase EXCEPT ![l] = "waiting"] /\ hook' = [hook EXCEPT ![p] = h]
      BY <2>1 DEF Loop, Await
    <3> QED
      BY <2>1, <3>1
  <2>2. CASE ~(state \notin terminal /\ h.generation = active'[l])
    <3> DEFINE new == [h EXCEPT !.polling = FALSE, !.running = FALSE]
    <3>1. phase' = [phase EXCEPT ![l] = "done"] /\ hook' = [hook EXCEPT ![p] = new]
      BY <2>2 DEF Loop, Await
    <3>2. new \in Hooks /\ new.life = hook[p].life /\ ~new.running
      BY DEF Hooks
    <3> QED
      BY <3>1, <3>2
  <2> QED
    BY <2>1, <2>2
<1>2. TypeOK'
  BY <1>0, <1>1 DEF WatchInv, TypeOK, Ended, Awaited, Watching, terminal, CoverageStateValues, Hooks
<1>3. LaunchesKnown'
  BY <1>0, <1>1 DEF WatchInv, TypeOK, LaunchesKnown, Watching, CoverageStateValues
<1>4. OneLaunchPerPage'
  <2>1. phase[l] \in UnderWay /\ "waiting" \in UnderWay /\ "done" \notin UnderWay \cup Watching
        /\ Watching \subseteq UnderWay
    BY DEF UnderWay, Awaited, Watching
  <2>2. \A k \in Launches \ {l} : phase'[k] = phase[k] /\ active'[k] = active[k]
    BY <1>1 DEF WatchInv, TypeOK
  <2>3. \A q \in Pages \ {p} : hook'[q] = hook[q]
    BY <1>1 DEF WatchInv, TypeOK
  <2>4. hook'[p] = new /\ phase'[l] = to
    BY <1>0, <1>1 DEF WatchInv, TypeOK
  <2>5. ASSUME NEW q \in Pages, hook'[q].life = "open", q = p
        PROVE  /\ hook'[q].running <=> \E k \in Launches : page'[k] = q /\ phase'[k] \in UnderWay
               /\ \A k \in Launches : page'[k] = q /\ phase'[k] \in Watching =>
                    hook'[q].polling /\ active'[k] = hook'[q].generation
               /\ \A k, m \in Launches :
                    page'[k] = q /\ page'[m] = q /\ {phase'[k], phase'[m]} \subseteq UnderWay => k = m
    <3>1. hook[p].life = "open"
      BY <1>1, <2>4, <2>5
    <3>2. hook[p].running /\ \A k \in Launches : page[k] = p /\ phase[k] \in UnderWay => k = l
      BY <1>0, <2>1, <3>1 DEF WatchInv, OneLaunchPerPage, UnderWay
    <3>3. \A k \in Launches : page'[k] = p /\ phase'[k] \in UnderWay => k = l
      BY <2>2, <3>2
    <3> QED
      BY <1>1, <2>1, <2>4, <2>5, <3>2, <3>3
  <2>6. ASSUME NEW q \in Pages, hook'[q].life = "open", q # p
        PROVE  /\ hook'[q].running <=> \E k \in Launches : page'[k] = q /\ phase'[k] \in UnderWay
               /\ \A k \in Launches : page'[k] = q /\ phase'[k] \in Watching =>
                    hook'[q].polling /\ active'[k] = hook'[q].generation
               /\ \A k, m \in Launches :
                    page'[k] = q /\ page'[m] = q /\ {phase'[k], phase'[m]} \subseteq UnderWay => k = m
    <3>1. \A k \in Launches : page'[k] = q => k # l
      BY <2>6
    <3> QED
      BY <2>2, <2>3, <2>6, <3>1 DEF WatchInv, OneLaunchPerPage, UnderWay
  <2> QED
    BY <2>5, <2>6 DEF OneLaunchPerPage, UnderWay
<1> QED
  BY <1>2, <1>3, <1>4 DEF WatchInv

LEMMA ContinueInv ==
  ASSUME WatchInv, NEW l \in Launches, Continue(l)
  PROVE  WatchInv'
<1> DEFINE p == page[l]
<1>0. /\ phase[l] # "idle" => p \in Pages /\ hook[p] \in Hooks
      /\ active[l] \in Nat /\ active = [active EXCEPT ![l] = active[l]]
      /\ current[l] \in CoverageStateValues \cup {"none"}
      /\ evaluation[l] \in CoverageStateValues \cup {"none"}
      /\ current = [current EXCEPT ![l] = current[l]]
  BY DEF WatchInv, TypeOK, Hooks
<1>1. CASE RunAnswers(l)
  <2>1. TypeOK'
    BY <1>0, <1>1 DEF RunAnswers, Await, WatchInv, TypeOK, Awaited, Watching
  <2>2. LaunchesKnown'
    BY <1>1 DEF RunAnswers, Await, WatchInv, TypeOK, LaunchesKnown, Watching
  <2>3. OneLaunchPerPage'
    <3>1. \A k \in Launches : /\ phase'[k] \in UnderWay <=> phase[k] \in UnderWay
                              /\ phase'[k] \in Watching <=> phase[k] \in Watching
      BY <1>1 DEF RunAnswers, Await, WatchInv, TypeOK, UnderWay, Awaited, Watching
    <3> QED
      BY <1>1, <3>1, SameLaunches DEF RunAnswers, WatchInv
  <2> QED
    BY <2>1, <2>2, <2>3 DEF WatchInv
<1>2. CASE Watch(l)
  <2> DEFINE generation == hook[p].generation + 1
             h == [hook[p] EXCEPT !.generation = generation, !.polling = current[l] \notin terminal]
  <2>1. p \in Pages /\ hook[p] \in Hooks /\ generation \in Nat
    BY <1>0, <1>2 DEF Watch, Hooks
  <2>2. h \in Hooks /\ h.life = hook[p].life /\ h.running = hook[p].running
    BY <2>1 DEF Hooks
  <2>3. h.polling = (current[l] \notin terminal)
    BY <2>1 DEF Hooks
  <2>4. current[l] \in CoverageStateValues /\ evaluation[l] # "none"
    BY <1>0, <1>2 DEF Watch, WatchInv, LaunchesKnown
  <2>5. /\ Loop(l, current[l], h) /\ active' = [active EXCEPT ![l] = generation]
        /\ page' = page /\ evaluation' = evaluation /\ current' = [current EXCEPT ![l] = current[l]]
        /\ phase[l] \in {"listing", "refreshing"}
    BY <1>0, <1>2 DEF Watch
  <2> QED
    BY <2>1, <2>2, <2>3, <2>4, <2>5, LoopInv
<1>3. CASE TimerFires(l)
  <2>1. CASE hook[p].generation = active[l]
    <3>1. phase' = [phase EXCEPT ![l] = "refreshing"] /\ UNCHANGED <<page, current, active, hook, evaluation>>
      BY <1>3, <2>1 DEF TimerFires, Await
    <3>2. TypeOK'
      BY <1>3, <3>1 DEF TimerFires, WatchInv, TypeOK, Awaited, Watching
    <3>3. LaunchesKnown'
      BY <1>3, <3>1 DEF TimerFires, WatchInv, TypeOK, LaunchesKnown, Watching
    <3>4. \A k \in Launches : /\ phase'[k] \in UnderWay <=> phase[k] \in UnderWay
                              /\ phase'[k] \in Watching <=> phase[k] \in Watching
      BY <1>3, <3>1 DEF TimerFires, WatchInv, TypeOK, UnderWay, Awaited, Watching
    <3>5. OneLaunchPerPage'
      BY <3>1, <3>4, SameLaunches DEF WatchInv
    <3> QED
      BY <3>2, <3>3, <3>5 DEF WatchInv
  <2>2. CASE hook[p].generation # active[l]
    (* the page is not open: the launch would have its generation *)
    <3>1. /\ phase' = [phase EXCEPT ![l] = "done"] /\ UNCHANGED <<page, current, active, evaluation>>
          /\ hook' = [hook EXCEPT ![p].polling = FALSE, ![p].running = FALSE]
      BY <1>3, <2>2 DEF TimerFires, Await
    <3>2. p \in Pages /\ hook[p].life # "open"
      BY <1>0, <1>3, <2>2 DEF TimerFires, WatchInv, OneLaunchPerPage, Watching
    <3>3. /\ hook' \in [Pages -> Hooks] /\ hook'[p].life = hook[p].life /\ ~hook'[p].running
          /\ \A q \in Pages \ {p} : hook'[q] = hook[q]
      BY <3>1, <3>2 DEF WatchInv, TypeOK, Hooks
    <3>4. TypeOK'
      BY <1>3, <3>1, <3>3 DEF TimerFires, WatchInv, TypeOK, Hooks, Ended, Awaited, Watching
    <3>5. LaunchesKnown'
      BY <1>3, <3>1, <3>2, <3>3 DEF TimerFires, WatchInv, TypeOK, LaunchesKnown, Watching
    <3>6. OneLaunchPerPage'
      <4>1. \A q \in Pages : hook'[q].life = "open" => q # p /\ hook'[q] = hook[q]
        BY <3>2, <3>3
      <4>2. \A k \in Launches : page[k] # p => phase'[k] = phase[k]
        BY <3>1 DEF WatchInv, TypeOK
      <4>3. ASSUME NEW q \in Pages, hook'[q].life = "open"
            PROVE  /\ hook'[q].running <=> \E k \in Launches : page[k] = q /\ phase'[k] \in UnderWay
                   /\ \A k \in Launches : page[k] = q /\ phase'[k] \in Watching =>
                        hook'[q].polling /\ active[k] = hook'[q].generation
                   /\ \A k, m \in Launches :
                        page[k] = q /\ page[m] = q /\ {phase'[k], phase'[m]} \subseteq UnderWay => k = m
        <5>1. hook'[q] = hook[q] /\ \A k \in Launches : page[k] = q => phase'[k] = phase[k]
          BY <4>1, <4>2, <4>3
        <5> QED
          BY <4>3, <5>1 DEF WatchInv, OneLaunchPerPage, UnderWay
      <4>4. page' = page /\ active' = active
        BY <3>1
      <4> QED
        BY <4>3, <4>4 DEF OneLaunchPerPage, UnderWay
    <3> QED
      BY <3>4, <3>5, <3>6 DEF WatchInv
  <2> QED
    BY <2>1, <2>2
<1>4. CASE RefreshAnswers(l)
  <2>1. p \in Pages /\ hook[p] \in Hooks
    BY <1>0, <1>4 DEF RefreshAnswers
  <2>2. evaluation[l] \in CoverageStateValues /\ evaluation[l] # "none"
    BY <1>0, <1>4 DEF RefreshAnswers, WatchInv, LaunchesKnown, Watching
  <2>3. hook[p].life = "open" => hook[p].polling
    BY <1>4, <2>1 DEF RefreshAnswers, WatchInv, OneLaunchPerPage, Watching
  <2>4. /\ Loop(l, evaluation[l], hook[p]) /\ active' = [active EXCEPT ![l] = active[l]]
        /\ page' = page /\ evaluation' = evaluation /\ current' = [current EXCEPT ![l] = evaluation[l]]
        /\ phase[l] \in {"listing", "refreshing"}
    BY <1>0, <1>4 DEF RefreshAnswers
  <2> QED
    BY <1>0, <2>1, <2>2, <2>3, <2>4, LoopInv
<1> QED
  BY <1>1, <1>2, <1>3, <1>4 DEF Continue

LEMMA CallFailsInv ==
  ASSUME WatchInv, NEW l \in Launches, CallFails(l)
  PROVE  WatchInv'
<1> DEFINE p == page[l]
<1>1. /\ phase' = [phase EXCEPT ![l] = "failed"] /\ UNCHANGED <<page, current, active, evaluation>>
      /\ hook' = [hook EXCEPT ![p].running = FALSE] /\ phase[l] \in Awaited
  BY DEF CallFails, Await
<1>2. p \in Pages
  BY <1>1 DEF WatchInv, TypeOK, Awaited
<1>3. /\ hook' \in [Pages -> Hooks]
      /\ hook'[p].life = hook[p].life /\ ~hook'[p].running
      /\ hook'[p].polling = hook[p].polling /\ hook'[p].generation = hook[p].generation
      /\ \A q \in Pages \ {p} : hook'[q] = hook[q]
  BY <1>1, <1>2 DEF WatchInv, TypeOK, Hooks
<1>4. TypeOK'
  BY <1>1, <1>2, <1>3 DEF WatchInv, TypeOK, Hooks, Ended, Awaited, Watching
<1>5. LaunchesKnown'
  BY <1>1, <1>2, <1>3 DEF WatchInv, TypeOK, LaunchesKnown, Watching, Awaited
<1>6. OneLaunchPerPage'
  <2>1. \A k \in Launches \ {l} : phase'[k] = phase[k]
    BY <1>1 DEF WatchInv, TypeOK
  <2>2. phase'[l] = "failed" /\ "failed" \notin UnderWay \cup Watching /\ phase[l] \in UnderWay
    BY <1>1 DEF WatchInv, TypeOK, UnderWay, Awaited, Watching
  <2>3. hook[p].life = "open" => \A k \in Launches : page[k] = p /\ phase[k] \in UnderWay => k = l
    BY <1>2, <2>2 DEF WatchInv, OneLaunchPerPage, UnderWay
  <2>4. Watching \subseteq UnderWay
    BY DEF Watching, UnderWay, Awaited
  <2>5. ASSUME NEW q \in Pages, hook'[q].life = "open"
        PROVE  /\ hook'[q].running <=> \E k \in Launches : page[k] = q /\ phase'[k] \in UnderWay
               /\ \A k \in Launches : page[k] = q /\ phase'[k] \in Watching =>
                    hook'[q].polling /\ active[k] = hook'[q].generation
               /\ \A k, m \in Launches :
                    page[k] = q /\ page[m] = q /\ {phase'[k], phase'[m]} \subseteq UnderWay => k = m
    <3>1. CASE q = p
      BY <1>3, <2>1, <2>2, <2>3, <2>4, <2>5, <3>1
    <3>2. CASE q # p
      <4>1. hook'[q] = hook[q] /\ \A k \in Launches : page[k] = q => k # l
        BY <1>3, <3>2
      <4> QED
        BY <2>1, <2>5, <4>1 DEF WatchInv, OneLaunchPerPage, UnderWay
    <3> QED
      BY <3>1, <3>2
  <2> QED
    BY <1>1, <2>5 DEF OneLaunchPerPage, UnderWay
<1> QED
  BY <1>4, <1>5, <1>6 DEF WatchInv

LEMMA EvaluateInv ==
  ASSUME WatchInv, NEW l \in Launches, Evaluate(l)
  PROVE  WatchInv'
<1>1. PICK to \in {"queued", "running", "completed", "failed"} :
        evaluation' = [evaluation EXCEPT ![l] = to]
  BY DEF Evaluate
<1>2. UNCHANGED <<page, phase, current, active, hook>>
  BY DEF Evaluate
<1>3. TypeOK'
  BY <1>1, <1>2 DEF WatchInv, TypeOK, CoverageStateValues
<1>4. LaunchesKnown'
  BY <1>1, <1>2 DEF WatchInv, TypeOK, LaunchesKnown
<1>5. OneLaunchPerPage'
  BY <1>2 DEF WatchInv, OneLaunchPerPage
<1> QED
  BY <1>3, <1>4, <1>5 DEF WatchInv

LEMMA WatchNextInv == WatchInv /\ [Next]_vars => WatchInv'
<1>1. CASE UNCHANGED vars
  BY <1>1 DEF vars, WatchInv, TypeOK, OneLaunchPerPage, LaunchesKnown
<1> QED
  BY <1>1, OpenInv, LeaveInv, LaunchInv, ContinueInv, CallFailsInv, EvaluateInv DEF Next

(* WatchInv: with any number of pages opened and left and of launches made *)
(* on them, an open page has at most one launch under way, its button and  *)
(* spinner show it, and what it watches exists at the server.              *)
THEOREM WatchInvCorrect == Spec => []WatchInv
BY WatchInitInv, WatchNextInv, PTL DEF Spec

(* WatchEndsWithPage: what a page was watching when it was left is not      *)
(* asked for again, even when a refresh under way is answered afterwards.  *)
THEOREM WatchEndsWithPageCorrect == Spec => WatchEndsWithPage
<1> DEFINE Left(l) == /\ phase[l] \in Watching /\ page[l] \in Pages
                      /\ hook[page[l]].life = "gone" /\ active[l] # hook[page[l]].generation
<1>1. ASSUME TypeOK, Next, NEW l \in Launches, Left(l)
      PROVE  phase'[l] \in Ended \cup {phase[l]}
  <2>1. ASSUME NEW p \in Pages, Open(p) \/ Leave(p) PROVE phase'[l] \in Ended \cup {phase[l]}
    BY <2>1 DEF Open, Leave, TimersCleared, Ended
  <2>2. ASSUME NEW p \in Pages, NEW k \in Launches, Launch(p, k)
        PROVE  phase'[l] \in Ended \cup {phase[l]}
    <3>1. k # l
      BY <1>1, <2>2 DEF Launch, Watching
    <3> QED
      BY <1>1, <2>2, <3>1 DEF Launch, TimersCleared, Ended
  <2>3. ASSUME NEW k \in Launches, Continue(k) \/ CallFails(k) \/ Evaluate(k)
        PROVE  phase'[l] \in Ended \cup {phase[l]}
    <3>1. CASE k # l
      BY <1>1, <2>3, <3>1 DEF Continue, RunAnswers, Watch, TimerFires, RefreshAnswers, Loop, Await,
                              CallFails, Evaluate, TypeOK
    <3>2. CASE k = l /\ TimerFires(k)
      BY <1>1, <3>2 DEF TimerFires, Await, Ended, TypeOK
    <3>3. CASE k = l /\ RefreshAnswers(k)
      BY <1>1, <3>3 DEF RefreshAnswers, Loop, Await, Ended, TypeOK
    <3>4. CASE k = l /\ (CallFails(k) \/ Evaluate(k))
      BY <1>1, <3>4 DEF CallFails, Await, Evaluate, Ended, TypeOK
    <3>5. CASE k = l /\ (RunAnswers(k) \/ Watch(k))
      BY <1>1, <3>5 DEF RunAnswers, Watch, Watching
    <3> QED
      BY <2>3, <3>1, <3>2, <3>3, <3>4, <3>5 DEF Continue
  <2> QED
    BY <1>1, <2>1, <2>2, <2>3 DEF Next
<1>2. TypeOK /\ [Next]_vars =>
        [\A l \in Launches :
           /\ phase[l] \in Watching /\ page[l] \in Pages /\ hook[page[l]].life = "gone"
           /\ active[l] # hook[page[l]].generation
           => phase'[l] \in Ended \cup {phase[l]}]_vars
  BY <1>1
<1>3. WatchInv => TypeOK
  BY DEF WatchInv
<1> QED
  BY <1>2, <1>3, WatchInvCorrect, PTL DEF Spec, WatchEndsWithPage
=============================================================================
