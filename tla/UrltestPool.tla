---------------------------- MODULE UrltestPool -----------------------------
(***************************************************************************)
(* build_urltest_pool (engine/nodes.py): the servers of the automatic pool *)
(* are picked from the router's list, one at a time, by name, by protocol  *)
(* and by what the active core can run.  A server is its index in the      *)
(* list; its name is reduced to what the three regular expressions say of  *)
(* it, and its type and transport to its diversity bucket.                 *)
(***************************************************************************)
EXTENDS Naturals, Sequences, Functions

CONSTANTS
  Server,      \* the servers there can be: [bucket, ru, wl, best]
  Bucket,      \* the protocol buckets
  NoType,      \* the bucket of a server whose type is not set
  Bad,         \* the types the active core cannot run
  Preferred,   \* _PREFERRED_BUCKETS, in order of preference
  Weak,        \* _WEAK_BUCKETS
  Cap,         \* URLTEST_POOL_CAP
  WlCap,       \* wl_cap
  MaxServers   \* bound: the length of the list

ASSUME PoolAssumption ==
  /\ Server \subseteq [bucket : Bucket, ru : BOOLEAN, wl : BOOLEAN, best : BOOLEAN]
  /\ NoType \in Bucket /\ Bad \subseteq Bucket
  /\ Preferred \in Seq(Bucket) /\ Preferred # <<>>
  /\ \A i, j \in DOMAIN Preferred : Preferred[i] = Preferred[j] => i = j
  /\ Weak \in Seq(Bucket) /\ Weak # <<>>
  /\ Range(Preferred) \cap Range(Weak) = {}
  /\ NoType \notin Range(Preferred) \cup Range(Weak)
  /\ Cap \in Nat \ {0} /\ WlCap \in 1..Cap
  /\ MaxServers \in Nat

VARIABLES
  servers,    \* the list
  whitelist,  \* does the user want whitelist servers?
  stage,      \* the part of the function that runs
  order,      \* the buckets of the round robin, in order
  turn,       \* the bucket whose turn it is
  members     \* the pool: the servers picked, in order

poolVars == <<servers, whitelist, stage, order, turn, members>>
input == <<servers, whitelist>>

Robin == {"preferred", "rest"}
Stages == {"seed", "priority", "resort", "done"} \cup Robin

PoolTypeOK ==
  /\ servers \in Seq(Server)
  /\ whitelist \in BOOLEAN
  /\ stage \in Stages
  /\ order \in Seq(Bucket) /\ order # <<>>
  /\ turn \in DOMAIN order
  /\ members \in Seq(DOMAIN servers)

Picked == Range(members)

-----------------------------------------------------------------------------
(* Who is what.                                                             *)

\* Mutant: the core is not asked.
EligibleAnyCore(n) == n.bucket # NoType /\ ~n.ru

\* Servers the core cannot run, without a type, or in Russia never join.
Eligible(n) == n.bucket \notin Bad /\ n.bucket # NoType /\ ~n.ru

\* Whitelist servers are kept aside, ...
WlNodes == {i \in DOMAIN servers : Eligible(servers[i]) /\ servers[i].wl}
\* ... the provider's own best come next, ...
Priority == {i \in DOMAIN servers : Eligible(servers[i]) /\ ~servers[i].wl /\ servers[i].best}
\* ... the others wait in the bucket of their protocol.
InBucket(b) ==
  {i \in DOMAIN servers : Eligible(servers[i]) /\ ~servers[i].wl /\ ~servers[i].best /\ servers[i].bucket = b}

Waiting(b) == InBucket(b) \ Picked

\* The buckets nobody named, in the order of their first servers.
Other == {b \in Bucket \ (Range(Preferred) \cup Range(Weak)) : InBucket(b) # {}}

IsOtherOrder(s) ==
  /\ Range(s) = Other
  /\ \A i, j \in DOMAIN s :
       i < j => \E x \in InBucket(s[i]) : \A y \in InBucket(s[j]) : x < y

-----------------------------------------------------------------------------
(* The function, one pick at a time.                                        *)

PoolInit ==
  /\ servers \in UNION {[1..n -> Server] : n \in 0..MaxServers}
  /\ whitelist \in BOOLEAN
  /\ stage = "seed"
  /\ order = Preferred
  /\ turn = 1
  /\ members = <<>>

\* The first server of a set joins.
Pick(from) == \E i \in from : (\A j \in from : i <= j) /\ members' = Append(members, i)

MayJoin(from) == Len(members) < Cap /\ from \ Picked # {}

Seeding == whitelist /\ Len(members) < WlCap /\ WlNodes \ Picked # {}

\* pool.extend(wl_nodes[:wl_cap])
Seed ==
  /\ stage = "seed" /\ Seeding
  /\ Pick(WlNodes \ Picked)
  /\ UNCHANGED <<input, stage, order, turn>>

EndSeed ==
  /\ stage = "seed" /\ ~Seeding
  /\ stage' = "priority"
  /\ UNCHANGED <<input, order, turn, members>>

\* for n in priority: if len(pool) >= cap: break
Prioritise ==
  /\ stage = "priority" /\ MayJoin(Priority)
  /\ Pick(Priority \ Picked)
  /\ UNCHANGED <<input, stage, order, turn>>

EndPriority ==
  /\ stage = "priority" /\ ~MayJoin(Priority)
  /\ stage' = "preferred"
  /\ UNCHANGED <<input, order, turn, members>>

AnyWaiting == \E b \in Range(order) : Waiting(b) # {}

\* Mutant: the round robin empties a bucket before it goes on.
StayTurn == IF Waiting(order[turn]) # {} THEN turn ELSE IF turn = Len(order) THEN 1 ELSE turn + 1

\* Mutant: the turn stays where it is.
StuckTurn == turn

NextTurn == IF turn = Len(order) THEN 1 ELSE turn + 1

\* _round_robin: the bucket whose turn it is gives its first server, if it has one.
Deal ==
  /\ stage \in Robin /\ Len(members) < Cap /\ AnyWaiting
  /\ IF Waiting(order[turn]) # {} THEN Pick(Waiting(order[turn])) ELSE UNCHANGED members
  /\ turn' = NextTurn
  /\ UNCHANGED <<input, stage, order>>

\* Mutant: the weak buckets are dealt only.
RestWeak == stage' = "rest" /\ order' = Weak /\ turn' = 1

\* A second round robin, over the other buckets and the weak ones.
Rest ==
  /\ stage' = "rest"
  /\ turn' = 1
  /\ \E n \in 0..Len(servers) : \E s \in [1..n -> Other] : IsOtherOrder(s) /\ order' = s \o Weak

\* Mutant: whitelist servers fill what is left of the pool.
EndRobinFill ==
  stage' = (IF ~whitelist THEN "resort" ELSE "done") /\ UNCHANGED <<order, turn>>

\* Whitelist servers are the last resort of an empty pool.
EndRobin ==
  stage' = (IF ~whitelist /\ members = <<>> THEN "resort" ELSE "done") /\ UNCHANGED <<order, turn>>

EndDeal ==
  /\ stage \in Robin /\ ~(Len(members) < Cap /\ AnyWaiting)
  /\ IF stage = "preferred" /\ Len(members) < Cap THEN Rest ELSE EndRobin
  /\ UNCHANGED <<input, members>>

Resort ==
  /\ stage = "resort" /\ MayJoin(WlNodes)
  /\ Pick(WlNodes \ Picked)
  /\ UNCHANGED <<input, stage, order, turn>>

EndResort ==
  /\ stage = "resort" /\ ~MayJoin(WlNodes)
  /\ stage' = "done"
  /\ UNCHANGED <<input, order, turn, members>>

PoolNext ==
  \/ Seed \/ EndSeed \/ Prioritise \/ EndPriority \/ Deal \/ EndDeal \/ Resort \/ EndResort

\* A function runs until it returns.
PoolSpec == PoolInit /\ [][PoolNext]_poolVars /\ WF_poolVars(PoolNext)

-----------------------------------------------------------------------------
(* Properties *)

\* "One incompatible node FATALs the whole config", and a Russian exit bypasses
\* no Russian block: neither is ever in the pool, which stays small and has no
\* server twice.
PoolSound ==
  /\ Len(members) <= Cap
  /\ \A i \in Picked : servers[i].bucket \notin Bad \cup {NoType} /\ ~servers[i].ru
  /\ \A p, q \in DOMAIN members : members[p] = members[q] => p = q

\* The spread over protocols: a preferred bucket gets its next server only after
\* every other one that still has servers got one in between.
Diverse ==
  \A b, c \in Range(Preferred) : \A p, q \in DOMAIN members :
    /\ p < q /\ {members[p], members[q]} \subseteq InBucket(b)
    /\ \A r \in p..q : members[r] \notin InBucket(c)
    => Waiting(c) = {}

\* Who comes before whom: the provider's best before the buckets, the preferred
\* buckets before the rest, and (unless the user asked for them) whitelist
\* servers only where there is no other.
Precedence ==
  /\ \A i \in Picked, b \in Bucket : i \in InBucket(b) =>
       /\ Priority \subseteq Picked
       /\ b \notin Range(Preferred) => \A c \in Range(Preferred) : Waiting(c) = {}
  /\ ~whitelist /\ WlNodes \cap Picked # {} => Priority \cup UNION {InBucket(b) : b \in Bucket} = {}

\* has_usable of pool_failure_kind
HasUsable == \E i \in DOMAIN servers : Eligible(servers[i])

\* The pool is complete: a server that could be in it is left out only when it
\* is full, and it is empty ("a dead outbound") only when pool_failure_kind can
\* say that no server is usable.
Complete ==
  stage = "done" =>
    /\ Len(members) < Cap => Priority \cup UNION {InBucket(b) : b \in Bucket} \subseteq Picked
    /\ members = <<>> <=> ~HasUsable

\* The round robin ends: no bucket order makes it turn for ever.
Terminates == <>(stage = "done")
=============================================================================
