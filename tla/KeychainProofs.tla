--------------------------- MODULE KeychainProofs ---------------------------
(***************************************************************************)
(* Proofs about Keychain, for any hosts, threads, key pairs and bounds on  *)
(* jobs and on failing accesses: every reachable state is well-typed, the  *)
(* cache is current, a fresh reader finds an entry changed only by who     *)
(* stores or forgets it, and the identity is of one pair.                  *)
(***************************************************************************)
EXTENDS Keychain, FiniteSetTheorems, SequenceTheorems, TLAPS

LEMMA Names ==
  /\ Priv \in Item /\ Pub \in Item /\ Priv # Pub
  /\ \A h : Pin(h) \notin Halves /\ Pw(h) \notin Halves
  /\ Accepted \notin Halves
  BY DEF Halves, Item, Global, Priv, Pub, Pin, Pw, Accepted

LEMMA Marks ==
  /\ OldPair # None /\ OldPair \in Pair /\ None \notin Pair
  /\ OldPub # None /\ OldPub \notin Pair
  /\ Tk \in Thread /\ \A w \in Worker : w \in Thread /\ w # Tk
  BY KeychainAssumption DEF KeychainAssumption, Value, Thread

\* What the entries hold; None, Unread and Denied are no values.
LEMMA KeptIn ==
  /\ Kept(Priv) = Pair /\ Kept(Pub) = Pair \cup {OldPub} /\ Kept(Accepted) = {Secret}
  /\ \A h \in Host : /\ Pin(h) \in Item /\ Kept(Pin(h)) = Fp
                     /\ Pw(h) \in Item /\ Kept(Pw(h)) = {Secret}
  /\ Priv \in Item /\ Pub \in Item /\ Accepted \in Item
  BY DEF Kept, Item, Global, Priv, Pub, Pin, Pw, Accepted

LEMMA RelabelledIn ==
  \A v \in Kept(Pub) \cup {None} : /\ Relabelled(v) \in Pair \cup {None}
                                   /\ v # None => Relabelled(v) \in Pair
                                   /\ v \in Pair \cup {None} => Relabelled(v) = v
                                   /\ v = OldPub => Relabelled(v) = OldPair
  BY KeptIn, Marks DEF Relabelled

LEMMA Unmarked == \A i : None \notin Kept(i) /\ Unread \notin Kept(i) /\ Denied \notin Kept(i)
  BY KeychainAssumption DEF KeychainAssumption, Value, Kept

-----------------------------------------------------------------------------
(* The inductive invariant of the types.                                   *)

JobRecord == [kind : Kind, at : At, host : Host \cup {None}, port : Port \cup {None},
              priv : Pair \cup {None}, pub : Pair \cup {None}, pin : Fp \cup {None}, fp : Fp \cup {None},
              todo : Seq(Item), typed : BOOLEAN, home : BOOLEAN]

\* A job at its place has what that place uses.
Placed(j) ==
  /\ j.kind = "connect" => j.host \in Host /\ j.port \in Port
  /\ j.kind = "setup" => j.host \in Host /\ j.fp \in Fp
  /\ j.at \in {"storepw", "setpin", "read", "revoke"} => j.host \in Host
  /\ j.at \in {"trust", "mismatch", "done", "setpin"} => j.fp \in Fp
  /\ j.at \in {"pub", "label"} => j.kind \in {"tk", "connect"}
  /\ j.at \in {"priv", "pair", "relabel", "make", "makepub", "done"} => j.kind \in {"connect", "setup"}
  /\ j.at \in {"pin", "dial", "trust", "mismatch"} => j.kind = "connect"
  /\ j.at = "install" => j.kind = "setup"
  /\ j.at \in {"label", "relabel", "install"} => j.pub \in Pair
  /\ j.at = "makepub" => j.priv \in Pair

Jobs == job \in [Thread -> JobRecord] /\ \A t \in Thread : Placed(job[t])

\* An access is one of a job that makes it.
Active(j) == j.at \in ReadingAt \cup WritingAt \/ (j.at = "drop" /\ j.todo # <<>>)
Going(j, a) ==
  \/ a = NoAccess
  \/ /\ Active(j)
     /\ a \in [at : AccessAt, val : Kept(Entry(j)) \cup {None}]
     /\ a.at \in {"old", "copy", "delete", "return"} => j.at \in ReadingAt
     /\ a.at \in {"copy", "delete", "cache"} => a.val \in Kept(Entry(j))
     /\ a.at = "cache" => j.at \in WritingAt
     /\ a.at = "erase" => j.at = "drop"
Accesses == DOMAIN access = Thread /\ \A t \in Thread : Going(job[t], access[t])

KeychainShape == DOMAIN store = Item /\ DOMAIN legacy = Item /\ DOMAIN cache = Item
Entries ==
  /\ KeychainShape
  /\ \A i \in Item : /\ store[i] \in Kept(i) \cup {None}
                     /\ legacy[i] \in Kept(i) \cup {None}
                     /\ cache[i] \in Kept(i) \cup {None, Unread, Denied}
  /\ crossed \subseteq Item
  /\ faults \in 0..MaxFaults

\* The list of the routers is a finite one.
Routers ==
  /\ registry \subseteq Host \X Port /\ IsFiniteSet(registry)
  /\ box \in [Host -> Box]
  /\ session \in [host : Host, fp : Fp] \cup {None}

TypeInv == Entries /\ Accesses /\ Jobs /\ Routers /\ begun \in 0..MaxJobs /\ torn \in BOOLEAN

-----------------------------------------------------------------------------
(* Jobs and their accesses.                                                *)

\* The entry a job is at is one, and it writes what is kept there.
LEMMA EntryIn ==
  ASSUME NEW j \in JobRecord, Placed(j), Active(j)
  PROVE  Entry(j) \in Item
<1>1. CASE j.at = "drop"
  <2>1. j.todo \in Seq(Item) /\ j.todo # <<>> /\ Entry(j) = j.todo[1]
    BY <1>1 DEF JobRecord, Active, Entry, ReadingAt, WritingAt
  <2>2. QED
    BY <2>1
<1>2. CASE j.at \in ReadingAt \cup WritingAt
  <2>1. j.at \in {"pin", "trust", "setpin", "read", "storepw"} => j.host \in Host
    BY DEF Placed
  <2>2. QED
    BY <1>2, <2>1, KeptIn DEF ReadingAt, WritingAt, Entry
<1>3. QED
  BY <1>1, <1>2 DEF Active

LEMMA WrittenIn ==
  ASSUME NEW j \in JobRecord, Placed(j), j.at \in WritingAt
  PROVE  Written(j) \subseteq Kept(Entry(j))
<1>1. /\ j.at \in {"trust", "setpin"} => j.host \in Host /\ j.fp \in Fp
      /\ j.at = "storepw" => j.host \in Host
      /\ j.at \in {"label", "relabel"} => j.pub \in Pair
      /\ j.at = "makepub" => j.priv \in Pair
      /\ NewPair \subseteq Pair
  BY DEF Placed, NewPair
<1>2. CASE j.at \in {"label", "relabel"}
  BY <1>1, <1>2, KeptIn DEF Written, Entry
<1>3. CASE j.at = "make"
  BY <1>1, <1>3, KeptIn DEF Written, Entry
<1>4. CASE j.at = "makepub"
  BY <1>1, <1>4, KeptIn DEF Written, Entry
<1>5. CASE j.at \in {"trust", "setpin"}
  BY <1>1, <1>5, KeptIn DEF Written, Entry
<1>6. CASE j.at \in {"storepw", "agree"}
  BY <1>1, <1>6, KeptIn DEF Written, Entry
<1>7. QED
  BY <1>2, <1>3, <1>4, <1>5, <1>6 DEF WritingAt

LEMMA Typed ==
  ASSUME TypeInv, NEW t \in Thread
  PROVE  /\ job[t] \in JobRecord /\ Placed(job[t]) /\ Going(job[t], access[t])
         /\ Active(job[t]) => Entry(job[t]) \in Item
  BY EntryIn DEF TypeInv, Jobs, Accesses

LEMMA NotAt == "no" \notin AccessAt /\ NoAccess.at = "no" /\ NoAccess.val = None
  BY DEF AccessAt, NoAccess

\* What an access is at says what its job is at.
LEMMA GoingAt ==
  ASSUME NEW j, NEW a, Going(j, a)
  PROVE  /\ a.at = "no" <=> a = NoAccess
         /\ a # NoAccess => Active(j) /\ a.at \in AccessAt
         /\ a.at \in {"old", "copy", "delete", "return"} => j.at \in ReadingAt
         /\ a.at = "cache" => j.at \in WritingAt
         /\ a.at = "erase" => j.at = "drop" /\ j.todo # <<>>
  BY NotAt DEF Going, Active, ReadingAt, WritingAt

LEMMA Resting ==
  ASSUME TypeInv, NEW t \in Thread, ~Active(job[t])
  PROVE  access[t] = NoAccess
  BY Typed, GoingAt

\* The steps of another thread leave a thread's access and its entry alone.
Alone(u) ==
  /\ access'[u] = access[u]
  /\ \/ /\ job'[u].at = job[u].at /\ job'[u].todo = job[u].todo /\ job'[u].priv = job[u].priv
        /\ Entry(job'[u]) = Entry(job[u])
     \/ access[u] = NoAccess /\ job[u].at # "makepub" /\ job'[u].at # "makepub"

LEMMA AloneGoing ==
  ASSUME TypeInv, NEW u \in Thread, Alone(u)
  PROVE  Going(job'[u], access'[u])
  BY Typed DEF Alone, Going, Active

LEMMA SameAlone ==
  ASSUME NEW u, access'[u] = access[u], job'[u] = job[u]
  PROVE  Alone(u)
  BY DEF Alone

-----------------------------------------------------------------------------
(* The last step of an access, with which its job goes on.                 *)

Finds(t) ==
  /\ job[t].at \in ReadingAt
  /\ Refused(t, Entry(job[t])) \/ \E v : Got(t, Entry(job[t]), v)
Stores(t) == job[t].at \in WritingAt /\ Put(t, Entry(job[t]))
Fails(t) == job[t].at \in WritingAt /\ PutFails(t)
Forgets(t) == job[t].at = "drop" /\ job[t].todo # <<>> /\ Drop(t, Entry(job[t])) /\ Tear(t)
Idle(t) == ~Active(job[t]) /\ UNCHANGED <<keychain, faults>>
Ends(t) == Finds(t) \/ Stores(t) \/ Fails(t) \/ Forgets(t) \/ Idle(t)

\* The whole step of the thread: who comes to the public half has stored the private one.
OwnStep(t) ==
  /\ Ends(t)
  /\ \A u \in Thread \ {t} : Alone(u)
  /\ torn => torn'
  /\ job'[t].at = "makepub" => job[t].at = "make" /\ access[t].at = "cache" /\ job'[t].priv = access[t].val
  /\ HalfStored(t) => torn' \/ job'[t].at = "makepub"

LEMMA EndsAccess ==
  ASSUME TypeInv, NEW t \in Thread, Ends(t)
  PROVE  /\ DOMAIN access' = Thread /\ access'[t] = NoAccess
         /\ \A u \in Thread \ {t} : access'[u] = access[u]
<1>1. DOMAIN access = Thread /\ (access[t].at = "no" => access[t] = NoAccess)
  BY Typed, GoingAt DEF TypeInv, Accesses
<1>2. CASE Over(t)
  BY <1>1, <1>2 DEF Over
<1>3. CASE UNCHANGED access /\ access[t].at = "no"
  BY <1>1, <1>3
<1>4. CASE Idle(t)
  BY <1>1, <1>4, Resting DEF Idle, keychain
<1>5. CASE ~Idle(t)
  <2>1. Over(t) \/ (UNCHANGED access /\ access[t].at = "no")
    BY <1>5 DEF Ends, Finds, Stores, Fails, Forgets, Got, Refused, Put, PutFails, Drop
  <2>2. QED
    BY <1>2, <1>3, <2>1
<1>6. QED
  BY <1>4, <1>5

LEMMA CrossIn ==
  ASSUME crossed \subseteq Item, NEW i \in Item, NEW t, NEW ats, Cross(t, i, ats)
  PROVE  crossed' \subseteq Item
  BY DEF Cross

LEMMA FaultsIn == ASSUME faults \in 0..MaxFaults, Sound \/ Faulty PROVE faults' \in 0..MaxFaults
  BY KeychainAssumption DEF KeychainAssumption, Sound, Faulty

\* The entries after it hold what is kept there; what was found is of its kind.
LEMMA GotTypes ==
  ASSUME TypeInv, NEW t \in Thread, Active(job[t]), NEW v, Got(t, Entry(job[t]), v)
  PROVE  Entries' /\ v \in Kept(Entry(job[t])) \cup {None}
<1> DEFINE i == Entry(job[t])
<1>1. i \in Item /\ Entries /\ Going(job[t], access[t])
  BY Typed DEF TypeInv
<1>2. UNCHANGED <<store, legacy, faults>>
  BY DEF Got
<1>3. CASE /\ access[t].at = "no" /\ cache[i] \notin {Unread, Denied} /\ v = cache[i]
           /\ UNCHANGED <<cache, access, crossed>>
  BY <1>1, <1>2, <1>3 DEF Entries, KeychainShape
<1>4. CASE access[t].at = "return" /\ v = access[t].val /\ cache' = [cache EXCEPT ![i] = v]
           /\ Cross(t, i, {"cache", "erase"})
  <2>1. v \in Kept(i) \cup {None}
    BY <1>1, <1>4, NotAt DEF Going
  <2>2. crossed' \subseteq Item
    BY <1>1, <1>4, CrossIn DEF Entries
  <2> HIDE DEF i
  <2>3. QED
    BY <1>1, <1>2, <1>4, <2>1, <2>2 DEF Entries, KeychainShape, i
<1>5. QED
  BY <1>3, <1>4 DEF Got

LEMMA RefusedTypes ==
  ASSUME TypeInv, NEW t \in Thread, Active(job[t]), Refused(t, Entry(job[t]))
  PROVE  Entries'
<1> DEFINE i == Entry(job[t])
<1>1. i \in Item /\ Entries
  BY Typed DEF TypeInv
<1>2. UNCHANGED <<store, legacy, crossed>> /\ cache' \in {cache, [cache EXCEPT ![i] = Denied]}
  BY DEF Refused
<1>3. faults' \in 0..MaxFaults
  BY <1>1, FaultsIn DEF Refused, Sound, Entries
<1> HIDE DEF i
<1>4. QED
  BY <1>1, <1>2, <1>3 DEF Entries, KeychainShape

LEMMA StoresTypes ==
  ASSUME TypeInv, NEW t \in Thread, Stores(t)
  PROVE  Entries' /\ access[t].val \in Kept(Entry(job[t]))
<1> DEFINE i == Entry(job[t])
           v == access[t].val
<1>1. i \in Item /\ Entries /\ Going(job[t], access[t]) /\ access[t].at = "cache"
  BY Typed DEF TypeInv, Stores, Put, Active
<1>2. v \in Kept(i)
  BY <1>1, NotAt DEF Going
<1>3. UNCHANGED <<store, legacy, faults>> /\ cache' = [cache EXCEPT ![i] = v] /\ crossed' \subseteq Item
  BY <1>1, CrossIn DEF Stores, Put, Entries
<1> HIDE DEF i, v
<1>4. Entries'
  BY <1>1, <1>2, <1>3 DEF Entries, KeychainShape
<1>5. QED
  BY <1>2, <1>4 DEF i, v

LEMMA FailsTypes == ASSUME TypeInv, NEW t \in Thread, Fails(t) PROVE Entries'
  BY FaultsIn DEF TypeInv, Fails, PutFails, Entries, KeychainShape

LEMMA ForgetsTypes == ASSUME TypeInv, NEW t \in Thread, Forgets(t) PROVE Entries'
<1> DEFINE i == Entry(job[t])
<1>1. i \in Item /\ Entries
  BY Typed DEF TypeInv, Forgets, Active
<1>2. UNCHANGED <<legacy, cache>> /\ store' \in {store, [store EXCEPT ![i] = None]} /\ crossed' \subseteq Item
  BY <1>1, CrossIn DEF Forgets, Drop, Entries
<1>3. faults' \in 0..MaxFaults
  BY <1>1, FaultsIn DEF Forgets, Drop, Entries
<1> HIDE DEF i
<1>4. QED
  BY <1>1, <1>2, <1>3 DEF Entries, KeychainShape

LEMMA EntriesStay == ASSUME Entries, UNCHANGED <<keychain, faults>> PROVE Entries'
  BY DEF Entries, KeychainShape, keychain

LEMMA EndsTypes == ASSUME TypeInv, NEW t \in Thread, Ends(t) PROVE Entries'
<1>1. CASE Finds(t)
  BY <1>1, GotTypes, RefusedTypes DEF Finds, Active
<1>2. CASE Idle(t)
  BY <1>2, EntriesStay DEF Idle, TypeInv
<1>3. QED
  BY <1>1, <1>2, StoresTypes, FailsTypes, ForgetsTypes DEF Ends

-----------------------------------------------------------------------------
(* The other steps of an access: its job stays where it is.                *)

LEMMA GoesOn ==
  ASSUME TypeInv, NEW t \in Thread, NEW at \in AccessAt, NEW v \in Kept(Entry(job[t])) \cup {None},
         Active(job[t]), Goes(t, at, v), UNCHANGED job,
         at \in {"old", "copy", "delete", "return"} => job[t].at \in ReadingAt,
         at \in {"copy", "delete", "cache"} => v # None,
         at = "cache" => job[t].at \in WritingAt,
         at = "erase" => job[t].at = "drop"
  PROVE  /\ Accesses'
         /\ access'[t].at = at /\ access'[t].val = v
         /\ \A u \in Thread \ {t} : Alone(u)
<1> DEFINE a == [at |-> at, val |-> v]
<1>1. Going(job[t], a) /\ a.at = at /\ a.val = v
  BY DEF Going
<1>2. access' = [access EXCEPT ![t] = a] /\ DOMAIN access = Thread
  BY DEF Goes, TypeInv, Accesses
<1> HIDE DEF a
<1>3. access'[t] = a /\ \A u \in Thread \ {t} : access'[u] = access[u]
  BY <1>2
<1>4. \A u \in Thread : Going(job'[u], access'[u])
  BY <1>1, <1>3, Typed
<1>5. QED
  BY <1>1, <1>2, <1>3, <1>4, SameAlone DEF Accesses

\* What an engine step leaves alone.
LEMMA EngineTypes ==
  ASSUME TypeInv, Entries', Accesses', UNCHANGED <<registry, box, session, job, begun>>, torn' \in BOOLEAN
  PROVE  TypeInv'
  BY DEF TypeInv, Jobs, Routers

\* One step within _kr_get.
LEMMA FetchTypes ==
  ASSUME TypeInv, NEW t \in Thread, Fetch(t), UNCHANGED session
  PROVE  TypeInv' /\ \A u \in Thread \ {t} : Alone(u)
<1> DEFINE i == Entry(job[t])
<1>1. /\ job[t].at \in ReadingAt /\ Active(job[t]) /\ UNCHANGED <<cache, registry, box, job, begun, torn>>
      /\ AskNew(t, i) \/ AskOld(t, i) \/ Copy(t, i) \/ Delete(t, i)
  BY DEF Fetch, Active
<1>2. i \in Item /\ Entries /\ Going(job[t], access[t]) /\ torn' \in BOOLEAN
  BY <1>1, Typed DEF TypeInv
<1>3. store[i] \in Kept(i) \cup {None} /\ legacy[i] \in Kept(i) \cup {None}
  BY <1>2 DEF Entries
<1>4. access[t].at \in {"copy", "delete"} => access[t].val \in Kept(i) /\ access[t].val # None
  BY <1>2, NotAt, Unmarked DEF Going
<1>5. {"old", "copy", "delete", "return"} \subseteq AccessAt
  BY DEF AccessAt
<1>6. ASSUME NEW at \in {"old", "copy", "delete", "return"}, NEW v \in Kept(i) \cup {None}, Goes(t, at, v),
             at \in {"copy", "delete"} => v # None
      PROVE  Accesses' /\ \A u \in Thread \ {t} : Alone(u)
  BY <1>1, <1>5, <1>6, GoesOn
<1>7. CASE AskNew(t, i)
  <2>1. UNCHANGED <<store, legacy, crossed, faults>>
    BY <1>7 DEF AskNew, Sound
  <2>2. Accesses' /\ \A u \in Thread \ {t} : Alone(u)
    BY <1>3, <1>6, <1>7 DEF AskNew
  <2>3. Entries'
    BY <1>1, <1>2, <2>1 DEF Entries, KeychainShape
  <2>4. QED
    BY <1>1, <1>2, <2>2, <2>3, EngineTypes
<1>8. CASE AskOld(t, i)
  <2>1. UNCHANGED <<store, legacy, crossed, faults>>
    BY <1>8 DEF AskOld, Sound
  <2>2. Accesses' /\ \A u \in Thread \ {t} : Alone(u)
    BY <1>3, <1>6, <1>8 DEF AskOld
  <2>3. Entries'
    BY <1>1, <1>2, <2>1 DEF Entries, KeychainShape
  <2>4. QED
    BY <1>1, <1>2, <2>2, <2>3, EngineTypes
<1> DEFINE v == access[t].val
<1>9. CASE Copy(t, i)
  <2>1. v \in Kept(i) /\ v # None
    BY <1>4, <1>9 DEF Copy
  <2>2. Accesses' /\ \A u \in Thread \ {t} : Alone(u)
    BY <1>6, <1>9, <2>1 DEF Copy
  <2>3. UNCHANGED <<legacy, crossed>> /\ store' \in {store, [store EXCEPT ![i] = v]}
    BY <1>9 DEF Copy
  <2>4. faults' \in 0..MaxFaults
    BY <1>2, <1>9, FaultsIn DEF Copy, Entries
  <2> HIDE DEF i, v
  <2>5. Entries'
    BY <1>1, <1>2, <2>1, <2>3, <2>4 DEF Entries, KeychainShape
  <2>6. QED
    BY <1>1, <1>2, <2>2, <2>5, EngineTypes
<1>10. CASE Delete(t, i)
  <2>1. v \in Kept(i) /\ v # None
    BY <1>4, <1>10 DEF Delete
  <2>2. Accesses' /\ \A u \in Thread \ {t} : Alone(u)
    BY <1>6, <1>10, <2>1 DEF Delete
  <2>3. /\ UNCHANGED store /\ legacy' \in {legacy, [legacy EXCEPT ![i] = None]}
        /\ crossed' \subseteq Item
    BY <1>2, <1>10, CrossIn DEF Delete, Entries
  <2>4. faults' \in 0..MaxFaults
    BY <1>2, <1>10, FaultsIn DEF Delete, Entries
  <2> HIDE DEF i, v
  <2>5. Entries'
    BY <1>1, <1>2, <2>1, <2>3, <2>4 DEF Entries, KeychainShape
  <2>6. QED
    BY <1>1, <1>2, <2>2, <2>5, EngineTypes
<1>11. QED
  BY <1>1, <1>7, <1>8, <1>9, <1>10

LEMMA TearGrows == ASSUME TypeInv, NEW t \in Thread, Tear(t) PROVE torn' \in BOOLEAN /\ (torn => torn')
  BY DEF Tear, TypeInv

\* What is stored by one step, the value in it.
LEMMA WriteTypes ==
  ASSUME TypeInv, NEW t \in Thread, Write(t), UNCHANGED session
  PROVE  /\ TypeInv' /\ \A u \in Thread \ {t} : Alone(u)
         /\ access[t] = NoAccess /\ access'[t].at = "cache" /\ access'[t].val # None
         /\ access'[t].val \in Written(job[t])
         /\ store' = [store EXCEPT ![Entry(job[t])] = access'[t].val]
<1> DEFINE i == Entry(job[t])
<1>1. /\ job[t].at \in WritingAt /\ Active(job[t]) /\ access[t].at = "no"
      /\ UNCHANGED <<legacy, cache, registry, box, job, begun>> /\ Tear(t) /\ Sound
  BY DEF Write, Active
<1>2. i \in Item /\ Entries /\ access[t] = NoAccess /\ torn' \in BOOLEAN /\ faults' \in 0..MaxFaults
  BY <1>1, Typed, GoingAt, TearGrows, FaultsIn DEF TypeInv, Entries
<1>3. PICK v \in Written(job[t]) :
        /\ store' = [store EXCEPT ![i] = v]
        /\ Goes(t, "cache", v)
        /\ Cross(t, i, AccessAt)
  BY DEF Write
<1>4. v \in Kept(i) /\ v # None
  BY <1>1, Typed, WrittenIn, Unmarked
<1>5. "cache" \in AccessAt
  BY DEF AccessAt
<1>6. Accesses' /\ access'[t].at = "cache" /\ access'[t].val = v /\ \A u \in Thread \ {t} : Alone(u)
  BY <1>1, <1>3, <1>4, <1>5, GoesOn
<1>7. crossed' \subseteq Item
  BY <1>2, <1>3, CrossIn DEF Entries
<1>8. Entries'
  <2> HIDE DEF i
  <2>1. QED
    BY <1>1, <1>2, <1>3, <1>4, <1>7 DEF Entries, KeychainShape
<1>9. QED
  BY <1>1, <1>2, <1>3, <1>4, <1>6, <1>8, EngineTypes

LEMMA PopTypes ==
  ASSUME TypeInv, NEW t \in Thread, Pop(t), UNCHANGED session
  PROVE  TypeInv' /\ access'[t].at = "erase" /\ \A u \in Thread \ {t} : Alone(u)
<1> DEFINE i == Entry(job[t])
<1>1. /\ job[t].at = "drop" /\ Active(job[t]) /\ Goes(t, "erase", None) /\ cache' = [cache EXCEPT ![i] = Unread]
      /\ UNCHANGED <<store, legacy, crossed, registry, box, job, begun, faults, torn>>
  BY DEF Pop, Is, Active
<1>2. i \in Item /\ Entries /\ torn' \in BOOLEAN
  BY <1>1, Typed DEF TypeInv
<1>3. "erase" \in AccessAt
  BY DEF AccessAt
<1>4. Accesses' /\ access'[t].at = "erase" /\ \A u \in Thread \ {t} : Alone(u)
  BY <1>1, <1>3, GoesOn
<1>5. Entries'
  <2> HIDE DEF i
  <2>1. QED
    BY <1>1, <1>2 DEF Entries, KeychainShape
<1>6. QED
  BY <1>1, <1>2, <1>4, <1>5, EngineTypes

-----------------------------------------------------------------------------
(* A thread goes on with another job.                                      *)

LEMMA NothingPlaced ==
  /\ Nothing \in JobRecord /\ Placed(Nothing) /\ Nothing.kind = "none" /\ Nothing.at = "idle"
  /\ ~Active(Nothing)
  BY DEF Nothing, JobRecord, Placed, Kind, At, Active, ReadingAt, WritingAt

LEMMA JobMoves ==
  ASSUME Jobs, NEW t \in Thread, NEW j \in JobRecord, Placed(j), job' = [job EXCEPT ![t] = j]
  PROVE  Jobs' /\ job'[t] = j /\ \A u \in Thread \ {t} : job'[u] = job[u]
  BY DEF Jobs

LEMMA AccessesAfter ==
  ASSUME TypeInv, NEW t \in Thread, Ends(t), \A u \in Thread \ {t} : Alone(u)
  PROVE  Accesses'
<1>1. DOMAIN access' = Thread /\ access'[t] = NoAccess
  BY EndsAccess
<1>2. \A u \in Thread \ {t} : Going(job'[u], access'[u])
  BY AloneGoing
<1>3. Going(job'[t], access'[t])
  BY <1>1 DEF Going
<1>4. QED
  BY <1>1, <1>2, <1>3 DEF Accesses

\* Where the two halves of a new pair are.
LEMMA HalfAt == ASSUME NEW t, HalfStored(t) PROVE job[t].at \in {"make", "makepub"}
  BY DEF HalfStored, Is

\* An access ends, and with it a step of its job that ends up in j.
LEMMA Advance ==
  ASSUME TypeInv, NEW t \in Thread, Ends(t), UNCHANGED begun, Routers',
         torn' \in BOOLEAN, torn => torn',
         NEW j \in JobRecord, Placed(j), j.at # "makepub", job' = [job EXCEPT ![t] = j],
         HalfStored(t) => torn'
  PROVE  TypeInv' /\ OwnStep(t)
<1>1. Jobs' /\ job'[t] = j /\ \A u \in Thread \ {t} : job'[u] = job[u]
  BY JobMoves DEF TypeInv
<1>2. \A u \in Thread \ {t} : Alone(u)
  BY <1>1, EndsAccess, SameAlone
<1>3. Accesses' /\ Entries'
  BY <1>2, AccessesAfter, EndsTypes
<1>4. QED
  BY <1>1, <1>2, <1>3 DEF TypeInv, OwnStep

\* The same for a step that ends the job, or moves it.
LEMMA RoutersStay == ASSUME TypeInv, UNCHANGED <<registry, box, session>> PROVE Routers'
  BY DEF TypeInv, Routers

\* The fields of a job that goes on.
Same(j, k) ==
  /\ k.kind = j.kind /\ k.host = j.host /\ k.port = j.port /\ k.priv = j.priv /\ k.pub = j.pub /\ k.fp = j.fp
LEMMA AtMoves ==
  ASSUME NEW j \in JobRecord, NEW at \in At
  PROVE  LET k == [j EXCEPT !.at = at] IN k \in JobRecord /\ k.at = at /\ Same(j, k)
  BY DEF JobRecord, Same

LEMMA EndMoves ==
  ASSUME TypeInv, NEW t \in Thread, Ends(t), UNCHANGED begun, Routers',
         torn' \in BOOLEAN, torn => torn', HalfStored(t) => torn', End(t)
  PROVE  TypeInv' /\ OwnStep(t)
  BY NothingPlaced, Advance DEF End

LEMMA GoMoves ==
  ASSUME TypeInv, NEW t \in Thread, Ends(t), UNCHANGED begun, Routers',
         torn' \in BOOLEAN, torn => torn', HalfStored(t) => torn',
         NEW at \in At, at # "makepub", Go(t, at), Placed([job[t] EXCEPT !.at = at])
  PROVE  TypeInv' /\ OwnStep(t)
<1>1. job[t] \in JobRecord
  BY Typed
<1>2. job' = [job EXCEPT ![t] = [job[t] EXCEPT !.at = at]]
  BY DEF Go
<1> DEFINE k == [job[t] EXCEPT !.at = at]
<1>3. k \in JobRecord /\ k.at = at /\ Placed(k) /\ job' = [job EXCEPT ![t] = k]
  BY <1>1, <1>2, AtMoves
<1> HIDE DEF k
<1>4. QED
  BY <1>3, Advance

-----------------------------------------------------------------------------
(* The steps of a thread.                                                  *)

LEMMA AfterPubTypes ==
  ASSUME NEW j \in JobRecord, Placed(j), j.kind \in {"tk", "connect"}
  PROVE  AfterPub(j) \in JobRecord /\ Placed(AfterPub(j)) /\ AfterPub(j).at # "makepub"
<1>1. CASE j.kind = "tk"
  BY <1>1, NothingPlaced DEF AfterPub
<1>2. CASE j.kind = "connect"
  <2> DEFINE at == IF j.pub = None THEN "pin" ELSE "priv"
  <2>1. AfterPub(j) = [j EXCEPT !.at = at]
    BY <1>2 DEF AfterPub
  <2>2. at \in At /\ at \in {"pin", "priv"}
    BY DEF At
  <2> HIDE DEF at
  <2>3. [j EXCEPT !.at = at] \in JobRecord /\ Placed([j EXCEPT !.at = at]) /\ [j EXCEPT !.at = at].at # "makepub"
    BY <1>2, <2>2, AtMoves DEF Placed, Same
  <2>4. QED
    BY <2>1, <2>3
<1>3. QED
  BY <1>1, <1>2

LEMMA ReadPubStep ==
  ASSUME TypeInv, NEW t \in Thread, ReadPub(t), UNCHANGED session PROVE TypeInv' /\ OwnStep(t)
<1> DEFINE k(v) == [job[t] EXCEPT !.pub = Relabelled(v)]
<1>1. PICK v \in Kept(Pub) \cup {None} :
        /\ Got(t, Pub, v) \/ (Refused(t, Pub) /\ v = None)
        /\ job' = [job EXCEPT ![t] = IF v = OldPub THEN [k(v) EXCEPT !.at = "label"] ELSE AfterPub(k(v))]
  BY DEF ReadPub
<1>2. /\ UNCHANGED <<registry, box, begun, torn>> /\ job[t].at = "pub" /\ Entry(job[t]) = Pub
      /\ job[t] \in JobRecord /\ Placed(job[t]) /\ torn \in BOOLEAN /\ Routers'
  BY Typed, RoutersStay DEF ReadPub, Is, Entry, TypeInv
<1>3. Ends(t)
  BY <1>1, <1>2 DEF Ends, Finds, ReadingAt
<1> DEFINE l == [k(v) EXCEPT !.at = "label"]
<1>4. Relabelled(v) \in Pair \cup {None} /\ (v = OldPub => Relabelled(v) \in Pair)
  BY RelabelledIn, Marks
<1>5. k(v) \in JobRecord /\ Placed(k(v)) /\ k(v).kind \in {"tk", "connect"}
  BY <1>2, <1>4 DEF JobRecord, Placed
<1>6. v = OldPub => l \in JobRecord /\ Placed(l) /\ l.at # "makepub"
  BY <1>2, <1>4 DEF JobRecord, Placed, At
<1>7. job' = [job EXCEPT ![t] = IF v = OldPub THEN l ELSE AfterPub(k(v))]
  BY <1>1
<1> HIDE DEF k, l
<1>8. AfterPub(k(v)) \in JobRecord /\ Placed(AfterPub(k(v))) /\ AfterPub(k(v)).at # "makepub"
  BY <1>5, AfterPubTypes
<1>9. CASE v = OldPub
  BY <1>2, <1>3, <1>6, <1>7, <1>9, HalfAt, Advance
<1>10. CASE v # OldPub
  BY <1>2, <1>3, <1>7, <1>8, <1>10, HalfAt, Advance
<1>11. QED
  BY <1>9, <1>10

\* With its identity a job is where its kind goes on.
LEMMA ReadyAt ==
  ASSUME NEW t \in Thread, job[t].kind \in {"connect", "setup"}
  PROVE  Ready(t) \in At /\ \/ Ready(t) = "pin" /\ job[t].kind = "connect"
                            \/ Ready(t) = "install" /\ job[t].kind = "setup"
  BY DEF Ready, At

LEMMA RelabelStep ==
  ASSUME TypeInv, NEW t \in Thread, Relabel(t), UNCHANGED session PROVE TypeInv' /\ OwnStep(t)
<1>1. /\ UNCHANGED <<registry, box, begun, torn>> /\ job[t].at \in {"label", "relabel"} /\ Entry(job[t]) = Pub
      /\ job[t] \in JobRecord /\ Placed(job[t]) /\ torn \in BOOLEAN /\ Routers' /\ job[t].pub \in Pair
  BY Typed, RoutersStay DEF Relabel, Is, Entry, TypeInv, Placed
<1>2. Ends(t)
  BY <1>1 DEF Relabel, Ends, Stores, Fails, WritingAt
<1>3. CASE job[t].at = "label"
  <2>1. job' = [job EXCEPT ![t] = AfterPub(job[t])] /\ job[t].kind \in {"tk", "connect"}
    BY <1>1, <1>3 DEF Relabel, Is, Placed
  <2>2. QED
    BY <1>1, <1>2, <1>3, <2>1, AfterPubTypes, HalfAt, Advance
<1>4. CASE job[t].at = "relabel"
  <2>1. Go(t, Ready(t)) /\ job[t].kind \in {"connect", "setup"}
    BY <1>1, <1>4 DEF Relabel, Is, Placed
  <2>2. Placed([job[t] EXCEPT !.at = Ready(t)]) /\ Ready(t) # "makepub"
    BY <1>1, <2>1, ReadyAt, AtMoves DEF Placed, Same
  <2>3. QED
    BY <1>1, <1>2, <1>4, <2>1, <2>2, ReadyAt, HalfAt, GoMoves
<1>5. QED
  BY <1>1, <1>3, <1>4

LEMMA ReadPrivStep ==
  ASSUME TypeInv, NEW t \in Thread, ReadPriv(t), UNCHANGED session PROVE TypeInv' /\ OwnStep(t)
<1>1. /\ UNCHANGED <<registry, box, begun, torn>> /\ job[t].at = "priv" /\ Entry(job[t]) = Priv
      /\ job[t] \in JobRecord /\ Placed(job[t]) /\ torn \in BOOLEAN /\ Routers'
  BY Typed, RoutersStay DEF ReadPriv, Is, Entry, TypeInv
<1>2. Ends(t)
  BY <1>1 DEF ReadPriv, Ends, Finds, ReadingAt
<1>3. CASE End(t)
  BY <1>1, <1>2, <1>3, HalfAt, EndMoves
<1>4. ASSUME NEW v \in Pair \cup {None}, job' = [job EXCEPT ![t].at = "pair", ![t].priv = v]
      PROVE  TypeInv' /\ OwnStep(t)
  <2> DEFINE k == [job[t] EXCEPT !.at = "pair", !.priv = v]
  <2>1. k \in JobRecord /\ Placed(k) /\ k.at # "makepub"
    BY <1>1 DEF JobRecord, Placed, At
  <2>2. job' = [job EXCEPT ![t] = k]
    BY <1>1, <1>4 DEF TypeInv, Jobs
  <2> HIDE DEF k
  <2>3. QED
    BY <1>1, <1>2, <2>1, <2>2, HalfAt, Advance
<1>5. QED
  BY <1>3, <1>4 DEF ReadPriv

LEMMA ReadPairStep ==
  ASSUME TypeInv, NEW t \in Thread, ReadPair(t), UNCHANGED session PROVE TypeInv' /\ OwnStep(t)
<1>1. /\ UNCHANGED <<registry, box, begun, torn>> /\ job[t].at = "pair" /\ Entry(job[t]) = Pub
      /\ job[t] \in JobRecord /\ Placed(job[t]) /\ torn \in BOOLEAN /\ Routers'
      /\ job[t].kind \in {"connect", "setup"}
  BY Typed, RoutersStay DEF ReadPair, Is, Entry, TypeInv, Placed
<1>2. Ends(t)
  BY <1>1 DEF ReadPair, Ends, Finds, ReadingAt
<1>3. CASE End(t)
  BY <1>1, <1>2, <1>3, HalfAt, EndMoves
<1>4. ASSUME NEW v \in Kept(Pub) \cup {None},
             job' = [job EXCEPT ![t].at = IF Lacks(job[t].priv, v) THEN "make"
                                          ELSE IF v = OldPub THEN "relabel" ELSE Ready(t),
                                ![t].pub = Relabelled(v)]
      PROVE  TypeInv' /\ OwnStep(t)
  <2> DEFINE at == IF Lacks(job[t].priv, v) THEN "make" ELSE IF v = OldPub THEN "relabel" ELSE Ready(t)
             p == Relabelled(v)
             k == [job[t] EXCEPT !.at = at, !.pub = p]
  <2>1. /\ at \in At /\ p \in Pair \cup {None}
        /\ \/ at = "make"
           \/ at = "relabel" /\ p \in Pair
           \/ at = "pin" /\ job[t].kind = "connect"
           \/ at = "install" /\ job[t].kind = "setup" /\ p \in Pair
    BY <1>1, ReadyAt, RelabelledIn DEF Lacks, At
  <2>2. job' = [job EXCEPT ![t] = k]
    BY <1>1, <1>4 DEF TypeInv, Jobs
  <2> HIDE DEF at, p
  <2>3. k \in JobRecord /\ Placed(k) /\ k.at # "makepub"
    BY <1>1, <2>1 DEF JobRecord, Placed
  <2> HIDE DEF k
  <2>4. QED
    BY <1>1, <1>2, <2>2, <2>3, HalfAt, Advance
<1>5. QED
  BY <1>3, <1>4 DEF ReadPair

\* The one step to the public half.
LEMMA MakePrivStep ==
  ASSUME TypeInv, NEW t \in Thread, MakePriv(t), UNCHANGED session PROVE TypeInv' /\ OwnStep(t)
<1>1. /\ UNCHANGED <<registry, box, begun, torn>> /\ job[t].at = "make" /\ Entry(job[t]) = Priv
      /\ job[t] \in JobRecord /\ Placed(job[t]) /\ torn \in BOOLEAN /\ Routers'
  BY Typed, RoutersStay DEF MakePriv, Is, Entry, TypeInv
<1>2. CASE PutFails(t) /\ End(t)
  <2>1. Ends(t) /\ ~HalfStored(t)
    BY <1>1, <1>2 DEF Ends, Fails, WritingAt, HalfStored, Is, PutFails
  <2>2. QED
    BY <1>1, <1>2, <2>1, EndMoves
<1>3. CASE Put(t, Priv) /\ job' = [job EXCEPT ![t].at = "makepub", ![t].priv = access[t].val]
  <2> DEFINE p == access[t].val
             k == [job[t] EXCEPT !.at = "makepub", !.priv = p]
  <2>1. Stores(t) /\ Ends(t) /\ access[t].at = "cache"
    BY <1>1, <1>3 DEF Ends, Stores, WritingAt, Put
  <2>2. p \in Pair
    BY <1>1, <2>1, StoresTypes, KeptIn
  <2>3. job' = [job EXCEPT ![t] = k]
    BY <1>1, <1>3 DEF TypeInv, Jobs
  <2> HIDE DEF p
  <2>4. k \in JobRecord /\ Placed(k) /\ k.at = "makepub" /\ k.priv = p
    BY <1>1, <2>2 DEF JobRecord, Placed, At
  <2> HIDE DEF k
  <2>5. Jobs' /\ job'[t] = k /\ \A u \in Thread \ {t} : job'[u] = job[u]
    BY <2>3, <2>4, JobMoves DEF TypeInv
  <2>6. \A u \in Thread \ {t} : Alone(u)
    BY <2>1, <2>5, EndsAccess, SameAlone
  <2>7. Accesses' /\ Entries'
    BY <1>1, <2>1, <2>6, AccessesAfter, EndsTypes
  <2>8. OwnStep(t)
    BY <1>1, <2>1, <2>4, <2>5, <2>6 DEF OwnStep, p
  <2>9. QED
    BY <1>1, <2>5, <2>7, <2>8 DEF TypeInv
<1>4. QED
  BY <1>2, <1>3 DEF MakePriv

LEMMA MakePubStep ==
  ASSUME TypeInv, NEW t \in Thread, MakePub(t), UNCHANGED session PROVE TypeInv' /\ OwnStep(t)
<1>1. /\ UNCHANGED <<registry, box, begun>> /\ job[t].at = "makepub" /\ Entry(job[t]) = Pub
      /\ job[t] \in JobRecord /\ Placed(job[t]) /\ torn \in BOOLEAN /\ Routers'
      /\ job[t].kind \in {"connect", "setup"} /\ job[t].priv \in Pair
  BY Typed, RoutersStay DEF MakePub, Is, Entry, TypeInv, Placed
<1>2. CASE PutFails(t) /\ End(t) /\ torn' = TRUE
  <2>1. Ends(t)
    BY <1>1, <1>2 DEF Ends, Fails, WritingAt
  <2>2. QED
    BY <1>1, <1>2, <2>1, EndMoves
<1>3. CASE Put(t, Pub) /\ job' = [job EXCEPT ![t].at = Ready(t), ![t].pub = job[t].priv] /\ UNCHANGED torn
  <2>1. Ends(t) /\ ~HalfStored(t)
    BY <1>1, <1>3 DEF Ends, Stores, WritingAt, HalfStored, Is, Put
  <2> DEFINE k == [job[t] EXCEPT !.at = Ready(t), !.pub = job[t].priv]
  <2>2. k \in JobRecord /\ Placed(k) /\ k.at # "makepub"
    BY <1>1, ReadyAt DEF JobRecord, Placed
  <2>3. job' = [job EXCEPT ![t] = k]
    BY <1>1, <1>3 DEF TypeInv, Jobs
  <2> HIDE DEF k
  <2>4. QED
    BY <1>1, <1>3, <2>1, <2>2, <2>3, Advance
<1>4. QED
  BY <1>2, <1>3 DEF MakePub

LEMMA ReadPinStep ==
  ASSUME TypeInv, NEW t \in Thread, ReadPin(t), UNCHANGED session PROVE TypeInv' /\ OwnStep(t)
<1>1. /\ UNCHANGED <<registry, box, begun, torn>> /\ job[t].at = "pin" /\ Entry(job[t]) = Pin(job[t].host)
      /\ job[t] \in JobRecord /\ Placed(job[t]) /\ torn \in BOOLEAN /\ Routers'
  BY Typed, RoutersStay DEF ReadPin, Is, Entry, TypeInv
<1>2. Ends(t)
  BY <1>1 DEF ReadPin, Ends, Finds, ReadingAt
<1>3. PICK v \in Fp \cup {None} : job' = [job EXCEPT ![t].at = "dial", ![t].pin = v]
  BY DEF ReadPin
<1> DEFINE k == [job[t] EXCEPT !.at = "dial", !.pin = v]
<1>4. k \in JobRecord /\ Placed(k) /\ k.at # "makepub"
  BY <1>1 DEF JobRecord, Placed, At
<1>5. job' = [job EXCEPT ![t] = k]
  BY <1>1, <1>3 DEF TypeInv, Jobs
<1> HIDE DEF k
<1>6. QED
  BY <1>1, <1>2, <1>4, <1>5, HalfAt, Advance

\* A step that is at no entry.
LEMMA IdleEnds ==
  ASSUME NEW t \in Thread, ~Active(job[t]), UNCHANGED <<keychain, faults>>
  PROVE  Ends(t)
  BY DEF Ends, Idle

LEMMA DialStep ==
  ASSUME TypeInv, NEW t \in Thread, Dial(t), UNCHANGED session PROVE TypeInv' /\ OwnStep(t)
<1>1. /\ UNCHANGED <<keychain, registry, box, begun, faults, torn>> /\ job[t].at = "dial" /\ ~Active(job[t])
      /\ job[t] \in JobRecord /\ Placed(job[t]) /\ torn \in BOOLEAN /\ Routers'
      /\ job[t].host \in Host /\ job[t].kind = "connect"
  BY Typed, RoutersStay DEF Dial, Is, TypeInv, Placed, Active, ReadingAt, WritingAt
<1>2. Ends(t)
  BY <1>1, IdleEnds DEF keychain
<1> DEFINE fp == box[job[t].host].fp
           k == [job[t] EXCEPT !.at = "mismatch", !.fp = fp]
           l == [job[t] EXCEPT !.at = IF job[t].pin = None THEN "trust" ELSE "done", !.fp = fp]
<1>3. fp \in Fp
  BY <1>1 DEF TypeInv, Routers, Box
<1>4. \/ job' = [job EXCEPT ![t] = Nothing] \/ job' = [job EXCEPT ![t] = k] \/ job' = [job EXCEPT ![t] = l]
  BY <1>1 DEF Dial, End, TypeInv, Jobs
<1> HIDE DEF fp
<1>5. k \in JobRecord /\ Placed(k) /\ k.at # "makepub"
  BY <1>1, <1>3 DEF JobRecord, Placed, At
<1>6. l \in JobRecord /\ Placed(l) /\ l.at # "makepub"
  BY <1>1, <1>3 DEF JobRecord, Placed, At
<1> HIDE DEF k, l
<1>7. PICK j \in {Nothing, k, l} : job' = [job EXCEPT ![t] = j]
  BY <1>4
<1>8. j \in JobRecord /\ Placed(j) /\ j.at # "makepub"
  BY <1>5, <1>6, NothingPlaced
<1>9. QED
  BY <1>1, <1>2, <1>7, <1>8, HalfAt, Advance

LEMMA PinFirstStep ==
  ASSUME TypeInv, NEW t \in Thread, PinFirst(t), UNCHANGED session PROVE TypeInv' /\ OwnStep(t)
<1>1. /\ UNCHANGED <<registry, box, begun, torn>> /\ job[t].at = "trust" /\ Entry(job[t]) = Pin(job[t].host)
      /\ job[t] \in JobRecord /\ Placed(job[t]) /\ torn \in BOOLEAN /\ Routers'
      /\ job[t].host \in Host /\ job[t].kind = "connect" /\ job[t].fp \in Fp
  BY Typed, RoutersStay DEF PinFirst, Is, Entry, TypeInv, Placed
<1>2. Ends(t) /\ Go(t, "done")
  BY <1>1 DEF PinFirst, Ends, Stores, Fails, WritingAt
<1>3. "done" \in At
  BY DEF At
<1>4. Placed([job[t] EXCEPT !.at = "done"])
  BY <1>1, <1>3, AtMoves DEF Placed, Same
<1>5. QED
  BY <1>1, <1>2, <1>3, <1>4, HalfAt, GoMoves

LEMMA InstallKeyStep ==
  ASSUME TypeInv, NEW t \in Thread, InstallKey(t), UNCHANGED session PROVE TypeInv' /\ OwnStep(t)
<1>1. /\ UNCHANGED <<keychain, registry, begun, faults, torn>> /\ job[t].at = "install" /\ ~Active(job[t])
      /\ job[t] \in JobRecord /\ Placed(job[t]) /\ torn \in BOOLEAN /\ Routers
      /\ job[t].kind = "setup" /\ job[t].host \in Host /\ job[t].fp \in Fp /\ job[t].pub \in Pair
  BY Typed DEF InstallKey, Is, TypeInv, Placed, Active, ReadingAt, WritingAt
<1>2. Ends(t)
  BY <1>1, IdleEnds DEF keychain
<1>3. CASE End(t) /\ UNCHANGED box
  BY <1>1, <1>2, <1>3, RoutersStay, HalfAt, EndMoves
<1>4. CASE /\ box' = [box EXCEPT ![job[t].host].keys = @ \cup {job[t].pub}]
           /\ Go(t, IF job[t].typed THEN "storepw" ELSE "done")
  <2>1. Routers'
    BY <1>1, <1>4 DEF Routers, Box
  <2> DEFINE at == IF job[t].typed THEN "storepw" ELSE "done"
  <2>2. at \in At /\ at \in {"storepw", "done"} /\ Go(t, at)
    BY <1>4 DEF At
  <2> HIDE DEF at
  <2>3. Placed([job[t] EXCEPT !.at = at])
    BY <1>1, <2>2, AtMoves DEF Placed, Same
  <2>4. QED
    BY <1>1, <1>2, <2>1, <2>2, <2>3, HalfAt, GoMoves
<1>5. QED
  BY <1>3, <1>4 DEF InstallKey

LEMMA StorePasswordStep ==
  ASSUME TypeInv, NEW t \in Thread, StorePassword(t), UNCHANGED session PROVE TypeInv' /\ OwnStep(t)
<1>1. /\ UNCHANGED <<registry, box, begun, torn>> /\ job[t].at = "storepw" /\ Entry(job[t]) = Pw(job[t].host)
      /\ job[t] \in JobRecord /\ Placed(job[t]) /\ torn \in BOOLEAN /\ Routers'
      /\ job[t].host \in Host /\ (job[t].kind = "setup" => job[t].fp \in Fp)
  BY Typed, RoutersStay DEF StorePassword, Is, Entry, TypeInv, Placed
<1>2. Ends(t)
  BY <1>1 DEF StorePassword, Ends, Stores, Fails, WritingAt
<1>3. CASE job[t].kind = "setup"
  <2>1. "done" \in At
    BY DEF At
  <2>2. Placed([job[t] EXCEPT !.at = "done"])
    BY <1>1, <1>3, <2>1, AtMoves DEF Placed, Same
  <2>3. Go(t, "done")
    BY <1>3 DEF StorePassword
  <2>4. QED
    BY <1>1, <1>2, <2>1, <2>2, <2>3, HalfAt, GoMoves
<1>4. CASE End(t)
  BY <1>1, <1>2, <1>4, HalfAt, EndMoves
<1>5. QED
  BY <1>3, <1>4 DEF StorePassword

\* A job that begins.
LEMMA StartPlaced ==
  ASSUME NEW kind \in Kind, NEW at \in At, NEW h \in Host \cup {None}
  PROVE  LET j == Start(kind, at, h) IN
         /\ j \in JobRecord /\ j.kind = kind /\ j.at = at /\ j.host = h
  BY NothingPlaced DEF Start, JobRecord

\* The connections that wait for the answer are tried again.
LEMMA SetPinStep ==
  ASSUME TypeInv, NEW t \in Thread, SetPin(t), UNCHANGED session PROVE TypeInv' /\ OwnStep(t)
<1>1. /\ UNCHANGED <<registry, box, begun, torn>> /\ job[t].at = "setpin" /\ Entry(job[t]) = Pin(job[t].host)
      /\ Jobs /\ torn \in BOOLEAN /\ Routers'
  BY RoutersStay DEF SetPin, Is, Entry, TypeInv
<1>2. Ends(t)
  BY <1>1 DEF SetPin, Ends, Stores, Fails, WritingAt
<1> DEFINE again(j) == [Start("connect", "pub", j.host) EXCEPT !.port = j.port, !.typed = j.typed, !.home = TRUE]
<1>3. ASSUME NEW j \in JobRecord, Placed(j), j.at = "mismatch"
      PROVE  again(j) \in JobRecord /\ Placed(again(j)) /\ again(j).at # "makepub"
  <2>1. j.host \in Host /\ j.port \in Port /\ j.typed \in BOOLEAN
    BY <1>3 DEF Placed, JobRecord
  <2>2. "connect" \in Kind /\ "pub" \in At
    BY DEF Kind, At
  <2> DEFINE s == Start("connect", "pub", j.host)
             k == [s EXCEPT !.port = j.port, !.typed = j.typed, !.home = TRUE]
  <2>3. s \in JobRecord /\ s.kind = "connect" /\ s.at = "pub" /\ s.host = j.host
    BY <2>1, <2>2, StartPlaced
  <2> HIDE DEF s
  <2>4. k \in JobRecord /\ Placed(k) /\ k.at = "pub"
    BY <2>1, <2>3 DEF JobRecord, Placed
  <2>5. QED
    BY <2>4 DEF s
<1>4. job' = [u \in Thread |-> IF u = t THEN Nothing ELSE IF job[u].at = "mismatch" THEN again(job[u]) ELSE job[u]]
  BY DEF SetPin
<1> HIDE DEF again
<1>5. \A u \in Thread : job'[u] \in JobRecord /\ Placed(job'[u])
  BY <1>1, <1>3, <1>4, NothingPlaced DEF Jobs
<1>6. Jobs'
  BY <1>4, <1>5 DEF Jobs
<1>7. ASSUME NEW u \in Thread \ {t} PROVE Alone(u)
  <2>1. access'[u] = access[u]
    BY <1>2, EndsAccess
  <2>2. CASE job[u].at = "mismatch"
    <3>1. access[u] = NoAccess
      BY <2>2, Resting DEF Active, ReadingAt, WritingAt
    <3>2. job'[u].at # "makepub"
      BY <1>1, <1>3, <1>4, <2>2 DEF Jobs
    <3>3. QED
      BY <2>1, <2>2, <3>1, <3>2 DEF Alone
  <2>3. CASE job[u].at # "mismatch"
    BY <1>4, <2>1, <2>3, SameAlone
  <2>4. QED
    BY <2>2, <2>3
<1>8. Accesses' /\ Entries'
  BY <1>1, <1>2, <1>7, AccessesAfter, EndsTypes
<1>9. job'[t].at # "makepub" /\ ~HalfStored(t)
  BY <1>1, <1>4, NothingPlaced, HalfAt
<1>10. OwnStep(t)
  BY <1>1, <1>2, <1>7, <1>9 DEF OwnStep
<1>11. QED
  BY <1>1, <1>6, <1>8, <1>10 DEF TypeInv

\* A sequence of one.
LEMMA One == ASSUME NEW S, NEW x \in S PROVE <<x>> \in Seq(S)
  OBVIOUS

LEMMA RevokeStep ==
  ASSUME TypeInv, NEW t \in Thread, Revoke(t), UNCHANGED session PROVE TypeInv' /\ OwnStep(t)
<1>1. /\ UNCHANGED <<keychain, registry, begun, faults, torn>> /\ job[t].at = "revoke" /\ ~Active(job[t])
      /\ job[t] \in JobRecord /\ Placed(job[t]) /\ torn \in BOOLEAN /\ Routers /\ job[t].host \in Host
  BY Typed DEF Revoke, Is, TypeInv, Placed, Active, ReadingAt, WritingAt
<1>2. Ends(t)
  BY <1>1, IdleEnds DEF keychain
<1>3. box' = box \/ \E gone : box' = [box EXCEPT ![job[t].host].keys = @ \ gone]
  BY DEF Revoke
<1>4. Routers'
  <2>1. ASSUME NEW gone PROVE [box[job[t].host] EXCEPT !.keys = @ \ gone] \in Box
    BY <1>1 DEF Routers, Box
  <2>2. box' = box \/ \E b \in Box : box' = [box EXCEPT ![job[t].host] = b]
    BY <1>1, <1>3, <2>1 DEF Routers
  <2>3. QED
    BY <1>1, <2>2 DEF Routers
<1>5. CASE End(t)
  BY <1>1, <1>2, <1>4, <1>5, HalfAt, EndMoves
<1>6. CASE job' = [job EXCEPT ![t].at = "drop", ![t].todo = <<Pin(job[t].host)>>]
  <2> DEFINE todo == <<Pin(job[t].host)>>
             k == [job[t] EXCEPT !.at = "drop", !.todo = todo]
  <2>1. todo \in Seq(Item)
    BY <1>1, KeptIn, One
  <2>2. job' = [job EXCEPT ![t] = k]
    BY <1>1, <1>6 DEF TypeInv, Jobs
  <2> HIDE DEF todo
  <2>3. k \in JobRecord /\ Placed(k) /\ k.at # "makepub"
    BY <1>1, <2>1 DEF JobRecord, Placed, At
  <2> HIDE DEF k
  <2>4. QED
    BY <1>1, <1>2, <1>4, <2>2, <2>3, HalfAt, Advance
<1>7. QED
  BY <1>5, <1>6 DEF Revoke

LEMMA ForgetStep ==
  ASSUME TypeInv, NEW t \in Thread, Forget(t), UNCHANGED session PROVE TypeInv' /\ OwnStep(t)
<1>1. /\ UNCHANGED <<registry, box, begun>> /\ job[t].at = "drop" /\ Tear(t)
      /\ job[t] \in JobRecord /\ Placed(job[t]) /\ Routers'
      /\ Going(job[t], access[t]) /\ Drop(t, Entry(job[t]))
  BY Typed, RoutersStay DEF Forget, Is, TypeInv
<1>2. job[t].todo # <<>>
  BY <1>1, GoingAt DEF Drop
<1>3. job[t].todo \in Seq(Item)
  BY <1>1 DEF JobRecord
<1>4. Ends(t)
  BY <1>1, <1>2 DEF Ends, Forgets
<1>5. torn' \in BOOLEAN /\ (torn => torn')
  BY <1>1, TearGrows
<1> DEFINE rest == Tail(job[t].todo)
           k == [job[t] EXCEPT !.todo = rest]
<1>6. job' = [job EXCEPT ![t] = k]
  BY <1>1 DEF Forget, TypeInv, Jobs
<1>7. rest \in Seq(Item)
  BY <1>2, <1>3
<1> HIDE DEF rest
<1>8. k \in JobRecord /\ Placed(k) /\ k.at = "drop"
  BY <1>1, <1>7 DEF JobRecord, Placed
<1> HIDE DEF k
<1>9. QED
  BY <1>1, <1>4, <1>5, <1>6, <1>8, HalfAt, Advance

LEMMA ForgottenStep ==
  ASSUME TypeInv, NEW t \in Thread, Forgotten(t), UNCHANGED session PROVE TypeInv' /\ OwnStep(t)
<1>1. /\ UNCHANGED <<keychain, box, begun, faults, torn>> /\ End(t) /\ registry' \in {registry, {}}
      /\ job[t].at = "drop" /\ ~Active(job[t]) /\ torn \in BOOLEAN
  BY DEF Forgotten, Is, Active, ReadingAt, WritingAt, TypeInv
<1>2. Ends(t)
  BY <1>1, IdleEnds DEF keychain
<1>3. IsFiniteSet({})
  BY FS_EmptySet
<1>4. Routers'
  BY <1>1, <1>3 DEF TypeInv, Routers
<1>5. QED
  BY <1>1, <1>2, <1>4, HalfAt, EndMoves

LEMMA ReadPasswordStep ==
  ASSUME TypeInv, NEW t \in Thread, ReadPassword(t), UNCHANGED session PROVE TypeInv' /\ OwnStep(t)
<1>1. /\ UNCHANGED <<registry, box, begun, torn>> /\ End(t) /\ Routers' /\ torn \in BOOLEAN
      /\ job[t].at = "read" /\ Entry(job[t]) = Pw(job[t].host)
  BY RoutersStay DEF ReadPassword, Is, TypeInv, Entry
<1>2. Ends(t)
  BY <1>1 DEF ReadPassword, Ends, Finds, ReadingAt
<1>3. QED
  BY <1>1, <1>2, HalfAt, EndMoves

LEMMA ReadAcceptedStep ==
  ASSUME TypeInv, NEW t \in Thread, ReadAccepted(t), UNCHANGED session PROVE TypeInv' /\ OwnStep(t)
<1>1. /\ UNCHANGED <<registry, box, begun, torn>> /\ Routers' /\ torn \in BOOLEAN
      /\ job[t].at = "gate" /\ Entry(job[t]) = Accepted
      /\ job[t] \in JobRecord /\ Placed(job[t])
  BY Typed, RoutersStay DEF ReadAccepted, Is, TypeInv, Entry
<1>2. Ends(t)
  BY <1>1 DEF ReadAccepted, Ends, Finds, ReadingAt
<1>3. CASE End(t)
  BY <1>1, <1>2, <1>3, HalfAt, EndMoves
<1>4. CASE Go(t, "agree")
  <2>1. "agree" \in At
    BY DEF At
  <2>2. Placed([job[t] EXCEPT !.at = "agree"])
    BY <1>1, <2>1, AtMoves DEF Placed, Same
  <2>3. QED
    BY <1>1, <1>2, <1>4, <2>1, <2>2, HalfAt, GoMoves
<1>5. QED
  BY <1>3, <1>4 DEF ReadAccepted

LEMMA AgreeStep ==
  ASSUME TypeInv, NEW t \in Thread, Agree(t), UNCHANGED session PROVE TypeInv' /\ OwnStep(t)
<1>1. /\ UNCHANGED <<registry, box, begun, torn>> /\ End(t) /\ Routers' /\ torn \in BOOLEAN
      /\ job[t].at = "agree" /\ Entry(job[t]) = Accepted
  BY RoutersStay DEF Agree, Is, TypeInv, Entry
<1>2. Ends(t)
  BY <1>1 DEF Agree, Ends, Stores, Fails, WritingAt
<1>3. QED
  BY <1>1, <1>2, HalfAt, EndMoves

\* Every step of a thread.
LEMMA AccessStep ==
  ASSUME TypeInv, NEW t \in Thread, Access(t), UNCHANGED session
  PROVE  TypeInv' /\ (Fetch(t) \/ Write(t) \/ Pop(t) \/ OwnStep(t))
  BY FetchTypes, WriteTypes, PopTypes, ReadPubStep, RelabelStep, ReadPrivStep, ReadPairStep, MakePrivStep,
     MakePubStep, ReadPinStep, DialStep, PinFirstStep, InstallKeyStep, StorePasswordStep, SetPinStep, RevokeStep,
     ForgetStep, ForgottenStep, ReadPasswordStep, ReadAcceptedStep, AgreeStep DEF Access

-----------------------------------------------------------------------------
(* The user, the router and the process.                                   *)

\* Nobody's access, and no entry, is touched.
Aside == UNCHANGED <<keychain, faults, torn>> /\ \A u \in Thread : Alone(u)

LEMMA AsideTypes ==
  ASSUME TypeInv, Aside, Jobs', Routers', begun' \in 0..MaxJobs
  PROVE  TypeInv'
<1>1. Entries' /\ torn' \in BOOLEAN
  BY EntriesStay DEF Aside, TypeInv
<1>2. Accesses'
  BY AloneGoing DEF Aside, Accesses, TypeInv, keychain
<1>3. QED
  BY <1>1, <1>2 DEF TypeInv

\* A thread at no entry takes job j.
LEMMA Takes ==
  ASSUME TypeInv, NEW t \in Thread, ~Active(job[t]), NEW j \in JobRecord, Placed(j), j.at # "makepub",
         job' = [job EXCEPT ![t] = j], UNCHANGED <<keychain, faults, torn>>, Routers', begun' \in 0..MaxJobs
  PROVE  TypeInv' /\ Aside
<1>1. Jobs' /\ job'[t] = j /\ \A u \in Thread \ {t} : job'[u] = job[u]
  BY JobMoves DEF TypeInv
<1>2. access' = access /\ access[t] = NoAccess /\ job[t].at # "makepub"
  BY Resting DEF keychain, Active, WritingAt
<1>3. \A u \in Thread : Alone(u)
  BY <1>1, <1>2, SameAlone DEF Alone
<1>4. QED
  BY <1>1, <1>3, AsideTypes DEF Aside

LEMMA BeginTypes ==
  ASSUME TypeInv, NEW j \in JobRecord, Placed(j), j.at # "makepub", Begin(j), UNCHANGED session
  PROVE  TypeInv' /\ Aside
<1>1. PICK w \in Worker : job[w] = Nothing /\ job' = [job EXCEPT ![w] = [j EXCEPT !.home = TRUE]]
  BY DEF Begin
<1> DEFINE k == [j EXCEPT !.home = TRUE]
<1>2. k \in JobRecord /\ Placed(k) /\ k.at # "makepub"
  BY DEF JobRecord, Placed
<1>3. job' = [job EXCEPT ![w] = k]
  BY <1>1
<1> HIDE DEF k
<1>4. UNCHANGED <<keychain, registry, box, faults, torn>> /\ begun' \in 0..MaxJobs
  BY KeychainAssumption DEF KeychainAssumption, Begin, Counted, TypeInv
<1>5. QED
  BY <1>1, <1>2, <1>3, <1>4, Marks, NothingPlaced, RoutersStay, Takes

LEMMA TkTypes ==
  ASSUME TypeInv, NEW j \in JobRecord, Placed(j), j.at # "makepub", OnTk(j),
         UNCHANGED <<keychain, begun, faults, torn>>, Routers'
  PROVE  TypeInv' /\ Aside
  BY Marks, NothingPlaced, Takes DEF OnTk, Responsive, TypeInv

LEMMA DoConnectTypes == ASSUME TypeInv, DoConnect PROVE TypeInv' /\ Aside
<1>1. PICK h \in Host, p \in Port, typed \in BOOLEAN :
        Begin([Start("connect", "pub", h) EXCEPT !.port = p, !.typed = typed])
  BY DEF DoConnect
<1> DEFINE s == Start("connect", "pub", h)
           j == [s EXCEPT !.port = p, !.typed = typed]
<1>2. s \in JobRecord /\ s.kind = "connect" /\ s.at = "pub" /\ s.host = h
  BY StartPlaced DEF Kind, At
<1> HIDE DEF s
<1>3. j \in JobRecord /\ Placed(j) /\ j.at # "makepub"
  BY <1>2 DEF JobRecord, Placed
<1>4. Begin(j)
  BY <1>1 DEF s
<1> HIDE DEF j
<1>5. QED
  BY <1>3, <1>4, BeginTypes DEF DoConnect

LEMMA InSessionTypes == ASSUME TypeInv, InSession PROVE TypeInv' /\ Aside
<1>1. session.host \in Host /\ session.fp \in Fp /\ UNCHANGED session
  BY DEF InSession, TypeInv, Routers
<1>2. ASSUME NEW at \in {"priv", "storepw"}, NEW typed \in BOOLEAN,
             Begin([Start("setup", at, session.host) EXCEPT !.fp = session.fp, !.typed = typed])
      PROVE TypeInv' /\ Aside
  <2> DEFINE s == Start("setup", at, session.host)
             j == [s EXCEPT !.fp = session.fp, !.typed = typed]
  <2>1. s \in JobRecord /\ s.kind = "setup" /\ s.at = at /\ s.host = session.host
    BY <1>1, StartPlaced DEF Kind, At
  <2>2. Begin(j)
    BY <1>2
  <2> HIDE DEF s
  <2>3. j \in JobRecord /\ Placed(j) /\ j.at # "makepub"
    BY <1>1, <2>1 DEF JobRecord, Placed
  <2> HIDE DEF j
  <2>4. QED
    BY <1>1, <2>2, <2>3, BeginTypes
<1>3. CASE Begin(Start("password", "storepw", session.host))
  <2> DEFINE s == Start("password", "storepw", session.host)
  <2>1. s \in JobRecord /\ s.kind = "password" /\ s.at = "storepw" /\ s.host = session.host
    BY <1>1, StartPlaced DEF Kind, At
  <2>2. Begin(s)
    BY <1>3
  <2> HIDE DEF s
  <2>3. Placed(s)
    BY <1>1, <2>1 DEF Placed
  <2>4. QED
    BY <1>1, <2>1, <2>2, <2>3, BeginTypes
<1>4. ASSUME NEW key \in box[session.host].keys \cup {None},
             Begin([Start("revoke", "revoke", session.host) EXCEPT !.fp = session.fp, !.pub = key])
      PROVE TypeInv' /\ Aside
  <2> DEFINE s == Start("revoke", "revoke", session.host)
             j == [s EXCEPT !.fp = session.fp, !.pub = key]
  <2>1. s \in JobRecord /\ s.kind = "revoke" /\ s.at = "revoke" /\ s.host = session.host
    BY <1>1, StartPlaced DEF Kind, At
  <2>2. Begin(j)
    BY <1>4
  <2>3. key \in Pair \cup {None}
    BY <1>1 DEF TypeInv, Routers, Box
  <2> HIDE DEF s
  <2>4. j \in JobRecord /\ Placed(j) /\ j.at # "makepub"
    BY <1>1, <2>1, <2>3 DEF JobRecord, Placed
  <2> HIDE DEF j
  <2>5. QED
    BY <1>1, <2>2, <2>4, BeginTypes
<1>5. QED
  BY <1>2, <1>3, <1>4 DEF InSession

\* The entries to forget are entries, two for each router of the list.
LEMMA ResetListTypes ==
  ASSUME TypeInv, NEW order \in SetToSeqs(registry)
  PROVE  ResetList(order) \in Seq(Item)
<1> DEFINE n == Cardinality(registry)
<1>1. n \in Nat
  BY FS_CardinalityType DEF TypeInv, Routers
<1>2. order \in [1..n -> registry]
  BY DEF SetToSeqs
<1> HIDE DEF n
<1>3. order \in Seq(registry) /\ Len(order) = n
  BY <1>1, <1>2
<1>4. \A i \in 1..n : order[i][1] \in Host
  BY <1>2 DEF TypeInv, Routers
<1>5. \A i \in 1..2 * n : /\ i % 2 = 1 => (i + 1) \div 2 \in 1..n
                          /\ i % 2 # 1 => i \div 2 \in 1..n
  BY <1>1
<1> DEFINE secrets == [i \in 1..2 * Len(order) |-> IF i % 2 = 1 THEN Pw(order[(i + 1) \div 2][1]) ELSE Pin(order[i \div 2][1])]
<1>6. secrets \in Seq(Item)
  <2>1. \A i \in 1..2 * n : (IF i % 2 = 1 THEN Pw(order[(i + 1) \div 2][1]) ELSE Pin(order[i \div 2][1])) \in Item
    BY <1>4, <1>5, KeptIn
  <2>2. secrets \in [1..2 * n -> Item]
    BY <1>3, <2>1
  <2>3. 2 * n \in Nat
    BY <1>1
  <2> HIDE DEF secrets
  <2>4. QED
    BY <2>2, <2>3
<1>7. <<Priv, Pub, Accepted>> \in Seq(Item)
  BY KeptIn
<1>8. ResetList(order) = secrets \o <<Priv, Pub, Accepted>>
  BY DEF ResetList
<1> HIDE DEF secrets
<1>9. QED
  BY <1>6, <1>7, <1>8, ConcatProperties

LEMMA ResetTypes == ASSUME TypeInv, ResetAppData PROVE TypeInv' /\ Aside
<1>1. PICK order \in SetToSeqs(registry) : Begin([Start("reset", "drop", None) EXCEPT !.todo = ResetList(order)])
  BY DEF ResetAppData
<1> DEFINE s == Start("reset", "drop", None)
           todo == ResetList(order)
           j == [s EXCEPT !.todo = todo]
<1>2. s \in JobRecord /\ s.kind = "reset" /\ s.at = "drop"
  BY StartPlaced DEF Kind, At
<1>3. todo \in Seq(Item)
  BY ResetListTypes
<1>4. Begin(j)
  BY <1>1
<1> HIDE DEF s, todo
<1>5. j \in JobRecord /\ Placed(j) /\ j.at # "makepub"
  BY <1>2, <1>3 DEF JobRecord, Placed
<1> HIDE DEF j
<1>6. QED
  BY <1>4, <1>5, BeginTypes DEF ResetAppData

LEMMA LeaveTypes == ASSUME TypeInv, NEW w \in Worker, Leave(w) PROVE TypeInv' /\ Aside
<1>1. /\ w \in Thread /\ job[w] \in JobRecord /\ Placed(job[w]) /\ Jobs
      /\ UNCHANGED <<keychain, registry, box, session, begun, faults, torn>>
  BY Marks DEF TypeInv, Jobs, Leave
<1>2. Routers' /\ begun' \in 0..MaxJobs
  BY <1>1, RoutersStay DEF TypeInv
<1>3. CASE job' = [job EXCEPT ![w] = Nothing] /\ job[w].at = "mismatch"
  <2>1. ~Active(job[w])
    BY <1>3 DEF Active, ReadingAt, WritingAt
  <2>2. QED
    BY <1>1, <1>2, <1>3, <2>1, NothingPlaced, Takes
<1> DEFINE k == [job[w] EXCEPT !.home = FALSE]
<1>4. CASE job' = [job EXCEPT ![w] = k]
  <2>1. /\ k \in JobRecord /\ Placed(k)
        /\ k.at = job[w].at /\ k.todo = job[w].todo /\ k.priv = job[w].priv /\ k.host = job[w].host
    BY <1>1 DEF JobRecord, Placed
  <2> HIDE DEF k
  <2>2. Entry(k) = Entry(job[w])
    BY <2>1 DEF Entry
  <2>3. Jobs' /\ job'[w] = k /\ \A u \in Thread \ {w} : job'[u] = job[u]
    BY <1>1, <1>4, <2>1, JobMoves
  <2>4. access' = access
    BY <1>1 DEF keychain
  <2>5. \A u \in Thread : Alone(u)
    BY <2>1, <2>2, <2>3, <2>4, SameAlone DEF Alone
  <2>6. QED
    BY <1>1, <1>2, <2>3, <2>5, AsideTypes DEF Aside
<1>5. QED
  BY <1>1, <1>3, <1>4 DEF Leave

LEMMA AnswerTypes == ASSUME TypeInv, NEW w \in Worker, Answer(w) PROVE TypeInv' /\ Aside
<1>1. /\ w \in Thread /\ Tk \in Thread /\ w # Tk /\ job[w] \in JobRecord /\ Placed(job[w]) /\ Jobs
      /\ UNCHANGED <<keychain, box, begun, faults, torn>> /\ job[w].at = "done" /\ Routers
      /\ begun' \in 0..MaxJobs /\ ~Active(job[w])
  BY Marks DEF Answer, Is, TypeInv, Jobs, Active, ReadingAt, WritingAt
<1>2. job[w].host \in Host /\ job[w].fp \in Fp /\ (job[w].kind = "connect" => job[w].port \in Port)
  BY <1>1 DEF Placed
<1>3. CASE End(w) /\ UNCHANGED <<registry, session>>
  <2>1. Routers'
    BY <1>1, <1>3 DEF Routers
  <2>2. QED
    BY <1>1, <1>3, <2>1, NothingPlaced, Takes DEF End
<1>4. ASSUME NEW remember \in IF job[w].kind = "connect" THEN BOOLEAN ELSE {FALSE}, Responsive,
             registry' = IF remember THEN registry \cup {<<job[w].host, job[w].port>>} ELSE registry,
             job' = [job EXCEPT ![w] = Nothing,
                                ![Tk] = IF remember /\ job[w].typed THEN Start("tk", "storepw", job[w].host) ELSE Nothing],
             session' = [host |-> job[w].host, fp |-> job[w].fp]
      PROVE  TypeInv' /\ Aside
  <2> DEFINE s == Start("tk", "storepw", job[w].host)
             k == IF remember /\ job[w].typed THEN s ELSE Nothing
             first == [job EXCEPT ![w] = Nothing]
  <2>1. s \in JobRecord /\ s.kind = "tk" /\ s.at = "storepw" /\ s.host = job[w].host
    BY <1>2, StartPlaced DEF Kind, At
  <2>2. job' = [first EXCEPT ![Tk] = k]
    BY <1>4
  <2> HIDE DEF s
  <2>3. k \in JobRecord /\ Placed(k) /\ k.at # "makepub"
    <3>1. Placed(s)
      BY <1>2, <2>1 DEF Placed
    <3>2. QED
      BY <2>1, <3>1, NothingPlaced
  <2> HIDE DEF k
  <2>4. /\ first \in [Thread -> JobRecord] /\ \A t \in Thread : Placed(first[t])
        /\ first[w] = Nothing /\ \A t \in Thread \ {w} : first[t] = job[t]
    BY <1>1, NothingPlaced DEF Jobs
  <2> HIDE DEF first
  <2>5. Jobs' /\ job'[w] = Nothing /\ job'[Tk] = k /\ \A u \in Thread \ {w, Tk} : job'[u] = job[u]
    BY <1>1, <2>2, <2>3, <2>4 DEF Jobs
  <2>6. access' = access /\ access[w] = NoAccess /\ access[Tk] = NoAccess
    BY <1>1, <1>4, NothingPlaced, Resting DEF keychain, Responsive
  <2>7. \A u \in Thread : Alone(u)
    BY <1>1, <1>4, <2>3, <2>5, <2>6, NothingPlaced, SameAlone DEF Alone, Responsive
  <2>8. registry' \subseteq Host \X Port /\ IsFiniteSet(registry')
    <3>1. CASE remember
      <4>1. job[w].kind = "connect" /\ registry' = registry \cup {<<job[w].host, job[w].port>>}
        BY <1>4, <3>1
      <4>2. registry \subseteq Host \X Port /\ IsFiniteSet(registry)
        BY <1>1 DEF Routers
      <4>3. IsFiniteSet(registry \cup {<<job[w].host, job[w].port>>})
        BY <4>2, FS_AddElement
      <4>4. <<job[w].host, job[w].port>> \in Host \X Port
        BY <1>2, <4>1
      <4>5. QED
        BY <4>1, <4>2, <4>3, <4>4
    <3>2. CASE ~remember
      BY <1>1, <1>4, <3>2 DEF Routers
    <3>3. QED
      BY <3>1, <3>2
  <2>9. Routers'
    BY <1>1, <1>2, <1>4, <2>8 DEF Routers
  <2>10. QED
    BY <1>1, <2>5, <2>7, <2>9, AsideTypes DEF Aside
<1>5. QED
  BY <1>3, <1>4 DEF Answer

LEMMA MainThreadTypes == ASSUME TypeInv, MainThread PROVE TypeInv' /\ Aside
<1>1. UNCHANGED <<keychain, box, session, begun, faults, torn>> /\ Routers /\ Jobs
  BY DEF MainThread, TypeInv
<1>2. UNCHANGED registry => Routers'
  BY <1>1 DEF Routers
<1>3. ASSUME NEW w \in Worker, Is(w, "mismatch"), UNCHANGED registry,
             OnTk([Start("tk", "setpin", job[w].host) EXCEPT !.fp = job[w].fp])
      PROVE TypeInv' /\ Aside
  <2>1. job[w].host \in Host /\ job[w].fp \in Fp
    BY <1>1, <1>3, Marks DEF Jobs, Is, Placed
  <2> DEFINE s == Start("tk", "setpin", job[w].host)
             j == [s EXCEPT !.fp = job[w].fp]
  <2>2. s \in JobRecord /\ s.kind = "tk" /\ s.at = "setpin" /\ s.host = job[w].host
    BY <2>1, StartPlaced DEF Kind, At
  <2>3. OnTk(j)
    BY <1>3
  <2> HIDE DEF s
  <2>4. j \in JobRecord /\ Placed(j) /\ j.at # "makepub"
    BY <2>1, <2>2 DEF JobRecord, Placed
  <2> HIDE DEF j
  <2>5. QED
    BY <1>1, <1>2, <1>3, <2>3, <2>4, TkTypes
<1>4. ASSUME NEW at \in {"pub", "gate", "read"}, NEW h \in Host \cup {None}, at = "read" => h \in Host,
             OnTk(Start("tk", at, h)), UNCHANGED registry
      PROVE TypeInv' /\ Aside
  <2> DEFINE s == Start("tk", at, h)
  <2>1. s \in JobRecord /\ s.kind = "tk" /\ s.at = at /\ s.host = h
    BY StartPlaced DEF Kind, At
  <2>2. OnTk(s)
    BY <1>4
  <2> HIDE DEF s
  <2>3. Placed(s)
    BY <1>4, <2>1 DEF Placed
  <2>4. QED
    BY <1>1, <1>2, <1>4, <2>1, <2>2, <2>3, TkTypes
<1>5. ASSUME NEW r \in registry, registry' = registry \ {r},
             OnTk([Start("tk", "drop", r[1]) EXCEPT !.todo =
                     IF \E q \in registry' : q[1] = r[1] THEN <<>> ELSE <<Pw(r[1]), Pin(r[1])>>])
      PROVE TypeInv' /\ Aside
  <2>1. r[1] \in Host
    BY <1>1 DEF Routers
  <2> DEFINE s == Start("tk", "drop", r[1])
             todo == IF \E q \in registry' : q[1] = r[1] THEN <<>> ELSE <<Pw(r[1]), Pin(r[1])>>
             j == [s EXCEPT !.todo = todo]
  <2>2. s \in JobRecord /\ s.kind = "tk" /\ s.at = "drop"
    BY <2>1, StartPlaced DEF Kind, At
  <2>3. todo \in Seq(Item)
    BY <2>1, KeptIn
  <2>4. OnTk(j)
    BY <1>5
  <2> HIDE DEF s, todo
  <2>5. j \in JobRecord /\ Placed(j) /\ j.at # "makepub"
    BY <2>2, <2>3 DEF JobRecord, Placed
  <2> HIDE DEF j
  <2>6. Routers'
    BY <1>1, <1>5, FS_RemoveElement DEF Routers
  <2>7. QED
    BY <1>1, <2>4, <2>5, <2>6, TkTypes
<1>6. ASSUME NEW h \in {r[1] : r \in registry} \cup (IF session = None THEN {} ELSE {session.host}),
             OnTk(Start("tk", "read", h)), UNCHANGED registry
      PROVE TypeInv' /\ Aside
  <2>1. h \in Host
    BY <1>1, <1>6 DEF Routers
  <2>2. QED
    BY <1>4, <1>6, <2>1
<1>7. QED
  BY <1>3, <1>4, <1>5, <1>6 DEF MainThread

LEMMA FactoryResetTypes == ASSUME TypeInv, FactoryReset PROVE TypeInv' /\ Aside
<1>1. PICK h \in Host : box[h].fp + 1 \in Fp /\ box' = [box EXCEPT ![h] = [fp |-> @.fp + 1, keys |-> {}]]
  BY DEF FactoryReset
<1>2. UNCHANGED <<keychain, registry, session, job, faults, torn>> /\ begun' \in 0..MaxJobs
  BY KeychainAssumption DEF KeychainAssumption, FactoryReset, Counted, TypeInv
<1>3. [fp |-> box[h].fp + 1, keys |-> {}] \in Box
  BY <1>1 DEF Box
<1>4. Routers' /\ Jobs' /\ begun' \in 0..MaxJobs
  BY <1>1, <1>2, <1>3 DEF TypeInv, Routers, Jobs
<1>5. Aside
  BY <1>2, SameAlone DEF Aside, keychain
<1>6. QED
  BY <1>4, <1>5, AsideTypes

\* The main thread begins at the disclaimer.
LEMMA StartedJobs ==
  /\ Started \in [Thread -> JobRecord]
  /\ \A t \in Thread : Placed(Started[t]) /\ Started[t].at \in {"idle", "gate"}
<1> DEFINE gate == [Nothing EXCEPT !.kind = "tk", !.at = "gate"]
<1>1. gate \in JobRecord /\ Placed(gate) /\ gate.at = "gate"
  BY NothingPlaced DEF JobRecord, Placed, Kind, At
<1>2. Started = [t \in Thread |-> IF t = Tk THEN gate ELSE Nothing]
  BY DEF Started
<1> HIDE DEF gate
<1>3. QED
  BY <1>1, <1>2, NothingPlaced

LEMMA NoAccesses == ASSUME access = [t \in Thread |-> NoAccess] PROVE Accesses
  BY DEF Accesses, Going

LEMMA RestartTypes == ASSUME TypeInv, Restart PROVE TypeInv'
<1>1. /\ cache' = [i \in Item |-> Unread] /\ job' = Started /\ session' = None
      /\ access' = [t \in Thread |-> NoAccess] /\ crossed' = {}
      /\ UNCHANGED <<store, legacy, registry, box, begun, faults>>
  BY DEF Restart
<1>2. torn' \in BOOLEAN
  BY DEF Restart, TypeInv
<1>3. Jobs' /\ Accesses'
  BY <1>1, StartedJobs DEF Jobs, Accesses, Going
<1>4. Entries'
  BY <1>1 DEF TypeInv, Entries, KeychainShape
<1>5. QED
  BY <1>1, <1>2, <1>3, <1>4 DEF TypeInv, Routers

LEMMA InitTypes == Init => TypeInv
<1>1. SUFFICES ASSUME Init PROVE TypeInv
  OBVIOUS
<1>2. PICK known \in {hosts \in SUBSET Host : IsFiniteSet(hosts)}, pub \in {OldPair, OldPub}, renamed \in BOOLEAN :
        /\ store = Remembered(IF renamed THEN {} ELSE known, pub)
        /\ legacy = Remembered(IF renamed THEN known ELSE {}, OldPub)
        /\ registry \in {known \X {p} : p \in Port}
        /\ box = [h \in Host |-> [fp |-> 1, keys |-> IF h \in known THEN {OldPair} ELSE {}]]
  BY <1>1 DEF Init
<1>3. 1 \in Fp /\ OldPair \in Pair /\ 0 \in 0..MaxJobs /\ 0 \in 0..MaxFaults
  BY KeychainAssumption DEF KeychainAssumption
<1>4. ASSUME NEW S, NEW v \in {OldPair, OldPub}
      PROVE  DOMAIN Remembered(S, v) = Item /\ \A i \in Item : Remembered(S, v)[i] \in Kept(i) \cup {None}
  <2>1. DOMAIN Remembered(S, v) = Item
    BY DEF Remembered
  <2>2. ASSUME NEW i \in Item PROVE Remembered(S, v)[i] \in Kept(i) \cup {None}
    <3>1. /\ i[1] = "pw" => i \notin {Priv, Pub}
          /\ Accepted[1] # "pin"
      BY DEF Priv, Pub, Accepted
    <3>2. QED
      BY <1>3, <3>1, KeptIn DEF Remembered, Kept
  <2>3. QED
    BY <2>1, <2>2
<1>5. Entries
  BY <1>1, <1>2, <1>3, <1>4 DEF Init, Entries, KeychainShape
<1>6. Jobs /\ Accesses
  BY <1>1, StartedJobs, NoAccesses DEF Init, Jobs
<1>7. Routers
  <2>1. PICK p \in Port : registry = known \X {p}
    BY <1>2
  <2>2. IsFiniteSet(known) /\ IsFiniteSet({p})
    BY FS_Singleton
  <2>3. IsFiniteSet(registry)
    BY <2>1, <2>2, FS_Product
  <2>4. box \in [Host -> Box]
    BY <1>2, <1>3 DEF Box
  <2>5. QED
    BY <1>1, <2>1, <2>3, <2>4 DEF Init, Routers
<1>8. QED
  BY <1>1, <1>3, <1>5, <1>6, <1>7 DEF Init, TypeInv

\* What of the user's, the router's and the process's is at no entry.
LEMMA UserAside ==
  ASSUME TypeInv,
         \/ \E w \in Worker : Leave(w) \/ Answer(w)
         \/ DoConnect \/ InSession \/ MainThread \/ ResetAppData \/ FactoryReset
  PROVE  TypeInv' /\ Aside
  BY LeaveTypes, AnswerTypes, DoConnectTypes, InSessionTypes, MainThreadTypes, ResetTypes, FactoryResetTypes

LEMMA NothingMoves == ASSUME TypeInv, UNCHANGED vars PROVE TypeInv' /\ Aside
<1>1. UNCHANGED <<keychain, registry, box, session, job, begun, faults, torn>>
  BY DEF vars
<1>2. Jobs' /\ Routers' /\ begun' \in 0..MaxJobs
  BY <1>1 DEF TypeInv, Jobs, Routers
<1>3. Aside
  BY <1>1, SameAlone DEF Aside, keychain
<1>4. QED
  BY <1>2, <1>3, AsideTypes

\* Every step is of a thread's, is nobody's, or is the restart.
LEMMA Steps ==
  ASSUME TypeInv, [Next]_vars
  PROVE  /\ TypeInv'
         /\ \/ \E t \in Thread : UNCHANGED session /\ (Fetch(t) \/ Write(t) \/ Pop(t) \/ OwnStep(t))
            \/ Aside
            \/ Restart
<1>1. CASE \E t \in Thread : Access(t) /\ UNCHANGED session
  BY <1>1, AccessStep
<1>2. CASE \/ \E w \in Worker : Leave(w) \/ Answer(w)
           \/ DoConnect \/ InSession \/ MainThread \/ ResetAppData \/ FactoryReset
  BY <1>2, UserAside
<1>3. CASE Restart
  BY <1>3, RestartTypes
<1>4. CASE UNCHANGED vars
  BY <1>4, NothingMoves
<1>5. QED
  BY <1>1, <1>2, <1>3, <1>4 DEF Next

LEMMA TypesAlways == Spec => []TypeInv
  BY InitTypes, Steps, PTL DEF Spec

\* Everything is of its type: each entry of the keychain, its copy under the old service name, the
\* cached one and what is on its way between them hold what is kept there, for any threads, jobs,
\* routers and failing accesses (secrets.py:196-399).
THEOREM TypeCorrect == Spec => []TypeOK
<1>1. TypeInv => TypeOK
  <2>1. SUFFICES ASSUME TypeInv PROVE TypeOK
    OBVIOUS
  <2>2. \A t \in Thread : \/ access[t] = NoAccess
                          \/ /\ job[t].at \in ReadingAt \cup WritingAt \cup {"drop"}
                             /\ access[t] \in [at : AccessAt, val : Kept(Entry(job[t])) \cup {None}]
    BY <2>1, Typed DEF Going, Active
  <2>3. QED
    BY <2>1, <2>2 DEF TypeInv, Entries, KeychainShape, Accesses, Jobs, JobRecord, Routers, TypeOK
<1>2. QED
  BY <1>1, TypesAlways, PTL

-----------------------------------------------------------------------------
(* The cache, and what a fresh reader finds.                               *)

\* A thread's access fits the entry, unless another thread was at it as well.
Fits(i, a) ==
  /\ a.at = "old" => store[i] \in {None, legacy[i]}
  /\ a.at = "copy" => a.val = legacy[i] /\ store[i] \in {None, a.val}
  /\ a.at \in {"delete", "cache"} => store[i] = a.val
  /\ a.at = "return" => a.val = Seen(i)
  /\ a.at = "erase" => cache[i] \in {Unread, Denied}
Followed == \A t \in Thread : Entry(job[t]) \in crossed \/ Fits(Entry(job[t]), access[t])
CacheInv == Followed /\ CacheCurrent


\* The entry's part of it, before a step.
LEMMA FitsAt ==
  ASSUME CacheInv, NEW u \in Thread, NEW i, Entry(job[u]) = i, i \notin crossed
  PROVE  Fits(i, access[u])
  BY DEF CacheInv, Followed

LEMMA GoesTo ==
  ASSUME TypeInv, NEW t \in Thread, NEW at, NEW v, Goes(t, at, v)
  PROVE  access'[t].at = at /\ access'[t].val = v
  BY DEF TypeInv, Accesses, Goes

LEMMA Crossing ==
  ASSUME NEW t, NEW i, NEW ats, Cross(t, i, ats)
  PROVE  /\ crossed \subseteq crossed'
         /\ \A u \in Thread \ {t} : access[u].at \in ats /\ Entry(job[u]) = i => i \in crossed'
  BY DEF Cross

\* A step of t at the entry i: what becomes of another thread's access.
LEMMA OthersFit ==
  ASSUME TypeInv, CacheInv, NEW t \in Thread, NEW u \in Thread \ {t}, Alone(u), crossed \subseteq crossed',
         NEW i,
         \A k \in Item : k # i => store'[k] = store[k] /\ legacy'[k] = legacy[k] /\ cache'[k] = cache[k],
         Entry(job[u]) = i /\ i \notin crossed' /\ access[u] # NoAccess => Fits(i, access[u])'
  PROVE  Entry(job'[u]) \in crossed' \/ Fits(Entry(job[u]), access[u])'
<1> DEFINE k == Entry(job[u])
<1>1. access'[u] = access[u]
  BY DEF Alone
<1>2. CASE access[u] = NoAccess
  BY <1>1, <1>2, NotAt DEF Fits, AccessAt
<1>3. CASE access[u] # NoAccess
  <2>1. Entry(job'[u]) = k /\ k \in Item
    BY <1>3, Typed, GoingAt DEF Alone
  <2>2. CASE k \in crossed
    BY <2>1, <2>2
  <2>3. CASE k # i /\ k \notin crossed
    <3>1. Fits(k, access[u])
      BY <2>3, FitsAt
    <3>2. store'[k] = store[k] /\ legacy'[k] = legacy[k] /\ cache'[k] = cache[k]
      BY <2>1, <2>3
    <3>3. Fits(Entry(job[u]), access[u])'
      BY <1>1, <2>1, <3>1, <3>2 DEF Fits, Seen
    <3>4. QED
      BY <3>3
  <2>4. CASE k = i
    BY <1>1, <1>3, <2>1, <2>4
  <2>5. QED
    BY <2>2, <2>3, <2>4
<1>4. QED
  BY <1>2, <1>3

\* A step of t at the entry i.
LEMMA CacheStep ==
  ASSUME TypeInv, CacheInv, NEW t \in Thread, \A u \in Thread \ {t} : Alone(u), crossed \subseteq crossed',
         NEW i \in Item, i = Entry(job[t]),
         \A k \in Item : k # i => store'[k] = store[k] /\ legacy'[k] = legacy[k] /\ cache'[k] = cache[k],
         \A u \in Thread \ {t} : Entry(job[u]) = i /\ i \notin crossed' /\ access[u] # NoAccess => Fits(i, access[u])',
         \/ access'[t] = NoAccess
         \/ job'[t] = job[t] /\ (i \in crossed' \/ Fits(i, access[t])'),
         \/ cache'[i] \in {Unread, Denied, Seen(i)'} \/ i \in crossed'
         \/ access'[t].at = "cache" /\ job'[t] = job[t]
         \/ \E u \in Thread \ {t} : access[u].at = "cache" /\ Entry(job[u]) = i
  PROVE  CacheInv'
<1>1. \A u \in Thread \ {t} : Entry(job'[u]) \in crossed' \/ Fits(Entry(job[u]), access[u])'
  BY OthersFit
<1>2. Entry(job'[t]) \in crossed' \/ Fits(Entry(job[t]), access[t])'
  <2>1. CASE access'[t] = NoAccess
    BY <2>1, NotAt DEF Fits, AccessAt
  <2>2. CASE job'[t] = job[t] /\ (i \in crossed' \/ Fits(i, access[t])')
    BY <2>2
  <2>3. QED
    BY <2>1, <2>2
<1>3. Followed'
  BY <1>1, <1>2 DEF Followed
<1>4. ASSUME NEW u \in Thread \ {t}, access[u].at = "cache"
      PROVE  access'[u].at = "cache" /\ Entry(job'[u]) = Entry(job[u])
  BY <1>4, NotAt DEF Alone
<1>5. ASSUME NEW k \in Item, k # i
      PROVE  \/ cache'[k] \in {Unread, Denied, Seen(k)'} \/ k \in crossed'
             \/ \E u \in Thread : access'[u].at = "cache" /\ Entry(job'[u]) = k
  <2>1. store'[k] = store[k] /\ legacy'[k] = legacy[k] /\ cache'[k] = cache[k]
    BY <1>5
  <2>2. Seen(k)' = Seen(k)
    BY <2>1 DEF Seen
  <2>3. \/ cache[k] \in {Unread, Denied, Seen(k)} \/ k \in crossed
        \/ \E u \in Thread : access[u].at = "cache" /\ Entry(job[u]) = k
    BY DEF CacheInv, CacheCurrent
  <2>4. ASSUME NEW u \in Thread, access[u].at = "cache" /\ Entry(job[u]) = k
        PROVE  access'[u].at = "cache" /\ Entry(job'[u]) = k
    BY <1>4, <1>5, <2>4
  <2>5. QED
    BY <2>1, <2>2, <2>3, <2>4
<1>6. \/ cache'[i] \in {Unread, Denied, Seen(i)'} \/ i \in crossed'
      \/ \E u \in Thread : access'[u].at = "cache" /\ Entry(job'[u]) = i
  BY <1>4
<1>7. CacheCurrent'
  BY <1>5, <1>6 DEF CacheCurrent
<1>8. QED
  BY <1>3, <1>7 DEF CacheInv

\* A step of t that touches no entry.
LEMMA CacheStays ==
  ASSUME TypeInv, CacheInv, NEW t \in Thread, \A u \in Thread \ {t} : Alone(u), UNCHANGED <<store, legacy, cache, crossed>>,
         NEW i \in Item, i = Entry(job[t]), access[t].at # "cache",
         \/ access'[t] = NoAccess
         \/ job'[t] = job[t] /\ (i \in crossed' \/ Fits(i, access[t])')
  PROVE  CacheInv'
<1>1. ASSUME NEW u \in Thread \ {t}, Entry(job[u]) = i /\ i \notin crossed' /\ access[u] # NoAccess
      PROVE  Fits(i, access[u])'
  <2>1. Fits(i, access[u]) /\ access'[u] = access[u]
    BY <1>1, FitsAt DEF Alone
  <2>2. QED
    BY <2>1 DEF Fits, Seen
<1>2. \/ cache'[i] \in {Unread, Denied, Seen(i)'} \/ i \in crossed'
      \/ \E u \in Thread \ {t} : access[u].at = "cache" /\ Entry(job[u]) = i
  <2>1. Seen(i)' = Seen(i)
    BY DEF Seen
  <2>2. \/ cache[i] \in {Unread, Denied, Seen(i)} \/ i \in crossed
        \/ \E u \in Thread : access[u].at = "cache" /\ Entry(job[u]) = i
    BY DEF CacheInv, CacheCurrent
  <2>3. QED
    BY <2>1, <2>2
<1>3. QED
  BY <1>1, <1>2, CacheStep

\* A step that is at no entry.
LEMMA CacheAside ==
  ASSUME TypeInv, CacheInv, UNCHANGED <<store, legacy, cache, crossed>>,
         \A u \in Thread : Alone(u) \/ (access[u] = NoAccess /\ access'[u] = NoAccess)
  PROVE  CacheInv'
<1>1. ASSUME NEW u \in Thread PROVE Entry(job'[u]) \in crossed' \/ Fits(Entry(job[u]), access[u])'
  <2>1. CASE access'[u] = NoAccess
    BY <2>1, NotAt DEF Fits, AccessAt
  <2>2. CASE Entry(job'[u]) = Entry(job[u]) /\ access'[u] = access[u]
    BY <2>2 DEF CacheInv, Followed, Fits, Seen
  <2>3. QED
    BY <2>1, <2>2 DEF Alone
<1>2. ASSUME NEW u \in Thread, access[u].at = "cache"
      PROVE  access'[u].at = "cache" /\ Entry(job'[u]) = Entry(job[u])
  BY <1>2, NotAt DEF Alone
<1>3. \A k \in Item : Seen(k)' = Seen(k)
  BY DEF Seen
<1>4. CacheCurrent'
  BY <1>2, <1>3 DEF CacheInv, CacheCurrent
<1>5. QED
  BY <1>1, <1>4 DEF CacheInv, Followed

\* Who has no cache finds what it found, unless t stores or forgets the entry, or another thread
\* was at it.
SeenStays(t) == \A k \in Item : Seen(k)' # Seen(k) => k \in crossed \/ Writes(t, k)

LEMMA SeenAside == ASSUME NEW t, UNCHANGED <<store, legacy>> PROVE SeenStays(t)
  BY DEF SeenStays, Seen

LEMMA SeenAt ==
  ASSUME NEW t, NEW i,
         \A k \in Item : k # i => store'[k] = store[k] /\ legacy'[k] = legacy[k],
         Seen(i)' = Seen(i) \/ i \in crossed \/ Writes(t, i)
  PROVE  SeenStays(t)
<1>1. ASSUME NEW k \in Item, k # i PROVE Seen(k)' = Seen(k)
  BY <1>1 DEF Seen
<1>2. QED
  BY <1>1 DEF SeenStays

\* What the entry i of a thread t may hold.
LEMMA AtEntry ==
  ASSUME TypeInv, NEW t \in Thread, NEW i, i = Entry(job[t]), Active(job[t])
  PROVE  /\ i \in Item
         /\ DOMAIN store = Item /\ DOMAIN legacy = Item /\ DOMAIN cache = Item
         /\ access[t].at \in {"copy", "delete", "cache"} => access[t].val # None
<1>1. i \in Item /\ Entries /\ Going(job[t], access[t])
  BY Typed DEF TypeInv
<1>2. access[t].at \in {"copy", "delete", "cache"} => access[t].val # None
  BY <1>1, Unmarked, NotAt DEF Going
<1>3. QED
  BY <1>1, <1>2 DEF Entries, KeychainShape

\* The reads of _kr_get, and the move from the old name.
LEMMA FetchCache ==
  ASSUME TypeInv, CacheInv, NEW t \in Thread, Fetch(t), UNCHANGED session
  PROVE  CacheInv' /\ SeenStays(t)
<1>1. PICK i : i = Entry(job[t])
  OBVIOUS
<1>2. /\ job[t].at \in ReadingAt /\ Active(job[t]) /\ UNCHANGED <<cache, job>>
      /\ AskNew(t, i) \/ AskOld(t, i) \/ Copy(t, i) \/ Delete(t, i)
  BY <1>1 DEF Fetch, Active
<1>3. /\ i \in Item /\ DOMAIN store = Item /\ DOMAIN legacy = Item
      /\ access[t].at \in {"copy", "delete"} => access[t].val # None
      /\ \A u \in Thread \ {t} : Alone(u)
  BY <1>1, <1>2, AtEntry, FetchTypes
<1>4. i \notin crossed => \A u \in Thread : Entry(job[u]) = i => Fits(i, access[u])
  BY FitsAt
<1>5. CASE AskNew(t, i)
  <2>1. UNCHANGED <<store, legacy, cache, crossed>> /\ access[t].at = "no"
    BY <1>2, <1>5 DEF AskNew
  <2>2. \/ store[i] # None /\ access'[t].at = "return" /\ access'[t].val = store[i]
        \/ store[i] = None /\ access'[t].at = "old"
    BY <1>5, GoesTo DEF AskNew
  <2>3. Fits(i, access[t])'
    BY <2>1, <2>2 DEF Fits, Seen
  <2>4. QED
    BY <1>1, <1>2, <1>3, <2>1, <2>3, CacheStays, SeenAside
<1>6. CASE AskOld(t, i)
  <2>1. UNCHANGED <<store, legacy, cache, crossed>> /\ access[t].at = "old"
    BY <1>2, <1>6 DEF AskOld
  <2>2. \/ legacy[i] # None /\ access'[t].at = "copy" /\ access'[t].val = legacy[i]
        \/ legacy[i] = None /\ access'[t].at = "return" /\ access'[t].val = None
    BY <1>6, GoesTo DEF AskOld
  <2>3. i \notin crossed => store[i] \in {None, legacy[i]}
    BY <1>1, <1>4, <2>1 DEF Fits
  <2>4. i \in crossed' \/ Fits(i, access[t])'
    BY <2>1, <2>2, <2>3 DEF Fits, Seen
  <2>5. QED
    BY <1>1, <1>2, <1>3, <2>1, <2>4, CacheStays, SeenAside
<1>7. CASE Copy(t, i)
  <2> DEFINE v == access[t].val
  <2>1. UNCHANGED <<legacy, cache, crossed>> /\ access[t].at = "copy" /\ v # None
    BY <1>2, <1>3, <1>7 DEF Copy
  <2>2. i \notin crossed => v = legacy[i] /\ store[i] \in {None, v}
    BY <1>1, <1>4, <2>1 DEF Fits
  <2>3. CASE UNCHANGED store /\ Goes(t, "return", v)
    <3>1. access'[t].at = "return" /\ access'[t].val = v
      BY <2>3, GoesTo
    <3>2. i \in crossed' \/ Fits(i, access[t])'
      BY <2>1, <2>2, <2>3, <3>1 DEF Fits, Seen
    <3>3. QED
      BY <1>1, <1>2, <1>3, <2>1, <2>3, <3>2, CacheStays, SeenAside
  <2>4. CASE store' = [store EXCEPT ![i] = v] /\ Goes(t, "delete", v)
    <3>1. access'[t].at = "delete" /\ access'[t].val = v
      BY <2>4, GoesTo
    <3>2. store'[i] = v /\ \A k \in Item : k # i => store'[k] = store[k] /\ legacy'[k] = legacy[k] /\ cache'[k] = cache[k]
      BY <1>3, <2>1, <2>4
    <3>3. i \in crossed' \/ Fits(i, access[t])'
      BY <3>1, <3>2 DEF Fits
    <3>4. i \notin crossed => Seen(i)' = Seen(i)
      BY <2>1, <2>2, <3>2 DEF Seen
    <3>5. ASSUME NEW u \in Thread \ {t}, Entry(job[u]) = i /\ i \notin crossed' /\ access[u] # NoAccess
          PROVE  Fits(i, access[u])'
      <4>1. access'[u] = access[u] /\ Fits(i, access[u]) /\ (access[u].at \in {"delete", "cache"} => access[u].val # None)
        BY <1>3, <1>4, <2>1, <3>5, AtEntry, GoingAt, Typed DEF Alone
      <4>2. QED
        BY <2>1, <2>2, <3>2, <3>4, <3>5, <4>1 DEF Fits
    <3>6. \/ cache'[i] \in {Unread, Denied, Seen(i)'} \/ i \in crossed'
          \/ \E u \in Thread \ {t} : access[u].at = "cache" /\ Entry(job[u]) = i
      BY <1>3, <2>1, <3>4 DEF CacheInv, CacheCurrent
    <3>7. CacheInv'
      BY <1>1, <1>2, <1>3, <2>1, <3>2, <3>3, <3>5, <3>6, CacheStep
    <3>8. QED
      BY <3>2, <3>4, <3>7, SeenAt
  <2>5. QED
    BY <1>7, <2>3, <2>4 DEF Copy
<1>8. CASE Delete(t, i)
  <2> DEFINE v == access[t].val
  <2>1. UNCHANGED <<store, cache>> /\ access[t].at = "delete" /\ v # None
    BY <1>2, <1>3, <1>8 DEF Delete
  <2>2. i \notin crossed => store[i] = v
    BY <1>1, <1>4, <2>1 DEF Fits
  <2>3. access'[t].at = "return" /\ access'[t].val = v
    BY <1>8, GoesTo DEF Delete
  <2>4. i \in crossed \/ Fits(i, access[t])'
    BY <2>1, <2>2, <2>3 DEF Fits, Seen
  <2>5. CASE UNCHANGED <<legacy, crossed>>
    BY <1>1, <1>2, <1>3, <2>1, <2>4, <2>5, CacheStays, SeenAside
  <2>6. CASE legacy' = [legacy EXCEPT ![i] = None] /\ Cross(t, i, AccessAt)
    <3>1. \A k \in Item : k # i => store'[k] = store[k] /\ legacy'[k] = legacy[k] /\ cache'[k] = cache[k]
      BY <1>3, <2>1, <2>6
    <3>2. i \notin crossed => Seen(i)' = Seen(i)
      BY <2>1, <2>2 DEF Seen
    <3>3. crossed \subseteq crossed' /\ \A u \in Thread \ {t} : access[u].at \in AccessAt /\ Entry(job[u]) = i => i \in crossed'
      BY <2>6, Crossing
    <3>4. ASSUME NEW u \in Thread \ {t}, Entry(job[u]) = i /\ i \notin crossed' /\ access[u] # NoAccess
          PROVE  Fits(i, access[u])'
      BY <3>3, <3>4, Typed, GoingAt
    <3>5. \/ cache'[i] \in {Unread, Denied, Seen(i)'} \/ i \in crossed'
          \/ \E u \in Thread \ {t} : access[u].at = "cache" /\ Entry(job[u]) = i
      BY <1>3, <2>1, <3>2, <3>3 DEF CacheInv, CacheCurrent
    <3>6. i \in crossed' \/ Fits(i, access[t])'
      BY <2>4, <3>3
    <3>7. CacheInv'
      BY <1>1, <1>2, <1>3, <3>1, <3>3, <3>4, <3>5, <3>6, CacheStep
    <3>8. QED
      BY <3>1, <3>2, <3>7, SeenAt
  <2>7. QED
    BY <1>8, <2>5, <2>6 DEF Delete
<1>9. QED
  BY <1>2, <1>5, <1>6, <1>7, <1>8

\* Who changes the entry crosses everybody who is at it.
LEMMA AllCrossed ==
  ASSUME TypeInv, NEW t \in Thread, NEW i, Cross(t, i, AccessAt)
  PROVE  /\ crossed \subseteq crossed'
         /\ \A u \in Thread \ {t} : Entry(job[u]) = i /\ access[u] # NoAccess => i \in crossed'
  BY Crossing, Typed, GoingAt

LEMMA WriteCache ==
  ASSUME TypeInv, CacheInv, NEW t \in Thread, Write(t), UNCHANGED session
  PROVE  CacheInv' /\ SeenStays(t)
<1>1. PICK i : i = Entry(job[t])
  OBVIOUS
<1>2. job[t].at \in WritingAt /\ Active(job[t]) /\ UNCHANGED <<legacy, cache, job>> /\ Cross(t, i, AccessAt)
  BY <1>1 DEF Write, Active
<1>3. i \in Item /\ DOMAIN store = Item
  BY <1>1, <1>2, AtEntry
<1>4. /\ access'[t].at = "cache" /\ store' = [store EXCEPT ![i] = access'[t].val]
      /\ \A u \in Thread \ {t} : Alone(u)
  BY <1>1, WriteTypes
<1>5. \A k \in Item : k # i => store'[k] = store[k] /\ legacy'[k] = legacy[k] /\ cache'[k] = cache[k]
  BY <1>2, <1>3, <1>4
<1>6. Fits(i, access[t])'
  BY <1>3, <1>4 DEF Fits
<1>7. crossed \subseteq crossed' /\ \A u \in Thread \ {t} : Entry(job[u]) = i /\ access[u] # NoAccess => i \in crossed'
  BY <1>2, AllCrossed
<1>8. Writes(t, i)
  BY <1>1, <1>2 DEF Writes
<1>9. job'[t] = job[t]
  BY <1>2
<1>10. CacheInv'
  BY <1>1, <1>3, <1>4, <1>5, <1>6, <1>7, <1>9, CacheStep
<1>11. QED
  BY <1>5, <1>8, <1>10, SeenAt

LEMMA PopCache ==
  ASSUME TypeInv, CacheInv, NEW t \in Thread, Pop(t), UNCHANGED session
  PROVE  CacheInv' /\ SeenStays(t)
<1>1. PICK i : i = Entry(job[t])
  OBVIOUS
<1>2. /\ Active(job[t]) /\ UNCHANGED <<store, legacy, crossed, job>>
      /\ cache' = [cache EXCEPT ![i] = Unread]
  BY <1>1 DEF Pop, Active, Is
<1>3. i \in Item /\ DOMAIN cache = Item
  BY <1>1, <1>2, AtEntry
<1>4. access'[t].at = "erase" /\ \A u \in Thread \ {t} : Alone(u)
  BY PopTypes
<1>5. /\ cache'[i] = Unread
      /\ \A k \in Item : k # i => store'[k] = store[k] /\ legacy'[k] = legacy[k] /\ cache'[k] = cache[k]
  BY <1>2, <1>3
<1>6. Fits(i, access[t])'
  BY <1>4, <1>5 DEF Fits
<1>7. ASSUME NEW u \in Thread \ {t}, Entry(job[u]) = i /\ i \notin crossed' /\ access[u] # NoAccess
      PROVE  Fits(i, access[u])'
  <2>1. access'[u] = access[u] /\ Fits(i, access[u])
    BY <1>2, <1>4, <1>7, FitsAt DEF Alone
  <2>2. QED
    BY <1>2, <1>5, <2>1 DEF Fits, Seen
<1>8. job'[t] = job[t] /\ crossed \subseteq crossed'
  BY <1>2
<1>9. CacheInv'
  BY <1>1, <1>3, <1>4, <1>5, <1>6, <1>7, <1>8, CacheStep
<1>10. QED
  BY <1>2, <1>9, SeenAside

\* What is found is cached, or that it cannot be.
LEMMA FindsCache ==
  ASSUME TypeInv, CacheInv, NEW t \in Thread, Finds(t), \A u \in Thread \ {t} : Alone(u)
  PROVE  CacheInv' /\ UNCHANGED <<store, legacy>>
<1>1. PICK i : i = Entry(job[t])
  OBVIOUS
<1>2. Active(job[t]) /\ (Refused(t, i) \/ \E v : Got(t, i, v)) /\ access'[t] = NoAccess
  BY <1>1, EndsAccess DEF Finds, Active, Ends
<1>3. i \in Item /\ DOMAIN cache = Item
  BY <1>1, <1>2, AtEntry
<1>4. UNCHANGED <<store, legacy>>
  BY <1>2 DEF Refused, Got
<1>5. CASE UNCHANGED <<cache, crossed>> /\ access[t].at # "cache"
  BY <1>1, <1>2, <1>3, <1>4, <1>5, CacheStays
<1>6. CASE cache' = [cache EXCEPT ![i] = Denied] /\ UNCHANGED crossed
  <2>1. /\ cache'[i] = Denied
        /\ \A k \in Item : k # i => store'[k] = store[k] /\ legacy'[k] = legacy[k] /\ cache'[k] = cache[k]
    BY <1>3, <1>4, <1>6
  <2>2. ASSUME NEW u \in Thread \ {t}, Entry(job[u]) = i /\ i \notin crossed' /\ access[u] # NoAccess
        PROVE  Fits(i, access[u])'
    <3>1. access'[u] = access[u] /\ Fits(i, access[u])
      BY <1>6, <2>2, FitsAt DEF Alone
    <3>2. QED
      BY <1>4, <2>1, <3>1 DEF Fits, Seen
  <2>3. QED
    BY <1>1, <1>2, <1>3, <1>4, <1>6, <2>1, <2>2, CacheStep
<1>7. ASSUME NEW v, access[t].at = "return", v = access[t].val, cache' = [cache EXCEPT ![i] = v],
             Cross(t, i, {"cache", "erase"})
      PROVE  CacheInv'
  <2>1. /\ cache'[i] = v
        /\ \A k \in Item : k # i => store'[k] = store[k] /\ legacy'[k] = legacy[k] /\ cache'[k] = cache[k]
    BY <1>3, <1>4, <1>7
  <2>2. /\ crossed \subseteq crossed'
        /\ \A u \in Thread \ {t} : access[u].at \in {"cache", "erase"} /\ Entry(job[u]) = i => i \in crossed'
    BY <1>7, Crossing
  <2>3. ASSUME NEW u \in Thread \ {t}, Entry(job[u]) = i /\ i \notin crossed' /\ access[u] # NoAccess
        PROVE  Fits(i, access[u])'
    <3>1. access'[u] = access[u] /\ Fits(i, access[u]) /\ access[u].at \notin {"cache", "erase"}
      BY <2>2, <2>3, FitsAt DEF Alone
    <3>2. QED
      BY <1>4, <3>1 DEF Fits, Seen
  <2>4. i \notin crossed => v = Seen(i)
    BY <1>1, <1>7, FitsAt DEF Fits
  <2>5. Seen(i)' = Seen(i)
    BY <1>4 DEF Seen
  <2>6. cache'[i] \in {Unread, Denied, Seen(i)'} \/ i \in crossed'
    BY <2>1, <2>2, <2>4, <2>5
  <2>7. QED
    BY <1>1, <1>2, <1>3, <1>4, <2>1, <2>2, <2>3, <2>6, CacheStep
<1>8. CASE Refused(t, i)
  BY <1>5, <1>6, <1>8 DEF Refused
<1>9. CASE \E v : Got(t, i, v)
  BY <1>5, <1>7, <1>9 DEF Got
<1>10. QED
  BY <1>2, <1>4, <1>8, <1>9

\* What is stored is cached; what was forgotten is not.
LEMMA StoresCache ==
  ASSUME TypeInv, CacheInv, NEW t \in Thread, Stores(t), \A u \in Thread \ {t} : Alone(u)
  PROVE  CacheInv' /\ UNCHANGED <<store, legacy>>
<1>1. PICK i : i = Entry(job[t])
  OBVIOUS
<1> DEFINE v == access[t].val
<1>2. /\ Active(job[t]) /\ access[t].at = "cache" /\ cache' = [cache EXCEPT ![i] = v]
      /\ Cross(t, i, {"cache", "erase"}) /\ access'[t] = NoAccess /\ UNCHANGED <<store, legacy>>
  BY <1>1, EndsAccess DEF Stores, Put, Active, Ends
<1>3. i \in Item /\ DOMAIN cache = Item /\ v # None
  BY <1>1, <1>2, AtEntry
<1>4. /\ cache'[i] = v
      /\ \A k \in Item : k # i => store'[k] = store[k] /\ legacy'[k] = legacy[k] /\ cache'[k] = cache[k]
  BY <1>2, <1>3
<1>5. /\ crossed \subseteq crossed'
      /\ \A u \in Thread \ {t} : access[u].at \in {"cache", "erase"} /\ Entry(job[u]) = i => i \in crossed'
  BY <1>2, Crossing
<1>6. ASSUME NEW u \in Thread \ {t}, Entry(job[u]) = i /\ i \notin crossed' /\ access[u] # NoAccess
      PROVE  Fits(i, access[u])'
  <2>1. access'[u] = access[u] /\ Fits(i, access[u]) /\ access[u].at \notin {"cache", "erase"}
    BY <1>5, <1>6, FitsAt DEF Alone
  <2>2. QED
    BY <1>2, <2>1 DEF Fits, Seen
<1>7. i \notin crossed => store[i] = v
  BY <1>1, <1>2, FitsAt DEF Fits
<1>8. cache'[i] \in {Unread, Denied, Seen(i)'} \/ i \in crossed'
  BY <1>2, <1>3, <1>4, <1>5, <1>7 DEF Seen
<1>9. CacheInv'
  BY <1>1, <1>2, <1>3, <1>4, <1>5, <1>6, <1>8, CacheStep
<1>10. QED
  BY <1>2, <1>9

LEMMA ForgetsCache ==
  ASSUME TypeInv, CacheInv, NEW t \in Thread, Forgets(t), \A u \in Thread \ {t} : Alone(u)
  PROVE  CacheInv' /\ SeenStays(t)
<1>1. PICK i : i = Entry(job[t])
  OBVIOUS
<1>2. /\ Active(job[t]) /\ access[t].at = "erase" /\ Writes(t, i) /\ access'[t] = NoAccess
      /\ UNCHANGED <<legacy, cache>>
  BY <1>1, EndsAccess DEF Forgets, Drop, Active, Writes, Ends
<1>3. i \in Item /\ DOMAIN store = Item
  BY <1>1, <1>2, AtEntry
<1>4. CASE UNCHANGED <<store, crossed>>
  BY <1>1, <1>2, <1>3, <1>4, CacheStays, SeenAside
<1>5. CASE store' = [store EXCEPT ![i] = None] /\ Cross(t, i, AccessAt)
  <2>1. \A k \in Item : k # i => store'[k] = store[k] /\ legacy'[k] = legacy[k] /\ cache'[k] = cache[k]
    BY <1>2, <1>3, <1>5
  <2>2. crossed \subseteq crossed' /\ \A u \in Thread \ {t} : Entry(job[u]) = i /\ access[u] # NoAccess => i \in crossed'
    BY <1>5, AllCrossed
  <2>3. i \notin crossed => cache[i] \in {Unread, Denied}
    BY <1>1, <1>2, FitsAt DEF Fits
  <2>4. cache'[i] \in {Unread, Denied, Seen(i)'} \/ i \in crossed'
    BY <1>2, <2>2, <2>3
  <2>5. CacheInv'
    BY <1>1, <1>2, <1>3, <2>1, <2>2, <2>4, CacheStep
  <2>6. QED
    BY <1>2, <2>1, <2>5, SeenAt
<1>6. QED
  BY <1>1, <1>4, <1>5 DEF Forgets, Drop

LEMMA OwnCache ==
  ASSUME TypeInv, CacheInv, NEW t \in Thread, OwnStep(t)
  PROVE  CacheInv' /\ SeenStays(t)
<1>1. Ends(t) /\ \A u \in Thread \ {t} : Alone(u)
  BY DEF OwnStep
<1>2. CASE Finds(t)
  BY <1>1, <1>2, FindsCache, SeenAside
<1>3. CASE Stores(t)
  BY <1>1, <1>3, StoresCache, SeenAside
<1>4. CASE Fails(t)
  <2>1. Active(job[t]) /\ access[t].at # "cache" /\ UNCHANGED <<store, legacy, cache, crossed>> /\ access'[t] = NoAccess
    BY <1>1, <1>4, EndsAccess DEF Fails, PutFails, Active
  <2>2. PICK i : i = Entry(job[t])
    OBVIOUS
  <2>3. QED
    BY <1>1, <2>1, <2>2, AtEntry, CacheStays, SeenAside
<1>5. CASE Forgets(t)
  BY <1>1, <1>5, ForgetsCache
<1>6. CASE Idle(t)
  <2>1. UNCHANGED <<store, legacy, cache, crossed>> /\ access'[t] = NoAccess /\ access[t] = NoAccess
    BY <1>1, <1>6, EndsAccess, Resting DEF Idle, keychain
  <2>2. QED
    BY <1>1, <2>1, CacheAside, SeenAside
<1>7. QED
  BY <1>1, <1>2, <1>3, <1>4, <1>5, <1>6 DEF Ends

LEMMA CacheSteps ==
  ASSUME TypeInv, CacheInv, [Next]_vars
  PROVE  CacheInv' /\ \A k \in Item : Seen(k)' # Seen(k) => k \in crossed \/ \E t \in Thread : Writes(t, k)
<1>1. ASSUME NEW t \in Thread, UNCHANGED session, Fetch(t) \/ Write(t) \/ Pop(t) \/ OwnStep(t)
      PROVE  CacheInv' /\ SeenStays(t)
  BY <1>1, FetchCache, WriteCache, PopCache, OwnCache
<1>2. CASE Aside
  <2>1. UNCHANGED <<store, legacy, cache, crossed>>
    BY <1>2 DEF Aside, keychain
  <2>2. CacheInv'
    BY <1>2, <2>1, CacheAside DEF Aside
  <2>3. QED
    BY <2>1, <2>2 DEF Seen
<1>3. CASE Restart
  <2>1. cache' = [i \in Item |-> Unread] /\ access' = [t \in Thread |-> NoAccess] /\ UNCHANGED <<store, legacy>>
    BY <1>3 DEF Restart
  <2>2. \A t \in Thread : Fits(Entry(job[t]), access[t])'
    BY <2>1, NotAt DEF Fits, AccessAt
  <2>3. QED
    BY <2>1, <2>2 DEF CacheInv, Followed, CacheCurrent, Seen
<1>4. QED
  BY <1>1, <1>2, <1>3, Steps DEF SeenStays

LEMMA CacheInit == Init => CacheInv
<1>1. SUFFICES ASSUME Init PROVE CacheInv
  OBVIOUS
<1>2. cache = [i \in Item |-> Unread] /\ access = [t \in Thread |-> NoAccess]
  BY <1>1 DEF Init
<1>3. Followed
  BY <1>2, NotAt DEF Followed, Fits, AccessAt
<1>4. QED
  BY <1>2, <1>3 DEF CacheInv, CacheCurrent

LEMMA CacheAlways == Spec => [](TypeInv /\ CacheInv)
<1>1. TypeInv /\ CacheInv /\ [Next]_vars => (TypeInv /\ CacheInv)'
  BY Steps, CacheSteps
<1>2. QED
  BY <1>1, InitTypes, CacheInit, PTL DEF Spec

\* However reads, writes, forgets and moves of an entry follow each other, the cache gives what a
\* fresh reader of the keychain would find, but for an entry that two threads were at and one of them
\* changed, or that is stored and not yet cached (secrets.py:206-250, 306-311).
THEOREM CacheIsCurrent == Spec => []CacheCurrent
  BY CacheAlways, PTL DEF CacheInv

\* What a fresh reader finds changes only when somebody stores or forgets that very entry, or when
\* two threads were at it: the move from the old name is invisible (secrets.py:222-238).
THEOREM SecretsAreKept == Spec => SecretsKept
<1>1. TypeInv /\ CacheInv /\ [Next]_vars
        => [\A i \in Item : Seen(i)' # Seen(i) => i \in crossed \/ \E t \in Thread : Writes(t, i)]_<<store, legacy>>
  BY CacheSteps
<1>2. QED
  BY <1>1, CacheAlways, PTL DEF Spec, SecretsKept

-----------------------------------------------------------------------------
(* The identity.                                                           *)

\* A half of the identity under the old name, or on its way from there.
CopyingHalf(t) == access[t].at = "copy" /\ Entry(job[t]) \in Halves
LeftOver == (\E i \in Halves : legacy[i] # None) \/ \E t \in Thread : CopyingHalf(t)
OldHalves ==
  /\ \A i \in Halves : Relabelled(legacy[i]) \in {None, OldPair}
  /\ \A t \in Thread : CopyingHalf(t) => Relabelled(access[t].val) = OldPair

\* The pair whose private half a thread has stored.
NewHalf(t) == IF Is(t, "make") THEN access[t].val ELSE job[t].priv

\* While there is a half under the old name no other pair is stored; a thread that has stored the
\* private half finds it there.
Matched ==
  /\ LeftOver => \A i \in Halves : Relabelled(store[i]) \in {None, OldPair}
  /\ \A t \in Thread : HalfStored(t) => ~LeftOver /\ store[Priv] = NewHalf(t)
HalvesInv == OldHalves /\ (torn \/ Matched) /\ IdentityWhole

LEMMA HalvesAre == Halves = {Priv, Pub} /\ Halves \subseteq Item
  BY Names DEF Halves

\* What another thread's steps leave.
LEMMA AloneHalf ==
  ASSUME NEW u, Alone(u)
  PROVE  /\ HalfStored(u)' <=> HalfStored(u)
         /\ HalfStored(u) => NewHalf(u)' = NewHalf(u)
         /\ CopyingHalf(u)' => CopyingHalf(u) /\ access'[u].val = access[u].val
<1>1. access'[u] = access[u]
  BY DEF Alone
<1>2. CASE job'[u].at = job[u].at /\ job'[u].priv = job[u].priv /\ Entry(job'[u]) = Entry(job[u])
  BY <1>1, <1>2 DEF HalfStored, NewHalf, CopyingHalf, Is
<1>3. CASE access[u] = NoAccess /\ job[u].at # "makepub" /\ job'[u].at # "makepub"
  BY <1>1, <1>3, NotAt DEF HalfStored, CopyingHalf, Is, AccessAt
<1>4. QED
  BY <1>2, <1>3 DEF Alone

\* The halves stay, but for the label of the public one.
SameHalves == store'[Priv] = store[Priv] /\ Relabelled(store'[Pub]) = Relabelled(store[Pub])

LEMMA SameHalvesAre ==
  ASSUME \A i \in Halves : store'[i] = store[i]
  PROVE  SameHalves
  BY HalvesAre DEF SameHalves

\* A step that stores no half, or tears the identity.
LEMMA HalvesStay ==
  ASSUME HalvesInv, torn => torn',
         \A i \in Halves : legacy'[i] \in {None, legacy[i]},
         \A u \in Thread : CopyingHalf(u)' =>
           \/ CopyingHalf(u) /\ access'[u].val = access[u].val
           \/ \E i \in Halves : legacy[i] # None /\ access'[u].val = legacy[i],
         \/ torn'
         \/ /\ SameHalves
            /\ \A u \in Thread : /\ HalfStored(u)' <=> HalfStored(u)
                                 /\ HalfStored(u) => NewHalf(u)' = NewHalf(u)
  PROVE  HalvesInv'
<1>1. OldHalves'
  BY Marks DEF HalvesInv, OldHalves, Relabelled
<1>2. LeftOver' => LeftOver
  BY DEF LeftOver
<1>3. CASE torn'
  BY <1>1, <1>3 DEF HalvesInv, IdentityWhole
<1>4. CASE ~torn'
  <2>1. ~torn /\ Matched /\ IdentityWhole
    BY <1>4 DEF HalvesInv
  <2>2. SameHalves
    BY <1>4
  <2>3. \A u \in Thread : /\ HalfStored(u)' <=> HalfStored(u)
                          /\ HalfStored(u) => NewHalf(u)' = NewHalf(u)
    BY <1>4
  <2>4. Matched'
    BY <1>2, <2>1, <2>2, <2>3, HalvesAre DEF Matched, SameHalves
  <2>5. IdentityWhole'
    BY <2>1, <2>2, <2>3, Marks DEF IdentityWhole, SameHalves, Relabelled
  <2>6. QED
    BY <1>1, <2>4, <2>5 DEF HalvesInv
<1>5. QED
  BY <1>3, <1>4

\* The same where the other threads are left alone.
LEMMA HalvesAlone ==
  ASSUME HalvesInv, torn => torn', NEW t \in Thread, \A u \in Thread \ {t} : Alone(u),
         \A i \in Halves : legacy'[i] \in {None, legacy[i]},
         CopyingHalf(t)' =>
           \/ CopyingHalf(t) /\ access'[t].val = access[t].val
           \/ \E i \in Halves : legacy[i] # None /\ access'[t].val = legacy[i],
         \/ torn'
         \/ /\ SameHalves
            /\ HalfStored(t)' <=> HalfStored(t)
            /\ HalfStored(t) => NewHalf(t)' = NewHalf(t)
  PROVE  HalvesInv'
<1>1. \A u \in Thread \ {t} : /\ HalfStored(u)' <=> HalfStored(u)
                              /\ HalfStored(u) => NewHalf(u)' = NewHalf(u)
                              /\ CopyingHalf(u)' => CopyingHalf(u) /\ access'[u].val = access[u].val
  BY AloneHalf
<1>2. \A u \in Thread : CopyingHalf(u)' =>
           \/ CopyingHalf(u) /\ access'[u].val = access[u].val
           \/ \E i \in Halves : legacy[i] # None /\ access'[u].val = legacy[i]
  BY <1>1
<1>3. \/ torn'
      \/ /\ SameHalves
         /\ \A u \in Thread : /\ HalfStored(u)' <=> HalfStored(u)
                              /\ HalfStored(u) => NewHalf(u)' = NewHalf(u)
  BY <1>1
<1>4. QED
  BY <1>2, <1>3, HalvesStay

LEMMA FetchHalves ==
  ASSUME TypeInv, HalvesInv, NEW t \in Thread, Fetch(t), UNCHANGED session
  PROVE  HalvesInv'
<1>1. PICK i : i = Entry(job[t])
  OBVIOUS
<1>2. /\ job[t].at \in ReadingAt /\ Active(job[t]) /\ UNCHANGED <<job, torn>>
      /\ AskNew(t, i) \/ AskOld(t, i) \/ Copy(t, i) \/ Delete(t, i)
  BY <1>1 DEF Fetch, Active
<1>3. /\ i \in Item /\ DOMAIN store = Item /\ DOMAIN legacy = Item
      /\ TypeInv' /\ \A u \in Thread \ {t} : Alone(u)
  BY <1>1, <1>2, AtEntry, FetchTypes
<1>4. ~HalfStored(t) /\ ~HalfStored(t)'
  BY <1>2 DEF HalfStored, Is, ReadingAt
<1>5. CASE AskNew(t, i)
  <2>1. UNCHANGED <<store, legacy>> /\ access'[t].at \in {"return", "old"}
    BY <1>5, GoesTo DEF AskNew
  <2>2. QED
    BY <1>2, <1>3, <1>4, <2>1, SameHalvesAre, HalvesAlone DEF CopyingHalf
<1>6. CASE AskOld(t, i)
  <2>1. /\ UNCHANGED <<store, legacy>>
        /\ access'[t].at = "copy" => legacy[i] # None /\ access'[t].val = legacy[i]
    BY <1>6, GoesTo DEF AskOld
  <2>2. Entry(job'[t]) = i
    BY <1>1, <1>2
  <2>3. QED
    BY <1>2, <1>3, <1>4, <2>1, <2>2, SameHalvesAre, HalvesAlone DEF CopyingHalf
<1>7. CASE Copy(t, i)
  <2> DEFINE v == access[t].val
  <2>1. UNCHANGED <<legacy>> /\ access[t].at = "copy" /\ access'[t].at \in {"return", "delete"}
    BY <1>7, GoesTo DEF Copy
  <2>2. ~CopyingHalf(t)'
    BY <2>1 DEF CopyingHalf
  <2>3. CASE \A k \in Halves : store'[k] = store[k]
    BY <1>2, <1>3, <1>4, <2>1, <2>2, <2>3, SameHalvesAre, HalvesAlone
  <2>4. CASE store' = [store EXCEPT ![i] = v] /\ i \in Halves
    <3>1. CopyingHalf(t) /\ LeftOver /\ Relabelled(v) = OldPair
      BY <1>1, <2>1, <2>4 DEF CopyingHalf, LeftOver, HalvesInv, OldHalves
    <3>2. OldHalves'
      BY <1>3, <2>1, <2>2, AloneHalf DEF HalvesInv, OldHalves
    <3>3. CASE torn
      BY <1>2, <3>2, <3>3 DEF HalvesInv, IdentityWhole
    <3>4. CASE ~torn
      <4>1. (\A k \in Halves : Relabelled(store[k]) \in {None, OldPair}) /\ \A u \in Thread : ~HalfStored(u)
        BY <3>1, <3>4 DEF HalvesInv, Matched
      <4>2. \A k \in Halves : Relabelled(store'[k]) \in {None, OldPair}
        BY <1>3, <2>4, <3>1, <4>1, HalvesAre
      <4>3. \A u \in Thread : ~HalfStored(u)'
        BY <1>3, <1>4, <4>1, AloneHalf
      <4>4. Matched'
        BY <4>2, <4>3 DEF Matched
      <4>5. Relabelled(store'[Priv]) \in {None, OldPair} /\ Relabelled(store'[Pub]) \in {None, OldPair}
        BY <4>2, HalvesAre
      <4>6. store'[Priv] # OldPub
        BY <1>3, KeptIn, Marks DEF TypeInv, Entries
      <4>7. IdentityWhole'
        BY <4>5, <4>6, Marks DEF IdentityWhole, Relabelled
      <4>8. QED
        BY <3>2, <4>4, <4>7 DEF HalvesInv
    <3>5. QED
      BY <3>3, <3>4
  <2>5. CASE store' = [store EXCEPT ![i] = v] /\ i \notin Halves
    BY <1>3, <2>3, <2>5, HalvesAre
  <2>6. QED
    BY <1>7, <2>3, <2>4, <2>5 DEF Copy
<1>8. CASE Delete(t, i)
  <2>1. UNCHANGED <<store>> /\ legacy' \in {legacy, [legacy EXCEPT ![i] = None]} /\ access'[t].at = "return"
    BY <1>8, GoesTo DEF Delete
  <2>2. \A k \in Halves : legacy'[k] \in {None, legacy[k]}
    BY <1>3, <2>1, HalvesAre
  <2>3. QED
    BY <1>2, <1>3, <1>4, <2>1, <2>2, SameHalvesAre, HalvesAlone DEF CopyingHalf
<1>9. QED
  BY <1>2, <1>5, <1>6, <1>7, <1>8

\* Who is not halfway has no half stored, and copies none.
LEMMA NotHalfway ==
  ASSUME NEW t \in Thread, ~Halfway(t), NEW u \in Thread \ {t}
  PROVE  ~HalfStored(u) /\ ~CopyingHalf(u)
  BY HalfAt DEF Halfway, CopyingHalf

\* Where a job writes a half.
LEMMA HalfWritten ==
  ASSUME NEW j, j.at \in WritingAt
  PROVE  /\ j.at = "make" => Entry(j) = Priv
         /\ j.at \in {"makepub", "label", "relabel"} => Entry(j) = Pub
         /\ Entry(j) \in Halves => j.at \in {"make", "makepub", "label", "relabel"}
  BY Names DEF WritingAt, Entry

LEMMA WriteHalves ==
  ASSUME TypeInv, HalvesInv, NEW t \in Thread, Write(t), UNCHANGED session
  PROVE  HalvesInv'
<1>1. PICK i : i = Entry(job[t])
  OBVIOUS
<1> DEFINE v == access'[t].val
<1>2. /\ job[t].at \in WritingAt /\ Active(job[t]) /\ UNCHANGED <<legacy, job>> /\ Tear(t)
  BY DEF Write, Active
<1>3. i \in Item /\ DOMAIN store = Item /\ torn => torn'
  BY <1>1, <1>2, AtEntry, TearGrows
<1>4. /\ access[t] = NoAccess /\ access'[t].at = "cache" /\ v \in Written(job[t])
      /\ store' = [store EXCEPT ![i] = v] /\ \A u \in Thread \ {t} : Alone(u)
  BY <1>1, WriteTypes
<1>5. ~CopyingHalf(t) /\ ~CopyingHalf(t)' /\ (torn => torn')
  BY <1>2, <1>4, NotAt, TearGrows DEF CopyingHalf, AccessAt
<1>6. i \in Item /\ store'[i] = v /\ \A k \in Item : k # i => store'[k] = store[k]
  BY <1>1, <1>2, <1>4, AtEntry
<1>7. CASE torn'
  BY <1>2, <1>4, <1>5, <1>7, HalvesAlone
<1>8. CASE ~torn' /\ i \in Halves
  <2>1. ~torn /\ ~Halfway(t) /\ Matched /\ IdentityWhole
    BY <1>1, <1>2, <1>8 DEF Tear, HalvesInv
  <2>2. \A u \in Thread \ {t} : ~HalfStored(u)' /\ ~CopyingHalf(u) /\ ~CopyingHalf(u)'
    BY <1>4, <2>1, NotHalfway, AloneHalf
  <2>3. OldHalves'
    BY <1>2, <1>5, <2>2 DEF HalvesInv, OldHalves
  <2>4. CASE job[t].at = "make"
    <3>1. i = Priv /\ legacy'[Priv] = None /\ legacy'[Pub] = None
      BY <1>1, <1>2, <1>8, <2>4, HalfWritten DEF Tear, Is
    <3>2. ~LeftOver'
      BY <1>5, <2>2, <3>1, HalvesAre DEF LeftOver
    <3>3. HalfStored(t)' /\ NewHalf(t)' = v
      BY <1>2, <1>4, <2>4 DEF HalfStored, NewHalf, Is
    <3>4. Matched'
      BY <1>6, <2>2, <3>1, <3>2, <3>3 DEF Matched
    <3>5. IdentityWhole'
      BY <3>3 DEF IdentityWhole
    <3>6. QED
      BY <2>3, <3>4, <3>5 DEF HalvesInv
  <2>5. CASE job[t].at = "makepub"
    <3>1. i = Pub /\ v = job[t].priv /\ v # OldPub
      BY <1>1, <1>2, <1>4, <2>5, HalfWritten, Typed, Marks DEF Written, Placed
    <3>2. HalfStored(t) /\ NewHalf(t) = job[t].priv
      BY <1>4, <2>5, NotAt DEF HalfStored, NewHalf, Is
    <3>3. ~LeftOver /\ store[Priv] = v
      BY <2>1, <3>1, <3>2 DEF Matched
    <3>4. store'[Priv] = v /\ store'[Pub] = v
      BY <1>6, <3>1, <3>3, Names
    <3>5. ~LeftOver' /\ ~HalfStored(t)'
      BY <1>2, <1>4, <1>5, <2>2, <2>5, <3>3 DEF LeftOver, HalfStored, Is
    <3>6. Matched' /\ IdentityWhole'
      BY <2>2, <3>1, <3>4, <3>5 DEF Matched, IdentityWhole, Relabelled
    <3>7. QED
      BY <2>3, <3>6 DEF HalvesInv
  <2>6. CASE job[t].at \in {"label", "relabel"}
    <3>1. i = Pub /\ v = job[t].pub /\ v # OldPub /\ Relabelled(store[Pub]) = job[t].pub
      BY <1>1, <1>2, <1>4, <1>8, <2>6, HalfWritten, Typed, Marks DEF Written, Tear, Is, Placed
    <3>2. SameHalves
      BY <1>6, <3>1, Names DEF SameHalves, Relabelled
    <3>3. ~HalfStored(t) /\ ~HalfStored(t)'
      BY <1>2, <2>6 DEF HalfStored, Is
    <3>4. QED
      BY <1>2, <1>4, <1>5, <3>2, <3>3, HalvesAlone
  <2>7. QED
    BY <1>1, <1>2, <1>8, <2>4, <2>5, <2>6, HalfWritten
<1>9. CASE i \notin Halves
  <2>1. \A k \in Halves : store'[k] = store[k]
    BY <1>6, <1>9, HalvesAre
  <2>2. job[t].at \notin {"make", "makepub"}
    BY <1>1, <1>2, <1>9, HalfWritten, HalvesAre
  <2>3. ~HalfStored(t) /\ ~HalfStored(t)'
    BY <1>2, <2>2 DEF HalfStored, Is
  <2>4. QED
    BY <1>2, <1>4, <1>5, <2>1, <2>3, SameHalvesAre, HalvesAlone
<1>10. QED
  BY <1>7, <1>8, <1>9

LEMMA PopHalves ==
  ASSUME TypeInv, HalvesInv, NEW t \in Thread, Pop(t), UNCHANGED session
  PROVE  HalvesInv'
<1>1. job[t].at = "drop" /\ UNCHANGED <<store, legacy, job, torn>>
  BY DEF Pop, Is
<1>2. access'[t].at = "erase" /\ \A u \in Thread \ {t} : Alone(u)
  BY PopTypes
<1>3. ~HalfStored(t) /\ ~HalfStored(t)' /\ ~CopyingHalf(t)'
  BY <1>1, <1>2 DEF HalfStored, Is, CopyingHalf
<1>4. QED
  BY <1>1, <1>2, <1>3, HalvesAlone DEF SameHalves

LEMMA OwnHalves ==
  ASSUME TypeInv, HalvesInv, NEW t \in Thread, OwnStep(t)
  PROVE  HalvesInv'
<1>1. /\ Ends(t) /\ \A u \in Thread \ {t} : Alone(u)
      /\ torn => torn'
  BY DEF OwnStep
<1>2. access'[t] = NoAccess
  BY <1>1, EndsAccess
<1>3. ~CopyingHalf(t)'
  BY <1>2, NotAt DEF CopyingHalf, AccessAt
<1>4. HalfStored(t)' <=> job'[t].at = "makepub"
  BY <1>2, NotAt DEF HalfStored, Is, AccessAt
<1>5. HalfStored(t)' => HalfStored(t) /\ NewHalf(t)' = NewHalf(t)
  BY <1>4 DEF OwnStep, HalfStored, NewHalf, Is
<1>6. HalfStored(t) => torn' \/ HalfStored(t)'
  BY <1>4 DEF OwnStep
<1>7. UNCHANGED legacy
  BY <1>1 DEF Ends, Finds, Got, Refused, Stores, Put, Fails, PutFails, Forgets, Drop, Idle, keychain
<1>8. CASE \A k \in Halves : store'[k] = store[k]
  BY <1>1, <1>3, <1>5, <1>6, <1>7, <1>8, SameHalvesAre, HalvesAlone
<1>9. CASE torn'
  BY <1>1, <1>3, <1>7, <1>9, HalvesAlone
<1>10. CASE ~torn' /\ Forgets(t)
  <2>1. PICK i : i = Entry(job[t])
    OBVIOUS
  <2>2. job[t].at = "drop" /\ Active(job[t]) /\ Tear(t) /\ store' \in {store, [store EXCEPT ![i] = None]}
    BY <1>10, <2>1 DEF Forgets, Drop, Active
  <2>3. i \in Item /\ DOMAIN store = Item
    BY <2>1, <2>2, AtEntry
  <2>4. CASE i \notin Halves \/ store' = store
    BY <1>8, <2>2, <2>3, <2>4, HalvesAre
  <2>5. CASE i \in Halves /\ store' = [store EXCEPT ![i] = None]
    <3>1. ~torn /\ ~Halfway(t) /\ Matched
      BY <1>10, <2>1, <2>2, <2>5 DEF Tear, HalvesInv
    <3>2. \A u \in Thread : ~HalfStored(u)'
      BY <1>1, <1>4, <1>5, <2>2, <3>1, NotHalfway, AloneHalf, HalfAt
    <3>3. LeftOver' => LeftOver
      BY <1>1, <1>3, <1>7, AloneHalf DEF LeftOver
    <3>4. store'[i] = None /\ \A k \in Halves : k # i => store'[k] = store[k]
      BY <2>3, <2>5, HalvesAre
    <3>5. Matched'
      BY <3>1, <3>2, <3>3, <3>4, Marks DEF Matched, Relabelled
    <3>6. IdentityWhole'
      BY <2>5, <3>4, HalvesAre DEF IdentityWhole
    <3>7. OldHalves'
      BY <1>1, <1>3, <1>7, AloneHalf DEF HalvesInv, OldHalves
    <3>8. QED
      BY <3>5, <3>6, <3>7 DEF HalvesInv
  <2>6. QED
    BY <2>2, <2>4, <2>5
<1>11. CASE ~Forgets(t)
  <2>1. UNCHANGED store
    BY <1>1, <1>11 DEF Ends, Finds, Got, Refused, Stores, Put, Fails, PutFails, Idle, keychain
  <2>2. QED
    BY <1>8, <2>1
<1>12. QED
  BY <1>9, <1>10, <1>11

LEMMA RestartHalves == ASSUME TypeInv, HalvesInv, Restart PROVE HalvesInv'
<1>1. /\ access' = [t \in Thread |-> NoAccess] /\ job' = Started /\ UNCHANGED <<store, legacy>>
      /\ torn' = (torn \/ \E t \in Thread : HalfStored(t))
  BY DEF Restart
<1>2. ASSUME NEW t \in Thread PROVE ~HalfStored(t)' /\ ~CopyingHalf(t)'
  BY <1>1, StartedJobs, NotAt DEF HalfStored, CopyingHalf, Is, AccessAt
<1>3. torn' \/ \A t \in Thread : ~HalfStored(t)
  BY <1>1
<1>4. QED
  BY <1>1, <1>2, <1>3, HalvesStay DEF SameHalves

LEMMA HalvesSteps == ASSUME TypeInv, HalvesInv, [Next]_vars PROVE HalvesInv'
<1>1. CASE \E t \in Thread : UNCHANGED session /\ (Fetch(t) \/ Write(t) \/ Pop(t) \/ OwnStep(t))
  BY <1>1, FetchHalves, WriteHalves, PopHalves, OwnHalves
<1>2. CASE Aside
  <2>1. UNCHANGED <<store, legacy, torn>> /\ \A u \in Thread : Alone(u)
    BY <1>2 DEF Aside, keychain
  <2>2. QED
    BY <2>1, AloneHalf, HalvesStay DEF SameHalves
<1>3. QED
  BY <1>1, <1>2, RestartHalves, Steps

LEMMA HalvesInit == Init => HalvesInv
<1>1. SUFFICES ASSUME Init PROVE HalvesInv
  OBVIOUS
<1>2. access = [t \in Thread |-> NoAccess] /\ job = Started /\ torn = FALSE
  BY <1>1 DEF Init
<1>3. PICK known \in {hosts \in SUBSET Host : IsFiniteSet(hosts)}, pub \in {OldPair, OldPub}, renamed \in BOOLEAN :
        /\ store = Remembered(IF renamed THEN {} ELSE known, pub)
        /\ legacy = Remembered(IF renamed THEN known ELSE {}, OldPub)
  BY <1>1 DEF Init
<1>4. \A K : \A q \in {OldPair, OldPub} :
        \/ Remembered(K, q)[Priv] = None /\ Remembered(K, q)[Pub] = None
        \/ Remembered(K, q)[Priv] = OldPair /\ Remembered(K, q)[Pub] = q
  BY Names DEF Remembered
<1>5. ASSUME NEW t \in Thread PROVE ~HalfStored(t) /\ ~CopyingHalf(t)
  BY <1>2, StartedJobs, NotAt DEF HalfStored, CopyingHalf, Is, AccessAt
<1>6. \A i \in Halves : Relabelled(store[i]) \in {None, OldPair} /\ Relabelled(legacy[i]) \in {None, OldPair}
  BY <1>3, <1>4, HalvesAre, Marks DEF Relabelled
<1>7. OldHalves /\ Matched
  BY <1>5, <1>6 DEF OldHalves, Matched
<1>8. IdentityWhole
  BY <1>3, <1>4, Marks DEF IdentityWhole, Relabelled
<1>9. QED
  BY <1>7, <1>8 DEF HalvesInv

\* The two halves of the identity in the keychain are of one pair, unless a store or a delete of a half
\* failed or was cut off, two threads were at it at once, or a new pair was made although a half could
\* not be moved from the old name (secrets.py:230-238, 275-285, 378-392).
THEOREM IdentityIsWhole == Spec => []IdentityWhole
<1>1. TypeInv /\ HalvesInv /\ [Next]_vars => (TypeInv /\ HalvesInv)'
  BY Steps, HalvesSteps
<1>2. TypeInv /\ HalvesInv => IdentityWhole
  BY DEF HalvesInv
<1>3. QED
  BY <1>1, <1>2, InitTypes, HalvesInit, PTL DEF Spec
=============================================================================
