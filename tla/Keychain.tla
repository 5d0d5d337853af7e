------------------------------ MODULE Keychain ------------------------------
(***************************************************************************)
(* What the PC remembers of its routers: the OS keychain behind a          *)
(* per-process cache (secrets.py), the list of routers (profiles.py) and   *)
(* the threads that use them: a connection, a first-run setup, a revoked   *)
(* key, a new password, the reset of the app's data, and the main thread.  *)
(*                                                                         *)
(* One access to the keychain, or to the cache, is one step; an access to  *)
(* the keychain may fail.  The program before the rename (the legacy       *)
(* service name) may have left entries, which a read moves.                *)
(***************************************************************************)
EXTENDS Naturals, Sequences, FiniteSets, SequencesExt

CONSTANTS
  Host, Port,   \* what the user connects to
  Fp,           \* fingerprints of the routers' host keys: 1, 2 after a reset, ... (a bound)
  Pair,         \* SSH key pairs
  OldPair, OldPub, \* the one made earlier, and its public key under a label of then
  Secret,       \* a password, or the mark of an accepted disclaimer
  Worker, Tk,   \* the background threads and the main one
  MaxJobs,      \* bound: jobs the background threads are given, and routers that are reset
  MaxFaults,    \* bound: accesses to the keychain that fail
  MaxEvents,    \* bound: both together
  Unread, Denied, \* of the cache: not read yet, _KR_DENIED
  None

Thread == Worker \cup {Tk}
Global == {<<"priv", None>>, <<"pub", None>>, <<"accepted", None>>}
Item == Global \cup {"pin", "pw"} \X Host
Priv == <<"priv", None>>
Pub == <<"pub", None>>
Accepted == <<"accepted", None>>
\* Mutant: both entries of a router have one name.
PinUnderPw(h) == <<"pw", h>>
Pin(h) == <<"pin", h>>
Pw(h) == <<"pw", h>>
Value == Pair \cup {OldPub} \cup Fp \cup {Secret}
Kept(i) == IF i = Priv THEN Pair ELSE IF i = Pub THEN Pair \cup {OldPub}
           ELSE IF i[1] = "pin" THEN Fp ELSE {Secret}

\* _normalize_pub_comment: the same key under the current label.
Relabelled(v) == IF v = OldPub THEN OldPair ELSE v

ASSUME KeychainAssumption ==
  /\ OldPair \in Pair /\ OldPub \notin Pair
  /\ Tk \notin Worker
  /\ {None, Unread, Denied} \cap Value = {}
  /\ Cardinality({None, Unread, Denied}) = 3
  /\ None \notin Host
  /\ Fp \subseteq Nat /\ 1 \in Fp
  /\ {MaxJobs, MaxFaults, MaxEvents} \subseteq Nat

VARIABLES
  store,    \* the entries of the service "re-sputnik"
  legacy,   \* those of the service before the rename
  cache,    \* _kr_cache
  access,   \* where each thread is in its access to an entry, and the value it has
  crossed,  \* history: entries two threads were at, one of them to write, delete or move it
  registry, \* routers.json: the routers in the list
  box,      \* the routers: host key, authorized keys
  session,  \* the connection the window has: its host and the host key met
  job,      \* what each thread does
  begun, faults, \* the bounded counters
  torn      \* history: were the two halves of the identity written apart, or next to an old one?

keychain == <<store, legacy, cache, access, crossed>>
vars == <<keychain, registry, box, session, job, begun, faults, torn>>

\* What a thread has to do next in its access: in _kr_get to ask the old name, copy, delete there or
\* return; in _kr_set to cache what it has stored; to delete what it has taken from the cache.
AccessAt == {"old", "copy", "delete", "return", "cache", "erase"}
NoAccess == [at |-> "no", val |-> None]

\* Where a job reads or writes an entry, and which.
ReadingAt == {"pub", "priv", "pair", "pin", "read", "gate"}
WritingAt == {"label", "relabel", "make", "makepub", "trust", "setpin", "storepw", "agree"}
Entry(j) ==
  IF j.at \in {"priv", "make"} THEN Priv
  ELSE IF j.at \in {"pub", "pair", "label", "relabel", "makepub"} THEN Pub
  ELSE IF j.at \in {"pin", "trust", "setpin"} THEN Pin(j.host)
  ELSE IF j.at \in {"read", "storepw"} THEN Pw(j.host)
  ELSE IF j.at = "drop" THEN j.todo[1]
  ELSE Accepted

Box == [fp : Fp, keys : SUBSET Pair]
At == {"idle", "pub", "label", "priv", "pair", "relabel", "make", "makepub", "pin", "dial", "trust", "done",
       "mismatch", "install", "storepw", "setpin", "revoke", "drop", "read", "gate", "agree"}
Kind == {"none", "connect", "setup", "reset", "revoke", "password", "tk"}
\* typed: a password was entered;
\* home: the screen that began the job is still shown.
Nothing == [kind |-> "none", at |-> "idle", host |-> None, port |-> None, priv |-> None,
            pub |-> None, pin |-> None, fp |-> None, todo |-> <<>>,
            typed |-> FALSE, home |-> FALSE]

\* Everything is of its type; the entry of an item holds what is kept there, in the keychain, under
\* the old service name, in the cache and on its way between them.
TypeOK ==
  /\ DOMAIN store = Item /\ DOMAIN legacy = Item /\ DOMAIN cache = Item
  /\ \A i \in Item :
       /\ store[i] \in Kept(i) \cup {None}
       /\ legacy[i] \in Kept(i) \cup {None}
       /\ cache[i] \in Kept(i) \cup {None, Unread, Denied}
  /\ DOMAIN access = Thread
  /\ \A t \in Thread :
       \/ access[t] = NoAccess
       \/ /\ job[t].at \in ReadingAt \cup WritingAt \cup {"drop"}
          /\ access[t] \in [at : AccessAt, val : Kept(Entry(job[t])) \cup {None}]
  /\ crossed \subseteq Item
  /\ registry \subseteq Host \X Port
  /\ box \in [Host -> Box]
  /\ job \in [Thread -> [kind : Kind, at : At, host : Host \cup {None}, port : Port \cup {None},
                         priv : Pair \cup {None},
                         pub : Pair \cup {None}, pin : Fp \cup {None}, fp : Fp \cup {None},
                         todo : Seq(Item), typed : BOOLEAN, home : BOOLEAN]]
  /\ session \in [host : Host, fp : Fp] \cup {None}
  /\ begun \in 0..MaxJobs
  /\ faults \in 0..MaxFaults
  /\ torn \in BOOLEAN

\* The window opens with the disclaimer, or finds it accepted.
Started == [t \in Thread |-> IF t = Tk THEN [Nothing EXCEPT !.kind = "tk", !.at = "gate"] ELSE Nothing]

\* A PC without data, or with some routers' of this program (its key may have an earlier label) or
\* of the one before the rename.
Remembered(known, pub) ==
  [i \in Item |-> IF known = {} THEN None
                  ELSE IF i = Priv THEN OldPair
                  ELSE IF i = Pub THEN pub
                  ELSE IF i = Accepted THEN Secret
                  ELSE IF i[1] = "pin" /\ i[2] \in known THEN 1
                  ELSE IF i[1] = "pw" /\ i[2] \in known THEN Secret
                  ELSE None]
Init ==
  /\ \E known \in {hosts \in SUBSET Host : IsFiniteSet(hosts)}, pub \in {OldPair, OldPub}, renamed \in BOOLEAN :
       /\ store = Remembered(IF renamed THEN {} ELSE known, pub)
       /\ legacy = Remembered(IF renamed THEN known ELSE {}, OldPub)
       /\ registry \in {known \X {p} : p \in Port}
       /\ box = [h \in Host |-> [fp |-> 1, keys |-> IF h \in known THEN {OldPair} ELSE {}]]
  /\ cache = [i \in Item |-> Unread]
  /\ access = [t \in Thread |-> NoAccess]
  /\ crossed = {}
  /\ job = Started
  /\ session = None
  /\ begun = 0
  /\ faults = 0
  /\ torn = FALSE

-----------------------------------------------------------------------------
(* Threads.                                                                *)

Is(t, at) == job[t].at = at
Go(t, at) == job' = [job EXCEPT ![t].at = at]
End(t) == job' = [job EXCEPT ![t] = Nothing]

\* The new pair's private half is stored, its public half is not.
HalfStored(t) ==
  \/ Is(t, "make") /\ access[t].at = "cache"
  \/ Is(t, "makepub") /\ access[t].at # "cache"

\* Another thread writes or moves a half of the identity.
Halves == {Priv, Pub}
Halfway(t) == \E u \in Thread \ {t} :
  \/ job[u].at \in {"make", "makepub", "label", "relabel"}
  \/ access[u].at = "copy" /\ Entry(job[u]) \in Halves

\* A thread writes a half, or deletes it.  A half whose move failed stays under the old name, and
\* comes back when the new one is deleted.
Tear(t) ==
  torn' = \/ torn
          \/ Entry(job[t]) \in Halves /\ Halfway(t)
          \/ Is(t, "make") /\ (legacy[Priv] # None \/ legacy[Pub] # None)
          \/ (Is(t, "label") \/ Is(t, "relabel")) /\ Relabelled(store[Pub]) # job[t].pub

-----------------------------------------------------------------------------
(* Accesses to the keychain and its cache.                                 *)

Faulty == faults < MaxFaults /\ begun + faults < MaxEvents /\ faults' = faults + 1
Sound == UNCHANGED faults

\* What a reader who has no cache finds.
Seen(i) == IF store[i] # None THEN store[i] ELSE legacy[i]

\* t's access goes on; is over.
Goes(t, at, v) == access' = [access EXCEPT ![t] = [at |-> at, val |-> v]]
Over(t) == access' = [access EXCEPT ![t] = NoAccess]

\* t changes an entry that another thread is at, too, at one of these places.
Cross(t, i, ats) ==
  crossed' = IF \E u \in Thread \ {t} : access[u].at \in ats /\ Entry(job[u]) = i
             THEN crossed \cup {i} ELSE crossed

\* _kr_get, for an entry that is not in the cache: the present name, then the old one, ...
AskNew(t, i) ==
  /\ access[t].at = "no" /\ cache[i] = Unread
  /\ Sound
  /\ IF store[i] # None THEN Goes(t, "return", store[i]) ELSE Goes(t, "old", None)
  /\ UNCHANGED <<store, legacy, crossed>>
AskOld(t, i) ==
  /\ access[t].at = "old"
  /\ Sound
  /\ IF legacy[i] # None THEN Goes(t, "copy", legacy[i]) ELSE Goes(t, "return", None)
  /\ UNCHANGED <<store, legacy, crossed>>

\* Mutant: the old entry is deleted although its copy failed.
CopyAnyway(t, i) ==
  /\ access[t].at = "copy"
  /\ \/ Sound /\ store' = [store EXCEPT ![i] = access[t].val]
     \/ Faulty /\ UNCHANGED store
  /\ Goes(t, "delete", access[t].val)
  /\ UNCHANGED <<legacy, crossed>>

\* ... and what is there is copied, then deleted; if that fails it is returned all the same.
Copy(t, i) ==
  /\ access[t].at = "copy"
  /\ \/ Sound /\ store' = [store EXCEPT ![i] = access[t].val] /\ Goes(t, "delete", access[t].val)
     \/ Faulty /\ UNCHANGED store /\ Goes(t, "return", access[t].val)
  /\ UNCHANGED <<legacy, crossed>>
Delete(t, i) ==
  /\ access[t].at = "delete"
  /\ \/ Sound /\ legacy' = [legacy EXCEPT ![i] = None] /\ Cross(t, i, AccessAt)
     \/ Faulty /\ UNCHANGED <<legacy, crossed>>
  /\ Goes(t, "return", access[t].val)
  /\ UNCHANGED store
Fetch(t) ==
  /\ job[t].at \in ReadingAt
  /\ LET i == Entry(job[t]) IN AskNew(t, i) \/ AskOld(t, i) \/ Copy(t, i) \/ Delete(t, i)
  /\ UNCHANGED <<cache, registry, box, job, begun, torn>>

\* It returns v: from the cache, or what was read, which is cached.
Got(t, i, v) ==
  /\ \/ /\ access[t].at = "no"
        /\ cache[i] \notin {Unread, Denied} /\ v = cache[i]
        /\ UNCHANGED <<cache, access, crossed>>
     \/ /\ access[t].at = "return"
        /\ v = access[t].val
        /\ cache' = [cache EXCEPT ![i] = v]
        /\ Over(t)
        /\ Cross(t, i, {"cache", "erase"})
  /\ UNCHANGED <<store, legacy, faults>>

\* It raises: now, which is remembered, or ever since.
Refused(t, i) ==
  /\ \/ /\ access[t].at = "old" \/ (access[t].at = "no" /\ cache[i] = Unread)
        /\ Faulty
        /\ cache' = [cache EXCEPT ![i] = Denied]
        /\ Over(t)
     \/ access[t].at = "no" /\ cache[i] = Denied /\ UNCHANGED <<cache, access, faults>>
  /\ UNCHANGED <<store, legacy, crossed>>

\* Pairs nobody has seen: the supply is a bound.
NewPair == Pair \ ({OldPair, store[Priv], store[Pub], cache[Priv], cache[Pub]}
                   \cup UNION {{job[t].priv, job[t].pub, access[t].val} : t \in Thread}
                   \cup UNION {box[h].keys : h \in Host})

\* What a job writes.
Written(j) ==
  IF j.at \in {"label", "relabel"} THEN {j.pub}
  ELSE IF j.at = "make" THEN NewPair
  ELSE IF j.at = "makepub" THEN {j.priv}
  ELSE IF j.at \in {"trust", "setpin"} THEN {j.fp}
  ELSE {Secret}

\* Mutant: a public half that is there is kept.
WriteMissing(t) ==
  /\ job[t].at \in WritingAt /\ access[t].at = "no"
  /\ Sound
  /\ LET i == Entry(job[t]) IN
       \E v \in Written(job[t]) :
         /\ store' = IF i = Pub /\ store[Pub] # None THEN store ELSE [store EXCEPT ![i] = v]
         /\ Goes(t, "cache", v)
         /\ Cross(t, i, AccessAt)
  /\ Tear(t)
  /\ UNCHANGED <<legacy, cache, registry, box, job, begun>>

\* _kr_set: in the keychain, ...
Write(t) ==
  /\ job[t].at \in WritingAt /\ access[t].at = "no"
  /\ Sound
  /\ LET i == Entry(job[t]) IN
       \E v \in Written(job[t]) :
         /\ store' = [store EXCEPT ![i] = v]
         /\ Goes(t, "cache", v)
         /\ Cross(t, i, AccessAt)
  /\ Tear(t)
  /\ UNCHANGED <<legacy, cache, registry, box, job, begun>>

\* ... then in the cache; or it raises.
Put(t, i) ==
  /\ access[t].at = "cache"
  /\ cache' = [cache EXCEPT ![i] = access[t].val]
  /\ Over(t)
  /\ Cross(t, i, {"cache", "erase"})
  /\ UNCHANGED <<store, legacy, faults>>
PutFails(t) == access[t].at = "no" /\ Faulty /\ UNCHANGED <<store, legacy, cache, access, crossed>>

\* Mutant: the cache keeps what is to be forgotten.
PopNothing(t) ==
  /\ Is(t, "drop") /\ job[t].todo # <<>> /\ access[t].at = "no"
  /\ Goes(t, "erase", None)
  /\ UNCHANGED <<store, legacy, cache, crossed, registry, box, job, begun, faults, torn>>

\* The forget functions: from the cache, then from the keychain, where an error is swallowed.
\* Only the new service is looked at.
Pop(t) ==
  /\ Is(t, "drop") /\ job[t].todo # <<>> /\ access[t].at = "no"
  /\ cache' = [cache EXCEPT ![Entry(job[t])] = Unread]
  /\ Goes(t, "erase", None)
  /\ UNCHANGED <<store, legacy, crossed, registry, box, job, begun, faults, torn>>
Drop(t, i) ==
  /\ access[t].at = "erase"
  /\ \/ Sound /\ store' = [store EXCEPT ![i] = None] /\ Cross(t, i, AccessAt)
     \/ store[i] # None /\ Faulty /\ UNCHANGED <<store, crossed>>
  /\ Over(t)
  /\ UNCHANGED <<legacy, cache>>

-----------------------------------------------------------------------------
(* The jobs.                                                               *)

\* A thread takes a job.
Counted == begun < MaxJobs /\ begun + faults < MaxEvents /\ begun' = begun + 1
Begin(j) ==
  /\ Counted
  /\ \E w \in Worker : job[w] = Nothing /\ job' = [job EXCEPT ![w] = [j EXCEPT !.home = TRUE]]
  /\ UNCHANGED <<keychain, registry, box, faults, torn>>
Start(kind, at, h) == [Nothing EXCEPT !.kind = kind, !.at = at, !.host = h]

\* existing_public_key: a refusal counts as no key.  The main thread wants no more than that.
AfterPub(j) == IF j.kind = "tk" THEN Nothing
               ELSE [j EXCEPT !.at = IF j.pub = None THEN "pin" ELSE "priv"]

ReadPub(t) ==
  /\ Is(t, "pub")
  /\ \E v \in Kept(Pub) \cup {None} :
       /\ Got(t, Pub, v) \/ (Refused(t, Pub) /\ v = None)
       /\ LET j == [job[t] EXCEPT !.pub = Relabelled(v)] IN
            job' = [job EXCEPT ![t] = IF v = OldPub THEN [j EXCEPT !.at = "label"] ELSE AfterPub(j)]
  /\ UNCHANGED <<registry, box, begun, torn>>

\* With its identity a connection reads the pin, and a setup installs the public key.
Ready(t) == IF job[t].kind = "setup" THEN "install" ELSE "pin"

\* _relabel_stored_pub: the same key under the current label; an error is swallowed.
Relabel(t) ==
  /\ Is(t, "label") \/ Is(t, "relabel")
  /\ Put(t, Pub) \/ PutFails(t)
  /\ IF Is(t, "label") THEN job' = [job EXCEPT ![t] = AfterPub(job[t])] ELSE Go(t, Ready(t))
  /\ UNCHANGED <<registry, box, begun, torn>>

\* load_or_create_app_identity: without both halves, a new pair; a refusal ends the job.
Lacks(priv, pub) == priv = None \/ pub = None

ReadPriv(t) ==
  /\ Is(t, "priv")
  /\ \/ \E v \in Pair \cup {None} : Got(t, Priv, v) /\ job' = [job EXCEPT ![t].at = "pair", ![t].priv = v]
     \/ Refused(t, Priv) /\ End(t)
  /\ UNCHANGED <<registry, box, begun, torn>>

ReadPair(t) ==
  /\ Is(t, "pair")
  /\ \/ \E v \in Kept(Pub) \cup {None} :
          /\ Got(t, Pub, v)
          /\ job' = [job EXCEPT ![t].at = IF Lacks(job[t].priv, v) THEN "make"
                                         ELSE IF v = OldPub THEN "relabel" ELSE Ready(t),
                                ![t].pub = Relabelled(v)]
     \/ Refused(t, Pub) /\ End(t)
  /\ UNCHANGED <<registry, box, begun, torn>>

\* The private half is stored, then the public one.
MakePriv(t) ==
  /\ Is(t, "make")
  /\ \/ Put(t, Priv) /\ job' = [job EXCEPT ![t].at = "makepub", ![t].priv = access[t].val]
     \/ PutFails(t) /\ End(t)
  /\ UNCHANGED <<registry, box, begun, torn>>
MakePub(t) ==
  /\ Is(t, "makepub")
  /\ \/ Put(t, Pub) /\ job' = [job EXCEPT ![t].at = Ready(t), ![t].pub = job[t].priv] /\ UNCHANGED torn
     \/ PutFails(t) /\ End(t) /\ torn' = TRUE
  /\ UNCHANGED <<registry, box, begun>>

\* get_hostkey_pin: a refusal counts as no pin.
ReadPin(t) ==
  /\ Is(t, "pin")
  /\ \E v \in Fp \cup {None} :
       /\ Got(t, Pin(job[t].host), v) \/ (Refused(t, Pin(job[t].host)) /\ v = None)
       /\ job' = [job EXCEPT ![t].at = "dial", ![t].pin = v]
  /\ UNCHANGED <<registry, box, begun, torn>>

\* connect: refused or out of reach, another host key than the pinned one, or in; a first
\* host key is pinned.
Dial(t) ==
  /\ Is(t, "dial")
  /\ LET fp == box[job[t].host].fp IN
       \/ End(t)
       \/ /\ job[t].pin \notin {None, fp}
          /\ job' = [job EXCEPT ![t] = IF job[t].home THEN [@ EXCEPT !.at = "mismatch", !.fp = fp] ELSE Nothing]
       \/ /\ job[t].pin \in {None, fp}
          /\ job' = [job EXCEPT ![t].at = IF job[t].pin = None THEN "trust" ELSE "done", ![t].fp = fp]
  /\ UNCHANGED <<keychain, registry, box, begun, faults, torn>>

PinFirst(t) ==
  /\ Is(t, "trust")
  /\ Put(t, Pin(job[t].host)) \/ PutFails(t)
  /\ Go(t, "done")
  /\ UNCHANGED <<registry, box, begun, torn>>

\* apply_firstrun, in short: the key, then the password in the keychain.
InstallKey(t) ==
  /\ Is(t, "install")
  /\ \/ /\ job[t].fp = box[job[t].host].fp
        /\ box' = [box EXCEPT ![job[t].host].keys = @ \cup {job[t].pub}]
        /\ Go(t, IF job[t].typed THEN "storepw" ELSE "done")
     \/ End(t) /\ UNCHANGED box
  /\ UNCHANGED <<keychain, registry, begun, faults, torn>>

\* store_router_password: after a setup, a changed password, or a connection to remember.
StorePassword(t) ==
  /\ Is(t, "storepw")
  /\ Put(t, Pw(job[t].host)) \/ PutFails(t)
  /\ IF job[t].kind = "setup" THEN Go(t, "done") ELSE End(t)
  /\ UNCHANGED <<registry, box, begun, torn>>

\* _accept_new_key, on the main thread; the connection is tried again.
SetPin(t) ==
  /\ Is(t, "setpin")
  /\ Put(t, Pin(job[t].host)) \/ PutFails(t)
  /\ job' = [u \in Thread |->
       IF u = t THEN Nothing
       ELSE IF job[u].at = "mismatch" THEN [Start("connect", "pub", job[u].host) EXCEPT
                                              !.port = job[u].port, !.typed = job[u].typed, !.home = TRUE]
       ELSE job[u]]
  /\ UNCHANGED <<registry, box, begun, torn>>

\* A key, or with pub = None all of them, goes from the router; the pin follows when it was
\* the app's.
Revoke(t) ==
  /\ Is(t, "revoke")
  /\ LET h == job[t].host
         gone == IF job[t].pub = None THEN Pair ELSE {job[t].pub} IN
       \/ /\ job[t].fp = box[h].fp
          /\ box' = [box EXCEPT ![h].keys = @ \ gone]
          /\ IF job[t].pub = None \/ (job[t].pub = Relabelled(cache[Pub]) /\ job[t].pub \in box[h].keys)
             THEN job' = [job EXCEPT ![t].at = "drop", ![t].todo = <<Pin(h)>>]
             ELSE End(t)
       \/ End(t) /\ UNCHANGED box
  /\ UNCHANGED <<keychain, registry, begun, faults, torn>>

\* The saved password, for the form; a refusal ends in the callback's traceback.
ReadPassword(t) ==
  /\ Is(t, "read")
  /\ (\E v \in {Secret, None} : Got(t, Pw(job[t].host), v)) \/ Refused(t, Pw(job[t].host))
  /\ End(t)
  /\ UNCHANGED <<registry, box, begun, torn>>

\* disclaimer_accepted; a user who has not yet accepts it now, or closes the window.
ReadAccepted(t) ==
  /\ Is(t, "gate")
  /\ \E v \in {Secret, None} :
       /\ Got(t, Accepted, v) \/ (Refused(t, Accepted) /\ v = None)
       /\ IF v = None THEN Go(t, "agree") ELSE End(t)
  /\ UNCHANGED <<registry, box, begun, torn>>

\* accept_disclaimer: a failure is swallowed.
Agree(t) ==
  /\ Is(t, "agree")
  /\ Put(t, Accepted) \/ PutFails(t)
  /\ End(t)
  /\ UNCHANGED <<registry, box, begun, torn>>

\* What is to be forgotten, entry by entry.
Forget(t) ==
  /\ Is(t, "drop")
  /\ Drop(t, Entry(job[t]))
  /\ job' = [job EXCEPT ![t].todo = Tail(@)]
  /\ Tear(t)
  /\ UNCHANGED <<registry, box, begun>>

\* reset_app_data ends with the directory, routers.json in it.
Forgotten(t) ==
  /\ Is(t, "drop")
  /\ job[t].todo = <<>>
  /\ IF job[t].kind = "reset"
     THEN registry' = {} ELSE UNCHANGED registry
  /\ End(t)
  /\ UNCHANGED <<keychain, box, begun, faults, torn>>

\* The registry is read first, in whatever order; the identity and the disclaimer come last.
ResetList(order) ==
  [i \in 1..2 * Len(order) |-> IF i % 2 = 1 THEN Pw(order[(i + 1) \div 2][1]) ELSE Pin(order[i \div 2][1])]
    \o <<Priv, Pub, Accepted>>

Access(t) ==
  \/ Fetch(t) \/ Write(t) \/ Pop(t)
  \/ ReadPub(t) \/ Relabel(t) \/ ReadPriv(t) \/ ReadPair(t) \/ MakePriv(t) \/ MakePub(t)
  \/ ReadPin(t) \/ Dial(t) \/ PinFirst(t) \/ InstallKey(t) \/ StorePassword(t) \/ SetPin(t)
  \/ Revoke(t) \/ Forget(t) \/ Forgotten(t) \/ ReadPassword(t) \/ ReadAccepted(t) \/ Agree(t)

-----------------------------------------------------------------------------
(* What the user does; while the main thread is at the keychain the window *)
(* is dead.                                                                *)

Responsive == job[Tk] = Nothing
Shown(kind) == \E w \in Worker : job[w].kind = kind /\ job[w].home

\* _do_connect, to a router of the list or not; _setup, a new password, revoked keys.
DoConnect ==
  /\ Responsive /\ ~Shown("connect")
  /\ \E h \in Host, p \in Port, typed \in BOOLEAN :
       Begin([Start("connect", "pub", h) EXCEPT !.port = p, !.typed = typed])
  /\ UNCHANGED session
InSession ==
  /\ Responsive /\ session # None
  /\ \/ /\ ~Shown("setup")
        /\ \E at \in {"priv", "storepw"}, typed \in BOOLEAN :
             /\ at = "storepw" => typed
             /\ Begin([Start("setup", at, session.host) EXCEPT !.fp = session.fp, !.typed = typed])
     \/ Begin(Start("password", "storepw", session.host))
     \/ \E key \in box[session.host].keys \cup {None} :
          Begin([Start("revoke", "revoke", session.host) EXCEPT !.fp = session.fp, !.pub = key])
  /\ UNCHANGED session

\* The user leaves the screen: the answers to its jobs will be dropped.
Leave(w) ==
  /\ Responsive /\ job[w].home
  /\ job' = [job EXCEPT ![w] = IF @.at = "mismatch" THEN Nothing ELSE [@ EXCEPT !.home = FALSE]]
  /\ UNCHANGED <<keychain, registry, box, session, begun, faults, torn>>

\* _on_success: a router to remember goes to the list, its password to the keychain.  The
\* answer to a setup is of no matter here, one nobody waits for is dropped.
Answer(w) ==
  /\ Is(w, "done")
  /\ LET j == job[w] IN
       \/ /\ j.home /\ Responsive
          /\ \E remember \in IF j.kind = "connect" THEN BOOLEAN ELSE {FALSE} :
               /\ registry' = IF remember THEN registry \cup {<<j.host, j.port>>} ELSE registry
               /\ job' = [job EXCEPT ![w] = Nothing,
                                     ![Tk] = IF remember /\ j.typed THEN Start("tk", "storepw", j.host) ELSE Nothing]
          /\ session' = [host |-> j.host, fp |-> j.fp]
       \/ ~j.home /\ End(w) /\ UNCHANGED <<registry, session>>
  /\ UNCHANGED <<keychain, box, begun, faults, torn>>

\* What the main thread does itself: _accept_new_key, _apply_profile, forget_profile (the
\* secrets go unless another port of the host is in the list), the look for an identity when
\* the list is empty, the disclaimer; and what the security page shows of the session's router.
OnTk(j) == Responsive /\ job' = [job EXCEPT ![Tk] = j]
MainThread ==
  /\ \/ /\ \E w \in Worker : Is(w, "mismatch") /\ OnTk([Start("tk", "setpin", job[w].host) EXCEPT !.fp = job[w].fp])
        /\ UNCHANGED registry
     \/ /\ \E h \in {r[1] : r \in registry} \cup (IF session = None THEN {} ELSE {session.host}) :
             OnTk(Start("tk", "read", h))
        /\ UNCHANGED registry
     \/ \E r \in registry :
          /\ registry' = registry \ {r}
          /\ OnTk([Start("tk", "drop", r[1]) EXCEPT !.todo =
                     IF \E q \in registry' : q[1] = r[1] THEN <<>> ELSE <<Pw(r[1]), Pin(r[1])>>])
     \/ (registry = {} \/ session # None) /\ OnTk(Start("tk", "pub", None)) /\ UNCHANGED registry
     \/ OnTk(Start("tk", "gate", None)) /\ UNCHANGED registry
  /\ UNCHANGED <<keychain, box, session, begun, faults, torn>>

\* reset_app_data, offered when there is something to wipe.
ResetAppData ==
  /\ Responsive /\ ~Shown("reset")
  /\ registry # {} \/ cache[Pub] \notin {None, Unread, Denied} \/ session # None
  /\ \E order \in SetToSeqs(registry) : Begin([Start("reset", "drop", None) EXCEPT !.todo = ResetList(order)])
  /\ UNCHANGED session

\* A router is reset, and makes itself a new host key.
FactoryReset ==
  /\ Counted
  /\ \E h \in Host : box[h].fp + 1 \in Fp /\ box' = [box EXCEPT ![h] = [fp |-> @.fp + 1, keys |-> {}]]
  /\ UNCHANGED <<keychain, registry, session, job, faults, torn>>

\* The process ends, whatever its threads do, and is started again.
Restart ==
  /\ cache' = [i \in Item |-> Unread]
  /\ torn' = (torn \/ \E t \in Thread : HalfStored(t))
  /\ job' = Started
  /\ session' = None
  /\ access' = [t \in Thread |-> NoAccess]
  /\ crossed' = {}
  /\ UNCHANGED <<store, legacy, registry, box, begun, faults>>

Next ==
  \/ \E t \in Thread : Access(t) /\ UNCHANGED session
  \/ \E w \in Worker : Leave(w) \/ Answer(w)
  \/ DoConnect \/ InSession \/ MainThread \/ ResetAppData \/ FactoryReset \/ Restart

Spec == Init /\ [][Next]_vars

-----------------------------------------------------------------------------
(* Properties.                                                             *)

Writes(t, i) ==
  /\ job[t].at \in WritingAt \/ (job[t].at = "drop" /\ job[t].todo # <<>>)
  /\ i = Entry(job[t])

\* What a fresh reader of the keychain finds changes only when somebody stores or forgets that
\* very entry: the move from the old service name, whatever of it fails or is cut off, is invisible,
\* unless another thread was at the entry as well (secrets.py:222-238).
SecretsKept ==
  [][\A i \in Item : Seen(i)' # Seen(i) => i \in crossed \/ \E t \in Thread : Writes(t, i)]_<<store, legacy>>

\* The cache gives what a fresh reader would find, however reads, writes, forgets and moves of the
\* entry follow each other, but for an entry that two threads were at and one of them changed
\* (secrets.py:206-250, 306-311), and for what is stored and not yet cached.
CacheCurrent ==
  \A i \in Item :
    \/ cache[i] \in {Unread, Denied, Seen(i)}
    \/ i \in crossed
    \/ \E t \in Thread : access[t].at = "cache" /\ Entry(job[t]) = i

\* The two halves of the identity in the keychain are of one pair, unless storing or deleting a
\* half failed, two threads were at it at once, or the new pair was made although the move of a
\* half from the old service name had failed (secrets.py:230-238, 275-285, 378-392).
IdentityWhole ==
  \/ torn
  \/ \E t \in Thread : HalfStored(t)
  \/ None \in {store[Priv], store[Pub]}
  \/ store[Priv] = Relabelled(store[Pub])
=============================================================================
