--------------------------- MODULE FirstRunProofs ---------------------------
(* Proofs about FirstRun, for all sets of passwords, host keys and workers. *)
EXTENDS FirstRun, TLAPS

-----------------------------------------------------------------------------
(* Type correctness                                                         *)

\* The workers' part of TypeOK.
WorkOK ==
  /\ busy \in Worker \cup {None}
  /\ step \in [Worker -> Steps]
  /\ plan \in [Worker -> Plan]
  /\ verified \in [Worker -> BOOLEAN]
  /\ \A w \in Worker : step[w] \in NeedPassword => plan[w].pw \in Password

\* The rest of it.
RestOK ==
  /\ rootpw \in Password \cup {None}
  /\ installed \in BOOLEAN
  /\ hostkey \in HostKeys
  /\ hasId \in BOOLEAN
  /\ stored \in Password \cup {None}
  /\ pin \in HostKeys \cup {None}
  /\ screen \in {"connect", "firstrun", "home"}
  /\ outcome \in {"none", "ok", "unreachable", "authFailed", "mismatch"}
  /\ seen \in [key : BOOLEAN, pw : BOOLEAN]
  /\ form \in Password \cup {None}
  /\ fresh \in SUBSET Random
  /\ waived \in BOOLEAN

LEMMA Split == TypeOK <=> WorkOK /\ RestOK
  BY DEF TypeOK, WorkOK, RestOK

LEMMA SplitNext == TypeOK' <=> WorkOK' /\ RestOK'
  BY DEF TypeOK, WorkOK, RestOK

LEMMA NoPlanType == NoPlan \in Plan
  BY DEF NoPlan, Plan

LEMMA StartType ==
  ASSUME WorkOK, NEW w \in Worker, NEW pl \in Plan, NEW next \in Steps, Start(w, pl, next),
         next \in NeedPassword => pl.pw \in Password
  PROVE  WorkOK'
  BY DEF WorkOK, Start

LEMMA GoType ==
  ASSUME WorkOK, NEW w \in Worker, NEW next \in Steps, Go(w, next),
         next \in NeedPassword => plan[w].pw \in Password
  PROVE  WorkOK'
  BY DEF WorkOK, Go

LEMMA QuitType == ASSUME WorkOK, NEW w \in Worker, Quit(w) PROVE WorkOK'
  BY NoPlanType DEF WorkOK, Quit, Steps, NeedPassword

LEMMA FinishType == ASSUME WorkOK, NEW w \in Worker, Finish(w) PROVE WorkOK'
<1>1. "done" \in Steps /\ "done" \notin NeedPassword
  BY DEF Steps, NeedPassword
<1>2. QED
  BY <1>1, GoType, QuitType DEF Finish

LEMMA DropType ==
  ASSUME WorkOK, NEW W, Drop(W), busy' \in {busy, None} PROVE WorkOK'
  BY NoPlanType DEF WorkOK, Drop, Steps, NeedPassword

LEMMA SameWork == ASSUME WorkOK, UNCHANGED work PROVE WorkOK'
  BY DEF WorkOK, work

LEMMA SetupType == ASSUME TypeOK, NEW w \in Worker, Setup(w) PROVE TypeOK'
<1> USE DEF ui, router, keychain
<1>0. WorkOK /\ RestOK
  BY Split
<1>a. step[w] \in NeedPassword => plan[w].pw \in Password
  BY <1>0 DEF WorkOK
<1>b. plan[w].pw \in Password \cup {None}
  BY <1>0 DEF WorkOK, Plan
<1>1. CASE InstallKey(w)
  <2>1. installed' \in BOOLEAN /\ hasId' \in BOOLEAN /\ waived' \in BOOLEAN
    BY <1>0, <1>1, FirstRunAssumption DEF InstallKey, RestOK
  <2>2. WorkOK'
    BY <1>0, <1>1, GoType, QuitType DEF InstallKey, Steps, NeedPassword
  <2>3. RestOK'
    BY <1>0, <1>1, <2>1 DEF InstallKey, RestOK
  <2>4. QED
    BY <2>2, <2>3, SplitNext
<1>2. CASE VerifyKey(w)
  <2>1. AfterKey(plan[w]) = "check" => plan[w].pw \in Password
    BY <1>b DEF AfterKey
  <2>2. WorkOK'
    BY <1>0, <1>2, <2>1, GoType, QuitType, FinishType DEF VerifyKey, Steps, NeedPassword
  <2>3. RestOK'
    BY <1>0, <1>2 DEF VerifyKey, RestOK
  <2>4. QED
    BY <2>2, <2>3, SplitNext
<1>3. CASE CheckPassword(w)
  <2>1. plan[w].pw \in Password
    BY <1>3, <1>a DEF CheckPassword, NeedPassword
  <2>2. WorkOK'
    BY <1>0, <1>3, <2>1, GoType, QuitType DEF CheckPassword, Steps, NeedPassword
  <2>3. RestOK'
    BY <1>0, <1>3 DEF CheckPassword, RestOK
  <2>4. QED
    BY <2>2, <2>3, SplitNext
<1>4. CASE SetPassword(w)
  <2>1. plan[w].pw \in Password
    BY <1>4, <1>a DEF SetPassword, NeedPassword
  <2>2. WorkOK'
    BY <1>0, <1>4, <2>1, GoType, QuitType DEF SetPassword, Steps, NeedPassword
  <2>3. RestOK'
    BY <1>0, <1>4, <2>1 DEF SetPassword, RestOK
  <2>4. QED
    BY <2>2, <2>3, SplitNext
<1>5. CASE ConfirmPassword(w)
  <2>1. plan[w].pw \in Password
    BY <1>5, <1>a DEF ConfirmPassword, NeedPassword
  <2>2. WorkOK'
    BY <1>0, <1>5, <2>1, GoType, QuitType DEF ConfirmPassword, Steps, NeedPassword
  <2>3. RestOK'
    BY <1>0, <1>5 DEF ConfirmPassword, RestOK
  <2>4. QED
    BY <2>2, <2>3, SplitNext
<1>6. CASE StorePassword(w)
  <2>1. stored' \in Password \cup {None}
    BY <1>0, <1>6, <1>b DEF StorePassword, RestOK
  <2>2. WorkOK'
    BY <1>0, <1>6, FinishType DEF StorePassword
  <2>3. RestOK'
    BY <1>0, <1>6, <2>1 DEF StorePassword, RestOK
  <2>4. QED
    BY <2>2, <2>3, SplitNext
<1>7. QED
  BY <1>1, <1>2, <1>3, <1>4, <1>5, <1>6 DEF Setup

LEMMA SecurityType == ASSUME TypeOK, NEW w \in Worker, Security(w) PROVE TypeOK'
<1> USE DEF ui, router, keychain
<1>0. WorkOK /\ RestOK
  BY Split
<1>1. ASSUME NEW store \in BOOLEAN, ChangePassword(w, store) PROVE TypeOK'
  <2> DEFINE pl == [key |-> FALSE, pw |-> form, store |-> store]
  <2>1. pl \in Plan /\ pl.pw \in Password
    BY <1>0, <1>1 DEF ChangePassword, RestOK, Plan
  <2>2. WorkOK'
    BY <1>0, <1>1, <2>1, StartType DEF ChangePassword, Steps, NeedPassword
  <2>3. RestOK'
    BY <1>0, <1>1 DEF ChangePassword, RestOK
  <2>4. QED
    BY <2>2, <2>3, SplitNext
<1>2. CASE SecSetPassword(w)
  <2>1. plan[w].pw \in Password
    BY <1>0, <1>2 DEF SecSetPassword, NeedPassword, WorkOK
  <2>2. rootpw' \in Password \cup {None} /\ form' \in Password \cup {None}
    BY <1>0, <1>2, <2>1 DEF SecSetPassword, RestOK, Emptied
  <2>3. WorkOK'
    BY <1>0, <1>2, <2>1, GoType, QuitType DEF SecSetPassword, Steps, NeedPassword
  <2>4. RestOK'
    BY <1>0, <1>2, <2>2 DEF SecSetPassword, RestOK
  <2>5. QED
    BY <2>3, <2>4, SplitNext
<1>3. CASE SecStorePassword(w)
  <2>1. plan[w].pw \in Password
    BY <1>0, <1>3 DEF SecStorePassword, NeedPassword, WorkOK
  <2>2. stored' \in Password \cup {None} /\ form' \in Password \cup {None}
    BY <1>0, <1>3, <2>1 DEF SecStorePassword, RestOK, Emptied
  <2>3. WorkOK'
    BY <1>0, <1>3, QuitType DEF SecStorePassword
  <2>4. RestOK'
    BY <1>0, <1>3, <2>2 DEF SecStorePassword, RestOK
  <2>5. QED
    BY <2>3, <2>4, SplitNext
<1>4. QED
  BY <1>1, <1>2, <1>3 DEF Security

LEMMA ConnectType ==
  ASSUME TypeOK, NEW pw \in Typable, Connect(pw) PROVE TypeOK'
<1>0. WorkOK /\ RestOK
  BY Split
<1>1. pw \in Password \cup {None}
  BY <1>0 DEF RestOK, Typable, Password
<1>2. outcome' \in {"ok", "unreachable", "authFailed", "mismatch"}
  BY DEF Connect
<1>a. Enter => /\ screen' \in {"connect", "firstrun", "home"}
               /\ seen' \in [key : BOOLEAN, pw : BOOLEAN]
               /\ form' \in Password \cup {None}
  BY DEF Enter
<1>3. /\ stored' \in Password \cup {None}
      /\ pin' \in HostKeys \cup {None}
      /\ screen' \in {"connect", "firstrun", "home"}
      /\ seen' \in [key : BOOLEAN, pw : BOOLEAN]
      /\ form' \in Password \cup {None}
  BY <1>0, <1>1, <1>a DEF Connect, RestOK
<1>4. RestOK'
  BY <1>0, <1>2, <1>3 DEF Connect, RestOK, router
<1>5. WorkOK'
  BY <1>0, SameWork DEF Connect
<1>6. QED
  BY <1>4, <1>5, SplitNext

LEMMA ApplyType ==
  ASSUME TypeOK, NEW w \in Worker, NEW remember \in Remember, Apply(w, remember) PROVE TypeOK'
<1>0. WorkOK /\ RestOK /\ remember \in BOOLEAN
  BY Split, FirstRunAssumption
<1> DEFINE pl == [key |-> remember, pw |-> IF seen.pw THEN None ELSE form, store |-> ~seen.pw]
           next == IF remember THEN "install" ELSE "check"
<1>1. pl \in Plan
  BY <1>0 DEF RestOK, Plan
<1>2. next \in Steps /\ (next \in NeedPassword => pl.pw \in Password)
  BY <1>0 DEF Apply, RestOK, Steps, NeedPassword
<1>3. WorkOK'
  BY <1>0, <1>1, <1>2, StartType DEF Apply
<1>4. RestOK'
  BY <1>0 DEF Apply, RestOK, router, keychain, ui
<1>5. QED
  BY <1>3, <1>4, SplitNext

LEMMA InitType == Init => TypeOK
<1> SUFFICES ASSUME Init PROVE TypeOK
  OBVIOUS
<1>1. rootpw \in Password \cup {None}
  BY DEF Init, Password
<1>2. WorkOK
  BY NoPlanType DEF Init, WorkOK, Steps, NeedPassword
<1>3. RestOK
  BY <1>1 DEF Init, RestOK
<1>4. QED
  BY <1>2, <1>3, Split

LEMMA StepType == TypeOK /\ [Next]_vars => TypeOK'
<1> SUFFICES ASSUME TypeOK, [Next]_vars PROVE TypeOK'
  OBVIOUS
<1> USE DEF router, keychain, ui
<1>0. WorkOK /\ RestOK
  BY Split
<1>1. ASSUME NEW pw \in Typable, Connect(pw) PROVE TypeOK'
  BY <1>1, ConnectType
<1>2. CASE AcceptNewKey
  BY <1>2, <1>0, SameWork, SplitNext DEF AcceptNewKey, RestOK
<1>3. CASE Generate
  <2>1. PICK r \in fresh : form' = r /\ fresh' = fresh \ {r}
    BY <1>3 DEF Generate
  <2>2. form' \in Password \cup {None} /\ fresh' \in SUBSET Random
    BY <1>0, <2>1 DEF RestOK, Password
  <2>3. QED
    BY <1>3, <2>2, <1>0, SameWork, SplitNext DEF Generate, RestOK
<1>4. CASE TypeOwn
  <2>1. form' \in Password
    BY <1>4 DEF TypeOwn, Password
  <2>2. QED
    BY <1>4, <2>1, <1>0, SameWork, SplitNext DEF TypeOwn, RestOK
<1>5. ASSUME NEW w \in Worker, NEW remember \in Remember, Apply(w, remember) PROVE TypeOK'
  BY <1>5, ApplyType
<1>6. CASE SkipSetup
  BY <1>6, <1>0, SameWork, SplitNext DEF SkipSetup, RestOK
<1>7. ASSUME NEW w \in Worker, Setup(w) PROVE TypeOK'
  BY <1>7, SetupType
<1>8. ASSUME NEW w \in Worker, Proceed(w) PROVE TypeOK'
  BY <1>8, <1>0, QuitType, SplitNext DEF Proceed, RestOK
<1>9. ASSUME NEW w \in Worker, Security(w) PROVE TypeOK'
  BY <1>9, SecurityType
<1>10. CASE RevokeKeys
  <2>1. installed' \in BOOLEAN /\ waived' \in BOOLEAN
    BY <1>10, <1>0 DEF RevokeKeys, RestOK
  <2>2. QED
    BY <1>10, <2>1, <1>0, SameWork, SplitNext DEF RevokeKeys, RestOK
<1>11. CASE Back
  BY <1>11, <1>0, DropType, SplitNext DEF Back, RestOK
<1>12. CASE Restart
  BY <1>12, <1>0, DropType, SplitNext DEF Restart, RestOK
<1>13. CASE OwnerSetsPassword
  BY <1>13, <1>0, SameWork, SplitNext DEF OwnerSetsPassword, RestOK, Password
<1>14. CASE FactoryReset
  <2>1. installed' \in BOOLEAN /\ hostkey' \in HostKeys
    BY <1>14 DEF FactoryReset
  <2>2. QED
    BY <1>14, <2>1, <1>0, DropType, SplitNext DEF FactoryReset, RestOK
<1>15. CASE UNCHANGED vars
  BY <1>15, <1>0, SameWork, SplitNext DEF vars, RestOK
<1>16. QED
  BY <1>1, <1>2, <1>3, <1>4, <1>5, <1>6, <1>7, <1>8, <1>9, <1>10, <1>11, <1>12, <1>13,
     <1>14, <1>15 DEF Next

\* Every reachable state is well-typed, and no worker reaches a step that sends
\* or stores a password with an empty one.
THEOREM TypeCorrect == Spec => []TypeOK
  BY InitType, StepType, PTL DEF Spec

-----------------------------------------------------------------------------
(* No lock-out                                                              *)

\* The app's key opens the router, or the user waived that.
Open == (hasId /\ installed) \/ waived

\* The inductive strengthening of NeverLockedOut: only the settings, and a setup
\* past the installation of the key, can set a password, and both are reached
\* only with the key in place.
Inv ==
  /\ TypeOK
  /\ installed => hasId
  /\ screen = "home" => Open
  /\ \A w \in Worker : step[w] \in {"verify", "check", "passwd", "confirm", "secPasswd"} => Open
  /\ \A w \in Worker : busy = w /\ step[w] \in {"store", "done"} => Open
  /\ \A w \in Worker : step[w] = "done" => busy = w
  /\ screen = "connect" => busy = None
  /\ rootpw \in Random => Open

LEMMA InvQuit ==
  ASSUME Inv, TypeOK', NEW w \in Worker, Quit(w), Open => Open', installed' => hasId',
         rootpw' \in Random => Open', screen' = "home" => Open', screen' = "connect" => busy = None
  PROVE  Inv'
<1>1. busy' \in {busy, None} /\ step'[w] = "idle" /\ \A v \in Worker : v # w => step'[v] = step[v]
  BY DEF Quit, Inv, TypeOK
<1>2. \A v \in Worker : busy' = v => busy = v
  BY <1>1, FirstRunAssumption
<1>3. \A v \in Worker : step'[v] = "done" => step[v] = "done" /\ busy' = v
  BY <1>1 DEF Inv, Quit
<1>4. QED
  BY <1>1, <1>2, <1>3 DEF Inv

LEMMA InvGo ==
  ASSUME Inv, TypeOK', NEW w \in Worker, NEW next, Go(w, next), next = "done" => busy = w,
         Open', installed' => hasId', screen' = screen
  PROVE  Inv'
<1>1. busy' = busy /\ \A v \in Worker : step'[v] = IF v = w THEN next ELSE step[v]
  BY DEF Go, Inv, TypeOK
<1>2. QED
  BY <1>1 DEF Inv

LEMMA InvFinish ==
  ASSUME Inv, TypeOK', NEW w \in Worker, Finish(w), busy = w => Open, UNCHANGED rootpw,
         Open => Open', installed' => hasId', screen' = screen
  PROVE  Inv'
<1>1. CASE busy = w
  BY <1>1, InvGo DEF Finish
<1>2. CASE busy # w
  BY <1>2, InvQuit DEF Finish, Inv
<1>3. QED
  BY <1>1, <1>2

\* A step that leaves the workers alone, on the same screen or another one.
LEMMA InvSame ==
  ASSUME Inv, TypeOK', UNCHANGED work, Open => Open', installed' => hasId',
         rootpw' \in Random => Open', screen' = "home" => Open', screen' = "connect" => busy = None
  PROVE  Inv'
  BY DEF Inv, work

\* Workers end, in front of a destroyed screen.
LEMMA InvDrop ==
  ASSUME Inv, TypeOK', NEW W, Drop(W), busy' = None, screen' = "connect",
         \A w \in Worker : step[w] = "done" => w \in W,
         installed' => hasId', rootpw' \in Random => Open',
         \A w \in Worker : step[w] \notin {"idle", "install", "store", "secStore"} =>
                          w \in W \/ (Open => Open')
  PROVE  Inv'
<1>1. \A w \in Worker : step'[w] = IF w \in W THEN "idle" ELSE step[w]
  BY DEF Drop
<1>2. \A w \in Worker : step'[w] # "done"
  BY <1>1
<1>3. \A w \in Worker : busy' # w
  BY FirstRunAssumption
<1>4. ASSUME NEW w \in Worker,
             step'[w] \in {"verify", "check", "passwd", "confirm", "secPasswd"}
      PROVE  Open'
  BY <1>1, <1>4 DEF Inv
<1>5. QED
  BY <1>2, <1>3, <1>4 DEF Inv

LEMMA InvSetup ==
  ASSUME Inv, TypeOK', NEW w \in Worker, Setup(w) PROVE Inv'
<1> USE DEF ui, router, keychain
<1>1. CASE InstallKey(w)
  <2>1. hasId' = (hasId \/ Keyring) /\ waived' = (waived /\ ~installed')
    BY <1>1 DEF InstallKey
  <2>2. (installed' => hasId') /\ (Open => Open')
    BY <1>1, <2>1, FirstRunAssumption DEF InstallKey, Inv, TypeOK, Open
  <2>3. CASE Go(w, "verify") /\ Keyring /\ installed'
    BY <1>1, <2>1, <2>2, <2>3, InvGo DEF InstallKey, Open
  <2>4. CASE Quit(w)
    BY <1>1, <2>2, <2>4, InvQuit DEF InstallKey, Inv
  <2>5. QED
    BY <1>1, <2>3, <2>4 DEF InstallKey
<1>2. CASE VerifyKey(w)
  <2>1. Open /\ UNCHANGED <<rootpw, installed, hasId, screen, waived>>
    BY <1>2 DEF VerifyKey, Inv
  <2>2. QED
    BY <1>2, <2>1, InvGo, InvFinish, InvQuit DEF VerifyKey, Inv, Open
<1>3. CASE CheckPassword(w)
  <2>1. Open /\ UNCHANGED <<rootpw, installed, hasId, screen, waived>>
    BY <1>3 DEF CheckPassword, Inv
  <2>2. QED
    BY <1>3, <2>1, InvGo, InvQuit DEF CheckPassword, Inv, Open
<1>4. CASE SetPassword(w)
  <2>1. Open /\ UNCHANGED <<installed, hasId, screen, waived>>
    BY <1>4 DEF SetPassword, Inv
  <2>2. QED
    BY <1>4, <2>1, InvGo, InvQuit DEF SetPassword, Inv, Open
<1>5. CASE ConfirmPassword(w)
  <2>1. Open /\ UNCHANGED <<rootpw, installed, hasId, screen, waived>>
    BY <1>5 DEF ConfirmPassword, Inv
  <2>2. QED
    BY <1>5, <2>1, InvGo, InvQuit DEF ConfirmPassword, Inv, Open
<1>6. CASE StorePassword(w)
  <2>1. (busy = w => Open) /\ UNCHANGED <<rootpw, installed, hasId, screen, waived>>
    BY <1>6 DEF StorePassword, Inv
  <2>2. QED
    BY <1>6, <2>1, InvFinish DEF StorePassword, Inv, Open
<1>7. QED
  BY <1>1, <1>2, <1>3, <1>4, <1>5, <1>6 DEF Setup

LEMMA InvSecurity == ASSUME Inv, TypeOK', NEW w \in Worker, Security(w) PROVE Inv'
<1> USE DEF ui, router, keychain
<1>1. ASSUME NEW store \in BOOLEAN, ChangePassword(w, store) PROVE Inv'
  <2>1. /\ screen = "home" /\ Open /\ busy' = w
        /\ \A v \in Worker : step'[v] = IF v = w THEN "secPasswd" ELSE step[v]
    BY <1>1 DEF ChangePassword, Start, Inv, TypeOK
  <2>2. (waived => waived') /\ UNCHANGED <<rootpw, installed, hasId, screen>>
    BY <1>1 DEF ChangePassword
  <2>3. \A v \in Worker : step[v] # "done"
    BY <1>1, FirstRunAssumption DEF ChangePassword, Start, Inv
  <2>4. QED
    BY <2>1, <2>2, <2>3 DEF Inv, Open
<1>2. CASE SecSetPassword(w)
  <2>1. Open /\ UNCHANGED <<installed, hasId, screen, waived>>
    BY <1>2 DEF SecSetPassword, Inv
  <2>2. QED
    BY <1>2, <2>1, InvGo, InvQuit DEF SecSetPassword, Inv, Open
<1>3. CASE SecStorePassword(w)
  <2>1. UNCHANGED <<rootpw, installed, hasId, screen, waived>>
    BY <1>3 DEF SecStorePassword
  <2>2. QED
    BY <1>3, <2>1, InvQuit DEF SecStorePassword, Inv, Open
<1>4. QED
  BY <1>1, <1>2, <1>3 DEF Security

LEMMA InvInit == Init => Inv
  BY InitType, FirstRunAssumption DEF Init, Inv, Open

LEMMA InvStep == Inv /\ [Next]_vars => Inv'
<1> SUFFICES ASSUME Inv, [Next]_vars PROVE Inv'
  OBVIOUS
<1> USE DEF router, keychain, ui
<1>0. TypeOK'
  BY StepType DEF Inv
<1>1. ASSUME NEW pw \in Typable, Connect(pw) PROVE Inv'
  <2>1. screen = "connect" /\ UNCHANGED <<rootpw, installed, hasId, work, waived>>
    BY <1>1 DEF Connect
  <2>2. screen' = "home" => hasId /\ installed
    BY <1>1 DEF Connect, Enter
  <2>3. QED
    BY <1>0, <2>1, <2>2, InvSame DEF Inv, Open
<1>2. CASE AcceptNewKey \/ Generate \/ TypeOwn
  <2>1. UNCHANGED <<rootpw, installed, hasId, work, screen, waived>>
    BY <1>2 DEF AcceptNewKey, Generate, TypeOwn
  <2>2. QED
    BY <1>0, <2>1, InvSame DEF Inv, Open
<1>3. ASSUME NEW w \in Worker, NEW remember \in Remember, Apply(w, remember) PROVE Inv'
  <2>1. remember \in BOOLEAN
    BY FirstRunAssumption
  <2>2. /\ screen = "firstrun" /\ busy' = w
        /\ \A v \in Worker : step'[v] = IF v = w THEN IF remember THEN "install" ELSE "check"
                                                   ELSE step[v]
    BY <1>3 DEF Apply, Start, Inv, TypeOK
  <2>3. waived' = (waived \/ ~remember) /\ UNCHANGED <<rootpw, installed, hasId, screen>>
    BY <1>3 DEF Apply
  <2>4. \A v \in Worker : step[v] # "done"
    BY <1>3, FirstRunAssumption DEF Apply, Start, Inv
  <2>5. \A v \in Worker : step'[v] # "done" /\ (busy' = v => step'[v] # "store")
    BY <2>2, <2>4
  <2>6. (Open => Open') /\ (~remember => Open')
    BY <2>1, <2>3 DEF Open
  <2>7. \A v \in Worker :
          step'[v] \in {"verify", "check", "passwd", "confirm", "secPasswd"} => Open'
    BY <2>2, <2>6 DEF Inv
  <2>8. QED
    BY <1>0, <2>2, <2>3, <2>5, <2>6, <2>7 DEF Inv
<1>4. CASE SkipSetup
  BY <1>0, <1>4, InvSame DEF SkipSetup, Inv, Open
<1>5. ASSUME NEW w \in Worker, Setup(w) PROVE Inv'
  BY <1>0, <1>5, InvSetup
<1>6. ASSUME NEW w \in Worker, Proceed(w) PROVE Inv'
  <2>1. Open
    BY <1>6 DEF Proceed, Inv
  <2>2. QED
    BY <1>0, <1>6, <2>1, InvQuit DEF Proceed, Inv, Open
<1>7. ASSUME NEW w \in Worker, Security(w) PROVE Inv'
  BY <1>0, <1>7, InvSecurity
<1>8. CASE RevokeKeys
  <2>1. Open => Open'
    BY <1>8 DEF RevokeKeys, Open
  <2>2. QED
    BY <1>0, <1>8, <2>1, InvSame DEF RevokeKeys, Inv
<1>9. CASE Back
  BY <1>0, <1>9, InvDrop DEF Back, Inv, Open
<1>10. CASE Restart
  BY <1>0, <1>10, InvDrop DEF Restart, Inv, Open
<1>11. CASE OwnerSetsPassword
  <2>1. rootpw' \notin Random
    BY <1>11, FirstRunAssumption DEF OwnerSetsPassword
  <2>2. QED
    BY <1>0, <1>11, <2>1, InvSame DEF OwnerSetsPassword, Inv, Open
<1>12. CASE FactoryReset
  <2> DEFINE W == {w \in Worker : step[w] \notin {"store", "secStore"}}
  <2>1. /\ rootpw' = None /\ ~installed' /\ screen' = "connect" /\ busy' = None
        /\ rootpw' \notin Random /\ Drop(W)
    BY <1>12, FirstRunAssumption DEF FactoryReset, Inv
  <2>2. QED
    BY <1>0, <2>1, InvDrop
<1>13. CASE UNCHANGED vars
  BY <1>0, <1>13, InvSame DEF vars, Inv, Open
<1>14. QED
  BY <1>1, <1>2, <1>3, <1>4, <1>5, <1>6, <1>7, <1>8, <1>9, <1>10, <1>11, <1>12, <1>13 DEF Next

\* On a router that honours authorized_keys, no failure, lost answer, overlap of
\* workers, closed app or reset during the setup or a change of password leaves
\* a generated password that nobody has.
THEOREM LockOutSafe ==
  ASSUME Honoured PROVE Spec => []NeverLockedOut
<1>1. Inv => NeverLockedOut
  BY DEF Inv, Open, NeverLockedOut, KeyWorks
<1>2. QED
  BY InvInit, InvStep, <1>1, PTL DEF Spec
=============================================================================
