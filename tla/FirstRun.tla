------------------------------ MODULE FirstRun ------------------------------
(***************************************************************************)
(* Getting access to a router and keeping it: the connect screen           *)
(* (ui/connect_screen.py, router/client.py), the first-run setup           *)
(* (engine/firstrun.py, ui/firstrun_screen.py) and the password and key    *)
(* part of the security screen, with one router and one PC.                *)
(*                                                                         *)
(* Every SSH command is a step.  A command succeeds, fails without effect, *)
(* or takes effect on the router and still fails on the PC (the answer is  *)
(* lost or late).  The steps run in worker threads (ui/worker.py): a user  *)
(* who leaves the screen leaves the worker running, and only its result is *)
(* dropped.  The app may be closed between any two steps, the owner may    *)
(* set a password in LuCI, and the router may be reset to factory state.   *)
(***************************************************************************)
EXTENDS Naturals

CONSTANTS
  Own,          \* passwords the user makes up, and therefore knows
  Random,       \* passwords the app generates
  HostKeys,     \* SSH host keys the router may get at a reset
  Worker,       \* worker threads
  Remember,     \* settings of the "remember this device" box the user tries
  Honoured,     \* does dropbear accept a key listed in authorized_keys?
  Keyring,      \* does the PC have a working keychain?
  None          \* no password, no pin, no worker

ASSUME FirstRunAssumption ==
  /\ Own \cap Random = {}
  /\ None \notin Own \cup Random \cup HostKeys \cup Worker
  /\ Remember \in SUBSET BOOLEAN
  /\ Honoured \in BOOLEAN
  /\ Keyring \in BOOLEAN

VARIABLES
  rootpw,     \* router: root's password
  installed,  \* router: is the app's key in authorized_keys?
  hostkey,    \* router: its SSH host key
  hasId,      \* PC: does the keychain hold an app identity?
  stored,     \* PC: the password in the keychain
  pin,        \* PC: the pinned host key
  screen,     \* the screen the user is on
  outcome,    \* what the last connect ended with
  seen,       \* detect_state's answer at connect: [key, pw]
  form,       \* the password shown in the form
  fresh,      \* random passwords not generated yet
  busy,       \* the worker this screen waits for
  step,       \* what each worker does next
  plan,       \* each worker's FirstRunPlan
  verified,   \* each worker's FirstRunResult.key_verified
  waived      \* history: the user gave up the app's way back in (revoked the
              \* key, or unticked "remember this device" or "keep the password")

router == <<rootpw, installed, hostkey>>
keychain == <<hasId, stored, pin>>
ui == <<screen, outcome, seen, form, fresh>>
work == <<busy, step, plan, verified>>
vars == <<router, keychain, ui, work, waived>>

Password == Own \cup Random
Plan == [key : BOOLEAN, pw : Password \cup {None}, store : BOOLEAN]
NoPlan == [key |-> FALSE, pw |-> None, store |-> FALSE]
NeedPassword == {"check", "passwd", "confirm", "store", "secPasswd", "secStore"}
Steps == NeedPassword \cup {"idle", "install", "verify", "done"}

TypeOK ==
  /\ rootpw \in Password \cup {None}
  /\ installed \in BOOLEAN
  /\ hostkey \in HostKeys
  /\ hasId \in BOOLEAN
  /\ stored \in Password \cup {None}
  /\ pin \in HostKeys \cup {None}
  /\ screen \in {"connect", "firstrun", "home"}
  /\ outcome \in {"none", "ok", "unreachable", "authFailed", "mismatch"}
  /\ seen \in [key : BOOLEAN, pw : BOOLEAN]
  /\ form \in Password \cup {None}
  /\ fresh \in SUBSET Random
  /\ busy \in Worker \cup {None}
  /\ step \in [Worker -> Steps]
  /\ plan \in [Worker -> Plan]
  /\ verified \in [Worker -> BOOLEAN]
  /\ waived \in BOOLEAN
  /\ \A w \in Worker : step[w] \in NeedPassword => plan[w].pw \in Password

\* A router as it comes, or one whose owner set a password; a PC without data.
Init ==
  /\ rootpw \in Own \cup {None}
  /\ installed = FALSE
  /\ hostkey \in HostKeys
  /\ hasId = FALSE
  /\ stored = None
  /\ pin = None
  /\ screen = "connect"
  /\ outcome = "none"
  /\ seen = [key |-> FALSE, pw |-> FALSE]
  /\ form = None
  /\ fresh = Random
  /\ busy = None
  /\ step = [w \in Worker |-> "idle"]
  /\ plan = [w \in Worker |-> NoPlan]
  /\ verified = [w \in Worker |-> FALSE]
  /\ waived = FALSE

-----------------------------------------------------------------------------
(* SSH authentication                                                       *)

\* auth_publickey succeeds
KeyWorks == hasId /\ installed /\ Honoured

\* A password, if given, decides alone; else the key, else the 'none' method,
\* which dropbear grants to a root without a password.
Authenticates(pw) ==
  IF pw # None THEN pw = rootpw ELSE KeyWorks \/ rootpw = None

\* What the user can put into the password field.
Typable == Own \cup {stored, None}

-----------------------------------------------------------------------------
(* The connect screen                                                       *)

\* detect_state and the way on: the settings if the key is trusted, else the setup.
Enter ==
  /\ seen' = [key |-> hasId /\ installed, pw |-> rootpw # None]
  /\ form' = None
  /\ screen' = IF hasId /\ installed THEN "home" ELSE "firstrun"

\* The transport opens, authenticates, and only then compares the host key.
\* A first key is pinned; a password is kept if the user wants it kept.
Connect(pw) ==
  /\ screen = "connect"
  /\ pw \in Typable
  /\ \/ /\ ~Authenticates(pw)
        /\ outcome' = "authFailed"
        /\ UNCHANGED <<stored, pin, screen, seen, form>>
     \/ /\ Authenticates(pw)
        /\ pin \notin {None, hostkey}
        /\ outcome' = "mismatch"
        /\ UNCHANGED <<stored, pin, screen, seen, form>>
     \/ /\ outcome' = "unreachable"
        /\ UNCHANGED <<stored, pin, screen, seen, form>>
     \/ /\ Authenticates(pw)
        /\ pin \in {None, hostkey}
        /\ outcome' = "ok"
        /\ pin' = IF Keyring /\ pin = None THEN hostkey ELSE pin
        /\ stored' \in {stored} \cup IF Keyring /\ pw # None THEN {pw} ELSE {}
        /\ Enter
  /\ UNCHANGED <<router, hasId, fresh, work, waived>>

\* "Accept the new key": re-pin, then the form is submitted again.
AcceptNewKey ==
  /\ screen = "connect"
  /\ outcome = "mismatch"
  /\ pin' = hostkey
  /\ outcome' = "none"
  /\ UNCHANGED <<router, hasId, stored, screen, seen, form, fresh, work, waived>>

-----------------------------------------------------------------------------
(* Worker threads                                                           *)

Start(w, pl, next) ==
  /\ busy = None
  /\ step[w] = "idle"
  /\ busy' = w
  /\ step' = [step EXCEPT ![w] = next]
  /\ plan' = [plan EXCEPT ![w] = pl]
  /\ verified' = [verified EXCEPT ![w] = FALSE]

\* On to the next step.
Go(w, next) ==
  /\ step' = [step EXCEPT ![w] = next]
  /\ verified' = [verified EXCEPT ![w] = @ \/ step[w] = "verify"]
  /\ UNCHANGED <<busy, plan>>

\* The task ends, well or with an error: the screen that waits for it, if the
\* user is still there, is free again and keeps its form.
Quit(w) ==
  /\ step' = [step EXCEPT ![w] = "idle"]
  /\ busy' = IF busy = w THEN None ELSE busy
  /\ plan' = [plan EXCEPT ![w] = NoPlan]
  /\ verified' = [verified EXCEPT ![w] = FALSE]

\* The setup ends well: its screen, if the user is still there, shows "Next".
Finish(w) == IF busy = w THEN Go(w, "done") ELSE Quit(w)

\* Every worker in W ends, without anybody to take its result.
Drop(W) ==
  /\ step' = [w \in Worker |-> IF w \in W THEN "idle" ELSE step[w]]
  /\ plan' = [w \in Worker |-> IF w \in W THEN NoPlan ELSE plan[w]]
  /\ verified' = [w \in Worker |-> w \notin W /\ verified[w]]

-----------------------------------------------------------------------------
(* The first-run screen                                                     *)

\* The setup offers a password only if detect_state saw none.  The field stays
\* editable while a task runs.
PasswordForm == screen = "home" \/ (screen = "firstrun" /\ ~seen.pw)

Generate ==
  /\ PasswordForm
  /\ \E r \in fresh : form' = r /\ fresh' = fresh \ {r}
  /\ UNCHANGED <<router, keychain, screen, outcome, seen, work, waived>>

TypeOwn ==
  /\ PasswordForm
  /\ form' \in Own
  /\ UNCHANGED <<router, keychain, screen, outcome, seen, fresh, work, waived>>

\* Apply: key and password, or the key alone if there is a password already.
Apply(w, remember) ==
  /\ screen = "firstrun"
  /\ remember \/ ~seen.pw
  /\ seen.pw \/ form # None
  /\ Start(w, [key |-> remember, pw |-> IF seen.pw THEN None ELSE form, store |-> ~seen.pw],
           IF remember THEN "install" ELSE "check")
  /\ waived' = (waived \/ ~remember)
  /\ UNCHANGED <<router, keychain, ui>>

\* "Nothing to change": without a key to install and with a password set.
SkipSetup ==
  /\ screen = "firstrun"
  /\ busy = None
  /\ FALSE \in Remember /\ seen.pw
  /\ screen' = "home"
  /\ waived' = TRUE
  /\ UNCHANGED <<router, keychain, outcome, seen, form, fresh, work>>

\* Mutant: an empty password is set as well.
AfterKeyAlways(pl) == "check"

\* set_password and password: on to the password, if there is one.
AfterKey(pl) == IF pl.pw = None THEN "done" ELSE "check"

\* Mutant: an error of install_public_key does not stop the setup.
InstallKeyAnyway(w) ==
  /\ step[w] = "install"
  /\ hasId' = (hasId \/ Keyring)
  /\ installed' \in {installed, installed \/ Keyring}
  /\ Go(w, "verify")
  /\ waived' = (waived /\ ~installed')
  /\ UNCHANGED <<rootpw, hostkey, stored, pin, ui>>

InstallKey(w) ==
  /\ step[w] = "install"
  /\ hasId' = (hasId \/ Keyring)
  /\ \/ /\ Keyring
        /\ installed' = TRUE
        /\ Go(w, "verify")
     \/ /\ installed' \in {installed, installed \/ Keyring}
        /\ Quit(w)
  /\ waived' = (waived /\ ~installed')
  /\ UNCHANGED <<rootpw, hostkey, stored, pin, ui>>

\* The fresh connection of _verify_key_auth gives no password, so a router
\* without one lets it in by 'none' as well.
VerifyKey(w) ==
  /\ step[w] = "verify"
  /\ \/ /\ Authenticates(None)
        /\ IF AfterKey(plan[w]) = "check" THEN Go(w, "check") ELSE Finish(w)
     \/ Quit(w)
  /\ UNCHANGED <<router, keychain, ui, waived>>

\* root_has_password: a password that is there is left alone, yet the plan's
\* is stored.
CheckPassword(w) ==
  /\ step[w] = "check"
  /\ \/ Go(w, IF rootpw # None THEN "store" ELSE "passwd")
     \/ Quit(w)
  /\ UNCHANGED <<router, keychain, ui, waived>>

SetPassword(w) ==
  /\ step[w] = "passwd"
  /\ \/ rootpw' = plan[w].pw /\ Go(w, "confirm")
     \/ rootpw' \in {rootpw, plan[w].pw} /\ Quit(w)
  /\ UNCHANGED <<installed, hostkey, keychain, ui, waived>>

\* root_has_password again: passwd may have accepted an empty one.
ConfirmPassword(w) ==
  /\ step[w] = "confirm"
  /\ \/ rootpw # None /\ Go(w, "store")
     \/ Quit(w)
  /\ UNCHANGED <<router, keychain, ui, waived>>

\* store_router_password never raises; its answer is not looked at.
StorePassword(w) ==
  /\ step[w] = "store"
  /\ stored' = IF Keyring THEN plan[w].pw ELSE stored
  /\ Finish(w)
  /\ UNCHANGED <<router, hasId, pin, ui, waived>>

\* "Next": on to the settings.
Proceed(w) ==
  /\ screen = "firstrun"
  /\ step[w] = "done"
  /\ Quit(w)
  /\ screen' = "home"
  /\ form' = None
  /\ UNCHANGED <<router, keychain, outcome, seen, fresh, waived>>

-----------------------------------------------------------------------------
(* The security screen                                                      *)

ChangePassword(w, store) ==
  /\ screen = "home"
  /\ form # None
  /\ Start(w, [key |-> FALSE, pw |-> form, store |-> store], "secPasswd")
  /\ waived' = (waived \/ ~store)
  /\ UNCHANGED <<router, keychain, ui>>

\* The field is emptied when the screen learns of the success.
Emptied(w) == form' = IF busy = w THEN None ELSE form

SecSetPassword(w) ==
  /\ step[w] = "secPasswd"
  /\ \/ rootpw' = plan[w].pw /\ plan[w].store /\ Go(w, "secStore") /\ UNCHANGED form
     \/ rootpw' = plan[w].pw /\ ~plan[w].store /\ Quit(w) /\ Emptied(w)
     \/ rootpw' \in {rootpw, plan[w].pw} /\ Quit(w) /\ UNCHANGED form
  /\ UNCHANGED <<installed, hostkey, keychain, screen, outcome, seen, fresh, waived>>

SecStorePassword(w) ==
  /\ step[w] = "secStore"
  /\ stored' = IF Keyring THEN plan[w].pw ELSE stored
  /\ Quit(w)
  /\ Emptied(w)
  /\ UNCHANGED <<router, hasId, pin, screen, outcome, seen, fresh, waived>>

\* Revoking the app's own key, or all keys if there are any or none, also
\* forgets the host-key pin; a lost answer of the router keeps it.
RevokeKeys ==
  /\ screen = "home"
  /\ installed' = FALSE
  /\ pin' \in {None, pin}
  /\ waived' = (waived \/ installed)
  /\ UNCHANGED <<rootpw, hostkey, hasId, stored, ui, work>>

-----------------------------------------------------------------------------
(* What else happens                                                        *)

\* Back to the connect screen: the screen is destroyed, a worker goes on.
Back ==
  /\ screen # "connect"
  /\ screen' = "connect"
  /\ outcome' = "none"
  /\ form' = None
  /\ busy' = None
  /\ Drop({w \in Worker : step[w] = "done"})
  /\ UNCHANGED <<router, keychain, seen, fresh, waived>>

\* The app is closed and started again: the daemon threads are gone.
Restart ==
  /\ screen' = "connect"
  /\ outcome' = "none"
  /\ form' = None
  /\ busy' = None
  /\ Drop(Worker)
  /\ UNCHANGED <<router, keychain, seen, fresh, waived>>

OwnerSetsPassword ==
  /\ rootpw' \in Own
  /\ UNCHANGED <<installed, hostkey, keychain, ui, work, waived>>

\* The router is reset: every session ends, and its worker with an error,
\* except one that is past its last command.
FactoryReset ==
  /\ screen = "connect"
  /\ rootpw' = None
  /\ installed' = FALSE
  /\ hostkey' \in HostKeys \ {hostkey}
  /\ outcome' = "none"
  /\ Drop({w \in Worker : step[w] \notin {"store", "secStore"}})
  /\ UNCHANGED <<keychain, screen, seen, form, fresh, busy, waived>>

Setup(w) ==
  \/ InstallKey(w)
  \/ VerifyKey(w)
  \/ CheckPassword(w)
  \/ SetPassword(w)
  \/ ConfirmPassword(w)
  \/ StorePassword(w)

Security(w) ==
  \/ \E store \in BOOLEAN : ChangePassword(w, store)
  \/ SecSetPassword(w)
  \/ SecStorePassword(w)

Next ==
  \/ \E pw \in Typable : Connect(pw)
  \/ AcceptNewKey
  \/ Generate
  \/ TypeOwn
  \/ \E w \in Worker, remember \in Remember : Apply(w, remember)
  \/ SkipSetup
  \/ \E w \in Worker : Setup(w) \/ Proceed(w) \/ Security(w)
  \/ RevokeKeys
  \/ Back
  \/ Restart
  \/ OwnerSetsPassword
  \/ FactoryReset

Spec == Init /\ [][Next]_vars

-----------------------------------------------------------------------------
(* Properties *)

\* No failure, retry, overlap, crash or reset at any point of the setup or of a
\* change of password leaves a router that only a forgotten password opens:
\* root has no password, or one the user made up, or one the keychain, the form
\* or a worker holds, or the app's key opens it, unless the user waived that.
NeverLockedOut ==
  rootpw \in Random =>
    \/ KeyWorks
    \/ rootpw \in {stored, form}
    \/ \E w \in Worker : rootpw = plan[w].pw
    \/ waived

\* "VERIFY key auth works via a fresh connection": with the key verified, the
\* password is set on a router the key opens.
VerifiedKeyWorks ==
  \A w \in Worker : step[w] = "passwd" /\ verified[w] => KeyWorks
=============================================================================
