------------------------------- MODULE Wizard -------------------------------
(***************************************************************************)
(* The window (app.py): the disclaimer, the choice of a mode, the          *)
(* connection, and the chains of screens of the three modes.  An action is *)
(* what the user does on a screen, or the answer a screen waits for.  What *)
(* the screens do to the router is in the modules of its components: here  *)
(* only what decides the next screen, and the commands of an installation, *)
(* which outlives the screen that began it.                                *)
(***************************************************************************)
EXTENDS Naturals, Sequences, SequencesExt

CONSTANTS
  Worker,    \* the threads of the installations
  MaxEpoch,  \* bound: how often the router is reset
  MaxOps     \* bound: what the user does besides walking on: the modes he picks, the steps
             \* back, installations, resets, restarts of the program, edits of the settings

ASSUME WizardAssumption == MaxEpoch \in Nat /\ MaxOps \in Nat

VARIABLES
  screen,   \* the screen shown
  mode,     \* _mode
  back,     \* the screens the back button leads to, the first of them last
  next,     \* does the screen show its button to the next one?
  link,     \* the client and the state the screens were given; the router's epoch tells
            \* whether it was reset since; `was', a history, the package it had
  probe,    \* the answer of a connection that the screen has not taken yet
  box,      \* the router: is the PC's key authorized, has root a password, which package
            \* is installed, is there a configuration and has it a main server
  job,      \* the installations
  accepted, \* the mark of the accepted disclaimer
  ops       \* the bounded counter

window == <<screen, mode, back, next, link, probe>>
wizard == <<window, box, job, accepted, ops>>

Screen == {"starting", "disclaimer", "review", "picker", "connect", "firstrun", "internet", "software",
           "nodes", "rules", "wifi_ap", "verify", "finalize", "settings",
           "preinstall", "preinstall_wan", "preinstall_ap", "preinstall_nodes"}
Mode == {"quick", "advanced", "preinstall"}
Box == [epoch : 0..MaxEpoch, trusted : BOOLEAN, password : BOOLEAN,
        app : {"none", "legacy", "new"}, config : {"absent", "blank", "ready"}]
RouterState == [homeproxy_installed : BOOLEAN, has_config : BOOLEAN, legacy_app : BOOLEAN,
                our_key_installed : BOOLEAN, root_has_password : BOOLEAN]
Link == [epoch : 0..MaxEpoch, state : RouterState, was : {"none", "legacy", "new"}]
Unlinked == [epoch |-> MaxEpoch + 1]
Idle == [at |-> "idle", epoch |-> 0, here |-> FALSE]
\* A router as it comes, without the app.
Clean(epoch) == [epoch |-> epoch, trusted |-> FALSE, password |-> FALSE, app |-> "none", config |-> "absent"]

\* Everything is of its type; the way back is one along the chain of the quick setup.
WizardTypeOK ==
  /\ screen \in Screen
  /\ mode \in Mode
  /\ back \in Seq(Screen)
  /\ back # <<>> => back[1] = "internet" /\ mode = "quick"
  /\ next \in BOOLEAN
  /\ link \in Link \cup {Unlinked}
  /\ probe \in Link \cup {Unlinked}
  /\ box \in Box
  /\ job \in [Worker -> [at : {"idle", "begun", "removed"}, epoch : 0..MaxEpoch, here : BOOLEAN]]
  /\ accepted \in BOOLEAN
  /\ ops \in 0..MaxOps

\* A package brings its configuration, which stays when the package is removed (a conffile); the
\* main server comes from the program or from LuCI.
WizardInit ==
  /\ screen = "starting" /\ mode = "advanced" /\ back = <<>> /\ next = FALSE
  /\ link = Unlinked /\ probe = Unlinked
  /\ box \in {b \in Box : b.epoch = 0 /\ (b.config = "absent" => b.app = "none")}
  /\ job = [w \in Worker |-> Idle]
  /\ accepted \in BOOLEAN
  /\ ops = 0

\* The router has not been reset since the connection.
Live == link # Unlinked /\ link.epoch = box.epoch

Counted == ops < MaxOps /\ ops' = ops + 1

-----------------------------------------------------------------------------
(* Screens.                                                                *)

\* _swap: the screen is destroyed, and what its workers still answer is dropped.
Swap(to, chain) ==
  /\ screen' = to /\ back' = chain /\ next' = FALSE
  /\ probe' = Unlinked
  /\ job' = [w \in Worker |-> [job[w] EXCEPT !.here = FALSE]]

\* From screen to screen; the next one threads the way back to this one.
Show(to) == Swap(to, <<>>) /\ UNCHANGED <<mode, link, box, accepted, ops>>
Onward(to) == Swap(to, Append(back, screen)) /\ UNCHANGED <<mode, link, box, accepted, ops>>

\* App.__init__, and the link in the footer of the mode picker.
OpenWindow == screen = "starting" /\ Show(IF accepted THEN "picker" ELSE "disclaimer")
ReviewDisclaimer == screen = "picker" /\ Show(IF accepted THEN "review" ELSE "disclaimer")

\* _accept_disclaimer; a keychain that refuses it is not told of.
AcceptDisclaimer ==
  /\ screen = "disclaimer"
  /\ Swap("picker", <<>>)
  /\ accepted' \in {accepted, TRUE}
  /\ UNCHANGED <<mode, link, box, ops>>

\* show_mode_picker: from a review, a connection, the first run, the preparation ('Back', or
\* its end without servers) and the settings.
ShowModePicker ==
  /\ screen \in {"review", "connect", "firstrun", "preinstall", "preinstall_nodes", "settings"}
  /\ Swap("picker", <<>>)
  /\ link' = Unlinked
  /\ UNCHANGED <<mode, box, accepted, ops>>

\* _connect_for.
ConnectFor(m) ==
  /\ Counted
  /\ Swap("connect", <<>>)
  /\ mode' = m
  /\ link' = Unlinked
  /\ UNCHANGED <<box, accepted>>
PickMode == screen = "picker" /\ \E m \in Mode : ConnectFor(m)
LeaveInternet == screen = "internet" /\ ConnectFor(mode)

-----------------------------------------------------------------------------
(* The connection and the first run.                                       *)

\* detect_state.
Detected ==
  [homeproxy_installed |-> box.config # "absent",  \* test -f /etc/config/homeproxy
   has_config |-> box.config = "ready",
   legacy_app |-> box.app = "legacy",
   our_key_installed |-> box.trusted,
   root_has_password |-> box.password]

\* _do_connect: the router is dialled and looked at.
DoConnect ==
  /\ screen = "connect"
  /\ probe = Unlinked
  /\ probe' = [epoch |-> box.epoch, state |-> Detected, was |-> box.app]
  /\ next' = FALSE
  /\ UNCHANGED <<screen, mode, back, link, box, job, accepted, ops>>

\* _on_success, _on_failure.
ConnectAnswered ==
  /\ probe # Unlinked
  /\ probe' = Unlinked
  /\ \/ link' = probe /\ next' = TRUE
     \/ UNCHANGED <<link, next>>
  /\ UNCHANGED <<screen, mode, back, box, job, accepted, ops>>

\* _after_firstrun.
Landing == CASE mode = "quick" -> "internet" [] mode = "preinstall" -> "preinstall" [] OTHER -> "settings"

\* Mutant: the offline preparation skips the first run.
ProceedToStaging ==
  /\ screen = "connect"
  /\ next
  /\ Show(IF link.state.our_key_installed \/ mode = "preinstall" THEN Landing ELSE "firstrun")

\* _proceed, _on_connected.
Proceed ==
  /\ screen = "connect"
  /\ next
  /\ Show(IF link.state.our_key_installed THEN Landing ELSE "firstrun")

\* FirstRunScreen._apply: a router that has a password is offered the key only, or nothing; the
\* others get a password in any case.  An error may come after the key.
ApplyFirstRun ==
  /\ screen = "firstrun"
  /\ ~next
  /\ \E key \in BOOLEAN :
       LET password == ~link.state.root_has_password IN
       IF ~key /\ ~password THEN next' = TRUE /\ UNCHANGED box
       ELSE /\ Live
            /\ \/ /\ box' = [box EXCEPT !.trusted = @ \/ key, !.password = @ \/ password]
                  /\ next' = TRUE
               \/ /\ box' = [box EXCEPT !.trusted = @ \/ key]
                  /\ UNCHANGED next
  /\ UNCHANGED <<screen, mode, back, link, probe, job, accepted, ops>>

AfterFirstRun == screen = "firstrun" /\ next /\ Show(Landing)

-----------------------------------------------------------------------------
(* The chain of the quick setup.                                           *)

NeedsSoftware(state) == ~state.homeproxy_installed \/ state.legacy_app

\* Mutant: an installed app is taken to be configured.
AfterInternetVerify ==
  screen = "internet" /\ Onward(IF NeedsSoftware(link.state) THEN "software" ELSE "verify")

\* _after_internet, with the state of the connection.
AfterInternet ==
  /\ screen = "internet"
  /\ Onward(IF NeedsSoftware(link.state) THEN "software"
            ELSE IF ~link.state.has_config THEN "nodes" ELSE "verify")

\* _load_status of the software screens: the files of the legacy package will do.
SoftwareReady ==
  /\ screen \in {"software", "preinstall"}
  /\ Live /\ box.app # "none"
  /\ next' = TRUE
  /\ UNCHANGED <<screen, mode, back, link, probe, box, job, accepted, ops>>

\* _run of the software screens, unless this screen's installation is running (_busy).
StartInstall(w) ==
  /\ screen \in {"software", "preinstall"}
  /\ \A other \in Worker : ~job[other].here
  /\ Counted
  /\ job[w] = Idle
  /\ job' = [job EXCEPT ![w] = [at |-> "begun", epoch |-> link.epoch, here |-> TRUE]]
  /\ UNCHANGED <<window, box, accepted>>

\* install_app.run and preinstall.run: the legacy package is removed, unless that fails, ...
RemoveLegacy(w) ==
  /\ job[w].at = "begun" /\ job[w].epoch = box.epoch
  /\ box.app = "legacy"
  /\ box' = [box EXCEPT !.app = "none"]
  /\ job' = [job EXCEPT ![w].at = "removed"]
  /\ UNCHANGED <<window, accepted, ops>>

\* ... the app installed, with an empty configuration unless there is one.
InstallDone(w) ==
  /\ job[w] # Idle /\ job[w].epoch = box.epoch
  /\ box' = [box EXCEPT !.app = "new", !.config = IF @ = "absent" THEN "blank" ELSE @]
  /\ next' = (next \/ job[w].here)
  /\ job' = [job EXCEPT ![w] = Idle]
  /\ UNCHANGED <<screen, mode, back, link, probe, accepted, ops>>

InstallFails(w) ==
  /\ job[w] # Idle
  /\ job' = [job EXCEPT ![w] = Idle]
  /\ UNCHANGED <<window, box, accepted, ops>>

AfterSoftware == screen = "software" /\ next /\ Onward("nodes")

\* QuickNodesScreen._apply: the main server is written and the service restarted; _applied goes
\* on if it could be, which takes a package.
ApplyNodes ==
  /\ screen \in {"nodes", "preinstall_nodes"}
  /\ Live /\ box.config # "absent"
  /\ box' = [box EXCEPT !.config = "ready"]
  /\ \/ box.app # "none" /\ screen = "nodes" /\ Swap("rules", Append(back, screen)) /\ UNCHANGED link
     \/ box.app # "none" /\ screen # "nodes" /\ Swap("picker", <<>>) /\ link' = Unlinked
     \/ UNCHANGED <<screen, back, next, probe, link, job>>
  /\ UNCHANGED <<mode, accepted, ops>>

\* The screens that let the user on in any case.
AfterRules == screen = "rules" /\ Onward("wifi_ap")
AfterWifiAp == screen = "wifi_ap" /\ Onward("verify")
AfterVerify == screen = "verify" /\ Onward("finalize")
AfterFinalize == screen = "finalize" /\ Show("settings")

\* The back button.
GoBack ==
  /\ back # <<>>
  /\ Counted
  /\ Swap(Last(back), Front(back))
  /\ UNCHANGED <<mode, link, box, accepted>>

\* The chain of the offline preparation.
AfterPreinstall == screen = "preinstall" /\ next /\ Show("preinstall_wan")
AfterPreinstallWan == screen = "preinstall_wan" /\ Show("preinstall_ap")
AfterPreinstallAp == screen = "preinstall_ap" /\ Show("preinstall_nodes")

-----------------------------------------------------------------------------
(* The router, the settings and the program.                               *)

\* In the settings: the PC's key is revoked; the main server is deleted.
Revoke ==
  /\ screen = "settings"
  /\ Live /\ box.trusted
  /\ Counted
  /\ box' = [box EXCEPT !.trusted = FALSE]
  /\ UNCHANGED <<window, job, accepted>>
DeleteServers ==
  /\ screen = "settings"
  /\ Live /\ box.config = "ready"
  /\ Counted
  /\ box' = [box EXCEPT !.config = "blank"]
  /\ UNCHANGED <<window, job, accepted>>

\* factory_reset of the settings, or somebody's finger on the button.
FactoryReset ==
  /\ box.epoch < MaxEpoch
  /\ Counted
  /\ box' = Clean(box.epoch + 1)
  /\ UNCHANGED <<window, job, accepted>>

\* The program ends, at whatever screen, and is started again.
Restarted ==
  /\ Counted
  /\ screen' = "starting" /\ mode' = "advanced" /\ back' = <<>> /\ next' = FALSE
  /\ link' = Unlinked /\ probe' = Unlinked
  /\ job' = [w \in Worker |-> Idle]
Restart == screen # "starting" /\ Restarted /\ UNCHANGED <<box, accepted>>

\* _do_app_reset: the disclaimer and the PC's key are forgotten and the window closes.
ResetAppData ==
  /\ screen \in {"connect", "settings"}
  /\ Restarted
  /\ accepted' = FALSE
  /\ box' = [box EXCEPT !.trusted = FALSE]

WizardNext ==
  \/ OpenWindow \/ ReviewDisclaimer \/ AcceptDisclaimer \/ ShowModePicker \/ PickMode \/ LeaveInternet
  \/ DoConnect \/ ConnectAnswered \/ Proceed \/ ApplyFirstRun \/ AfterFirstRun
  \/ AfterInternet \/ SoftwareReady \/ AfterSoftware \/ ApplyNodes
  \/ \E w \in Worker : StartInstall(w) \/ RemoveLegacy(w) \/ InstallDone(w) \/ InstallFails(w)
  \/ AfterRules \/ AfterWifiAp \/ AfterVerify \/ AfterFinalize \/ GoBack
  \/ AfterPreinstall \/ AfterPreinstallWan \/ AfterPreinstallAp
  \/ Revoke \/ DeleteServers \/ FactoryReset \/ Restart \/ ResetAppData

-----------------------------------------------------------------------------
(* Properties.                                                             *)

\* The end of the quick setup is reached only with a main server set, and with the app: installed
\* by whatever job, however often the user went back and whatever still ran, unless the router
\* came with the legacy package, whose files let him on (software_screen.py:160-166), or with the
\* configuration of a package removed before, which passes for the app (_after_internet,
\* app.py:762-776).
FinishReady ==
  mode = "quick" /\ screen = "finalize" /\ Live =>
    /\ box.config = "ready"
    /\ \/ box.app = "new"
       \/ link.was = "legacy"
       \/ link.was = "none" /\ link.state.has_config

\* In every mode, the offline preparation included, a router that did not know the PC's key when
\* it was dialled has a password once the first run is over, whatever was refused or failed there
\* and however the user went back and forth (_on_connected, app.py:681-689).
Guarded ==
  /\ screen \in {"internet", "software", "nodes", "rules", "wifi_ap", "verify", "finalize",
                 "preinstall", "preinstall_wan", "preinstall_ap", "preinstall_nodes"}
  /\ Live
  /\ ~link.state.our_key_installed
  => box.password
=============================================================================
