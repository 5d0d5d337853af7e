---------------------------- MODULE WindowProofs -----------------------------
(***************************************************************************)
(* Proofs about the window: the wizard, the settings and their pages, for  *)
(* any number of installations and tasks, resets and steps of the user.    *)
(***************************************************************************)
EXTENDS AntiDpi, SequenceTheorems, TLAPS

-----------------------------------------------------------------------------
(* The inductive invariant: where the user is                               *)

\* The screens of the quick setup, those behind a main server, and those of the preparation.
Chain == {"internet", "software", "nodes", "rules", "wifi_ap", "verify", "finalize"}
Served == {"rules", "wifi_ap", "verify", "finalize"}
Staging == {"preinstall", "preinstall_wan", "preinstall_ap", "preinstall_nodes"}

\* The way back is one along the quick setup, and only there.
Ways ==
  /\ \A i \in 1..Len(back) : back[i] \in Chain
  /\ back # <<>> => screen \in Chain
  /\ screen \in Chain => mode = "quick"
  /\ screen \in Chain \ {"internet"} => back # <<>>

\* Which screens have a connection, and that no connection is ahead of the router.
Linked ==
  /\ screen \in Chain \cup Staging \cup {"firstrun", "settings"} => link \in Link
  /\ screen = "connect" /\ next => link \in Link
  /\ link \in Link => link.epoch <= box.epoch
  /\ probe \in Link => screen = "connect" /\ probe.epoch <= box.epoch
  /\ \A w \in Worker : job[w].here => screen \in {"software", "preinstall"}

WizardInv == WizardTypeOK /\ Ways /\ Linked

-----------------------------------------------------------------------------
(* Where the user is: proof                                                 *)

LEMMA NoLink == Unlinked \notin Link
  BY DEF Unlinked, Link

\* No way back.
LEMMA NoWay == /\ <<>> \in Seq(Screen)
               /\ \A i \in 1..Len(<<>>) : FALSE
  OBVIOUS

\* The back button.
LEMMA StepBack ==
  ASSUME NEW S, NEW s \in Seq(S), s # <<>>
  PROVE  /\ Last(s) = s[Len(s)] /\ Last(s) \in S
         /\ Front(s) \in Seq(S)
         /\ Len(Front(s)) = Len(s) - 1
         /\ \A i \in 1..Len(Front(s)) : Front(s)[i] = s[i] /\ i \in 1..Len(s)
         /\ Front(s) = <<>> => Last(s) = s[1]
         /\ Len(s) \in 1..Len(s)
<1>1. Len(s) \in Nat \ {0}
  OBVIOUS
<1>2. Front(s) = SubSeq(s, 1, Len(s) - 1)
  BY DEF Front
<1>3. Last(s) = s[Len(s)] /\ Last(s) \in S
  BY <1>1 DEF Last
<1>4. Front(s) \in Seq(S) /\ Len(Front(s)) = Len(s) - 1 /\ \A i \in 1..Len(Front(s)) : Front(s)[i] = s[i]
  <2>1. \A i \in 1..(Len(s) - 1) : s[i] \in S
    BY <1>1
  <2>2. /\ SubSeq(s, 1, Len(s) - 1) \in Seq(S)
        /\ Len(SubSeq(s, 1, Len(s) - 1)) = IF 1 <= Len(s) - 1 THEN Len(s) - 1 - 1 + 1 ELSE 0
        /\ \A i \in 1..(Len(s) - 1 - 1 + 1) : SubSeq(s, 1, Len(s) - 1)[i] = s[1 + i - 1]
    BY <1>1, <2>1, SubSeqProperties
  <2>0. \A n \in Nat \ {0} : n - 1 - 1 + 1 = n - 1 /\ (1 <= n - 1 \/ n - 1 = 0)
    OBVIOUS
  <2>3. Len(s) - 1 - 1 + 1 = Len(s) - 1 /\ (1 <= Len(s) - 1 \/ Len(s) - 1 = 0)
    BY <1>1, <2>0
  <2>4. Len(Front(s)) = Len(s) - 1
    BY <1>2, <2>2, <2>3
  <2>5. \A i \in 1..(Len(s) - 1) : 1 + i - 1 = i
    BY <1>1
  <2>6. \A i \in 1..(Len(s) - 1) : Front(s)[i] = s[i]
    BY <1>2, <2>2, <2>3, <2>5
  <2>7. QED
    BY <1>2, <2>2, <2>4, <2>6
<1>5. Front(s) = <<>> => Len(s) = 1
  BY <1>1, <1>4
<1>6. QED
  BY <1>1, <1>3, <1>4, <1>5

\* The router changes, and is not reset.
SameRouter(b) == b \in Box /\ b.epoch = box.epoch
LEMMA BoxEdit ==
  ASSUME box \in Box
  PROVE  /\ \A x \in BOOLEAN : SameRouter([box EXCEPT !.trusted = x])
         /\ \A x \in BOOLEAN, y \in BOOLEAN : SameRouter([box EXCEPT !.trusted = x, !.password = y])
         /\ \A c \in {"absent", "blank", "ready"} : SameRouter([box EXCEPT !.config = c])
         /\ \A c \in {"absent", "blank", "ready"} : SameRouter([box EXCEPT !.app = "new", !.config = c])
         /\ SameRouter([box EXCEPT !.app = "none"])
         /\ box.trusted \in BOOLEAN /\ box.password \in BOOLEAN /\ box.config \in {"absent", "blank", "ready"}
         /\ \A b : SameRouter(b) => b \in Box /\ b.epoch = box.epoch /\ box.epoch <= b.epoch
<1>1. box.epoch \in 0..MaxEpoch /\ box.epoch <= box.epoch
  BY WizardAssumption DEF Box
<1>2. \A b : SameRouter(b) => b \in Box /\ b.epoch = box.epoch /\ box.epoch <= b.epoch
  BY <1>1 DEF SameRouter
<1>3. box.trusted \in BOOLEAN /\ box.password \in BOOLEAN /\ box.config \in {"absent", "blank", "ready"}
  BY DEF Box
<1>4. /\ \A x \in BOOLEAN : SameRouter([box EXCEPT !.trusted = x])
      /\ \A x \in BOOLEAN, y \in BOOLEAN : SameRouter([box EXCEPT !.trusted = x, !.password = y])
      /\ \A c \in {"absent", "blank", "ready"} : SameRouter([box EXCEPT !.config = c])
      /\ SameRouter([box EXCEPT !.app = "none"])
  BY DEF Box, SameRouter
<1>5. \A c \in {"absent", "blank", "ready"} : SameRouter([box EXCEPT !.app = "new", !.config = c])
  BY DEF Box, SameRouter
<1>6. QED
  BY <1>2, <1>3, <1>4, <1>5

\* A screen replaces another one: its workers' answers are dropped.
LEMMA SwapDrops ==
  ASSUME WizardTypeOK, NEW to, NEW chain, Swap(to, chain)
  PROVE  /\ screen' = to /\ back' = chain /\ next' = FALSE /\ probe' = Unlinked
         /\ job' \in [Worker -> [at : {"idle", "begun", "removed"}, epoch : 0..MaxEpoch, here : BOOLEAN]]
         /\ \A w \in Worker : ~job'[w].here
  BY DEF Swap, WizardTypeOK

\* To a screen that is not on the quick setup, or its first one.
LEMMA SwapInv ==
  ASSUME WizardInv, NEW to \in Screen, Swap(to, <<>>),
         to \in Chain => to = "internet" /\ mode' = "quick",
         to \in Chain \cup Staging \cup {"firstrun", "settings"} => link' \in Link,
         link' \in {link, Unlinked}, mode' \in Mode, accepted' \in BOOLEAN, ops' \in 0..MaxOps,
         box' \in Box, box'.epoch = box.epoch
  PROVE  WizardInv'
<1>1. WizardTypeOK'
  BY SwapDrops, NoWay DEF WizardInv, WizardTypeOK
<1>2. Ways'
  BY SwapDrops, NoWay DEF WizardInv, Ways
<1>3. Linked'
  BY SwapDrops, NoLink DEF WizardInv, Linked
<1>4. QED
  BY <1>1, <1>2, <1>3 DEF WizardInv

LEMMA ShowInv ==
  ASSUME WizardInv, NEW to \in Screen, Show(to),
         to \in Chain => to = "internet" /\ mode = "quick",
         to \in Chain \cup Staging \cup {"firstrun", "settings"} => link \in Link
  PROVE  WizardInv'
  BY SwapInv DEF Show, WizardInv, WizardTypeOK

\* One screen further along the quick setup.
LEMMA OnwardInv ==
  ASSUME WizardInv, screen \in Chain, NEW to \in Chain \ {"internet"}, Swap(to, Append(back, screen)),
         UNCHANGED <<mode, link, accepted, ops>>, box' \in Box, box'.epoch = box.epoch
  PROVE  WizardInv'
<1> DEFINE chain == Append(back, screen)
<1>1. back \in Seq(Screen) /\ screen \in Screen /\ Chain \subseteq Screen /\ to \in Screen
  BY DEF WizardInv, WizardTypeOK, Chain, Screen
<1>2. /\ chain \in Seq(Screen) /\ chain # <<>>
      /\ \A i \in 1..Len(chain) : chain[i] \in Chain
      /\ chain[1] = IF back = <<>> THEN screen ELSE back[1]
  <2>1. Len(back) \in Nat /\ Len(chain) = Len(back) + 1 /\ chain \in Seq(Screen)
    BY <1>1
  <2>2. \A i \in 1..Len(chain) : chain[i] = IF i = Len(chain) THEN screen ELSE back[i]
    BY <1>1, <2>1
  <2>3. \A i \in 1..Len(chain) : i = Len(chain) \/ i \in 1..Len(back)
    BY <2>1
  <2>4. back = <<>> <=> Len(back) = 0
    BY <1>1
  <2>5. QED
    BY <2>1, <2>2, <2>3, <2>4 DEF WizardInv, Ways
<1>3. chain[1] = "internet" /\ mode = "quick"
  BY <1>2 DEF WizardInv, Ways, WizardTypeOK
<1> HIDE DEF chain
<1>4. screen' = to /\ back' = chain
  BY SwapDrops DEF WizardInv, chain
<1>5. WizardTypeOK'
  BY <1>1, <1>2, <1>3, <1>4, SwapDrops DEF WizardInv, WizardTypeOK
<1>6. Ways'
  BY <1>2, <1>3, <1>4 DEF Ways
<1>7. Linked'
  BY <1>4, SwapDrops, NoLink DEF WizardInv, Linked
<1>8. QED
  BY <1>5, <1>6, <1>7 DEF WizardInv

\* Back to the connection.
LEMMA ConnectForInv ==
  ASSUME WizardInv, NEW m \in Mode, ConnectFor(m) PROVE WizardInv'
<1>1. ops' \in 0..MaxOps
  BY WizardAssumption DEF ConnectFor, Counted, WizardInv, WizardTypeOK
<1>2. "connect" \in Screen \ (Chain \cup Staging \cup {"firstrun", "settings"})
  BY DEF Screen, Chain, Staging
<1>3. QED
  BY <1>1, <1>2, SwapInv DEF ConnectFor, WizardInv, WizardTypeOK

LEMMA GoBackInv == ASSUME WizardInv, GoBack PROVE WizardInv'
<1>1. back \in Seq(Screen) /\ back # <<>> /\ back[1] = "internet" /\ mode = "quick" /\ screen \in Chain
  BY DEF GoBack, WizardInv, WizardTypeOK, Ways
<1>2. /\ Last(back) = back[Len(back)] /\ Last(back) \in Screen
      /\ Front(back) \in Seq(Screen)
      /\ \A i \in 1..Len(Front(back)) : Front(back)[i] = back[i] /\ i \in 1..Len(back)
      /\ Front(back) = <<>> => Last(back) = back[1]
      /\ Len(back) \in 1..Len(back)
  BY <1>1, StepBack
<1>3. Front(back) # <<>> => Front(back)[1] = back[1]
  BY <1>2
<1>4. screen' = Last(back) /\ back' = Front(back) /\ UNCHANGED <<mode, link, box, accepted>> /\ ops' \in 0..MaxOps
  BY WizardAssumption DEF GoBack, Counted, Swap, WizardInv, WizardTypeOK
<1>5. WizardTypeOK'
  BY <1>1, <1>2, <1>3, <1>4, SwapDrops DEF GoBack, WizardInv, WizardTypeOK
<1>6. Ways'
  BY <1>1, <1>2, <1>4 DEF WizardInv, Ways, Chain
<1>7. Linked'
  BY <1>1, <1>4, SwapDrops, NoLink DEF GoBack, WizardInv, Linked
<1>8. QED
  BY <1>5, <1>6, <1>7 DEF WizardInv

\* The screen and the connection stay; an installation, the router or a count moves on.
LEMMA StayInv ==
  ASSUME WizardInv, UNCHANGED <<screen, mode, back, link, probe>>, next' \in BOOLEAN,
         next' => next \/ screen # "connect",
         box' \in Box, box.epoch <= box'.epoch,
         job' \in [Worker -> [at : {"idle", "begun", "removed"}, epoch : 0..MaxEpoch, here : BOOLEAN]],
         \A w \in Worker : job'[w].here => job[w].here \/ screen \in {"software", "preinstall"},
         accepted' \in BOOLEAN, ops' \in 0..MaxOps
  PROVE  WizardInv'
<1>1. WizardTypeOK'
  BY DEF WizardInv, WizardTypeOK
<1>2. Ways'
  BY DEF WizardInv, Ways
<1>3. Linked'
  <2>1. box.epoch \in Nat /\ box'.epoch \in Nat
    BY WizardAssumption DEF WizardInv, WizardTypeOK, Box
  <2>2. \A l \in Link : l.epoch \in Nat
    BY WizardAssumption DEF Link
  <2>3. QED
    BY <2>1, <2>2 DEF WizardInv, Linked
<1>4. QED
  BY <1>1, <1>2, <1>3 DEF WizardInv

\* The program is started again.
LEMMA RestartedInv ==
  ASSUME WizardInv, Restarted, accepted' \in BOOLEAN, box' \in Box PROVE WizardInv'
<1>0. 0 \in 0..MaxEpoch /\ ops' \in 0..MaxOps
  BY WizardAssumption DEF Restarted, Counted, WizardInv, WizardTypeOK
<1>1. WizardTypeOK'
  BY <1>0, NoWay DEF Restarted, WizardInv, WizardTypeOK, Screen, Mode, Idle
<1>2. Ways' /\ Linked'
  BY NoLink, NoWay DEF Restarted, Ways, Linked, Chain, Staging, Idle
<1>3. QED
  BY <1>1, <1>2 DEF WizardInv

\* A step of the window.
LEMMA WizardStep == ASSUME WizardInv, WizardNext PROVE WizardInv'
<1> USE DEF Screen, Chain, Staging
<1>1. CASE OpenWindow \/ ReviewDisclaimer
  <2>1. PICK to \in {"picker", "disclaimer", "review"} : Show(to)
    BY <1>1 DEF OpenWindow, ReviewDisclaimer
  <2>2. QED
    BY <2>1, ShowInv
<1>2. CASE AcceptDisclaimer \/ ShowModePicker
  <2>1. /\ Swap("picker", <<>>) /\ UNCHANGED <<mode, box, ops>>
        /\ link' \in {link, Unlinked} /\ accepted' \in BOOLEAN
    BY <1>2 DEF AcceptDisclaimer, ShowModePicker, WizardInv, WizardTypeOK
  <2>2. QED
    BY <2>1, SwapInv DEF WizardInv, WizardTypeOK
<1>3. CASE PickMode \/ LeaveInternet
  <2>1. PICK m \in Mode : ConnectFor(m)
    BY <1>3 DEF PickMode, LeaveInternet, WizardInv, WizardTypeOK
  <2>2. QED
    BY <2>1, ConnectForInv
<1>4. CASE DoConnect
  <2>1. box \in Box /\ [epoch |-> box.epoch, state |-> Detected, was |-> box.app] \in Link
    BY DEF WizardInv, WizardTypeOK, Box, Link, Detected, RouterState
  <2>2. WizardTypeOK' /\ Ways'
    BY <1>4, <2>1 DEF DoConnect, WizardInv, WizardTypeOK, Ways
  <2>3. box.epoch <= box.epoch
    BY <2>1, WizardAssumption DEF Box
  <2>4. Linked'
    BY <1>4, <2>3 DEF DoConnect, WizardInv, Linked
  <2>5. QED
    BY <2>2, <2>4 DEF WizardInv
<1>5. CASE ConnectAnswered
  <2>1. probe \in Link /\ screen = "connect" /\ probe.epoch <= box.epoch
    BY <1>5 DEF ConnectAnswered, WizardInv, WizardTypeOK, Linked
  <2>2. WizardTypeOK' /\ Ways'
    BY <1>5, <2>1 DEF ConnectAnswered, WizardInv, WizardTypeOK, Ways
  <2>3. Linked'
    BY <1>5, <2>1, NoLink DEF ConnectAnswered, WizardInv, Linked
  <2>4. QED
    BY <2>2, <2>3 DEF WizardInv
<1>6. CASE Proceed \/ AfterFirstRun
  <2>1. link \in Link /\ (Show("firstrun") \/ Show(Landing))
    BY <1>6 DEF Proceed, AfterFirstRun, WizardInv, Linked
  <2>2. Landing \in {"internet", "preinstall", "settings"} /\ (Landing = "internet" => mode = "quick")
    BY DEF Landing
  <2>3. CASE Show("firstrun")
    BY <2>1, <2>3, ShowInv
  <2>4. CASE Show(Landing)
    BY <2>1, <2>2, <2>4, ShowInv
  <2>5. QED
    BY <2>1, <2>3, <2>4
<1>7. CASE ApplyFirstRun
  <2>0. box \in Box
    BY DEF WizardInv, WizardTypeOK
  <2>1. box' \in Box /\ box'.epoch = box.epoch /\ box.epoch <= box'.epoch
    <3>1. PICK key \in BOOLEAN :
            LET password == ~link.state.root_has_password IN
            \/ UNCHANGED box
            \/ box' = [box EXCEPT !.trusted = @ \/ key, !.password = @ \/ password]
            \/ box' = [box EXCEPT !.trusted = @ \/ key]
      BY <1>7 DEF ApplyFirstRun
    <3>2. UNCHANGED box \/ \E x, y \in BOOLEAN : \/ box' = [box EXCEPT !.trusted = x, !.password = y]
                                                \/ box' = [box EXCEPT !.trusted = x]
      BY <3>1
    <3>3. SameRouter(box')
      BY <2>0, <3>2, BoxEdit DEF SameRouter
    <3>4. QED
      BY <2>0, <3>3, BoxEdit
  <2>2. next' \in BOOLEAN /\ UNCHANGED <<screen, mode, back, link, probe, job, accepted, ops>>
    BY <1>7 DEF ApplyFirstRun, WizardInv, WizardTypeOK
  <2>3. screen # "connect"
    BY <1>7 DEF ApplyFirstRun
  <2>4. QED
    BY <2>1, <2>2, <2>3, StayInv DEF WizardInv, WizardTypeOK
<1>8. CASE AfterInternet \/ AfterSoftware \/ AfterRules \/ AfterWifiAp \/ AfterVerify
  <2>1. screen \in Chain /\ \E to \in Chain \ {"internet"} : Onward(to)
    BY <1>8 DEF AfterInternet, AfterSoftware, AfterRules, AfterWifiAp, AfterVerify
  <2>2. PICK to \in Chain \ {"internet"} : Onward(to)
    BY <2>1
  <2>3. QED
    BY <2>1, <2>2, OnwardInv DEF Onward, WizardInv, WizardTypeOK
<1>9. CASE AfterFinalize \/ AfterPreinstall \/ AfterPreinstallWan \/ AfterPreinstallAp
  <2>1. link \in Link
    BY <1>9 DEF AfterFinalize, AfterPreinstall, AfterPreinstallWan, AfterPreinstallAp, WizardInv, Linked
  <2>2. PICK to \in {"settings", "preinstall_wan", "preinstall_ap", "preinstall_nodes"} : Show(to)
    BY <1>9 DEF AfterFinalize, AfterPreinstall, AfterPreinstallWan, AfterPreinstallAp
  <2>3. QED
    BY <2>1, <2>2, ShowInv
<1>10. ASSUME NEW w \in Worker, StartInstall(w) \/ RemoveLegacy(w) \/ InstallDone(w) \/ InstallFails(w)
       PROVE  WizardInv'
  <2>1. UNCHANGED <<screen, mode, back, link, probe, accepted>>
    BY <1>10 DEF StartInstall, RemoveLegacy, InstallDone, InstallFails, window
  <2>2. next' \in {next, next \/ job[w].here} /\ job[w].here \in BOOLEAN
    BY <1>10 DEF StartInstall, RemoveLegacy, InstallDone, InstallFails, window, WizardInv, WizardTypeOK
  <2>3. (next' => next \/ screen # "connect") /\ next' \in BOOLEAN
    BY <2>2 DEF WizardInv, WizardTypeOK, Linked
  <2>4. ops' \in 0..MaxOps
    BY <1>10, WizardAssumption DEF StartInstall, RemoveLegacy, InstallDone, InstallFails, Counted, WizardInv, WizardTypeOK
  <2>5. box' \in Box /\ box.epoch <= box'.epoch
    <3>1. box \in Box /\ SameRouter(box)
      BY DEF WizardInv, WizardTypeOK, SameRouter
    <3>2. CASE InstallDone(w)
      <4>1. \E c \in {"absent", "blank", "ready"} : box' = [box EXCEPT !.app = "new", !.config = c]
        BY <3>1, <3>2, BoxEdit DEF InstallDone
      <4>2. QED
        BY <3>1, <4>1, BoxEdit
    <3>3. CASE RemoveLegacy(w)
      BY <3>1, <3>3, BoxEdit DEF RemoveLegacy
    <3>4. CASE StartInstall(w) \/ InstallFails(w)
      BY <3>1, <3>4, BoxEdit DEF StartInstall, InstallFails
    <3>5. QED
      BY <1>10, <3>2, <3>3, <3>4
  <2>6. CASE StartInstall(w)
    <3>1. link.epoch \in 0..MaxEpoch
      BY <2>6 DEF StartInstall, WizardInv, Linked, Link
    <3>2. QED
      BY <2>1, <2>4, <2>5, <2>6, <2>3, <3>1, StayInv DEF StartInstall, WizardInv, WizardTypeOK
  <2>7. CASE RemoveLegacy(w) \/ InstallDone(w) \/ InstallFails(w)
    <3> DEFINE J == [at : {"idle", "begun", "removed"}, epoch : 0..MaxEpoch, here : BOOLEAN]
    <3>1. job \in [Worker -> J] /\ 0 \in 0..MaxEpoch
      BY WizardAssumption DEF WizardInv, WizardTypeOK
    <3>2. Idle \in J /\ ~Idle.here /\ [job[w] EXCEPT !.at = "removed"] \in J
          /\ [job[w] EXCEPT !.at = "removed"].here = job[w].here
      BY <3>1 DEF Idle
    <3>3. \E j \in J : job' = [job EXCEPT ![w] = j] /\ (j.here => job[w].here)
      BY <2>7, <3>2 DEF RemoveLegacy, InstallDone, InstallFails
    <3> HIDE DEF J
    <3>4. job' \in [Worker -> J] /\ \A v \in Worker : job'[v].here => job[v].here
      BY <3>1, <3>3
    <3>5. QED
      BY <2>1, <2>4, <2>5, <2>3, <3>4, StayInv DEF J, WizardInv, WizardTypeOK
  <2>8. QED
    BY <1>10, <2>6, <2>7
<1>11. CASE SoftwareReady
  <2>1. box.epoch <= box.epoch
    BY WizardAssumption DEF WizardInv, WizardTypeOK, Box
  <2>2. QED
    BY <1>11, <2>1, StayInv DEF SoftwareReady, WizardInv, WizardTypeOK
<1>12. CASE ApplyNodes
  <2>1. box' \in Box /\ box'.epoch = box.epoch /\ box.epoch <= box.epoch /\ UNCHANGED <<mode, accepted, ops>>
    BY <1>12, WizardAssumption DEF ApplyNodes, WizardInv, WizardTypeOK, Box
  <2>2. CASE screen = "nodes" /\ Swap("rules", Append(back, screen)) /\ UNCHANGED link
    BY <2>1, <2>2, OnwardInv
  <2>3. CASE Swap("picker", <<>>) /\ link' = Unlinked
    BY <2>1, <2>3, SwapInv DEF WizardInv, WizardTypeOK
  <2>4. CASE UNCHANGED <<screen, back, next, probe, link, job>>
    BY <2>1, <2>4, StayInv DEF WizardInv, WizardTypeOK
  <2>5. QED
    BY <1>12, <2>2, <2>3, <2>4 DEF ApplyNodes
<1>13. CASE GoBack
  BY <1>13, GoBackInv
<1>14. CASE Revoke \/ DeleteServers \/ FactoryReset
  <2>1. UNCHANGED <<screen, mode, back, next, link, probe, job, accepted>>
    BY <1>14 DEF Revoke, DeleteServers, FactoryReset, window
  <2>2. ops' \in 0..MaxOps
    <3>1. Counted /\ ops \in 0..MaxOps
      BY <1>14 DEF Revoke, DeleteServers, FactoryReset, WizardInv, WizardTypeOK
    <3>2. QED
      BY <3>1, WizardAssumption DEF Counted
  <2>3. CASE Revoke \/ DeleteServers
    <3>1. box' \in Box /\ box.epoch <= box'.epoch
      BY <2>3, BoxEdit DEF Revoke, DeleteServers, WizardInv, WizardTypeOK
    <3>2. QED
      BY <2>1, <2>2, <3>1, StayInv DEF WizardInv, WizardTypeOK
  <2>4. CASE FactoryReset
    <3>1. box.epoch + 1 \in 0..MaxEpoch /\ box.epoch <= box.epoch + 1
      BY <2>4, WizardAssumption DEF FactoryReset, WizardInv, WizardTypeOK, Box
    <3>2. box' \in Box /\ box.epoch <= box'.epoch
      BY <2>4, <3>1 DEF FactoryReset, Clean, Box
    <3>3. QED
      BY <2>1, <2>2, <3>2, StayInv DEF WizardInv, WizardTypeOK
  <2>5. QED
    BY <1>14, <2>3, <2>4
<1>15. CASE Restart \/ ResetAppData
  <2>1. Restarted /\ accepted' \in BOOLEAN /\ box' \in Box
    BY <1>15 DEF Restart, ResetAppData, WizardInv, WizardTypeOK, Box
  <2>2. QED
    BY <2>1, RestartedInv
<1>16. QED
  BY <1>1, <1>2, <1>3, <1>4, <1>5, <1>6, <1>7, <1>8, <1>9, <1>10, <1>11, <1>12, <1>13, <1>14, <1>15
     DEF WizardNext

-----------------------------------------------------------------------------
(* The inductive invariant: what the router has                             *)

\* What a connection found is true of the router, ...
Holds(state) ==
  /\ state.root_has_password => box.password
  /\ state.has_config => box.config = "ready"

\* ... and the new package stays, as the legacy one stays away.
Kept(l) ==
  /\ l.state.legacy_app <=> l.was = "legacy"
  /\ l.was = "new" => box.app = "new"
  /\ l.was = "none" => box.app # "legacy"

\* It stays true, unless the router is reset, the configuration until the settings.
Known ==
  /\ link \in Link /\ link.epoch = box.epoch => Kept(link) /\ (screen # "settings" => Holds(link.state))
  /\ probe \in Link /\ probe.epoch = box.epoch => Kept(probe) /\ Holds(probe.state)

\* Behind the first run the router knew the key or asks for a password, ...
Behind == screen \in Chain \cup Staging \/ (screen = "firstrun" /\ next)
Secured == box.password \/ link.state.our_key_installed
Admitted == Live /\ Behind => Secured

\* ... and whoever passed the screen of the servers, and may go back, has one, and the app unless
\* the connection found the legacy one or a configuration without a package.
Passed == screen \in Served \/ \E i \in 1..Len(back) : back[i] \in Served
Provided ==
  /\ box.config = "ready"
  /\ box.app = "new" \/ link.was = "legacy" \/ (link.was = "none" /\ link.state.has_config)
Supplied == Live /\ Passed => Provided

RouterInv == Known /\ Admitted /\ Supplied

-----------------------------------------------------------------------------
(* What the router has: proof                                               *)

\* The connection is live only to the router that was linked.
LEMMA LiveLink == ASSUME WizardInv PROVE Live <=> link \in Link /\ link.epoch = box.epoch
  BY NoLink DEF Live, WizardInv, WizardTypeOK

\* Off the quick setup there is no way back.
LEMMA NoneBehind == ASSUME WizardInv, screen \notin Chain PROVE ~Passed
  BY NoWay DEF WizardInv, Ways, Passed, Served, Chain

\* The user moves on, and the router stays as it is.
LEMMA MoveRouter ==
  ASSUME WizardInv, RouterInv, WizardInv', box' = box, probe' = Unlinked,
         \/ link' = Unlinked
         \/ /\ link' = link
            /\ screen = "settings" => screen' = "settings"
            /\ Live /\ Behind' => Secured
            /\ Live /\ Passed' => Provided
  PROVE  RouterInv'
<1>2. CASE link' = Unlinked
  <2>1. Known' /\ ~Live'
    BY <1>2, NoLink DEF Known, Live
  <2>2. QED
    BY <2>1 DEF RouterInv, Admitted, Supplied
<1>3. CASE link' = link
  <2>1. Live' <=> Live
    BY <1>3 DEF Live
  <2>2. Known'
    BY <1>3, NoLink DEF RouterInv, Known, Holds, Kept
  <2>3. CASE link' = Unlinked
    BY <1>2, <2>3
  <2>4. CASE link' # Unlinked
    BY <1>3, <2>1, <2>2, <2>4 DEF RouterInv, Admitted, Supplied, Secured, Provided
  <2>5. QED
    BY <2>3, <2>4
<1>4. QED
  BY <1>2, <1>3

\* The router changes behind a screen: it keeps what is known of it, or is reset.
LEMMA ChangeRouter ==
  ASSUME WizardInv, RouterInv, WizardInv', UNCHANGED <<screen, back, link, probe>>,
         \/ box.epoch < box'.epoch
         \/ /\ box'.epoch = box.epoch
            /\ box'.app = box.app \/ box'.app = "new" \/ (box.app = "legacy" /\ box'.app = "none")
            /\ screen = "settings" \/ (box.config = "ready" => box'.config = "ready")
            /\ box.password => box'.password
            /\ Live /\ screen = "firstrun" /\ next' => Secured'
  PROVE  RouterInv'
<1>2. CASE box.epoch < box'.epoch
  <2>1. /\ \A l \in Link : l.epoch \in Nat
        /\ box.epoch \in Nat /\ box'.epoch \in Nat
    BY WizardAssumption DEF Link, Box, WizardInv, WizardTypeOK
  <2>2. /\ ~(link' \in Link /\ link'.epoch = box'.epoch)
        /\ ~(probe' \in Link /\ probe'.epoch = box'.epoch)
    BY <1>2, <2>1 DEF WizardInv, Linked
  <2>3. ~Live'
    BY <2>2, NoLink DEF Live, WizardInv, WizardTypeOK
  <2>4. QED
    BY <2>2, <2>3 DEF RouterInv, Known, Admitted, Supplied
<1>3. CASE ~(box.epoch < box'.epoch)
  <2>1. (Live' <=> Live) /\ box'.epoch = box.epoch
    BY <1>3 DEF Live
  <2>2. CASE screen = "settings"
    <3>1. probe \notin Link
      BY <2>2 DEF WizardInv, Linked
    <3>2. ~Behind' /\ ~Passed
      BY <2>2, NoneBehind DEF Behind, Chain, Staging
    <3>3. ~Passed'
      BY <3>2 DEF Passed
    <3>4. QED
      BY <1>3, <2>1, <2>2, <3>1, <3>2, <3>3 DEF RouterInv, Known, Kept, Admitted, Supplied
  <2>3. CASE screen # "settings"
    <3>1. Known'
      BY <1>3, <2>1, <2>3 DEF RouterInv, Known, Kept, Holds
    <3>2. Admitted'
      BY <1>3, <2>1, <2>3 DEF RouterInv, Admitted, Behind, Secured
    <3>3. Supplied'
      BY <1>3, <2>1, <2>3 DEF RouterInv, Supplied, Passed, Provided
    <3>4. QED
      BY <3>1, <3>2, <3>3 DEF RouterInv
  <2>4. QED
    BY <2>2, <2>3
<1>4. QED
  BY <1>2, <1>3

\* Where the next screen has nothing of the router to promise.
LEMMA ToOpen ==
  ASSUME WizardInv, RouterInv, WizardInv', UNCHANGED box, NEW to, Swap(to, <<>>),
         link' \in {link, Unlinked}, to \notin Chain \cup Staging,
         screen = "settings" => to = "settings" \/ link' = Unlinked
  PROVE  RouterInv'
<1>1. screen' = to /\ back' = <<>> /\ next' = FALSE /\ probe' = Unlinked
  BY SwapDrops DEF WizardInv
<1>2. ~Behind'
  BY <1>1 DEF Behind
<1>3. ~Passed'
  BY <1>1, NoWay DEF Passed, Chain, Served
<1>4. QED
  BY <1>1, <1>2, <1>3, MoveRouter

\* From one screen behind the first run to another, neither of which has a way back.
LEMMA ToAdmitted ==
  ASSUME WizardInv, RouterInv, WizardInv', NEW to, Show(to), screen # "settings",
         Live => Secured, to \notin Served
  PROVE  RouterInv'
<1>1. screen' = to /\ back' = <<>> /\ probe' = Unlinked /\ UNCHANGED <<link, box>>
  BY SwapDrops DEF WizardInv, Show
<1>2. ~Passed'
  BY <1>1, NoWay DEF Passed, Served
<1>3. QED
  BY <1>1, <1>2, MoveRouter

\* One screen further along the quick setup.
LEMMA ToNext ==
  ASSUME WizardInv, RouterInv, WizardInv', NEW to, Onward(to), screen \in Chain,
         to \in Served => screen \in Served \/ (Live => Provided)
  PROVE  RouterInv'
<1>1. screen' = to /\ back' = Append(back, screen) /\ probe' = Unlinked /\ UNCHANGED <<link, box>>
  BY SwapDrops DEF WizardInv, Onward
<1>2. Live => Secured
  BY DEF RouterInv, Admitted, Behind
<1>3. back \in Seq(Screen) /\ screen \in Screen
  BY DEF WizardInv, WizardTypeOK
<1>4. \A i \in 1..Len(back') : back'[i] = screen \/ (i \in 1..Len(back) /\ back'[i] = back[i])
  BY <1>1, <1>3
<1>5. Live /\ Passed' => Provided
  BY <1>1, <1>4 DEF RouterInv, Supplied, Passed
<1>6. screen # "settings"
  BY DEF Chain
<1>7. QED
  BY <1>1, <1>2, <1>5, <1>6, MoveRouter

\* A step of the window.
LEMMA RouterStep == ASSUME WizardInv, RouterInv, WizardNext PROVE RouterInv'
<1> USE DEF Chain, Staging, Served
<1>0. WizardInv' /\ box \in Box
  BY WizardStep DEF WizardInv, WizardTypeOK
<1>1. CASE OpenWindow \/ ReviewDisclaimer
  <2>1. PICK to \in {"picker", "disclaimer", "review"} : Show(to) /\ screen # "settings"
    BY <1>1 DEF OpenWindow, ReviewDisclaimer
  <2>2. QED
    BY <1>0, <2>1, ToOpen DEF Show
<1>2. CASE AcceptDisclaimer \/ ShowModePicker
  <2>1. /\ Swap("picker", <<>>) /\ UNCHANGED box
        /\ link' = Unlinked \/ (screen # "settings" /\ link' = link)
    BY <1>2 DEF AcceptDisclaimer, ShowModePicker
  <2>2. QED
    BY <1>0, <2>1, ToOpen
<1>3. CASE PickMode \/ LeaveInternet
  <2>1. PICK m : ConnectFor(m)
    BY <1>3 DEF PickMode, LeaveInternet
  <2>2. Swap("connect", <<>>) /\ UNCHANGED box /\ link' = Unlinked
    BY <2>1 DEF ConnectFor
  <2>3. QED
    BY <1>0, <2>2, ToOpen
<1>4. CASE DoConnect
  <2>1. /\ UNCHANGED <<screen, back, link, box>> /\ next' = FALSE
        /\ probe' = [epoch |-> box.epoch, state |-> Detected, was |-> box.app]
    BY <1>4 DEF DoConnect
  <2>2. (Live' <=> Live) /\ (Passed' <=> Passed) /\ (Behind' => Behind)
    BY <2>1 DEF Live, Passed, Behind
  <2>3. Holds(Detected) /\ Kept([epoch |-> box.epoch, state |-> Detected, was |-> box.app])
    BY DEF Holds, Kept, Detected
  <2>4. Known'
    BY <2>1, <2>3 DEF RouterInv, Known, Holds, Kept
  <2>5. QED
    BY <2>1, <2>2, <2>4 DEF RouterInv, Admitted, Supplied, Secured, Provided
<1>5. CASE ConnectAnswered
  <2>1. /\ UNCHANGED <<screen, back, box>> /\ probe' = Unlinked /\ link' \in {link, probe}
        /\ probe \in Link /\ screen = "connect"
    BY <1>5 DEF ConnectAnswered, WizardInv, WizardTypeOK, Linked
  <2>2. ~Behind' /\ ~Passed'
    BY <2>1, NoneBehind DEF Behind, Passed
  <2>3. Known'
    BY <2>1, NoLink DEF RouterInv, Known, Holds, Kept
  <2>4. QED
    BY <2>2, <2>3 DEF RouterInv, Admitted, Supplied
<1>6. CASE Proceed
  <2>1. screen = "connect" /\ link \in Link /\ Show(IF link.state.our_key_installed THEN Landing ELSE "firstrun")
    BY <1>6 DEF Proceed, WizardInv, Linked
  <2>2. CASE link.state.our_key_installed
    <3>1. Live => Secured
      BY <2>2 DEF Secured
    <3>2. Landing \notin Served
      BY DEF Landing
    <3>3. QED
      BY <1>0, <2>1, <2>2, <3>1, <3>2, ToAdmitted
  <2>3. CASE ~link.state.our_key_installed
    BY <1>0, <2>1, <2>3, ToOpen DEF Show
  <2>4. QED
    BY <2>2, <2>3
<1>7. CASE AfterFirstRun
  <2>1. screen = "firstrun" /\ Show(Landing) /\ (Live => Secured)
    BY <1>7 DEF AfterFirstRun, RouterInv, Admitted, Behind
  <2>2. Landing \notin Served
    BY DEF Landing
  <2>3. QED
    BY <1>0, <2>1, <2>2, ToAdmitted
<1>8. CASE ApplyFirstRun
  <2>1. /\ UNCHANGED <<screen, back, link, probe>> /\ screen = "firstrun"
        /\ link.state.root_has_password /\ Live => box.password
    BY <1>8, LiveLink DEF ApplyFirstRun, RouterInv, Known, Holds
  <2>2. PICK key \in BOOLEAN :
          LET password == ~link.state.root_has_password IN
          \/ ~key /\ ~password /\ UNCHANGED box
          \/ (key \/ password) /\ box' = [box EXCEPT !.trusted = @ \/ key, !.password = @ \/ password]
          \/ box' = [box EXCEPT !.trusted = @ \/ key] /\ UNCHANGED next /\ ~next
    BY <1>8 DEF ApplyFirstRun
  <2>3. CASE ~key /\ link.state.root_has_password /\ UNCHANGED box
    BY <1>0, <2>1, <2>3, ChangeRouter DEF Secured
  <2>4. ASSUME NEW x \in BOOLEAN, x, box' = [box EXCEPT !.trusted = @ \/ key, !.password = @ \/ ~link.state.root_has_password],
               key \/ ~link.state.root_has_password
        PROVE  RouterInv'
    <3>1. box'.epoch = box.epoch /\ box'.app = box.app /\ box'.config = box.config
          /\ (box.password => box'.password) /\ (Live => box'.password)
      BY <1>0, <2>1, <2>4 DEF Box
    <3>2. QED
      BY <1>0, <2>1, <3>1, ChangeRouter DEF Secured
  <2>5. CASE box' = [box EXCEPT !.trusted = @ \/ key] /\ UNCHANGED next /\ ~next
    <3>1. box'.epoch = box.epoch /\ box'.app = box.app /\ box'.config = box.config
          /\ (box.password => box'.password)
      BY <1>0, <2>5 DEF Box
    <3>2. QED
      BY <1>0, <2>1, <2>5, <3>1, ChangeRouter DEF Secured
  <2>6. QED
    BY <2>2, <2>3, <2>4, <2>5
<1>9. CASE AfterInternet
  <2>1. PICK to : /\ Onward(to) /\ to \in {"software", "nodes", "verify"}
                  /\ to = "verify" => link.state.has_config /\ ~link.state.legacy_app
    BY <1>9 DEF AfterInternet, NeedsSoftware
  <2>2. screen = "internet" /\ (link.state.has_config /\ ~link.state.legacy_app /\ Live => Provided)
    <3>1. link \in Link => link.was \in {"none", "legacy", "new"}
      BY DEF Link
    <3>2. QED
      BY <1>9, <3>1, LiveLink DEF AfterInternet, RouterInv, Known, Holds, Kept, Provided
  <2>3. QED
    BY <1>0, <2>1, <2>2, ToNext
<1>10. CASE AfterSoftware \/ AfterRules \/ AfterWifiAp \/ AfterVerify
  <2>1. PICK to : Onward(to) /\ screen \in Chain /\ (to \in Served => screen \in Served)
    BY <1>10 DEF AfterSoftware, AfterRules, AfterWifiAp, AfterVerify
  <2>2. QED
    BY <1>0, <2>1, ToNext
<1>11. CASE AfterFinalize
  BY <1>0, <1>11, ToOpen DEF AfterFinalize, Show
<1>12. CASE AfterPreinstall \/ AfterPreinstallWan \/ AfterPreinstallAp
  <2>1. PICK to \in {"preinstall_wan", "preinstall_ap", "preinstall_nodes"} : Show(to) /\ screen \in Staging
    BY <1>12 DEF AfterPreinstall, AfterPreinstallWan, AfterPreinstallAp
  <2>2. Live => Secured
    BY <2>1 DEF RouterInv, Admitted, Behind
  <2>3. QED
    BY <1>0, <2>1, <2>2, ToAdmitted
<1>13. CASE SoftwareReady
  BY <1>0, <1>13, ChangeRouter DEF SoftwareReady, Secured
<1>14. ASSUME NEW w \in Worker, StartInstall(w) \/ RemoveLegacy(w) \/ InstallDone(w) \/ InstallFails(w)
       PROVE  RouterInv'
  <2>1. UNCHANGED <<screen, back, link, probe>> /\ (screen = "firstrun" => next' = next)
    <3>1. job[w].here => screen # "firstrun"
      BY DEF WizardInv, Linked
    <3>2. QED
      BY <1>14, <3>1 DEF StartInstall, RemoveLegacy, InstallDone, InstallFails, window, WizardInv, WizardTypeOK
  <2>2. /\ box'.epoch = box.epoch /\ box'.password = box.password
        /\ box.config = "ready" => box'.config = "ready"
        /\ box'.app = box.app \/ box'.app = "new" \/ (box.app = "legacy" /\ box'.app = "none")
    BY <1>0, <1>14 DEF StartInstall, RemoveLegacy, InstallDone, InstallFails, Box
  <2>3. Live /\ screen = "firstrun" /\ next' => Secured'
    BY <2>1, <2>2 DEF RouterInv, Admitted, Behind, Secured
  <2>4. QED
    BY <1>0, <2>1, <2>2, <2>3, ChangeRouter
<1>15. CASE ApplyNodes
  <2>1. /\ screen \in {"nodes", "preinstall_nodes"} /\ box' = [box EXCEPT !.config = "ready"]
    BY <1>15 DEF ApplyNodes
  <2>2. /\ box'.epoch = box.epoch /\ box'.app = box.app /\ box'.password = box.password
        /\ box'.config = "ready"
    BY <1>0, <2>1 DEF Box
  <2>3. Live => Secured
    BY <2>1 DEF RouterInv, Admitted, Behind
  <2>4. CASE UNCHANGED <<screen, back, next, probe, link, job>>
    BY <1>0, <2>1, <2>2, <2>3, <2>4, ChangeRouter DEF Secured
  <2>5. CASE box.app # "none" /\ Swap("rules", Append(back, screen)) /\ UNCHANGED link
    <3>1. probe' = Unlinked /\ (Live' <=> Live)
      BY <2>2, <2>5, SwapDrops DEF WizardInv, Live
    <3>2. Known'
      BY <2>1, <2>2, <2>5, <3>1, NoLink DEF RouterInv, Known, Holds, Kept
    <3>3. Live => Provided'
      <4>1. link \in Link => link.was \in {"none", "legacy", "new"}
        BY DEF Link
      <4>2. box.app \in {"none", "legacy", "new"}
        BY <1>0 DEF Box
      <4>3. QED
        BY <2>2, <2>5, <4>1, <4>2, LiveLink DEF RouterInv, Known, Kept, Provided
    <3>4. QED
      BY <2>2, <2>3, <2>5, <3>1, <3>2, <3>3 DEF RouterInv, Admitted, Supplied, Secured
  <2>6. CASE Swap("picker", <<>>) /\ link' = Unlinked
    <3>1. probe' = Unlinked /\ ~Live'
      BY <2>2, <2>6, SwapDrops DEF WizardInv, Live
    <3>2. QED
      BY <2>6, <3>1, NoLink DEF RouterInv, Known, Admitted, Supplied
  <2>7. QED
    BY <1>15, <2>4, <2>5, <2>6 DEF ApplyNodes
<1>16. CASE GoBack
  <2>1. back \in Seq(Screen) /\ back # <<>> /\ screen \in Chain
    BY <1>16 DEF GoBack, WizardInv, WizardTypeOK, Ways
  <2>2. /\ screen' = Last(back) /\ back' = Front(back) /\ probe' = Unlinked /\ UNCHANGED <<link, box>>
        /\ screen # "settings"
    BY <1>16, <2>1, SwapDrops DEF GoBack, WizardInv
  <2>3. /\ Last(back) = back[Len(back)] /\ Len(back) \in 1..Len(back)
        /\ \A i \in 1..Len(Front(back)) : Front(back)[i] = back[i] /\ i \in 1..Len(back)
    BY <2>1, StepBack
  <2>4. Passed' => Passed
    BY <2>2, <2>3 DEF Passed
  <2>5. Live => Secured
    BY <2>1 DEF RouterInv, Admitted, Behind
  <2>6. QED
    BY <1>0, <2>2, <2>4, <2>5, MoveRouter DEF RouterInv, Supplied
<1>17. CASE Revoke
  <2>1. /\ UNCHANGED <<screen, back, link, probe>> /\ screen = "settings"
        /\ box' = [box EXCEPT !.trusted = FALSE]
    BY <1>17 DEF Revoke, window
  <2>2. box'.epoch = box.epoch /\ box'.password = box.password /\ box'.app = box.app /\ box'.config = box.config
    BY <1>0, <2>1 DEF Box
  <2>3. QED
    BY <1>0, <2>1, <2>2, ChangeRouter DEF Secured
<1>18. CASE DeleteServers
  <2>1. /\ UNCHANGED <<screen, back, link, probe>> /\ screen = "settings" /\ box.config = "ready"
        /\ box' = [box EXCEPT !.config = "blank"]
    BY <1>18 DEF DeleteServers, window
  <2>2. box'.epoch = box.epoch /\ box'.password = box.password /\ box'.app = box.app
    BY <1>0, <2>1 DEF Box
  <2>3. QED
    BY <1>0, <2>1, <2>2, ChangeRouter
<1>19. CASE FactoryReset
  <2>1. UNCHANGED <<screen, back, link, probe>> /\ box' = Clean(box.epoch + 1)
    BY <1>19 DEF FactoryReset, window
  <2>2. box.epoch < box'.epoch
    BY <1>0, <2>1, WizardAssumption DEF Clean, Box
  <2>3. QED
    BY <1>0, <2>1, <2>2, ChangeRouter
<1>20. CASE Restart \/ ResetAppData
  <2>1. link' = Unlinked /\ probe' = Unlinked
    BY <1>20 DEF Restart, ResetAppData, Restarted
  <2>2. ~Live'
    BY <2>1 DEF Live
  <2>3. QED
    BY <2>1, <2>2, NoLink DEF RouterInv, Known, Admitted, Supplied
<1>21. QED
  BY <1>1, <1>2, <1>3, <1>4, <1>5, <1>6, <1>7, <1>8, <1>9, <1>10, <1>11, <1>12, <1>13, <1>14, <1>15, <1>16,
     <1>17, <1>18, <1>19, <1>20 DEF WizardNext

-----------------------------------------------------------------------------
(* The inductive invariant: the pages and their tasks                       *)

PolicyMode == {"disabled", "listed_only", "except_listed"}
PolicyList == {"direct", "proxy", "gaming", "global"}
Answer == [status : {"installed", "absent", "error"}, cands : {0, Strategies}]
SectionTask == {"status", "install", "probe"}

TaskRecord ==
  [kind : {"none", "flag", "mode", "restart", "read", "status", "install", "probe"},
   at : {"idle", "sent", "found", "staged", "late", "done", "undone", "failed"}, list : PolicyList \cup {"none"}, on : BOOLEAN,
   mode : PolicyMode \cup {"none"}, got : Policy \cup {Unread} \cup Answer, here : BOOLEAN]

\* A task r, when page p is shown and its copy of the policy is c: one that is answered has
\* somebody to answer, a page is answered only on what it asked, and what an answer changes is
\* there to be changed.
Sound(r, p, c) ==
  \/ r.kind = "none" /\ r.at = "idle" /\ ~r.here
  \/ /\ r.kind # "none" /\ r.at # "idle"
     /\ r.at \in {"done", "undone", "failed"} => r.here
     /\ r.at \in {"staged", "late"} => r.kind \in {"flag", "mode"} /\ (r.at = "late" => ~r.here)
     /\ r.here => p = IF r.kind \in SectionTask THEN "antidpi" ELSE "access"
     /\ r.kind = "read" /\ r.at = "done" => r.got \in Policy
     /\ r.kind = "status" /\ r.at = "done" => r.got \in Answer
     /\ r.kind = "flag" => r.list \in PolicyList
     /\ r.kind = "mode" => r.mode \in PolicyMode
     /\ r.kind \in {"flag", "mode"} /\ r.here => c \in Policy

Tasks == task \in [Task -> TaskRecord] /\ \A t \in Task : Sound(task[t], page, policy)

SectionRecord ==
  [status : {"unread", "error", "absent", "installed"}, cands : {0, Strategies}, installing : BOOLEAN,
   sweeping : BOOLEAN, stop : BOOLEAN, stoppable : BOOLEAN, i : 0..Strategies]

Pages ==
  /\ page \in Page \cup {"none"}
  /\ page = "none" <=> screen # "settings"
  /\ saved \in Policy /\ policy \in Policy \cup {Unread}
  /\ apply \in BOOLEAN /\ unapplied \in BOOLEAN /\ strayed \in BOOLEAN /\ zapret \in BOOLEAN
  /\ section \in SectionRecord
  /\ page # "antidpi" => section = Blank

\* An edit that the service has not read and that has not gone astray leaves the button of the
\* page enabled, or somebody to enable it.
Pending(r) ==
  /\ r.here
  /\ \/ r.kind \in {"flag", "mode"} /\ r.at \in {"staged", "done"}
     \/ r.kind = "restart" /\ r.at \in {"sent", "undone", "failed"}
Fresh == unapplied /\ ~strayed
Waits == Fresh => page = "access" /\ (apply \/ \E t \in Task : Pending(task[t]))

\* The page is read once when it is opened, and once more after an installation: never twice at
\* a time, and the second time zapret is there, or the router out of reach.
Reader(r) == r.here /\ r.kind \in {"status", "install"}
Settled == section.status = "absent" /\ section.installing
Reading(r) ==
  \/ section.status = "unread" /\ r.kind = "status"
  \/ /\ Settled
     /\ r.kind = "status" /\ r.at = "sent" => zapret \/ ~Live
     /\ r.kind = "install" /\ r.at = "done" => zapret \/ ~Live
     /\ r.kind = "status" /\ r.at = "done" => r.got.status # "absent"
Reads ==
  /\ \A t, u \in Task : Reader(task[t]) /\ Reader(task[u]) => t = u
  /\ \A t \in Task : Reader(task[t]) => Reading(task[t])
  /\ section.sweeping => section.status # "unread"
  /\ section.installing => section.status = "absent"

\* Before that second reading no test finds its row lost; after it, there is no third.
Probing(r) == r.here /\ r.kind = "probe"
Sweeps ==
  /\ section.sweeping /\ section.status = "absent" => section.i < section.cands
  /\ section.sweeping =>
       \/ \E t \in Task : Probing(task[t])
       \/ RowLost /\ section.status \in {"installed", "error"}

PagesInv == Pages /\ Tasks /\ Waits /\ Reads /\ Sweeps

-----------------------------------------------------------------------------
(* The pages and their tasks: proof                                         *)

LEMMA TaskKinds ==
  /\ NoTask \in TaskRecord /\ ~NoTask.here /\ NoTask.kind = "none" /\ NoTask.at = "idle"
  /\ Unread \notin Policy /\ Unread.mode = "unread" /\ Default \in Policy
  /\ Blank \in SectionRecord
  BY AntiDpiAssumption DEF NoTask, TaskRecord, PolicyList, PolicyMode, Unread, Policy, Default, Blank, SectionRecord

\* One task moves, the others stay.
LEMMA TaskMoves ==
  ASSUME Tasks, NEW t \in Task, NEW r \in TaskRecord, task' = [task EXCEPT ![t] = r],
         page' = page, policy' = policy \/ policy' \in Policy, Sound(r, page, policy')
  PROVE  Tasks' /\ task'[t] = r /\ \A u \in Task \ {t} : task'[u] = task[u]
<1>1. task' \in [Task -> TaskRecord] /\ task'[t] = r /\ \A u \in Task \ {t} : task'[u] = task[u]
  BY DEF Tasks
<1>2. \A u \in Task : Sound(task'[u], page', policy')
  <2>1. TAKE u \in Task
  <2>2. CASE u = t
    BY <1>1, <2>2
  <2>3. CASE u # t
    BY <1>1, <2>3 DEF Tasks, Sound
  <2>4. QED
    BY <2>2, <2>3
<1>3. QED
  BY <1>1, <1>2 DEF Tasks

\* The button waits for whoever waited before.
LEMMA WaitsKept ==
  ASSUME Waits, NEW t \in Task, \A u \in Task \ {t} : task'[u] = task[u],
         Pending(task[t]) => Pending(task'[t]), page' = page, Fresh' => Fresh, apply => apply'
  PROVE  Waits'
<1>1. SUFFICES ASSUME Fresh, page = "access", ~apply PROVE \E u \in Task : Pending(task'[u])
  BY DEF Waits, Pending
<1>2. PICK u \in Task : Pending(task[u])
  BY <1>1 DEF Waits
<1>3. CASE u = t
  BY <1>2, <1>3
<1>4. CASE u # t
  BY <1>2, <1>4
<1>5. QED
  BY <1>3, <1>4

\* A task moves, and what the page against inspection shows stays.
LEMMA SectionMoves ==
  ASSUME Reads, Sweeps, NEW t \in Task, \A u \in Task \ {t} : task'[u] = task[u],
         Reader(task'[t]) => Reader(task[t]) /\ Reading(task[t])',
         Probing(task[t]) => Probing(task'[t]),
         UNCHANGED <<section, link, box>>, zapret => zapret'
  PROVE  Reads' /\ Sweeps'
<1>1. Live' <=> Live
  BY DEF Live
<1>2. \A u \in Task : Reader(task'[u]) => Reader(task[u])
  OBVIOUS
<1>3. \A u \in Task : Reader(task[u])' => Reading(task[u])'
  <2>1. SUFFICES ASSUME NEW u \in Task \ {t}, Reader(task[u]') PROVE Reading(task[u])'
    BY DEF Reader
  <2>2. Reading(task[u]) /\ task'[u] = task[u]
    BY <2>1 DEF Reads
  <2>3. QED
    BY <1>1, <2>2 DEF Reading, Settled
<1>4. Reads'
  <2>1. \A u, v \in Task : Reader(task[u])' /\ Reader(task[v])' => u = v
    BY <1>2 DEF Reads, Reader
  <2>2. QED
    BY <1>3, <2>1 DEF Reads
<1>5. (\E u \in Task : Probing(task[u])) => \E u \in Task : Probing(task'[u])
  <2>1. SUFFICES ASSUME NEW u \in Task, Probing(task[u]) PROVE Probing(task'[u])
    OBVIOUS
  <2>2. QED
    BY <2>1
<1>6. Sweeps'
  BY <1>5 DEF Sweeps, RowLost
<1>7. QED
  BY <1>4, <1>6

\* A page that is not shown has nothing to read and nothing to sweep.
LEMMA SectionGone ==
  ASSUME Pages', Tasks', page' # "antidpi" PROVE Reads' /\ Sweeps'
<1>1. section' = Blank
  BY DEF Pages
<1>2. \A t \in Task : ~Reader(task'[t])
  <2>1. TAKE t \in Task
  <2>2. Sound(task'[t], page', policy')
    BY DEF Tasks
  <2>3. QED
    BY <2>2, TaskKinds DEF Sound, Reader, SectionTask
<1>3. QED
  BY <1>1, <1>2 DEF Reads, Sweeps, Blank

\* The answer of a task that ends.
Ended(r, at) == IF r.here THEN [r EXCEPT !.at = at] ELSE NoTask
LEMMA OverMoves ==
  ASSUME Tasks, NEW t \in Task, NEW at \in {"done", "undone", "failed"}, Over(t, at), task[t] # NoTask,
         at = "done" => task[t].kind \notin {"read", "status"}, page' = page, policy' = policy
  PROVE  /\ Tasks' /\ \A u \in Task \ {t} : task'[u] = task[u]
         /\ task'[t] = Ended(task[t], at)
<1>1. task[t] \in TaskRecord /\ Sound(task[t], page, policy)
  BY DEF Tasks
<1>2. Ended(task[t], at) \in TaskRecord
  BY <1>1, TaskKinds DEF Ended, TaskRecord
<1>3. Sound(Ended(task[t], at), page, policy)
  BY <1>1, TaskKinds DEF Ended, Sound, TaskRecord, SectionTask
<1>4. task' = [task EXCEPT ![t] = Ended(task[t], at)]
  BY DEF Over, Ended
<1>5. QED
  BY <1>2, <1>3, <1>4, TaskMoves

\* A task moves behind a page that stays.
LEMMA TaskStays ==
  ASSUME PagesInv, NEW t \in Task, Tasks', Waits', \A u \in Task \ {t} : task'[u] = task[u],
         UNCHANGED <<screen, link, box, page, section>>, zapret' \in BOOLEAN, zapret => zapret',
         saved' \in Policy, policy' \in Policy \cup {Unread}, apply' \in BOOLEAN, unapplied' \in BOOLEAN, strayed' \in BOOLEAN,
         Reader(task'[t]) => Reader(task[t]) /\ Reading(task[t])',
         Probing(task[t]) => Probing(task'[t])
  PROVE  PagesInv'
<1>1. Pages'
  BY DEF PagesInv, Pages
<1>2. Reads' /\ Sweeps'
  BY SectionMoves DEF PagesInv
<1>3. QED
  BY <1>1, <1>2 DEF PagesInv

\* What the pages ask.
Asked(new) == [new EXCEPT !.at = "sent", !.here = TRUE]
IsAsked(r, kind) == r \in TaskRecord /\ r.here /\ r.at = "sent" /\ r.kind = kind
LEMMA AskedTasks ==
  /\ \A list \in PolicyList, on \in BOOLEAN :
       LET r == Asked([NoTask EXCEPT !.kind = "flag", !.list = list, !.on = on]) IN IsAsked(r, "flag") /\ r.list = list
  /\ \A m \in PolicyMode : LET r == Asked([NoTask EXCEPT !.kind = "mode", !.mode = m]) IN IsAsked(r, "mode") /\ r.mode = m
  /\ \A kind \in {"restart", "read", "status", "install", "probe"} : IsAsked(Asked([NoTask EXCEPT !.kind = kind]), kind)
<1>1. NoTask.got \in Policy \cup {Unread} \cup Answer /\ NoTask.mode \in PolicyMode \cup {"none"} /\ NoTask.list \in PolicyList \cup {"none"}
  BY DEF NoTask
<1>2. QED
  BY <1>1 DEF Asked, IsAsked, NoTask, TaskRecord

\* The page of access control: what the user does.
LEMMA AccessStarts ==
  ASSUME WizardInv, PagesInv, NEW t \in Task, OnFlag(t) \/ OnGlobal(t) \/ PressApply(t), Aside
  PROVE  PagesInv'
<1>1. /\ page = "access" /\ task[t] = NoTask
      /\ UNCHANGED <<screen, link, box, page, saved, policy, unapplied, strayed, section>> /\ zapret' = zapret
  BY DEF OnFlag, OnGlobal, PressApply, Start, Aside, window, PagesInv, Pages
<1>2. PICK new \in TaskRecord :
        /\ task' = [task EXCEPT ![t] = new] /\ new.here /\ new.at = "sent"
        /\ \/ new.kind = "flag" /\ new.list \in PolicyList /\ policy \in Policy /\ apply' = apply
           \/ new.kind = "mode" /\ new.mode \in PolicyMode /\ policy \in Policy /\ apply' = apply
           \/ new.kind = "restart" /\ apply' = FALSE
  <2>1. CASE OnFlag(t)
    <3>1. PICK flag \in Flags, on \in BOOLEAN :
            /\ ListOf(flag, policy.mode) # "none"
            /\ task' = [task EXCEPT ![t] = Asked([NoTask EXCEPT !.kind = "flag", !.list = ListOf(flag, policy.mode), !.on = on])]
      BY <2>1 DEF OnFlag, Start, Asked
    <3>2. ListOf(flag, policy.mode) \in PolicyList
      BY <3>1, SettingsAssumption DEF ListOf, PolicyList
    <3>3. policy \in Policy /\ apply' = apply
      BY <2>1 DEF OnFlag, PagesInv, Pages
    <3> DEFINE new == Asked([NoTask EXCEPT !.kind = "flag", !.list = ListOf(flag, policy.mode), !.on = on])
    <3>4. IsAsked(new, "flag") /\ new.list \in PolicyList
      BY <3>2, AskedTasks
    <3> HIDE DEF new
    <3>5. task' = [task EXCEPT ![t] = new]
      BY <3>1 DEF new
    <3>6. QED
      BY <3>3, <3>4, <3>5 DEF IsAsked
  <2>2. CASE OnGlobal(t)
    <3>1. PICK m \in Modes : task' = [task EXCEPT ![t] = Asked([NoTask EXCEPT !.kind = "mode", !.mode = m])]
      BY <2>2 DEF OnGlobal, Start, Asked
    <3>2. m \in PolicyMode
      BY <3>1, SettingsAssumption DEF PolicyMode
    <3>3. policy \in Policy /\ apply' = apply
      BY <2>2 DEF OnGlobal, PagesInv, Pages
    <3> DEFINE new == Asked([NoTask EXCEPT !.kind = "mode", !.mode = m])
    <3>4. IsAsked(new, "mode") /\ new.mode \in PolicyMode
      BY <3>2, AskedTasks
    <3> HIDE DEF new
    <3>5. task' = [task EXCEPT ![t] = new]
      BY <3>1 DEF new
    <3>6. QED
      BY <3>3, <3>4, <3>5 DEF IsAsked
  <2>3. CASE PressApply(t)
    <3>1. task' = [task EXCEPT ![t] = Asked([NoTask EXCEPT !.kind = "restart"])] /\ apply' = FALSE
      BY <2>3 DEF PressApply, Start, Asked
    <3>2. QED
      BY <3>1, AskedTasks DEF IsAsked
  <2>4. QED
    BY <2>1, <2>2, <2>3
<1>3. Sound(new, page, policy')
  BY <1>1, <1>2 DEF Sound, SectionTask
<1>4. Tasks' /\ task'[t] = new /\ \A u \in Task \ {t} : task'[u] = task[u]
  BY <1>1, <1>2, <1>3, TaskMoves DEF PagesInv
<1>5. Waits'
  <2>1. CASE new.kind = "restart"
    BY <1>1, <1>2, <1>4, <2>1 DEF Waits, Pending
  <2>2. CASE new.kind # "restart"
    BY <1>1, <1>2, <1>4, <2>2, WaitsKept, TaskKinds DEF PagesInv, Pending, Fresh
  <2>3. QED
    BY <2>1, <2>2
<1>6. ~Reader(task'[t]) /\ ~Probing(task[t])
  BY <1>1, <1>2, <1>4, TaskKinds DEF Reader, Probing
<1>7. apply' \in BOOLEAN /\ saved \in Policy /\ policy \in Policy \cup {Unread} /\ unapplied \in BOOLEAN /\ strayed \in BOOLEAN /\ zapret \in BOOLEAN
  BY <1>2 DEF PagesInv, Pages
<1>8. QED
  BY <1>1, <1>4, <1>5, <1>6, <1>7, TaskStays

\* A task that is taken off the list.
LEMMA TaskEnds ==
  ASSUME Tasks, NEW t \in Task, task' = [task EXCEPT ![t] = NoTask], page' = page,
         policy' = policy \/ policy' \in Policy
  PROVE  Tasks' /\ task'[t] = NoTask /\ \A u \in Task \ {t} : task'[u] = task[u]
  BY TaskMoves, TaskKinds DEF Sound

\* An edit of a list.
LEMMA FlaggedPolicy ==
  ASSUME saved \in Policy, NEW t \in Task, task[t].list \in PolicyList PROVE Flagged(t) \in Policy
<1>1. PICK list \in PolicyList : list = task[t].list
  OBVIOUS
<1>2. [saved EXCEPT !.lists = IF task[t].on THEN @ \cup {list} ELSE @ \ {list}] \in Policy
  BY DEF Policy, PolicyList
<1>3. QED
  BY <1>1, <1>2 DEF Flagged

\* The page of access control: a step of a task, or an error of any page.
LEMMA AccessSteps ==
  ASSUME WizardInv, PagesInv, NEW t \in Task, TaskStep(t), UNCHANGED wizard, Aside
  PROVE  PagesInv'
<1> DEFINE others == \A u \in Task \ {t} : task'[u] = task[u]
<1>1. /\ UNCHANGED <<screen, link, box, page, section>> /\ zapret' = zapret
      /\ zapret \in BOOLEAN /\ saved \in Policy /\ policy \in Policy \cup {Unread}
      /\ apply \in BOOLEAN /\ unapplied \in BOOLEAN /\ strayed \in BOOLEAN /\ page' = page
  BY DEF TaskStep, Read, Look, SetDeviceFlag, SetGlobalMode, Commit, ServiceRestarts, Fails, TimesOut, LateEdit, Edited, AfterRestart, Rendered, Err,
         wizard, window, Aside, PagesInv, Pages
<1>2. task[t] \in TaskRecord /\ Sound(task[t], page, policy) /\ Tasks /\ Waits /\ NoTask.kind = "none" /\ NoTask.at = "idle"
  BY DEF PagesInv, Tasks, NoTask
<1>3. CASE Read(t)
  <2> DEFINE r == IF task[t].here THEN [task[t] EXCEPT !.at = "done", !.got = saved] ELSE NoTask
  <2>1. task[t].kind = "read" /\ task[t].at = "sent" /\ UNCHANGED <<saved, policy, apply, unapplied, strayed>>
        /\ task' = [task EXCEPT ![t] = r]
    BY <1>3 DEF Read, Is
  <2>2. r \in TaskRecord /\ Sound(r, page, policy') /\ r.kind \in {"none", "read"}
    BY <1>1, <1>2, <2>1, TaskKinds DEF TaskRecord, Sound, SectionTask
  <2> HIDE DEF r
  <2>3. Tasks' /\ task'[t] = r /\ others
    BY <1>1, <1>2, <2>1, <2>2, TaskMoves
  <2>4. Waits'
    BY <1>1, <1>2, <2>1, <2>3, WaitsKept DEF Pending, Fresh
  <2>5. QED
    BY <1>1, <2>1, <2>2, <2>3, <2>4, TaskStays DEF Reader, Probing
<1>4. CASE Look(t)
  <2>1. /\ task[t].kind = "flag" /\ task[t].at = "sent" /\ UNCHANGED <<saved, policy, apply, unapplied, strayed>>
        /\ Over(t, "done") \/ Becomes(t, "found")
    BY <1>4 DEF Look, Is
  <2>2. Tasks' /\ others /\ task'[t].kind \in {"none", "flag"}
    <3>1. CASE Over(t, "done")
      BY <1>1, <1>2, <2>1, <3>1, OverMoves DEF Ended, TaskRecord
    <3>2. CASE Becomes(t, "found")
      <4> DEFINE r == [task[t] EXCEPT !.at = "found"]
      <4>1. task' = [task EXCEPT ![t] = r]
        BY <3>2 DEF Becomes
      <4>2. r \in TaskRecord /\ Sound(r, page, policy') /\ r.kind = "flag"
        BY <1>2, <2>1 DEF TaskRecord, Sound, SectionTask
      <4> HIDE DEF r
      <4>3. QED
        BY <1>1, <1>2, <2>1, <4>1, <4>2, TaskMoves
    <3>3. QED
      BY <2>1, <3>1, <3>2
  <2>3. Waits'
    BY <1>1, <1>2, <2>1, <2>2, WaitsKept DEF Pending, Fresh
  <2>4. QED
    BY <1>1, <2>1, <2>2, <2>3, TaskStays DEF Reader, Probing
<1>5. CASE SetDeviceFlag(t) \/ SetGlobalMode(t)
  <2> DEFINE r == [task[t] EXCEPT !.at = "staged"]
  <2>1. /\ task[t].kind \in {"flag", "mode"} /\ task[t].at \in {"sent", "found"}
        /\ UNCHANGED <<policy, apply>> /\ task' = [task EXCEPT ![t] = r]
        /\ \E new \in Policy : Write(t, new)
    <3>1. CASE SetDeviceFlag(t)
      BY <1>1, <1>2, <3>1, FlaggedPolicy, TaskKinds DEF SetDeviceFlag, Becomes, Is, Sound
    <3>2. CASE SetGlobalMode(t)
      <4>1. task[t].mode \in PolicyMode
        BY <1>2, <3>2, TaskKinds DEF SetGlobalMode, Is, Sound
      <4>2. [saved EXCEPT !.mode = task[t].mode] \in Policy
        BY <1>1, <4>1 DEF Policy, PolicyMode
      <4>3. QED
        BY <3>2, <4>2 DEF SetGlobalMode, Becomes, Is
    <3>3. QED
      BY <1>5, <3>1, <3>2
  <2>2. /\ saved' \in Policy /\ unapplied' \in BOOLEAN /\ strayed' \in BOOLEAN
        /\ ~task[t].here => (Fresh' => Fresh)
    BY <1>1, <2>1 DEF Write, Fresh
  <2>3. /\ r \in TaskRecord /\ Sound(r, page, policy')
        /\ r.kind = task[t].kind /\ r.here = task[t].here /\ r.at = "staged"
    BY <1>2, <2>1 DEF TaskRecord, Sound, SectionTask
  <2> HIDE DEF r
  <2>4. Tasks' /\ task'[t] = r /\ others
    BY <1>1, <1>2, <2>1, <2>3, TaskMoves
  <2>5. Waits'
    <3>1. CASE task[t].here
      <4>1. page = "access"
        BY <1>2, <2>1, <3>1 DEF Sound, SectionTask
      <4>2. QED
        BY <1>1, <2>1, <2>3, <2>4, <3>1, <4>1 DEF Waits, Pending
    <3>2. CASE ~task[t].here
      BY <1>1, <1>2, <2>1, <2>2, <2>4, <3>2, WaitsKept DEF Pending
    <3>3. QED
      BY <3>1, <3>2
  <2>6. QED
    BY <1>1, <2>1, <2>2, <2>3, <2>4, <2>5, TaskStays DEF Reader, Probing
<1>13. CASE Commit(t)
  <2>1. /\ task[t].kind \in {"flag", "mode"} /\ task[t].at = "staged"
        /\ UNCHANGED <<saved, policy, apply, unapplied, strayed>> /\ Over(t, "done")
    BY <1>2, <1>13, TaskKinds DEF Commit, Sound, TaskRecord
  <2>2. Tasks' /\ others /\ task'[t] = Ended(task[t], "done")
    BY <1>1, <1>2, <2>1, OverMoves
  <2>3. /\ task'[t].kind \in {"none", "flag", "mode"}
        /\ task[t].here => task'[t].here /\ task'[t].at = "done" /\ task'[t].kind \in {"flag", "mode"}
    BY <1>2, <2>1, <2>2 DEF Ended, TaskRecord
  <2>4. Waits'
    BY <1>1, <1>2, <2>1, <2>2, <2>3, WaitsKept DEF Pending, Fresh
  <2>5. QED
    BY <1>1, <2>1, <2>2, <2>3, <2>4, TaskStays DEF Reader, Probing
<1>14. CASE TimesOut(t)
  <2> DEFINE r == [task[t] EXCEPT !.at = "late", !.here = FALSE]
  <2>1. /\ task[t].kind \in {"flag", "mode"} /\ task[t].at \in {"sent", "found"}
        /\ UNCHANGED <<saved, policy, apply, unapplied, strayed>> /\ task' = [task EXCEPT ![t] = r]
    BY <1>14 DEF TimesOut, Is
  <2>2. r \in TaskRecord /\ Sound(r, page, policy') /\ ~r.here
    BY <1>2, <2>1 DEF TaskRecord, Sound, SectionTask
  <2> HIDE DEF r
  <2>3. Tasks' /\ task'[t] = r /\ others
    BY <1>1, <1>2, <2>1, <2>2, TaskMoves
  <2>4. Waits'
    BY <1>1, <1>2, <2>1, <2>3, WaitsKept DEF Pending, Fresh
  <2>5. QED
    BY <1>1, <2>1, <2>2, <2>3, <2>4, TaskStays DEF Reader, Probing
<1>15. CASE LateEdit(t)
  <2>1. /\ task[t].at = "late" /\ task[t].kind \in {"flag", "mode"} /\ ~task[t].here
        /\ UNCHANGED <<policy, apply>> /\ task' = [task EXCEPT ![t] = NoTask]
    BY <1>2, <1>15, TaskKinds DEF LateEdit, Sound
  <2>2. UNCHANGED <<saved, unapplied, strayed>> \/ \E new \in Policy : Write(t, new)
    <3>1. CASE task[t].kind = "mode"
      <4>1. task[t].mode \in PolicyMode
        BY <1>2, <2>1, <3>1 DEF Sound
      <4>2. [saved EXCEPT !.mode = task[t].mode] \in Policy
        BY <1>1, <4>1 DEF Policy, PolicyMode
      <4>3. QED
        BY <1>15, <3>1, <4>2 DEF LateEdit
    <3>2. CASE task[t].kind = "flag"
      <4>1. Flagged(t) \in Policy
        BY <1>1, <1>2, <2>1, <3>2, FlaggedPolicy DEF Sound
      <4>2. QED
        BY <1>15, <3>2, <4>1 DEF LateEdit
    <3>3. QED
      BY <2>1, <3>1, <3>2
  <2>3. saved' \in Policy /\ unapplied' \in BOOLEAN /\ strayed' \in BOOLEAN /\ (Fresh' => Fresh)
    <3>1. CASE UNCHANGED <<saved, unapplied, strayed>>
      BY <1>1, <3>1 DEF Fresh
    <3>2. ASSUME NEW new \in Policy, Write(t, new) PROVE saved' \in Policy /\ unapplied' \in BOOLEAN /\ strayed' \in BOOLEAN /\ (Fresh' => Fresh)
      BY <1>1, <2>1, <3>2 DEF Write, Fresh
    <3>3. QED
      BY <2>2, <3>1, <3>2
  <2>4. Tasks' /\ task'[t] = NoTask /\ others
    BY <1>1, <1>2, <2>1, TaskEnds
  <2>5. Waits'
    BY <1>1, <1>2, <2>1, <2>3, <2>4, WaitsKept DEF Pending
  <2>6. QED
    BY <1>1, <1>2, <2>1, <2>3, <2>4, <2>5, TaskStays DEF Reader, Probing
<1>6. CASE ServiceRestarts(t)
  <2>1. /\ task[t].kind = "restart" /\ task[t].at = "sent" /\ UNCHANGED <<saved, policy, apply>>
        /\ \/ Over(t, "done") /\ unapplied' = FALSE /\ strayed' = FALSE
           \/ Over(t, "undone") /\ unapplied' = unapplied /\ strayed' = strayed
    BY <1>6 DEF ServiceRestarts, Is
  <2>2. PICK at \in {"done", "undone"} : Over(t, at) /\ (at = "done" => unapplied' = FALSE)
    BY <2>1
  <2>7. unapplied' \in BOOLEAN /\ strayed' \in BOOLEAN /\ (Fresh' => Fresh /\ at # "done")
    <3>1. \/ unapplied' = FALSE /\ strayed' = FALSE
          \/ unapplied' = unapplied /\ strayed' = strayed
      BY <2>1
    <3>2. Fresh' => Fresh
      BY <1>1, <3>1 DEF Fresh
    <3>3. at = "done" => ~Fresh'
      BY <2>2 DEF Fresh
    <3>4. QED
      BY <1>1, <3>1, <3>2, <3>3
  <2>3. Tasks' /\ others /\ task'[t] = Ended(task[t], at)
    BY <1>1, <1>2, <2>1, <2>2, OverMoves
  <2>4. /\ task'[t].kind \in {"none", "restart"}
        /\ task[t].here => task'[t].here /\ task'[t].at = at /\ task'[t].kind = "restart"
    BY <1>2, <2>1, <2>3 DEF Ended, TaskRecord
  <2>5. Waits'
    <3>1. CASE ~Fresh'
      BY <3>1 DEF Waits
    <3>2. CASE Fresh'
      BY <1>1, <1>2, <2>1, <2>2, <2>3, <2>4, <2>7, <3>2, WaitsKept DEF Pending
    <3>3. QED
      BY <3>1, <3>2
  <2>6. QED
    BY <1>1, <2>1, <2>3, <2>4, <2>5, <2>7, TaskStays DEF Reader, Probing
<1>7. CASE Fails(t)
  <2>1. /\ task[t].at \in {"sent", "found", "staged"} /\ Over(t, "failed") /\ UNCHANGED <<saved, policy, apply>>
        /\ unapplied' \in BOOLEAN /\ strayed' \in BOOLEAN
        /\ Fresh' => Fresh /\ task[t].at # "staged"
    BY <1>1, <1>7 DEF Fails, Fresh
  <2>2. Tasks' /\ others /\ task'[t] = Ended(task[t], "failed")
    BY <1>1, <1>2, <2>1, OverMoves
  <2>3. IF task[t].here THEN task'[t].here /\ task'[t].at = "failed" /\ task'[t].kind = task[t].kind ELSE task'[t] = NoTask
    BY <1>2, <2>1, <2>2 DEF Ended, TaskRecord
  <2>4. Waits'
    <3>1. CASE ~Fresh'
      BY <3>1 DEF Waits
    <3>2. CASE Fresh'
      BY <1>1, <1>2, <2>1, <2>2, <2>3, <3>2, WaitsKept DEF Pending
    <3>3. QED
      BY <3>1, <3>2
  <2>5. Reader(task'[t]) => Reader(task[t]) /\ Reading(task[t])'
    <3>1. SUFFICES ASSUME Reader(task'[t]) PROVE Reader(task[t]) /\ Reading(task[t])'
      OBVIOUS
    <3>2. Reader(task[t]) /\ task'[t].kind = task[t].kind /\ task'[t].at = "failed"
      BY <1>2, <2>3, <3>1, TaskKinds DEF Reader
    <3>3. Reading(task[t])
      BY <3>2 DEF PagesInv, Reads
    <3>4. QED
      BY <1>1, <3>2, <3>3 DEF Reading, Settled
  <2>6. Probing(task[t]) => Probing(task'[t])
    BY <2>3 DEF Probing
  <2>7. QED
    BY <1>1, <2>1, <2>2, <2>4, <2>5, <2>6, TaskStays
<1>8. CASE Edited(t)
  <2>1. /\ task[t].kind \in {"flag", "mode"} /\ task[t].at = "done" /\ UNCHANGED <<saved, unapplied, strayed>>
        /\ apply' = TRUE /\ task' = [task EXCEPT ![t] = NoTask]
    BY <1>8 DEF Edited
  <2>2. policy \in Policy /\ (task[t].kind = "flag" => task[t].list \in PolicyList) /\ (task[t].kind = "mode" => task[t].mode \in PolicyMode)
    BY <1>2, <2>1, TaskKinds DEF Sound
  <2>3. policy' \in Policy
    <3>1. CASE task[t].kind = "mode"
      <4>1. policy' = [policy EXCEPT !.mode = task[t].mode] /\ task[t].mode \in PolicyMode
        BY <1>8, <2>2, <3>1 DEF Edited
      <4>2. QED
        BY <2>2, <4>1 DEF Policy, PolicyMode
    <3>2. CASE task[t].kind = "flag"
      <4>1. PICK list \in PolicyList : policy' = [policy EXCEPT !.lists = IF task[t].on THEN @ \cup {list} ELSE @ \ {list}]
        BY <1>8, <2>2, <3>2 DEF Edited
      <4>2. QED
        BY <2>2, <4>1 DEF Policy, PolicyList
    <3>3. QED
      BY <2>1, <3>1, <3>2
  <2>4. Tasks' /\ task'[t] = NoTask /\ others
    BY <1>1, <1>2, <2>1, <2>3, TaskEnds
  <2>5. Waits'
    <3>1. page = "access"
      BY <1>2, <2>1 DEF Sound, SectionTask
    <3>2. QED
      BY <1>1, <2>1, <3>1 DEF Waits
  <2>6. QED
    BY <1>1, <1>2, <2>1, <2>3, <2>4, <2>5, TaskStays DEF Reader, Probing
<1>9. CASE AfterRestart(t)
  <2>1. /\ task[t].kind = "restart" /\ UNCHANGED <<saved, policy, unapplied, strayed>>
        /\ apply' = (apply \/ task[t].at # "done") /\ task' = [task EXCEPT ![t] = NoTask]
    BY <1>9 DEF AfterRestart
  <2>2. Tasks' /\ task'[t] = NoTask /\ others
    BY <1>1, <1>2, <2>1, TaskEnds
  <2>3. Waits'
    <3>1. CASE task[t].at = "done"
      BY <1>1, <1>2, <2>1, <2>2, <3>1, WaitsKept DEF Pending, Fresh
    <3>2. CASE task[t].at # "done"
      BY <1>1, <1>2, <2>1, <3>2 DEF Waits, Fresh
    <3>3. QED
      BY <3>1, <3>2
  <2>4. apply' \in BOOLEAN
    BY <1>1, <2>1
  <2>5. QED
    BY <1>1, <1>2, <2>1, <2>2, <2>3, <2>4, TaskStays DEF Reader, Probing
<1>10. CASE Rendered(t)
  <2>1. /\ task[t].kind = "read" /\ task[t].at = "done" /\ UNCHANGED <<saved, apply, unapplied, strayed>>
        /\ policy' = task[t].got /\ task' = [task EXCEPT ![t] = NoTask]
    BY <1>10 DEF Rendered, Is
  <2>2. policy' \in Policy
    BY <1>2, <2>1 DEF Sound
  <2>3. Tasks' /\ task'[t] = NoTask /\ others
    BY <1>1, <1>2, <2>1, <2>2, TaskEnds
  <2>4. Waits'
    BY <1>1, <1>2, <2>1, <2>3, WaitsKept DEF Pending, Fresh
  <2>5. QED
    BY <1>1, <1>2, <2>1, <2>2, <2>3, <2>4, TaskStays DEF Reader, Probing
<1>11. CASE Err(t)
  <2>1. /\ task[t].kind \in {"read", "flag", "mode", "status"} /\ task[t].at = "failed"
        /\ UNCHANGED <<saved, policy, apply, unapplied, strayed>> /\ task' = [task EXCEPT ![t] = NoTask]
    BY <1>11 DEF Err
  <2>2. Tasks' /\ task'[t] = NoTask /\ others
    BY <1>1, <1>2, <2>1, TaskEnds
  <2>3. Waits'
    BY <1>1, <1>2, <2>1, <2>2, WaitsKept DEF Pending, Fresh
  <2>4. QED
    BY <1>1, <1>2, <2>1, <2>2, <2>3, TaskStays DEF Reader, Probing
<1>12. QED
  BY <1>3, <1>4, <1>5, <1>6, <1>7, <1>8, <1>9, <1>10, <1>11, <1>13, <1>14, <1>15 DEF TaskStep

\* Nobody reads any more.
LEMMA ReadsOver ==
  ASSUME \A u \in Task : ~Reader(task'[u]),
         section'.sweeping => section'.status # "unread", section'.installing => section'.status = "absent"
  PROVE  Reads'
  BY DEF Reads, Reader

\* Whoever reads goes on, while the sweep moves.
LEMMA ReadsOn ==
  ASSUME Reads, \A u \in Task : Reader(task'[u]) => task'[u] = task[u], UNCHANGED <<link, box, zapret>>,
         section'.status = section.status, section'.installing = section.installing,
         section'.sweeping => section.status # "unread"
  PROVE  Reads'
<1>1. Live' <=> Live
  BY DEF Live
<1>2. \A u, v \in Task : Reader(task[u])' /\ Reader(task[v])' => u = v
  BY DEF Reads, Reader
<1>3. \A u \in Task : Reader(task[u])' => Reading(task[u])'
  <2>1. SUFFICES ASSUME NEW u \in Task, Reader(task[u]') PROVE Reading(task[u])'
    BY DEF Reader
  <2>2. Reading(task[u]) /\ task'[u] = task[u]
    BY <2>1 DEF Reads
  <2>3. QED
    BY <1>1, <2>2 DEF Reading, Settled
<1>4. QED
  BY <1>2, <1>3 DEF Reads

\* The page against inspection moves, and with it one of its tasks.
LEMMA SectionChanges ==
  ASSUME PagesInv, NEW t \in Task, NEW r \in TaskRecord, task' = [task EXCEPT ![t] = r], Sound(r, page, policy),
         page = "antidpi", UNCHANGED <<screen, page, saved, policy, apply, unapplied, strayed, zapret>>,
         section' \in SectionRecord, Reads', Sweeps'
  PROVE  PagesInv'
<1>1. Tasks'
  BY TaskMoves DEF PagesInv
<1>2. Pages' /\ Waits'
  BY DEF PagesInv, Pages, Waits, Fresh
<1>3. QED
  BY <1>1, <1>2 DEF PagesInv

\* The page against inspection: what the user does.
LEMMA SectionStarts ==
  ASSUME PagesInv, NEW t \in Task, DoInstall(t) \/ FullStart(t), UNCHANGED <<page, saved, policy, apply, unapplied, strayed>>
  PROVE  PagesInv'
<1>1. /\ UNCHANGED <<screen, link, box, zapret>> /\ task[t] = NoTask /\ section.status # "unread"
      /\ section \in SectionRecord /\ ~Reader(task[t]) /\ ~Probing(task[t])
  BY TaskKinds DEF DoInstall, FullStart, Start, window, PagesInv, Pages, Reader, Probing
<1>2. page = "antidpi"
  BY <1>1 DEF PagesInv, Pages, Blank
<1>3. CASE DoInstall(t)
  <2> DEFINE r == Asked([NoTask EXCEPT !.kind = "install"])
  <2>1. IsAsked(r, "install")
    BY AskedTasks
  <2> HIDE DEF r
  <2>2. /\ task' = [task EXCEPT ![t] = r] /\ section' = [section EXCEPT !.installing = TRUE]
        /\ section.status = "absent" /\ ~section.installing
    BY <1>3 DEF DoInstall, Start, Asked, r
  <2>3. section' \in SectionRecord /\ section'.installing
        /\ section'.status = "absent" /\ section'.sweeping = section.sweeping /\ section'.i = section.i /\ section'.cands = section.cands
    BY <1>1, <2>2 DEF SectionRecord
  <2>4. task'[t] = r /\ \A u \in Task \ {t} : task'[u] = task[u]
    BY <2>2 DEF PagesInv, Tasks
  <2>5. \A u \in Task : ~Reader(task[u])
    BY <1>1, <2>2 DEF PagesInv, Reads, Reading, Settled
  <2>6. Reads'
    <3>1. \A u \in Task : Reader(task'[u]) => u = t
      BY <2>4, <2>5
    <3>2. Reading(task[t])'
      BY <2>1, <2>3, <2>4 DEF Reading, Settled, IsAsked
    <3>3. QED
      BY <2>3, <3>1, <3>2 DEF Reads, Reader
  <2>7. Sweeps'
    <3>1. \A u \in Task : Probing(task[u]) => Probing(task'[u])
      BY <1>1, <2>4
    <3>2. section.sweeping => \E u \in Task : Probing(task[u])
      BY <2>2 DEF PagesInv, Sweeps
    <3>3. QED
      BY <2>2, <2>3, <3>1, <3>2 DEF PagesInv, Sweeps
  <2>8. Sound(r, page, policy)
    BY <1>2, <2>1 DEF Sound, SectionTask, IsAsked
  <2>9. QED
    BY <1>1, <1>2, <2>1, <2>2, <2>3, <2>6, <2>7, <2>8, SectionChanges DEF IsAsked
<1>4. CASE FullStart(t)
  <2> DEFINE r == Asked([NoTask EXCEPT !.kind = "probe"])
  <2>1. IsAsked(r, "probe")
    BY AskedTasks
  <2> HIDE DEF r
  <2>2. /\ task' = [task EXCEPT ![t] = r]
        /\ section' = [section EXCEPT !.sweeping = TRUE, !.stop = FALSE, !.stoppable = TRUE, !.i = 0]
        /\ section.cands > 0
    BY <1>4 DEF FullStart, Start, Asked, r
  <2>3. /\ section' \in SectionRecord
        /\ section'.installing = section.installing /\ section'.status = section.status
        /\ section'.i = 0 /\ section'.cands = section.cands
    <3>1. 0 \in 0..Strategies
      BY AntiDpiAssumption
    <3>2. QED
      BY <1>1, <2>2, <3>1 DEF SectionRecord
  <2>4. task'[t] = r /\ \A u \in Task \ {t} : task'[u] = task[u]
    BY <2>2 DEF PagesInv, Tasks
  <2>5. Reads'
    <3>1. ~Reader(task'[t])
      BY <2>1, <2>4 DEF IsAsked, Reader
    <3>2. QED
      BY <1>1, <2>3, <2>4, <3>1, ReadsOn DEF PagesInv
  <2>6. Sweeps'
    <3>1. Probing(task'[t])
      BY <2>1, <2>4 DEF IsAsked, Probing
    <3>2. section'.i < section'.cands
      BY <2>2, <2>3
    <3>3. QED
      BY <3>1, <3>2 DEF Sweeps
  <2>7. Sound(r, page, policy)
    BY <1>2, <2>1 DEF Sound, SectionTask, IsAsked
  <2>8. QED
    BY <1>1, <1>2, <2>1, <2>2, <2>3, <2>5, <2>6, <2>7, SectionChanges DEF IsAsked
<1>5. QED
  BY <1>3, <1>4

LEMMA SectionStops ==
  ASSUME PagesInv, FullStopClick, UNCHANGED <<wizard, page, saved, policy, apply, unapplied, strayed>>
  PROVE  PagesInv'
<1>1. /\ UNCHANGED <<screen, link, box, task, page, zapret>> /\ section' = [section EXCEPT !.stop = TRUE]
      /\ section.stoppable /\ section \in SectionRecord
  BY DEF FullStopClick, wizard, window, PagesInv, Pages
<1>2. page = "antidpi"
  BY <1>1 DEF PagesInv, Pages, Blank
<1>3. /\ section' \in SectionRecord /\ section'.status = section.status /\ section'.installing = section.installing
      /\ section'.sweeping = section.sweeping /\ section'.i = section.i /\ section'.cands = section.cands
  BY <1>1 DEF SectionRecord
<1>4. Tasks' /\ Pages' /\ Waits'
  BY <1>1, <1>2, <1>3 DEF PagesInv, Tasks, Pages, Waits, Fresh
<1>5. Reads'
  BY <1>1, <1>3, ReadsOn DEF PagesInv, Reads
<1>6. Sweeps'
  BY <1>1, <1>3 DEF PagesInv, Sweeps, RowLost
<1>7. QED
  BY <1>4, <1>5, <1>6 DEF PagesInv

\* The page against inspection: the steps of its tasks.
LEMMA SectionSteps ==
  ASSUME PagesInv, NEW t \in Task, PageStep(t), UNCHANGED <<wizard, page, saved, policy, apply, unapplied, strayed>>
  PROVE  PagesInv'
<1> DEFINE others == \A u \in Task \ {t} : task'[u] = task[u]
<1>1. /\ UNCHANGED <<screen, link, box, page, saved, policy, apply, unapplied, strayed>>
      /\ zapret \in BOOLEAN /\ saved \in Policy /\ policy \in Policy \cup {Unread}
      /\ apply \in BOOLEAN /\ unapplied \in BOOLEAN /\ strayed \in BOOLEAN
      /\ section \in SectionRecord
  BY DEF wizard, window, PagesInv, Pages
<1>2. /\ task[t] \in TaskRecord /\ Sound(task[t], page, policy) /\ Tasks /\ Waits /\ Reads /\ Sweeps
      /\ NoTask.kind = "none" /\ NoTask.at = "idle" /\ ~NoTask.here
  BY DEF PagesInv, Tasks, NoTask
<1>3. ASSUME task[t].kind \in SectionTask, task[t].at \in {"done", "undone", "failed"}
      PROVE  task[t].here /\ page = "antidpi"
  BY <1>2, <1>3, TaskKinds DEF Sound, SectionTask
\* A task of this page that moves keeps nobody waiting who waits for the button.
<1>4. ASSUME others, task[t].kind \in SectionTask PROVE Waits'
  BY <1>1, <1>2, <1>4, WaitsKept DEF Pending, SectionTask, Fresh
<1>5. CASE GetStatus(t)
  <2>1. PICK answer \in [status : {IF zapret THEN "installed" ELSE "absent", "error"}, cands : {0, Strategies}] :
          task' = [task EXCEPT ![t] = IF @.here THEN [@ EXCEPT !.at = "done", !.got = answer] ELSE NoTask]
    BY <1>5 DEF GetStatus
  <2>2. task[t].kind = "status" /\ task[t].at = "sent" /\ Live /\ UNCHANGED <<zapret, section>>
    BY <1>5 DEF GetStatus, Is
  <2>3. answer \in Answer /\ (zapret => answer.status # "absent")
    BY DEF Answer
  <2> DEFINE r == IF task[t].here THEN [task[t] EXCEPT !.at = "done", !.got = answer] ELSE NoTask
  <2>4. r \in TaskRecord /\ Sound(r, page, policy') /\ r.kind \in {"none", "status"}
        /\ (r.kind = "status" => task[t].here /\ r.at = "done" /\ r.got = answer)
    BY <1>1, <1>2, <2>2, <2>3, TaskKinds DEF TaskRecord, Sound, SectionTask
  <2>5. task' = [task EXCEPT ![t] = r]
    BY <2>1
  <2> HIDE DEF r
  <2>6. Tasks' /\ task'[t] = r /\ others
    BY <1>1, <1>2, <2>4, <2>5, TaskMoves
  <2>7. Reader(task'[t]) => Reader(task[t]) /\ Reading(task[t])'
    <3>1. SUFFICES ASSUME Reader(task'[t]) PROVE Reader(task[t]) /\ Reading(task[t])'
      OBVIOUS
    <3>2. task[t].here /\ r.at = "done" /\ r.got = answer /\ r.kind = "status"
      BY <2>4, <2>6, <3>1 DEF Reader
    <3>3. Reader(task[t]) /\ Reading(task[t])
      BY <1>2, <2>2, <3>2 DEF Reader, Reads
    <3>4. QED
      BY <2>2, <2>3, <2>6, <3>2, <3>3 DEF Reading, Settled
  <2>8. QED
    BY <1>1, <1>4, <2>2, <2>6, <2>7, TaskStays DEF Probing, SectionTask
<1>6. CASE Render(t)
  <2>1. /\ task[t].kind = "status" /\ task[t].at = "done" /\ task' = [task EXCEPT ![t] = NoTask] /\ UNCHANGED zapret
        /\ section' = [section EXCEPT !.status = task[t].got.status, !.cands = task[t].got.cands,
                                      !.installing = FALSE, !.stoppable = FALSE]
    BY <1>6 DEF Render, Is
  <2>2. task[t].here /\ page = "antidpi" /\ Reader(task[t]) /\ task[t].got \in Answer
    BY <1>2, <1>3, <2>1 DEF Reader, Sound, SectionTask
  <2>3. /\ section' \in SectionRecord /\ section'.status \in {"installed", "absent", "error"}
        /\ section'.status = task[t].got.status /\ ~section'.installing /\ section'.sweeping = section.sweeping
    BY <1>1, <2>1, <2>2 DEF SectionRecord, Answer
  <2>4. task'[t] = NoTask /\ others
    BY <1>2, <2>1 DEF Tasks
  <2>5. \A u \in Task : ~Reader(task'[u])
    BY <1>2, <2>2, <2>4 DEF Reads, Reader
  <2>6. Reads'
    BY <2>3, <2>5, ReadsOver
  <2>7. section.sweeping => section'.status # "absent" /\ \E u \in Task : Probing(task'[u])
    <3>1. SUFFICES ASSUME section.sweeping PROVE section'.status # "absent" /\ \E u \in Task : Probing(task'[u])
      OBVIOUS
    <3>2. Settled /\ task[t].got.status # "absent"
      BY <1>2, <2>1, <2>2, <3>1 DEF Reads, Reading
    <3>3. PICK u \in Task : Probing(task[u])
      BY <1>2, <3>1, <3>2 DEF Sweeps, Settled
    <3>4. Probing(task'[u])
      BY <2>1, <2>4, <3>3 DEF Probing
    <3>5. QED
      BY <2>3, <3>2, <3>4
  <2>8. Sweeps'
    BY <2>3, <2>7 DEF Sweeps
  <2>9. QED
    BY <1>1, <2>1, <2>2, <2>3, <2>6, <2>8, TaskKinds, SectionChanges DEF Sound
<1>7. CASE PrepareInstall(t)
  <2>1. /\ task[t].kind = "install" /\ task[t].at = "sent" /\ UNCHANGED <<zapret, section>>
        /\ Becomes(t, "found") \/ Over(t, "undone")
    BY <1>7 DEF PrepareInstall, Is
  <2>2. Tasks' /\ others /\ task'[t].at # "done" /\ task'[t].kind \in {"none", "install"} /\ (task'[t].here => task[t].here)
    <3>1. CASE Over(t, "undone")
      BY <1>1, <1>2, <2>1, <3>1, OverMoves DEF Ended, TaskRecord
    <3>2. CASE Becomes(t, "found")
      <4> DEFINE r == [task[t] EXCEPT !.at = "found"]
      <4>1. task' = [task EXCEPT ![t] = r]
        BY <3>2 DEF Becomes
      <4>2. r \in TaskRecord /\ Sound(r, page, policy') /\ r.kind = "install" /\ r.at = "found" /\ r.here = task[t].here
        BY <1>1, <1>2, <2>1 DEF TaskRecord, Sound, SectionTask
      <4> HIDE DEF r
      <4>3. QED
        BY <1>1, <1>2, <2>1, <4>1, <4>2, TaskMoves
    <3>3. QED
      BY <2>1, <3>1, <3>2
  <2>3. Reader(task'[t]) => Reader(task[t]) /\ Reading(task[t])'
    <3>1. SUFFICES ASSUME Reader(task'[t]) PROVE Reader(task[t]) /\ Reading(task[t])'
      OBVIOUS
    <3>2. Reader(task[t]) /\ task'[t].kind = "install"
      BY <2>1, <2>2, <3>1 DEF Reader
    <3>3. Reading(task[t])
      BY <1>2, <3>2 DEF Reads
    <3>4. QED
      BY <2>1, <2>2, <3>2, <3>3 DEF Reading, Settled
  <2>4. QED
    BY <1>1, <1>4, <2>1, <2>2, <2>3, TaskStays DEF Probing, SectionTask
<1>8. CASE InstallPkg(t)
  <2>1. /\ task[t].kind = "install" /\ task[t].at = "found" /\ UNCHANGED section
        /\ \/ Over(t, "done") /\ zapret' = TRUE
           \/ Over(t, "undone") /\ zapret' \in {zapret, TRUE}
    BY <1>8 DEF InstallPkg, Is
  <2>2. PICK at \in {"done", "undone"} : Over(t, at) /\ (at = "done" => zapret' = TRUE)
    BY <2>1
  <2>3. zapret' \in BOOLEAN /\ (zapret => zapret')
    <3>1. zapret' = TRUE \/ zapret' = zapret
      BY <2>1
    <3>2. CASE zapret' = TRUE
      BY <3>2
    <3>3. CASE zapret' = zapret
      BY <1>1, <3>3
    <3>4. QED
      BY <3>1, <3>2, <3>3
  <2>4. Tasks' /\ others /\ task'[t] = Ended(task[t], at)
    BY <1>1, <1>2, <2>1, <2>2, OverMoves
  <2>5. IF task[t].here THEN task'[t].here /\ task'[t].at = at /\ task'[t].kind = "install" ELSE task'[t] = NoTask
    BY <1>2, <2>1, <2>4 DEF Ended, TaskRecord
  <2>6. Reader(task'[t]) => Reader(task[t]) /\ Reading(task[t])'
    <3>1. SUFFICES ASSUME Reader(task'[t]) PROVE Reader(task[t]) /\ Reading(task[t])'
      OBVIOUS
    <3>2. Reader(task[t]) /\ task'[t].kind = "install" /\ task'[t].at = at
      BY <1>2, <2>1, <2>5, <3>1 DEF Reader
    <3>3. Reading(task[t])
      BY <1>2, <3>2 DEF Reads
    <3>4. QED
      BY <2>1, <2>2, <3>2, <3>3 DEF Reading, Settled
  <2>7. QED
    BY <1>1, <1>4, <2>1, <2>3, <2>4, <2>6, TaskStays DEF Probing, SectionTask
<1>9. CASE Installed(t)
  <2>1. /\ task[t].kind = "install" /\ task[t].at \in {"done", "undone", "failed"} /\ UNCHANGED zapret
        /\ IF task[t].at = "done"
           THEN /\ task' = [task EXCEPT ![t] = [NoTask EXCEPT !.kind = "status", !.at = "sent", !.here = TRUE]]
                /\ UNCHANGED section
           ELSE /\ task' = [task EXCEPT ![t] = NoTask]
                /\ section' = [section EXCEPT !.installing = FALSE]
    BY <1>9 DEF Installed
  <2>2. task[t].here /\ page = "antidpi" /\ Reader(task[t])
    BY <1>2, <1>3, <2>1 DEF Reader, SectionTask
  <2>3. Settled /\ (task[t].at = "done" => zapret \/ ~Live)
    BY <1>2, <2>1, <2>2 DEF Reads, Reading
  <2>4. CASE task[t].at = "done"
    <3> DEFINE r == Asked([NoTask EXCEPT !.kind = "status"])
    <3>1. IsAsked(r, "status")
      BY AskedTasks
    <3>2. task' = [task EXCEPT ![t] = r] /\ UNCHANGED section
      <4>1. r = [NoTask EXCEPT !.kind = "status", !.at = "sent", !.here = TRUE]
        BY DEF Asked, NoTask
      <4>2. QED
        BY <2>1, <2>4, <4>1
    <3> HIDE DEF r
    <3>3. Sound(r, page, policy')
      BY <2>2, <3>1 DEF Sound, SectionTask, IsAsked
    <3>4. Tasks' /\ task'[t] = r /\ others
      BY <1>1, <1>2, <3>1, <3>2, <3>3, TaskMoves DEF IsAsked
    <3>5. Live' <=> Live
      BY <1>1 DEF Live
    <3>6. Reading(task[t])'
      BY <2>1, <2>3, <2>4, <3>1, <3>2, <3>4, <3>5 DEF Reading, Settled, IsAsked
    <3>7. QED
      BY <1>1, <1>4, <2>1, <2>2, <3>2, <3>4, <3>6, TaskStays DEF Probing, SectionTask
  <2>5. CASE task[t].at # "done"
    <3>1. task' = [task EXCEPT ![t] = NoTask] /\ section' = [section EXCEPT !.installing = FALSE]
      BY <2>1, <2>5
    <3>2. /\ section' \in SectionRecord /\ ~section'.installing /\ section'.status = section.status
          /\ section'.sweeping = section.sweeping /\ section'.i = section.i /\ section'.cands = section.cands
      BY <1>1, <3>1 DEF SectionRecord
    <3>3. task'[t] = NoTask /\ others
      BY <1>2, <3>1 DEF Tasks
    <3>4. \A u \in Task : ~Reader(task'[u])
      BY <1>2, <2>2, <3>3 DEF Reads, Reader
    <3>5. Reads'
      BY <2>3, <3>2, <3>4, ReadsOver DEF Settled
    <3>6. \A u \in Task : Probing(task[u]) => Probing(task'[u])
      BY <2>1, <3>3 DEF Probing
    <3>7. Sweeps'
      BY <1>2, <2>3, <3>2, <3>6 DEF Sweeps, Settled
    <3>8. QED
      BY <1>1, <2>1, <2>2, <3>1, <3>2, <3>5, <3>7, TaskKinds, SectionChanges DEF Sound
  <2>6. QED
    BY <2>4, <2>5
<1>10. CASE RunTest(t)
  <2>1. task[t].kind = "probe" /\ task[t].at = "sent" /\ Over(t, "done") /\ UNCHANGED <<zapret, section>>
    BY <1>10 DEF RunTest, Is
  <2>2. Tasks' /\ others /\ task'[t] = Ended(task[t], "done")
    BY <1>1, <1>2, <2>1, OverMoves
  <2>3. task'[t].kind \in {"none", "probe"} /\ (task[t].here => task'[t].here /\ task'[t].kind = "probe")
    BY <1>2, <2>1, <2>2 DEF Ended, TaskRecord
  <2>4. QED
    BY <1>1, <1>4, <2>1, <2>2, <2>3, TaskStays DEF Probing, Reader, SectionTask
<1>11. CASE FullRow(t)
  <2>1. /\ task[t].kind = "probe" /\ task[t].at \in {"done", "failed"} /\ UNCHANGED zapret
        /\ IF RowLost THEN task' = [task EXCEPT ![t] = NoTask] /\ UNCHANGED section ELSE FullNext(t)
    BY <1>11 DEF FullRow
  <2>2. task[t].here /\ page = "antidpi" /\ ~Reader(task[t])
    BY <1>3, <2>1 DEF SectionTask, Reader
  <2>3. CASE RowLost
    <3>1. task' = [task EXCEPT ![t] = NoTask] /\ UNCHANGED section
      BY <2>1, <2>3
    <3>2. task'[t] = NoTask /\ others
      BY <1>2, <3>1 DEF Tasks
    <3>3. \A u \in Task : Reader(task'[u]) => task'[u] = task[u]
      BY <1>2, <3>2 DEF Reader
    <3>4. Reads'
      BY <1>1, <1>2, <2>1, <3>1, <3>3, ReadsOn DEF Reads
    <3>5. section.sweeping => section.status \in {"installed", "error"}
      <4>1. section.status = "absent" /\ section.sweeping => FALSE
        <5>1. SUFFICES ASSUME section.status = "absent", section.sweeping PROVE FALSE
          OBVIOUS
        <5>2. section.i < section.cands /\ section.i >= section.cands
          BY <1>2, <2>3, <5>1 DEF Sweeps, RowLost
        <5>3. section.i \in Nat /\ section.cands \in Nat
          BY <1>1, AntiDpiAssumption DEF SectionRecord
        <5>4. QED
          BY <5>2, <5>3
      <4>2. QED
        BY <1>1, <1>2, <4>1 DEF Reads, SectionRecord
    <3>6. Sweeps'
      BY <1>2, <2>3, <3>1, <3>5 DEF Sweeps, RowLost
    <3>7. QED
      BY <1>1, <2>1, <2>2, <3>1, <3>4, <3>6, TaskKinds, SectionChanges DEF Sound
  <2>4. CASE ~RowLost /\ (section.stop \/ section.i + 1 >= section.cands)
    <3>1. task' = [task EXCEPT ![t] = NoTask]
          /\ section' = [section EXCEPT !.sweeping = FALSE, !.stop = FALSE, !.stoppable = FALSE, !.i = 0]
      BY <2>1, <2>4 DEF FullNext, FullFinish
    <3>2. 0 \in 0..Strategies
      BY AntiDpiAssumption
    <3>3. /\ section' \in SectionRecord /\ ~section'.sweeping
          /\ section'.status = section.status /\ section'.installing = section.installing
      BY <1>1, <3>1, <3>2 DEF SectionRecord
    <3>4. \A u \in Task : Reader(task'[u]) => task'[u] = task[u]
      BY <1>2, <3>1 DEF Reader, Tasks
    <3>5. Reads'
      BY <1>1, <1>2, <2>1, <3>3, <3>4, ReadsOn
    <3>6. Sweeps'
      BY <3>3 DEF Sweeps
    <3>7. QED
      BY <1>1, <2>1, <2>2, <3>1, <3>3, <3>5, <3>6, TaskKinds, SectionChanges DEF Sound
  <2>5. CASE ~RowLost /\ ~(section.stop \/ section.i + 1 >= section.cands)
    <3> DEFINE r == [task[t] EXCEPT !.at = "sent"]
    <3>1. task' = [task EXCEPT ![t] = r] /\ section' = [section EXCEPT !.i = section.i + 1]
      BY <2>1, <2>5 DEF FullNext
    <3>2. r \in TaskRecord /\ r.kind = "probe" /\ r.here /\ Sound(r, page, policy)
      BY <1>2, <2>1, <2>2 DEF TaskRecord, Sound, SectionTask
    <3> HIDE DEF r
    <3>3. section.i + 1 \in 0..Strategies /\ section.i + 1 < section.cands
      <4>1. section.i \in Nat /\ section.cands \in {0, Strategies}
        BY <1>1, AntiDpiAssumption DEF SectionRecord
      <4>2. QED
        BY <2>5, <4>1, AntiDpiAssumption
    <3>4. /\ section' \in SectionRecord /\ section'.sweeping = section.sweeping /\ section'.i = section.i + 1
          /\ section'.cands = section.cands
          /\ section'.status = section.status /\ section'.installing = section.installing
      BY <1>1, <3>1, <3>3 DEF SectionRecord
    <3>5. task'[t] = r /\ others
      BY <1>2, <3>1 DEF Tasks
    <3>6. Reads'
      BY <1>1, <1>2, <2>1, <3>2, <3>4, <3>5, ReadsOn DEF Reads, Reader
    <3>7. Sweeps'
      BY <3>2, <3>3, <3>4, <3>5 DEF Sweeps, Probing
    <3>8. QED
      BY <1>1, <2>1, <2>2, <3>1, <3>2, <3>4, <3>6, <3>7, SectionChanges
  <2>6. QED
    BY <2>3, <2>4, <2>5
<1>12. QED
  BY <1>5, <1>6, <1>7, <1>8, <1>9, <1>10, <1>11 DEF PageStep

\* The settings stay shown: the connection stays, and the router is the same or was reset.
LEMMA SettingsStay ==
  ASSUME WizardInv, WizardNext, screen = "settings", screen' = screen
  PROVE  /\ link' = link
         /\ box'.epoch = box.epoch \/ ~Live'
<1>1. back = <<>> /\ probe = Unlinked /\ box \in Box
  BY DEF WizardInv, WizardTypeOK, Ways, Linked, Chain
<1>2. link' = link /\ \/ box' = Clean(box.epoch + 1)
                      \/ box'.epoch = box.epoch
  <2>1. \/ \E w \in Worker : StartInstall(w) \/ RemoveLegacy(w) \/ InstallDone(w) \/ InstallFails(w)
        \/ Revoke \/ DeleteServers \/ FactoryReset
    BY <1>1 DEF WizardNext, OpenWindow, ReviewDisclaimer, AcceptDisclaimer, ShowModePicker, PickMode, LeaveInternet,
                DoConnect, ConnectAnswered, Proceed, ApplyFirstRun, AfterFirstRun, AfterInternet, SoftwareReady, AfterSoftware,
                ApplyNodes, AfterRules, AfterWifiAp, AfterVerify, AfterFinalize, GoBack, AfterPreinstall,
                AfterPreinstallWan, AfterPreinstallAp, Restart, ResetAppData, Restarted, Swap
  <2>2. QED
    BY <1>1, <2>1 DEF StartInstall, RemoveLegacy, InstallDone, InstallFails, Revoke, DeleteServers, FactoryReset, window, Box
<1>3. box' = Clean(box.epoch + 1) => ~Live'
  <2>1. link \in Link /\ link.epoch <= box.epoch
    BY DEF WizardInv, Linked
  <2>2. link.epoch \in Nat /\ box.epoch \in Nat
    BY <1>1, <2>1, WizardAssumption DEF Link, Box
  <2>3. Clean(box.epoch + 1).epoch = box.epoch + 1
    BY DEF Clean
  <2>4. QED
    BY <1>2, <2>1, <2>2, <2>3 DEF Live
<1>4. QED
  BY <1>2, <1>3

\* Neither an answer to a page that is gone nor a command cut off by the reset is more than what was asked.
LEMMA OrphansSound ==
  ASSUME Tasks
  PROVE  /\ Orphans \in [Task -> TaskRecord]
         /\ \A t \in Task : ~Orphans[t].here
         /\ \A t \in Task : \A p, c : Sound(Orphans[t], p, c)
<1>1. ASSUME NEW t \in Task PROVE Orphans[t] \in TaskRecord /\ ~Orphans[t].here /\ \A p, c : Sound(Orphans[t], p, c)
  <2>1. task[t] \in TaskRecord /\ Sound(task[t], page, policy)
    BY DEF Tasks
  <2>2. CASE ~Live \/ task[t].at \in {"done", "undone", "failed"}
    <3>1. Orphans[t] = NoTask
      BY <2>2 DEF Orphans
    <3>2. QED
      BY <3>1, TaskKinds DEF Sound
  <2>3. CASE ~(~Live \/ task[t].at \in {"done", "undone", "failed"})
    <3>1. Orphans[t] = [task[t] EXCEPT !.here = FALSE]
      BY <2>3 DEF Orphans
    <3>2. /\ Orphans[t] \in TaskRecord /\ ~Orphans[t].here
          /\ Orphans[t].kind = task[t].kind /\ Orphans[t].at = task[t].at
          /\ Orphans[t].list = task[t].list /\ Orphans[t].mode = task[t].mode
      BY <2>1, <3>1 DEF TaskRecord
    <3>3. QED
      BY <2>1, <2>3, <3>2 DEF Sound
  <2>4. QED
    BY <2>2, <2>3
<1>2. Orphans = [t \in Task |-> Orphans[t]]
  BY DEF Orphans
<1>3. QED
  BY <1>1, <1>2

LEMMA SeveredSound ==
  ASSUME Tasks
  PROVE  /\ Severed \in [Task -> TaskRecord]
         /\ \A t \in Task : /\ Sound(Severed[t], page, policy)
                            /\ IF task[t].here
                               THEN /\ Severed[t].here /\ Severed[t].kind = task[t].kind
                                    /\ \/ Severed[t] = task[t] /\ task[t].at \notin {"sent", "found", "staged"}
                                       \/ Severed[t].at = "failed" /\ task[t].at \in {"sent", "found", "staged"}
                               ELSE Severed[t] = NoTask
<1>1. ASSUME NEW t \in Task
      PROVE  /\ Severed[t] \in TaskRecord
             /\ Sound(Severed[t], page, policy)
             /\ IF task[t].here
                THEN /\ Severed[t].here /\ Severed[t].kind = task[t].kind
                     /\ \/ Severed[t] = task[t] /\ task[t].at \notin {"sent", "found", "staged"}
                        \/ Severed[t].at = "failed" /\ task[t].at \in {"sent", "found", "staged"}
                ELSE Severed[t] = NoTask
  <2>1. task[t] \in TaskRecord /\ Sound(task[t], page, policy)
    BY DEF Tasks
  <2>2. CASE task[t].at \in {"sent", "found", "staged"} /\ task[t].here
    <3>1. Severed[t] = [task[t] EXCEPT !.at = "failed"]
      BY <2>2 DEF Severed
    <3>2. /\ Severed[t] \in TaskRecord /\ Severed[t].here /\ Severed[t].at = "failed" /\ Severed[t].kind = task[t].kind
          /\ Severed[t].list = task[t].list /\ Severed[t].mode = task[t].mode
      BY <2>1, <2>2, <3>1 DEF TaskRecord
    <3>3. task[t] # NoTask
      BY <2>2, TaskKinds
    <3>4. QED
      BY <2>1, <2>2, <3>2, <3>3 DEF Sound
  <2>3. CASE task[t].at \notin {"sent", "found", "staged"} /\ task[t].here
    <3>1. Severed[t] = task[t]
      BY <2>3 DEF Severed
    <3>2. QED
      BY <2>1, <2>3, <3>1
  <2>4. CASE ~task[t].here
    <3>1. Severed[t] = NoTask
      BY <2>4 DEF Severed
    <3>2. QED
      BY <2>4, <3>1, TaskKinds DEF Sound
  <2>5. QED
    BY <2>2, <2>3, <2>4
<1>2. Severed = [t \in Task |-> Severed[t]]
  BY DEF Severed
<1>3. QED
  BY <1>1, <1>2

\* Another page is opened, or none.
LEMMA PageOpens ==
  ASSUME PagesInv, page' \in Page \cup {"none"}, page' = "none" <=> screen' # "settings",
         saved' \in Policy, policy' = Unread, apply' = FALSE, unapplied' \in BOOLEAN, strayed' = unapplied', zapret' \in BOOLEAN,
         section' = Blank, Tasks',
         \A t, u \in Task : Reader(task'[t]) /\ Reader(task'[u]) => t = u,
         \A t \in Task : Reader(task'[t]) => task'[t].kind = "status"
  PROVE  PagesInv'
<1>1. Pages' /\ Waits'
  BY TaskKinds DEF Pages, Waits, Fresh
<1>2. section'.status = "unread" /\ ~section'.sweeping /\ ~section'.installing
  BY DEF Blank
<1>3. Reads'
  BY <1>2 DEF Reads, Reader, Reading
<1>4. Sweeps'
  BY <1>2 DEF Sweeps
<1>5. QED
  BY <1>1, <1>3, <1>4 DEF PagesInv

LEMMA Opens == ASSUME PagesInv, ShowSection, Aside PROVE PagesInv'
<1>1. /\ screen = "settings" /\ UNCHANGED <<screen, link, box, saved>> /\ zapret' = zapret
      /\ zapret \in BOOLEAN /\ saved \in Policy /\ Tasks /\ unapplied \in BOOLEAN
  BY DEF ShowSection, Opened, Aside, window, PagesInv, Pages
<1>2. PICK to \in Page : (to # page \/ to = "access") /\ Opened(to)
  BY DEF ShowSection
<1>3. /\ page' = to /\ policy' = Unread /\ apply' = FALSE /\ to # "none"
      /\ unapplied' = unapplied /\ strayed' = unapplied
  BY <1>2 DEF Opened, NewPage, Page
<1>4. section' = Blank
  BY <1>2, <1>3 DEF Aside, PagesInv, Pages
<1>5. CASE to = "overview"
  <2>1. task' = Orphans
    BY <1>2, <1>5 DEF Opened
  <2>2. Tasks' /\ \A t \in Task : ~Reader(task'[t])
    BY <1>1, <2>1, OrphansSound DEF Tasks, Reader
  <2>3. QED
    BY <1>1, <1>3, <1>4, <2>2, PageOpens
<1>6. CASE to # "overview"
  <2> DEFINE kind == IF to = "access" THEN "read" ELSE "status"
             r == Asked([NoTask EXCEPT !.kind = kind])
  <2>1. IsAsked(r, kind)
    BY AskedTasks
  <2>2. PICK t \in Task : task' = [Orphans EXCEPT ![t] = r]
    <3>1. r = [NoTask EXCEPT !.kind = kind, !.at = "sent", !.here = TRUE]
      BY DEF Asked, NoTask
    <3>2. QED
      BY <1>2, <1>6, <3>1 DEF Opened
  <2>3. Sound(r, page', policy')
    BY <1>2, <1>3, <1>6, <2>1 DEF Sound, SectionTask, IsAsked, Page
  <2>4. kind = "read" \/ kind = "status"
    OBVIOUS
  <2> HIDE DEF r, kind
  <2>5. task' \in [Task -> TaskRecord] /\ task'[t] = r /\ \A u \in Task \ {t} : task'[u] = Orphans[u]
    BY <1>1, <2>1, <2>2, OrphansSound DEF IsAsked
  <2>6. Tasks'
    BY <1>1, <2>3, <2>5, OrphansSound DEF Tasks
  <2>7. \A u \in Task : Reader(task'[u]) => u = t /\ task'[u].kind = "status"
    BY <1>1, <2>1, <2>4, <2>5, OrphansSound DEF Reader, IsAsked
  <2>8. QED
    BY <1>1, <1>3, <1>4, <2>6, <2>7, PageOpens
<1>7. QED
  BY <1>5, <1>6

\* A step of the window, and what it does to the pages.
LEMMA Follows == ASSUME WizardInv, PagesInv, WizardNext, Follow, Aside PROVE PagesInv'
<1>1. /\ saved' \in Policy /\ zapret' \in BOOLEAN /\ unapplied' \in BOOLEAN /\ Tasks /\ Waits /\ Reads /\ Sweeps
      /\ page = "none" <=> screen # "settings"
      /\ page # "antidpi" => section = Blank
      /\ section \in SectionRecord
  BY TaskKinds DEF Follow, Aside, PagesInv, Pages
<1>2. CASE screen' = screen
  <2>1. /\ UNCHANGED <<page, policy, apply, section>> /\ strayed' \in BOOLEAN
        /\ IF box'.epoch = box.epoch THEN UNCHANGED <<unapplied, strayed>> ELSE unapplied' = FALSE
    BY <1>2 DEF Follow, Aside, PagesInv, Pages
  <2>2. Pages'
    BY <1>1, <1>2, <2>1 DEF PagesInv, Pages
  <2>3. page = "antidpi" => link' = link /\ (box'.epoch = box.epoch \/ ~Live')
    BY <1>1, <1>2, SettingsStay
  <2>4. CASE box'.epoch = box.epoch
    <3>1. task' = task /\ zapret' = zapret
      BY <1>2, <2>4 DEF Follow, Aside, PagesInv, Pages
    <3>2. Tasks' /\ Waits'
      BY <1>1, <2>1, <2>4, <3>1 DEF Tasks, Waits, Fresh
    <3>3. CASE page = "antidpi"
      <4>1. Live' <=> Live
        BY <2>3, <2>4, <3>3 DEF Live
      <4>2. Reads'
        BY <1>1, <2>1, <3>1, <4>1 DEF Reads, Reading, Settled
      <4>3. Sweeps'
        BY <1>1, <2>1, <3>1 DEF Sweeps, RowLost
      <4>4. QED
        BY <2>2, <3>2, <4>2, <4>3 DEF PagesInv
    <3>4. CASE page # "antidpi"
      BY <2>1, <2>2, <3>2, <3>4, SectionGone DEF PagesInv
    <3>5. QED
      BY <3>3, <3>4
  <2>5. CASE box'.epoch # box.epoch
    <3>1. task' = Severed
      BY <1>2, <2>5 DEF Follow
    <3>2. Tasks'
      BY <1>1, <2>1, <3>1, SeveredSound DEF Tasks
    <3>3. Waits'
      BY <2>1, <2>5 DEF Waits, Fresh
    <3>4. CASE page = "antidpi"
      <4>1. ~Live'
        BY <2>3, <2>5, <3>4
      <4>2. \A t \in Task : Reader(task'[t]) =>
              /\ Reader(task[t]) /\ task'[t].kind = task[t].kind
              /\ task'[t] = task[t] \/ task'[t].at = "failed"
        BY <1>1, <3>1, SeveredSound, TaskKinds DEF Reader
      <4>3. \A t, u \in Task : Reader(task[t])' /\ Reader(task[u])' => t = u
        BY <1>1, <4>2 DEF Reads, Reader
      <4>4. \A t \in Task : Reader(task[t])' => Reading(task[t])'
        <5>1. SUFFICES ASSUME NEW t \in Task, Reader(task'[t]) PROVE Reading(task[t])'
          BY DEF Reader
        <5>2. Reading(task[t])
          BY <1>1, <4>2, <5>1 DEF Reads
        <5>3. QED
          BY <2>1, <4>1, <4>2, <5>1, <5>2 DEF Reading, Settled
      <4>5. Reads'
        BY <1>1, <2>1, <4>3, <4>4 DEF Reads
      <4>6. \A t \in Task : Probing(task[t]) => Probing(task'[t])
        BY <1>1, <3>1, SeveredSound DEF Probing
      <4>7. Sweeps'
        BY <1>1, <2>1, <4>6 DEF Sweeps, RowLost
      <4>8. QED
        BY <2>2, <3>2, <3>3, <4>5, <4>7 DEF PagesInv
    <3>5. CASE page # "antidpi"
      BY <2>1, <2>2, <3>2, <3>3, <3>5, SectionGone DEF PagesInv
    <3>6. QED
      BY <3>4, <3>5
  <2>6. QED
    BY <2>4, <2>5
<1>3. CASE screen' # screen
  <2>1. /\ page' = IF screen' = "settings" THEN "overview" ELSE "none"
        /\ policy' = Unread /\ apply' = FALSE /\ strayed' = unapplied'
        /\ task' = IF screen' = "starting" THEN [t \in Task |-> NoTask] ELSE Orphans
    BY <1>3 DEF Follow, NewPage
  <2>2. section' = Blank
    BY <1>1, <1>3, <2>1 DEF Aside
  <2>3. Tasks' /\ \A t \in Task : ~Reader(task'[t])
    BY <1>1, <2>1, OrphansSound, TaskKinds DEF Tasks, Reader, Sound
  <2>4. page' \in Page \cup {"none"} /\ (page' = "none" <=> screen' # "settings")
    BY <2>1 DEF Page
  <2>5. QED
    BY <1>1, <2>1, <2>2, <2>3, <2>4, PageOpens
<1>4. QED
  BY <1>2, <1>3

-----------------------------------------------------------------------------
(* The whole window                                                         *)

IInv == WizardInv /\ RouterInv /\ PagesInv

\* The program starts with any router that nobody has reset, and no page.
LEMMA Initially == Init => IInv
<1>1. SUFFICES ASSUME Init PROVE IInv
  OBVIOUS
<1>2. /\ screen = "starting" /\ mode = "advanced" /\ back = <<>> /\ next = FALSE
      /\ link = Unlinked /\ probe = Unlinked /\ box \in Box /\ (box.config = "absent" => box.app = "none")
      /\ job = [w \in Worker |-> Idle] /\ accepted \in BOOLEAN /\ ops = 0
      /\ page = "none" /\ saved \in Policy /\ policy = Unread /\ apply = FALSE /\ unapplied = FALSE /\ strayed = FALSE
      /\ task = [t \in Task |-> NoTask] /\ zapret \in BOOLEAN /\ section = Blank
  BY <1>1, SettingsAssumption DEF Init, SettingsInit, WizardInit
<1>3. 0 \in 0..MaxEpoch /\ 0 \in 0..MaxOps
  BY WizardAssumption
<1>4. WizardTypeOK
  BY <1>2, <1>3, NoWay DEF WizardTypeOK, Screen, Mode, Idle
<1>5. Ways /\ Linked
  BY <1>2, NoWay, NoLink DEF Ways, Linked, Chain, Staging, Idle
<1>6. RouterInv
  <2>1. ~Live /\ ~Behind /\ probe \notin Link /\ link \notin Link
    BY <1>2, NoLink, NoneBehind DEF Live, Behind, Chain, Staging
  <2>2. QED
    BY <1>2, <2>1 DEF RouterInv, Known, Admitted, Supplied
<1>7. Pages /\ Tasks /\ Waits
  BY <1>2, TaskKinds DEF Pages, Tasks, Sound, Waits, Fresh, Page
<1>8. Reads /\ Sweeps
  BY <1>2, TaskKinds DEF Reads, Sweeps, Reader, Blank
<1>9. QED
  BY <1>4, <1>5, <1>6, <1>7, <1>8 DEF IInv, WizardInv, PagesInv

\* What the user does on a page, and the steps of its tasks: the wizard but counts.
LEMMA WizardWaits ==
  ASSUME WizardInv, RouterInv, UNCHANGED <<window, box, job, accepted>>, Counted \/ UNCHANGED ops
  PROVE  WizardInv' /\ RouterInv'
<1>1. UNCHANGED <<screen, mode, back, next, link, probe, box, job, accepted>>
  BY DEF window
<1>2. ops' \in 0..MaxOps
  BY WizardAssumption DEF Counted, WizardInv, WizardTypeOK
<1>3. WizardInv'
  <2>1. box.epoch <= box'.epoch
    BY <1>1, WizardAssumption DEF WizardInv, WizardTypeOK, Box
  <2>2. QED
    BY <1>1, <1>2, <2>1, StayInv DEF WizardInv, WizardTypeOK
<1>4. RouterInv'
  BY <1>1, <1>3, ChangeRouter DEF RouterInv, Admitted, Behind, Secured
<1>5. QED
  BY <1>3, <1>4

LEMMA Step == IInv /\ [Next]_vars => IInv'
<1>1. SUFFICES ASSUME IInv, [Next]_vars PROVE IInv'
  OBVIOUS
<1>2. WizardInv /\ RouterInv /\ PagesInv
  BY <1>1 DEF IInv
<1>3. CASE WizardNext /\ Follow /\ Aside
  BY <1>2, <1>3, WizardStep, RouterStep, Follows DEF IInv
<1>4. CASE ShowSection /\ Aside
  <2>1. WizardInv' /\ RouterInv'
    BY <1>2, <1>4, WizardWaits DEF ShowSection
  <2>2. QED
    BY <1>2, <1>4, <2>1, Opens DEF IInv
<1>5. ASSUME NEW t \in Task, OnFlag(t) \/ OnGlobal(t) \/ PressApply(t), Aside PROVE IInv'
  <2>1. WizardInv' /\ RouterInv'
    BY <1>2, <1>5, WizardWaits DEF OnFlag, OnGlobal, PressApply, Start
  <2>2. QED
    BY <1>2, <1>5, <2>1, AccessStarts DEF IInv
<1>6. ASSUME NEW t \in Task, TaskStep(t), UNCHANGED wizard, Aside PROVE IInv'
  <2>1. WizardInv' /\ RouterInv'
    BY <1>2, <1>6, WizardWaits DEF wizard
  <2>2. QED
    BY <1>2, <1>6, <2>1, AccessSteps DEF IInv
<1>7. ASSUME NEW t \in Task, DoInstall(t) \/ FullStart(t), UNCHANGED <<page, saved, policy, apply, unapplied, strayed>> PROVE IInv'
  <2>1. WizardInv' /\ RouterInv'
    BY <1>2, <1>7, WizardWaits DEF DoInstall, FullStart, Start
  <2>2. QED
    BY <1>2, <1>7, <2>1, SectionStarts DEF IInv
<1>8. ASSUME NEW t \in Task, PageStep(t), UNCHANGED <<wizard, page, saved, policy, apply, unapplied, strayed>> PROVE IInv'
  <2>1. WizardInv' /\ RouterInv'
    BY <1>2, <1>8, WizardWaits DEF wizard
  <2>2. QED
    BY <1>2, <1>8, <2>1, SectionSteps DEF IInv
<1>9. CASE FullStopClick /\ UNCHANGED <<wizard, page, saved, policy, apply, unapplied, strayed>>
  <2>1. WizardInv' /\ RouterInv'
    BY <1>2, <1>9, WizardWaits DEF wizard
  <2>2. QED
    BY <1>2, <1>9, <2>1, SectionStops DEF IInv
<1>10. CASE UNCHANGED vars
  <2>1. /\ UNCHANGED <<window, box, job, accepted, ops>>
        /\ UNCHANGED <<screen, link, box, page, saved, policy, apply, task, unapplied, strayed, zapret, section>>
    BY <1>10 DEF vars, settings, wizard, access, window
  <2>2. WizardInv' /\ RouterInv'
    BY <1>2, <2>1, WizardWaits
  <2>3. PagesInv'
    <3>1. Live' <=> Live
      BY <2>1 DEF Live
    <3>2. Pages' /\ Tasks' /\ Waits'
      BY <1>2, <2>1 DEF PagesInv, Pages, Tasks, Waits, Fresh
    <3>3. Reads'
      BY <1>2, <2>1, <3>1 DEF PagesInv, Reads, Reading, Settled
    <3>4. Sweeps'
      BY <1>2, <2>1 DEF PagesInv, Sweeps, RowLost
    <3>5. QED
      BY <3>2, <3>3, <3>4 DEF PagesInv
  <2>4. QED
    BY <2>2, <2>3 DEF IInv
<1>11. QED
  BY <1>1, <1>3, <1>4, <1>5, <1>6, <1>7, <1>8, <1>9, <1>10 DEF Next, SettingsNext

LEMMA Invariance == Spec => []IInv
<1>1. QED
  BY Initially, Step, PTL DEF Spec

\* Everything is of its type: the back button leads back along the quick setup, the pages exist in
\* the settings only, and answers come to the pages that show them (app.py, ui/settings_shell.py,
\* ui/access_screen.py, ui/antidpi_screen.py).
THEOREM TypeCorrect == Spec => []TypeOK
<1>1. IInv => TypeOK
  <2>1. SUFFICES ASSUME IInv PROVE TypeOK
    OBVIOUS
  <2>2. WizardTypeOK /\ Pages /\ Tasks
    BY <2>1 DEF IInv, WizardInv, PagesInv
  <2>3. \A t \in Task :
          /\ task[t].at \in {"idle", "sent", "found", "staged", "late", "done", "undone", "failed"}
          /\ task[t].kind \in {"none", "flag", "mode", "restart", "read", "status", "install", "probe"}
          /\ task[t].here => page \in {"access", "antidpi"}
    <3>1. TAKE t \in Task
    <3>2. task[t] \in TaskRecord /\ Sound(task[t], page, policy)
      BY <2>2 DEF Tasks
    <3>3. QED
      BY <3>2 DEF TaskRecord, Sound
  <2>4. SettingsTypeOK
    BY <2>2, <2>3 DEF SettingsTypeOK, Pages
  <2>5. QED
    BY <2>2, <2>4 DEF TypeOK, Pages, SectionRecord
<1>2. QED
  BY <1>1, Invariance, PTL

\* The end of the quick setup is reached only with a main server, and with the new app, a legacy
\* one met at the connection or a configuration without a package: from any screen, over any way
\* back, through any number of installations, resets and restarts (_after_internet,
\* app.py:762-776).
THEOREM FinishIsReady == Spec => []FinishReady
<1>1. IInv => FinishReady
  BY DEF IInv, RouterInv, Supplied, Passed, Served, Provided, FinishReady
<1>2. QED
  BY <1>1, Invariance, PTL

\* Behind the first run a router that did not know the PC's key has a password, in every mode
\* (app.py:681-689).
THEOREM GuardedSafe == Spec => []Guarded
<1>1. IInv => Guarded
  BY DEF IInv, RouterInv, Admitted, Behind, Secured, Chain, Staging, Guarded
<1>2. QED
  BY <1>1, Invariance, PTL

\* A page of access control at rest, whose button is disabled, has no edit that waits for the
\* restart of the service but one that was said to have failed or is older than the page, however
\* many edits and restarts overlapped (access_screen.py:81-94, 185-255).
THEOREM EditsApplied == Spec => []Applied
<1>1. IInv => Applied
  BY DEF IInv, PagesInv, Waits, Fresh, Pending, Applied
<1>2. QED
  BY <1>1, Invariance, PTL

\* A sweep that shows as running has its test on the way, for any number of strategies, unless its
\* row is lost (antidpi_screen.py:564-634).
THEOREM SweepLives == Spec => []SweepAlive
<1>1. IInv => SweepAlive
  BY DEF IInv, PagesInv, Sweeps, Probing, SweepAlive
<1>2. QED
  BY <1>1, Invariance, PTL
=============================================================================
