---------------------------- MODULE NetworkProofs ---------------------------
(***************************************************************************)
(* Proofs about Network, for any radios, devices, addresses and jobs: the  *)
(* types, the conflict that stays solved, the uplink that is whole, and    *)
(* the reservations that stay where nobody touched them.                   *)
(***************************************************************************)
EXTENDS Network, SequenceTheorems, FiniteSetTheorems, TLAPS

-----------------------------------------------------------------------------
(* Sequences of reservations.                                              *)

\* Deleting a position moves the ones above it down.
LEMMA WithoutOne ==
  ASSUME NEW S, NEW s \in Seq(S), NEW i \in 1..Len(s)
  PROVE /\ Without(s, i) \in Seq(S)
        /\ Len(Without(s, i)) = Len(s) - 1
        /\ \A k \in 1..(Len(s) - 1) : Without(s, i)[k] = IF k < i THEN s[k] ELSE s[k + 1]
<1> DEFINE a == SubSeq(s, 1, i - 1)
           b == SubSeq(s, i + 1, Len(s))
<1>1. i \in Int /\ Len(s) \in Nat /\ i >= 1 /\ i <= Len(s) /\ \A k \in 1..Len(s) : s[k] \in S
  BY LenProperties, ElementOfSeq
<1>2. /\ a \in Seq(S) /\ Len(a) = i - 1
      /\ \A k \in 1..(i - 1) : a[k] = s[k]
  BY <1>1, SubSeqProperties
<1>3. /\ b \in Seq(S) /\ Len(b) = Len(s) - i
      /\ \A k \in 1..(Len(s) - i) : b[k] = s[i + k]
  BY <1>1, SubSeqProperties
<1> HIDE DEF a, b
<1>4. /\ a \o b \in Seq(S) /\ Len(a \o b) = Len(a) + Len(b)
      /\ \A k \in 1..(Len(a) + Len(b)) : (a \o b)[k] = IF k <= Len(a) THEN a[k] ELSE b[k - Len(a)]
  BY <1>2, <1>3, ConcatProperties
<1>5. Without(s, i) = a \o b
  BY DEF a, b, Without, RemoveAt
<1>6. ASSUME NEW k \in 1..(Len(s) - 1)
      PROVE Without(s, i)[k] = IF k < i THEN s[k] ELSE s[k + 1]
  <2>1. Without(s, i)[k] = IF k <= i - 1 THEN a[k] ELSE b[k - (i - 1)]
    BY <1>1, <1>2, <1>3, <1>4, <1>5
  <2>2. CASE k < i
    BY <1>1, <1>2, <2>1, <2>2
  <2>3. CASE k >= i
    <3>1. k - (i - 1) \in 1..(Len(s) - i) /\ i + (k - (i - 1)) = k + 1
      BY <1>1, <2>3
    <3>2. Without(s, i)[k] = b[k - (i - 1)]
      BY <1>1, <2>1, <2>3
    <3>3. b[k - (i - 1)] = s[i + (k - (i - 1))]
      BY <1>3, <3>1
    <3>4. QED
      BY <1>1, <2>3, <3>1, <3>2, <3>3
  <2>4. QED
    BY <1>1, <2>2, <2>3
<1>7. QED
  BY <1>1, <1>2, <1>3, <1>4, <1>5, <1>6

-----------------------------------------------------------------------------
(* Types, with what a job and a screen need to keep theirs.                *)

NetworkOf == [proto : Proto, opts : SUBSET WanOption, wwan : BOOLEAN,
              ip : Address, mask : Mask, form : {"split", "cidr"}]
DhcpOf == [hosts : Seq(Mac), start : Nat, limit : Nat]
JobType == [at : At, home : BOOLEAN, proto : Proto, ssid : Ssid \cup {"air", None},
            radio : Radio \cup {None}, section : Section \cup {None},
            wan : Leases \cup {None}, ip : Address \cup {None}, mac : Mac \cup {None}, form : Form \cup {None},
            list : SUBSET Nat, left : SUBSET Nat, todo : SUBSET Radio]
PageType == [name : Page, offer : {"none", "next", "choices"}, conflict : Leases \cup {None},
             nets : SUBSET Air, hosts : Seq(Mac), busy : SUBSET Radio,
             lan : Form \cup {None}, confirm : {"no", "armed", "sent"}]

\* What is staged for the firewall is only added to what is saved; the uplink's section is no
\* access point.
NoApUplink == {c \in Config : c.wireless["sta"].mode # "ap"}
ConfigOK ==
  /\ conf \in NoApUplink /\ saved \in NoApUplink /\ backup \in NoApUplink \cup {None}
  /\ saved.firewall <= conf.firewall
RouterOK ==
  /\ release \in {"split", "cidr", "snapshot"}
  /\ lease \in Leases \cup {None}
  /\ due \subseteq {"reload", "reboot", "reset"}
  /\ address \in Address
  /\ linked \in BOOLEAN
HistoryOK ==
  /\ fixedFor \in Leases \cup {None}
  /\ torn \in BOOLEAN /\ unzoned \in BOOLEAN /\ raced \in BOOLEAN
  /\ begun \in 0..MaxJobs

\* The cards of the advanced screen are drawn with what was read.
PageOK ==
  /\ page \in PageType
  /\ page.name = "advanced" /\ page.offer = "choices" => page.lan \in Form

\* A job has what its step needs.
HasArgs(j, b) ==
  /\ j.at = "move" => j.ip \in Address /\ j.wan \in Leases /\ ValidNewLan(j.ip, j.wan)
  /\ j.at \in {"pin", "unpin", "drop", "unset"} => j.mac \in Mac
  /\ j.at \in {"pin", "unpin"} => j.list = {}
  /\ j.at = "lan" => j.form \in Form
  /\ j.at \in {"upload", "extract"} => b \in NoApUplink
  /\ j.section # "sta"

\* A job whose screen is still shown finds that screen, or the one for connecting.
ScreenOf(at) ==
  IF at \in {"conflict", "ping", "scan", "stageWan", "commitWan", "wait", "iface", "wwan", "zone",
             "commitSta", "move", "moved"} THEN "internet"
  ELSE IF at \in {"look", "stageAp", "commitAp", "poll"} THEN "ap" ELSE "advanced"
AtHome(j, name) == j.home => name \in {ScreenOf(j.at), "connect"}

JobOK ==
  /\ job \in [Worker -> JobType]
  /\ \A w \in Worker : HasArgs(job[w], backup) /\ AtHome(job[w], page.name)

TypeInv == ConfigOK /\ RouterOK /\ HistoryOK /\ PageOK /\ JobOK

LEMMA NothingOK ==
  /\ Nothing \in JobType /\ \A b : HasArgs(Nothing, b) /\ \A name : AtHome(Nothing, name)
  /\ Nothing.at = "idle" /\ Nothing.home = FALSE /\ Nothing.list = {}
<1>1. Nothing \in JobType
  BY DEF Nothing, JobType, At, Proto
<1>2. None # "sta"
  BY NetworkAssumption DEF NetworkAssumption
<1>3. QED
  BY <1>1, <1>2 DEF Nothing, HasArgs, AtHome

LEMMA BlankOK ==
  ASSUME NEW name \in Page
  PROVE /\ Blank(name) \in PageType /\ Blank(name).name = name /\ Blank(name).offer = "none"
        /\ Blank(name).conflict = None
  BY DEF Blank, PageType

\* One job changes; the screen stays or goes away, and nobody takes the archive away.
LEMMA OneJob ==
  ASSUME JobOK, NEW w \in Worker, NEW j \in JobType, HasArgs(j, backup'), AtHome(j, page'.name),
         job' = [job EXCEPT ![w] = j],
         page'.name \in {page.name, "connect"}, backup \in NoApUplink => backup' \in NoApUplink
  PROVE JobOK'
<1>1. job' \in [Worker -> JobType]
  BY DEF JobOK
<1>2. ASSUME NEW u \in Worker PROVE HasArgs(job'[u], backup') /\ AtHome(job'[u], page'.name)
  <2>1. CASE u = w
    BY <2>1 DEF JobOK
  <2>2. CASE u # w
    <3>1. job'[u] = job[u] /\ HasArgs(job[u], backup) /\ AtHome(job[u], page.name)
      BY <2>2 DEF JobOK
    <3>2. QED
      BY <3>1 DEF HasArgs, AtHome
  <2>3. QED
    BY <2>1, <2>2
<1>3. QED
  BY <1>1, <1>2 DEF JobOK

\* No job changes.
LEMMA NoJob ==
  ASSUME JobOK, UNCHANGED job,
         page'.name \in {page.name, "connect"}, backup \in NoApUplink => backup' \in NoApUplink
  PROVE JobOK'
  BY DEF JobOK, HasArgs, AtHome

-----------------------------------------------------------------------------
(* Changes of the configuration.                                           *)

\* Two configurations that differ in one package only.
Same(c, d, pkgs) ==
  /\ "wireless" \in pkgs => c.wireless = d.wireless
  /\ "network" \in pkgs => c.network = d.network
  /\ "firewall" \in pkgs => c.firewall = d.firewall
  /\ "dhcp" \in pkgs => c.dhcp = d.dhcp

LEMMA ConfigParts ==
  ASSUME NEW c \in Config
  PROVE /\ c.wireless \in [Section -> Iface] /\ c.network \in NetworkOf /\ c.firewall \in Nat /\ c.dhcp \in DhcpOf
        /\ DOMAIN c = Package
  BY DEF Config, NetworkOf, DhcpOf, Package

LEMMA StageOK ==
  ASSUME ConfigOK, NEW c \in NoApUplink, conf.firewall <= c.firewall, Stage(c), UNCHANGED backup
  PROVE ConfigOK'
  BY ConfigParts DEF ConfigOK, Stage, NoApUplink

LEMMA CommitOK ==
  ASSUME ConfigOK, NEW c \in NoApUplink, saved.firewall <= c.firewall, NEW pkgs, Commit(c, pkgs), UNCHANGED backup
  PROVE /\ ConfigOK' /\ conf' = c
        /\ Same(saved', c, pkgs) /\ Same(saved', saved, Package \ pkgs)
<1>1. conf' = c /\ saved' = [p \in Package |-> IF p \in pkgs THEN c[p] ELSE saved[p]]
  BY DEF Commit
<1>2. c \in Config /\ saved \in Config
  BY DEF ConfigOK, NoApUplink
<1>3. saved' \in Config
  BY <1>1, <1>2 DEF Config, Package
<1>4. Same(saved', c, pkgs) /\ Same(saved', saved, Package \ pkgs)
  BY <1>1, <1>2 DEF Same, Package, Config
<1>5. saved'.wireless \in {c.wireless, saved.wireless} /\ saved'.firewall \in {c.firewall, saved.firewall}
  BY <1>1, <1>2 DEF Package, Config
<1>6. saved' \in NoApUplink /\ saved'.firewall <= conf'.firewall
  BY <1>1, <1>2, <1>3, <1>5, ConfigParts DEF ConfigOK, NoApUplink
<1>7. QED
  BY <1>1, <1>4, <1>6 DEF ConfigOK

LEMMA NetworkChange ==
  ASSUME NEW c \in NoApUplink, NEW n \in NetworkOf
  PROVE LET d == [c EXCEPT !.network = n] IN
          d \in NoApUplink /\ d.network = n /\ Same(d, c, {"wireless", "firewall", "dhcp"})
  BY DEF NoApUplink, Config, NetworkOf, Same

LEMMA DhcpChange ==
  ASSUME NEW c \in NoApUplink, NEW n \in DhcpOf
  PROVE LET d == [c EXCEPT !.dhcp = n] IN
          d \in NoApUplink /\ d.dhcp = n /\ Same(d, c, {"wireless", "firewall", "network"})
  BY DEF NoApUplink, Config, DhcpOf, Same

LEMMA WirelessChange ==
  ASSUME NEW c \in NoApUplink, NEW s, NEW i \in Iface, s = "sta" => i.mode # "ap"
  PROVE LET d == [c EXCEPT !.wireless[s] = i] IN
          /\ d \in NoApUplink /\ Same(d, c, {"network", "firewall", "dhcp"})
          /\ s # "sta" => d.wireless["sta"] = c.wireless["sta"]
  BY DEF NoApUplink, Config, Same, Section

LEMMA FirewallChange ==
  ASSUME NEW c \in NoApUplink, NEW n \in Nat
  PROVE LET d == [c EXCEPT !.firewall = n] IN
          d \in NoApUplink /\ d.firewall = n /\ Same(d, c, {"wireless", "network", "dhcp"})
  BY DEF NoApUplink, Config, Same

LEMMA FreshOK ==
  ASSUME NEW own \in {OwnerAp, Absent}, NEW rel \in {"split", "cidr", "snapshot"}
  PROVE LET f == Fresh(FormOf(rel), own) IN
          /\ f \in NoApUplink /\ f.wireless["sta"] = Absent /\ f.firewall = 0
          /\ f.dhcp.hosts = <<>> /\ f.network.ip \in Address
<1>1. Candidates[1] \in Address
  BY NetworkAssumption DEF NetworkAssumption
<1>2. own \in Iface /\ Absent \in Iface
  BY NetworkAssumption DEF NetworkAssumption, OwnerAp, Absent, Iface
<1> DEFINE wl == [s \in Section |-> IF s = "sta" THEN Absent ELSE IF s = "own" THEN own
                                   ELSE [device |-> s, mode |-> "ap", ssid |-> "stock"]]
<1>3. wl \in [Section -> Iface]
  BY <1>2 DEF Section, Iface
<1>4. wl["sta"] = Absent
  BY DEF Section
<1>5. [hosts |-> <<>>, start |-> 2, limit |-> 3] \in DhcpOf
  BY DEF DhcpOf
<1>6. FormOf(rel) \in {"split", "cidr"}
  BY DEF FormOf
<1>7. [proto |-> "dhcp", opts |-> {}, wwan |-> FALSE, ip |-> Candidates[1], mask |-> 24, form |-> FormOf(rel)] \in NetworkOf
  BY <1>1, <1>6 DEF NetworkOf, Proto, Mask
<1> HIDE DEF wl
<1>8. Fresh(FormOf(rel), own) = [wireless |-> wl,
        network |-> [proto |-> "dhcp", opts |-> {}, wwan |-> FALSE, ip |-> Candidates[1], mask |-> 24, form |-> FormOf(rel)],
        firewall |-> 0, dhcp |-> [hosts |-> <<>>, start |-> 2, limit |-> 3]]
  BY DEF Fresh, wl
<1>9. QED
  BY <1>1, <1>3, <1>4, <1>5, <1>7, <1>8 DEF NoApUplink, Config, DhcpOf, NetworkOf, Absent

-----------------------------------------------------------------------------
(* Jobs that go on, end and begin.                                         *)

LEMMA GoToOK ==
  ASSUME JobOK, NEW w \in Worker, NEW at \in At, GoTo(w, at),
         ScreenOf(at) = ScreenOf(job[w].at),
         at \notin {"move", "pin", "unpin", "drop", "unset", "lan", "upload"},
         at = "extract" => job[w].at = "upload",
         page'.name = page.name, UNCHANGED backup
  PROVE /\ JobOK' /\ job'[w].at = at /\ job'[w].list = job[w].list /\ job'[w].mac = job[w].mac
        /\ \A u \in Worker \ {w} : job'[u] = job[u]
<1> DEFINE j == [job[w] EXCEPT !.at = at]
<1>1. job[w] \in JobType /\ HasArgs(job[w], backup) /\ AtHome(job[w], page.name)
  BY DEF JobOK
<1>2. /\ j \in JobType /\ j.at = at /\ j.home = job[w].home /\ j.section = job[w].section
      /\ j.list = job[w].list /\ j.mac = job[w].mac
  BY <1>1 DEF JobType
<1>3. job' = [job EXCEPT ![w] = j]
  BY DEF GoTo
<1> HIDE DEF j
<1>4. HasArgs(j, backup')
  BY <1>1, <1>2 DEF HasArgs
<1>5. AtHome(j, page'.name)
  BY <1>1, <1>2 DEF AtHome
<1>6. job'[w] = j /\ \A u \in Worker \ {w} : job'[u] = job[u]
  BY <1>3 DEF JobOK
<1>7. QED
  BY <1>2, <1>3, <1>4, <1>5, <1>6, OneJob

LEMMA EndOK ==
  ASSUME JobOK, NEW w \in Worker, End(w),
         page'.name \in {page.name, "connect"}, backup \in NoApUplink => backup' \in NoApUplink
  PROVE /\ JobOK' /\ job'[w] = Nothing
        /\ \A u \in Worker \ {w} : job'[u] = job[u]
<1>1. job' = [job EXCEPT ![w] = Nothing]
  BY DEF End
<1>2. JobOK'
  BY <1>1, NothingOK, OneJob
<1>3. QED
  BY <1>1, <1>2 DEF JobOK

\* A job begins on a free thread.
LEMMA BeginOK ==
  ASSUME JobOK, HistoryOK, NEW j \in JobType, HasArgs(j, backup), page.name = ScreenOf(j.at), Begin(j),
         page'.name = page.name, UNCHANGED backup
  PROVE /\ JobOK' /\ begun' \in 0..MaxJobs
        /\ \E w \in Worker : /\ job[w] = Nothing /\ job'[w].at = j.at /\ job'[w].list = j.list
                             /\ \A u \in Worker \ {w} : job'[u] = job[u]
<1>1. PICK w \in Worker : job[w] = Nothing /\ job' = [job EXCEPT ![w] = [j EXCEPT !.home = TRUE]]
  BY DEF Begin
<1> DEFINE k == [j EXCEPT !.home = TRUE]
<1>2. /\ k \in JobType /\ k.at = j.at /\ k.list = j.list
      /\ k.section = j.section /\ k.ip = j.ip /\ k.wan = j.wan /\ k.mac = j.mac /\ k.form = j.form
  BY DEF JobType
<1>3. job' = [job EXCEPT ![w] = k]
  BY <1>1
<1> HIDE DEF k
<1>4. HasArgs(k, backup') /\ AtHome(k, page'.name)
  BY <1>2 DEF HasArgs, AtHome
<1>5. JobOK'
  BY <1>2, <1>3, <1>4, OneJob
<1>6. begun' \in 0..MaxJobs
  BY NetworkAssumption DEF Begin, HistoryOK, NetworkAssumption
<1>7. QED
  BY <1>1, <1>2, <1>3, <1>5, <1>6 DEF JobOK

LEMMA ShownOK ==
  ASSUME NEW j \in JobType, NEW b, HasArgs(j, b), NEW h \in BOOLEAN
  PROVE LET k == [j EXCEPT !.home = h] IN
          k \in JobType /\ HasArgs(k, b) /\ k.at = j.at /\ k.home = h /\ k.list = j.list
<1> DEFINE k == [j EXCEPT !.home = h]
<1>1. /\ k \in JobType /\ k.at = j.at /\ k.list = j.list /\ k.home = h
      /\ k.section = j.section /\ k.ip = j.ip /\ k.wan = j.wan /\ k.mac = j.mac /\ k.form = j.form
  BY DEF JobType
<1> HIDE DEF k
<1>2. HasArgs(k, b)
  BY <1>1 DEF HasArgs
<1>3. QED
  BY <1>1, <1>2 DEF k

LEMMA StartOK ==
  ASSUME NEW at \in At
  PROVE /\ Start(at) \in JobType /\ Start(at).at = at /\ Start(at).list = {} /\ Start(at).section # "sta"
        /\ \A b : at \notin {"move", "pin", "unpin", "drop", "unset", "lan", "upload", "extract"} => HasArgs(Start(at), b)
  BY NothingOK DEF Start, JobType, HasArgs, Nothing

-----------------------------------------------------------------------------
(* Every step keeps the types.                                             *)

LEMMA OpenTyped == ASSUME TypeInv, NEW name \in {"internet", "ap", "advanced"}, Open(name) PROVE TypeInv'
<1> DEFINE away == [w \in Worker |-> IF job[w] = Nothing THEN Nothing ELSE [job[w] EXCEPT !.home = FALSE]]
           at == IF name = "internet" THEN "conflict" ELSE "read"
<1>1. ASSUME NEW w \in Worker
      PROVE away[w] \in JobType /\ HasArgs(away[w], backup) /\ ~away[w].home
  BY NothingOK DEF TypeInv, JobOK, JobType, HasArgs
<1>2. page' \in PageType /\ page'.name = name /\ page'.offer = "none"
  BY BlankOK DEF Open, Page
<1>3. UNCHANGED <<router, backup, history>>
  BY DEF Open
<1> HIDE DEF away
<1>4. CASE name = "ap"
  <2>1. job' = away /\ begun' = begun
    BY <1>4 DEF Open, away
  <2>2. DOMAIN away = Worker
    BY DEF away
  <2>3. JobOK'
    BY <1>1, <1>3, <2>1, <2>2 DEF JobOK, AtHome, away
  <2>4. QED
    BY <1>2, <1>3, <2>1, <2>3 DEF TypeInv, ConfigOK, RouterOK, HistoryOK, PageOK, router, config, history
<1>5. CASE name # "ap"
  <2>1. PICK w \in Worker : job' = [away EXCEPT ![w] = [Start(at) EXCEPT !.home = TRUE]]
    BY <1>5 DEF Open, away
  <2>2. begun' = begun + 1 /\ begun < MaxJobs
    BY <1>5 DEF Open
  <2> DEFINE k == [Start(at) EXCEPT !.home = TRUE]
  <2>3. at \in At /\ at \in {"conflict", "read"} /\ ScreenOf(at) = name
    BY <1>5 DEF At, ScreenOf
  <2> HIDE DEF at
  <2>4. k \in JobType /\ HasArgs(k, backup) /\ k.at = at
    <3>1. /\ Start(at) \in JobType /\ Start(at).at = at /\ HasArgs(Start(at), backup)
      BY <2>3, StartOK
    <3>2. QED
      BY <3>1, ShownOK DEF k
  <2> HIDE DEF k
  <2>5. \A u \in Worker : job'[u] \in {k, away[u]}
    BY <2>1 DEF away, k
  <2>6. job' \in [Worker -> JobType]
    BY <1>1, <2>1, <2>4 DEF away, k
  <2>7. JobOK'
    BY <1>1, <1>2, <1>3, <2>3, <2>4, <2>5, <2>6 DEF JobOK, AtHome
  <2>8. begun' \in 0..MaxJobs
    BY <2>2, NetworkAssumption DEF TypeInv, HistoryOK, NetworkAssumption
  <2>9. QED
    BY <1>2, <1>3, <2>7, <2>8 DEF TypeInv, ConfigOK, RouterOK, HistoryOK, PageOK, router, config, history
<1>6. QED
  BY <1>4, <1>5

LEMMA FailTyped == ASSUME TypeInv, NEW w \in Worker, Fail(w) PROVE TypeInv'
<1>1. page' \in PageType /\ page'.name = page.name /\ PageOK'
  BY DEF Fail, TypeInv, PageOK, PageType
<1>2. JobOK'
  BY <1>1, EndOK DEF Fail, TypeInv
<1>3. QED
  BY <1>1, <1>2 DEF Fail, TypeInv, ConfigOK, RouterOK, HistoryOK, router, config

LEMMA ReconnectTyped == ASSUME TypeInv, Reconnect PROVE TypeInv'
<1>1. page' \in PageType /\ page'.name = "connect"
  BY BlankOK DEF Reconnect, Page
<1>2. JobOK'
  BY <1>1, NoJob DEF Reconnect, TypeInv
<1>3. QED
  BY <1>1, <1>2 DEF Reconnect, TypeInv, ConfigOK, RouterOK, HistoryOK, PageOK, config, history

\* The user starts a job on the screen that is shown.
LEMMA BeginTyped ==
  ASSUME TypeInv, NEW j \in JobType, HasArgs(j, backup), page.name = ScreenOf(j.at), Begin(j),
         PageOK', page'.name = page.name, UNCHANGED <<router, backup, history>>
  PROVE TypeInv'
<1>1. JobOK' /\ begun' \in 0..MaxJobs
  BY BeginOK DEF TypeInv
<1>2. QED
  BY <1>1 DEF TypeInv, ConfigOK, RouterOK, HistoryOK, router, config, history

LEMMA SamePage == ASSUME PageOK, UNCHANGED page PROVE PageOK' /\ page'.name = page.name
  BY DEF PageOK

LEMMA RefreshTyped == ASSUME TypeInv, Refresh PROVE TypeInv'
<1>1. PageOK' /\ page'.name = page.name
  BY DEF Refresh, TypeInv, PageOK, PageType
<1>2. "conflict" \in At /\ ScreenOf("conflict") = "internet"
  BY DEF At, ScreenOf
<1>3. QED
  BY <1>1, <1>2, StartOK, BeginTyped DEF Refresh

LEMMA ScanTyped == ASSUME TypeInv, Scan PROVE TypeInv'
<1>1. "scan" \in At /\ ScreenOf("scan") = "internet"
  BY DEF At, ScreenOf
<1>2. QED
  BY <1>1, SamePage, StartOK, BeginTyped DEF Scan, TypeInv

LEMMA DoWanTyped == ASSUME TypeInv, DoWan PROVE TypeInv'
<1>1. PICK proto \in Proto : Begin([Start("stageWan") EXCEPT !.proto = proto])
  BY DEF DoWan
<1> DEFINE j == [Start("stageWan") EXCEPT !.proto = proto]
<1>2. "stageWan" \in At /\ ScreenOf("stageWan") = "internet"
  BY DEF At, ScreenOf
<1>3. Start("stageWan") \in JobType /\ Start("stageWan").at = "stageWan" /\ Start("stageWan").section # "sta"
  BY <1>2, StartOK
<1>4. j \in JobType /\ j.at = "stageWan" /\ j.section # "sta"
  BY <1>3 DEF JobType
<1>5. Begin(j)
  BY <1>1
<1> HIDE DEF j
<1>6. HasArgs(j, backup)
  BY <1>4 DEF HasArgs
<1>7. QED
  BY <1>2, <1>4, <1>5, <1>6, SamePage, BeginTyped DEF DoWan, TypeInv

LEMMA DoWifiTyped == ASSUME TypeInv, DoWifi PROVE TypeInv'
<1>1. PICK c \in page.nets : \E r \in RadioFor(c.band) : Begin([Start("iface") EXCEPT !.ssid = "air", !.radio = r])
  BY DEF DoWifi
<1>2. PICK r \in Radio : Begin([Start("iface") EXCEPT !.ssid = "air", !.radio = r])
  BY <1>1 DEF RadioFor
<1> DEFINE j == [Start("iface") EXCEPT !.ssid = "air", !.radio = r]
<1>3. "iface" \in At /\ ScreenOf("iface") = "internet"
  BY DEF At, ScreenOf
<1>4. Start("iface") \in JobType /\ Start("iface").at = "iface" /\ Start("iface").section # "sta"
  BY <1>3, StartOK
<1>5. j \in JobType /\ j.at = "iface" /\ j.section # "sta"
  BY <1>4 DEF JobType
<1>6. Begin(j)
  BY <1>2
<1> HIDE DEF j
<1>7. HasArgs(j, backup)
  BY <1>5 DEF HasArgs
<1>8. QED
  BY <1>3, <1>5, <1>6, <1>7, SamePage, BeginTyped DEF DoWifi, TypeInv

LEMMA FixConflictTyped == ASSUME TypeInv, FixConflict PROVE TypeInv'
<1>1. PICK ip \in Address : /\ ValidNewLan(ip, page.conflict)
                            /\ Begin([Start("move") EXCEPT !.ip = ip, !.wan = page.conflict])
  BY DEF FixConflict
<1> DEFINE j == [Start("move") EXCEPT !.ip = ip, !.wan = page.conflict]
<1>2. page.conflict \in Leases
  BY DEF FixConflict, TypeInv, PageOK, PageType
<1>3. "move" \in At /\ ScreenOf("move") = "internet"
  BY DEF At, ScreenOf
<1>4. Start("move") \in JobType /\ Start("move").at = "move" /\ Start("move").section # "sta"
  BY <1>3, StartOK
<1>5. j \in JobType /\ j.at = "move" /\ j.section # "sta" /\ j.ip = ip /\ j.wan = page.conflict
  BY <1>2, <1>4 DEF JobType
<1>6. Begin(j)
  BY <1>1
<1> HIDE DEF j
<1>7. HasArgs(j, backup)
  BY <1>1, <1>2, <1>5 DEF HasArgs
<1>8. PageOK' /\ page'.name = page.name
  BY DEF FixConflict, TypeInv, PageOK, PageType
<1>9. QED
  BY <1>3, <1>5, <1>6, <1>7, <1>8, BeginTyped DEF FixConflict

LEMMA DoCreateTyped == ASSUME TypeInv, DoCreate PROVE TypeInv'
<1>1. PICK name \in Ssid : Begin([Start("look") EXCEPT !.ssid = name])
  BY DEF DoCreate
<1> DEFINE j == [Start("look") EXCEPT !.ssid = name]
<1>2. "look" \in At /\ ScreenOf("look") = "ap"
  BY DEF At, ScreenOf
<1>3. Start("look") \in JobType /\ Start("look").at = "look" /\ Start("look").section # "sta"
  BY <1>2, StartOK
<1>4. j \in JobType /\ j.at = "look" /\ j.section # "sta"
  BY <1>3 DEF JobType
<1>5. Begin(j)
  BY <1>1
<1> HIDE DEF j
<1>6. HasArgs(j, backup)
  BY <1>4 DEF HasArgs
<1>7. QED
  BY <1>2, <1>4, <1>5, <1>6, SamePage, BeginTyped DEF DoCreate, TypeInv

LEMMA ApplyRadioTyped == ASSUME TypeInv, ApplyRadio PROVE TypeInv'
<1>1. PICK r \in Radio, name \in Ssid : Begin([Start("find") EXCEPT !.radio = r, !.ssid = name])
  BY DEF ApplyRadio
<1> DEFINE j == [Start("find") EXCEPT !.radio = r, !.ssid = name]
<1>2. "find" \in At /\ ScreenOf("find") = "advanced"
  BY DEF At, ScreenOf
<1>3. Start("find") \in JobType /\ Start("find").at = "find" /\ Start("find").section # "sta"
  BY <1>2, StartOK
<1>4. j \in JobType /\ j.at = "find" /\ j.section # "sta"
  BY <1>3 DEF JobType
<1>5. Begin(j)
  BY <1>1
<1> HIDE DEF j
<1>6. HasArgs(j, backup)
  BY <1>4 DEF HasArgs
<1>7. QED
  BY <1>2, <1>4, <1>5, <1>6, SamePage, BeginTyped DEF ApplyRadio, Cards, TypeInv

LEMMA EditTyped == ASSUME TypeInv, Edit \/ Arm PROVE TypeInv'
<1>1. page'.name = page.name /\ PageOK'
  BY NetworkAssumption DEF NetworkAssumption, Edit, Arm, TypeInv, PageOK, PageType
<1>2. JobOK'
  BY <1>1, NoJob DEF Edit, Arm, TypeInv
<1>3. QED
  BY <1>1, <1>2 DEF Edit, Arm, TypeInv, ConfigOK, RouterOK, HistoryOK, router, config, history

LEMMA DoLanApplyTyped == ASSUME TypeInv, DoLanApply PROVE TypeInv'
<1> DEFINE j == [Start("lan") EXCEPT !.form = page.lan]
<1>1. page.lan \in Form /\ page.name = "advanced"
  BY DEF DoLanApply, Cards, TypeInv, PageOK
<1>2. "lan" \in At /\ ScreenOf("lan") = "advanced"
  BY DEF At, ScreenOf
<1>3. Start("lan") \in JobType /\ Start("lan").at = "lan" /\ Start("lan").section # "sta"
  BY <1>2, StartOK
<1>4. j \in JobType /\ j.at = "lan" /\ j.section # "sta" /\ j.form = page.lan
  BY <1>1, <1>3 DEF JobType
<1>5. Begin(j)
  BY DEF DoLanApply
<1> HIDE DEF j
<1>6. HasArgs(j, backup)
  BY <1>1, <1>4 DEF HasArgs
<1>7. PageOK' /\ page'.name = page.name
  BY DEF DoLanApply, TypeInv, PageOK, PageType
<1>8. QED
  BY <1>1, <1>2, <1>4, <1>5, <1>6, <1>7, BeginTyped DEF DoLanApply

\* A reservation is added or deleted for a device.
LEMMA MacTyped ==
  ASSUME TypeInv, NEW at \in {"pin", "unpin"}, NEW m \in Mac, Begin([Start(at) EXCEPT !.mac = m]),
         page.name = "advanced", UNCHANGED <<router, backup, page, history>>
  PROVE TypeInv'
<1> DEFINE j == [Start(at) EXCEPT !.mac = m]
<1>1. at \in At /\ ScreenOf(at) = "advanced"
  BY DEF At, ScreenOf
<1>2. Start(at) \in JobType /\ Start(at).at = at /\ Start(at).section # "sta" /\ Start(at).list = {}
  BY <1>1, StartOK
<1>3. j \in JobType /\ j.at = at /\ j.section # "sta" /\ j.mac = m /\ j.list = {}
  BY <1>2 DEF JobType
<1>4. Begin(j)
  OBVIOUS
<1> HIDE DEF j
<1>5. HasArgs(j, backup)
  BY <1>3 DEF HasArgs
<1>6. QED
  BY <1>1, <1>3, <1>4, <1>5, SamePage, BeginTyped DEF TypeInv

LEMMA PinDeviceTyped == ASSUME TypeInv, PinDevice PROVE TypeInv'
  BY MacTyped DEF PinDevice, Cards

LEMMA UnpinDeviceTyped == ASSUME TypeInv, UnpinDevice PROVE TypeInv'
<1>1. ToSet(page.hosts) \subseteq Mac
  BY DEF ToSet, TypeInv, PageOK, PageType
<1>2. QED
  BY <1>1, MacTyped DEF UnpinDevice, Cards

LEMMA MaintainTyped == ASSUME TypeInv, NEW at \in {"backup", "upload", "reset"}, Maintain(at) PROVE TypeInv'
<1>1. at \in At /\ ScreenOf(at) = "advanced"
  BY DEF At, ScreenOf
<1>2. HasArgs(Start(at), backup) /\ Start(at) \in JobType /\ Start(at).at = at
  BY <1>1, StartOK DEF Maintain, HasArgs, TypeInv, ConfigOK
<1>3. QED
  BY <1>1, <1>2, SamePage, BeginTyped DEF Maintain, Cards, TypeInv

-----------------------------------------------------------------------------
(* The router's own steps, and those of the jobs on the internet screen.   *)

LEMMA OutsideTyped == ASSUME TypeInv, Outside PROVE TypeInv'
<1>1. UNCHANGED <<page, job, backup, begun>>
  BY DEF Outside, Renew, Reload, Reboot, FirstBoot, history
<1>2. PageOK' /\ JobOK'
  BY <1>1, SamePage, NoJob DEF TypeInv
<1>3. saved.network.ip \in Address
  BY ConfigParts DEF TypeInv, ConfigOK, NoApUplink, NetworkOf
<1>4. CASE Renew
  BY <1>2, <1>4 DEF Renew, TypeInv, ConfigOK, RouterOK, HistoryOK, config, history
<1>5. CASE Reload
  BY <1>2, <1>3, <1>5 DEF Reload, TypeInv, ConfigOK, RouterOK, HistoryOK, config, history
<1>6. CASE Reboot
  <2>1. saved \in NoApUplink /\ saved.firewall \in Nat
    BY ConfigParts DEF TypeInv, ConfigOK, NoApUplink
  <2>2. ConfigOK'
    BY <1>6, <2>1 DEF Reboot, TypeInv, ConfigOK
  <2>3. RouterOK' /\ HistoryOK'
    BY <1>3, <1>6 DEF Reboot, TypeInv, RouterOK, HistoryOK, history
  <2>4. QED
    BY <1>2, <2>2, <2>3 DEF TypeInv
<1>7. CASE FirstBoot
  <2>1. /\ saved' \in NoApUplink /\ saved'.firewall = 0 /\ saved'.network.ip \in Address
        /\ conf' = saved'
    BY <1>7, FreshOK DEF FirstBoot, TypeInv, RouterOK
  <2>2. ConfigOK'
    BY <1>1, <2>1 DEF TypeInv, ConfigOK
  <2>3. RouterOK' /\ HistoryOK'
    BY <1>7, <2>1 DEF FirstBoot, TypeInv, RouterOK, HistoryOK
  <2>4. QED
    BY <1>2, <2>2, <2>3 DEF TypeInv
<1>8. QED
  BY <1>4, <1>5, <1>6, <1>7 DEF Outside

LEMMA JobTyped ==
  ASSUME TypeInv, NEW w \in Worker
  PROVE job[w] \in JobType /\ HasArgs(job[w], backup) /\ AtHome(job[w], page.name)
  BY DEF TypeInv, JobOK

\* The configuration and the history are left alone by what only looks.
LEMMA LookTyped ==
  ASSUME TypeInv, JobOK', PageOK', UNCHANGED <<router, backup, history, begun>>
  PROVE TypeInv'
  BY DEF TypeInv, ConfigOK, RouterOK, HistoryOK, router, config, history

LEMMA LeaseConflict == TypeInv => Conflict \in Leases \cup {None}
  BY DEF TypeInv, RouterOK, Conflict

LEMMA DetectConflictTyped == ASSUME TypeInv, NEW w \in Worker, DetectConflict(w) PROVE TypeInv'
<1> DEFINE j == [job[w] EXCEPT !.at = "ping", !.wan = Conflict]
<1>1. /\ job[w] \in JobType /\ HasArgs(job[w], backup) /\ AtHome(job[w], page.name) /\ job[w].at = "conflict"
  BY JobTyped DEF DetectConflict, Step
<1>2. "ping" \in At /\ ScreenOf("ping") = ScreenOf("conflict")
  BY DEF At, ScreenOf
<1>3. j \in JobType /\ j.at = "ping" /\ j.section = job[w].section /\ j.home = job[w].home
  BY <1>1, <1>2, LeaseConflict DEF JobType
<1>4. job' = [job EXCEPT ![w] = j]
  BY DEF DetectConflict
<1> HIDE DEF j
<1>5. UNCHANGED <<page, backup>>
  BY DEF DetectConflict
<1>6. HasArgs(j, backup') /\ AtHome(j, page'.name)
  BY <1>1, <1>2, <1>3, <1>5 DEF HasArgs, AtHome
<1>7. JobOK'
  BY <1>3, <1>4, <1>5, <1>6, OneJob DEF TypeInv
<1>8. QED
  BY <1>5, <1>7, SamePage, LookTyped DEF DetectConflict, TypeInv

LEMMA RenderTyped == ASSUME TypeInv, NEW w \in Worker, Render(w) PROVE TypeInv'
<1>1. job[w] \in JobType /\ AtHome(job[w], page.name) /\ job[w].at = "ping"
  BY JobTyped DEF Render, Step
<1>2. job[w].home => page.name # "advanced"
  BY <1>1 DEF AtHome, ScreenOf
<1>3. PageOK' /\ page'.name = page.name
  BY <1>1, <1>2 DEF Render, TypeInv, PageOK, PageType, JobType
<1>4. JobOK'
  BY <1>3, EndOK DEF Render, TypeInv
<1>5. QED
  BY <1>3, <1>4, LookTyped DEF Render

LEMMA ScanNetworksTyped == ASSUME TypeInv, NEW w \in Worker, ScanNetworks(w) PROVE TypeInv'
<1>1. PageOK' /\ page'.name = page.name
  BY DEF ScanNetworks, TypeInv, PageOK, PageType, Strongest
<1>2. JobOK'
  BY <1>1, EndOK DEF ScanNetworks, TypeInv
<1>3. QED
  BY <1>1, <1>2, LookTyped DEF ScanNetworks

LEMMA StageWanTyped == ASSUME TypeInv, NEW w \in Worker, StageWan(w) PROVE TypeInv'
<1> DEFINE n == [conf.network EXCEPT !.proto = job[w].proto, !.opts = (@ \ WanOption) \cup OptionsOf(job[w].proto)]
           c == [conf EXCEPT !.network = n]
<1>1. job[w] \in JobType /\ job[w].at = "stageWan"
  BY JobTyped DEF StageWan, Step
<1>2. conf \in NoApUplink /\ conf.network \in NetworkOf /\ conf.firewall \in Nat
  BY ConfigParts DEF TypeInv, ConfigOK, NoApUplink
<1>3. OptionsOf(job[w].proto) \subseteq WanOption
  BY <1>1 DEF OptionsOf, WanOption, JobType, Proto
<1>4. n \in NetworkOf
  BY <1>1, <1>2, <1>3 DEF NetworkOf, JobType
<1>5. Stage(c)
  BY DEF StageWan, c, n
<1> HIDE DEF n
<1>6. c \in NoApUplink /\ c.firewall = conf.firewall
  BY <1>2, <1>4, NetworkChange DEF Same
<1> HIDE DEF c
<1>7. ConfigOK'
  BY <1>2, <1>5, <1>6, StageOK DEF StageWan, TypeInv
<1>8. "commitWan" \in At /\ ScreenOf("commitWan") = ScreenOf("stageWan")
  BY DEF At, ScreenOf
<1>9. JobOK'
  BY <1>1, <1>8, GoToOK DEF StageWan, TypeInv
<1>10. QED
  BY <1>7, <1>9, SamePage DEF StageWan, TypeInv, RouterOK, HistoryOK, history

\* What is staged is committed: nothing but what is saved and the history changes.
LEMMA CommitConf ==
  ASSUME TypeInv, NEW pkgs, Commit(conf, pkgs), UNCHANGED backup
  PROVE ConfigOK' /\ conf' = conf /\ Same(saved', conf, pkgs) /\ Same(saved', saved, Package \ pkgs)
  BY CommitOK DEF TypeInv, ConfigOK

LEMMA TearTyped == ASSUME HistoryOK, NEW w \in Worker, Tear(w), UNCHANGED <<fixedFor, unzoned, raced, begun>> PROVE HistoryOK'
  BY DEF HistoryOK, Tear

LEMMA CommitWanTyped == ASSUME TypeInv, NEW w \in Worker, CommitWan(w) PROVE TypeInv'
<1>1. ConfigOK'
  BY CommitConf DEF CommitWan
<1>2. "wait" \in At /\ ScreenOf("wait") = ScreenOf("commitWan") /\ job[w].at = "commitWan"
  BY DEF At, ScreenOf, CommitWan, Step
<1>3. JobOK'
  BY <1>2, GoToOK DEF CommitWan, TypeInv
<1>4. HistoryOK'
  BY TearTyped DEF CommitWan, TypeInv
<1>5. QED
  BY <1>1, <1>3, <1>4, SamePage DEF CommitWan, TypeInv, RouterOK

LEMMA AfterUplinkTyped == ASSUME TypeInv, NEW w \in Worker, AfterUplink(w) PROVE TypeInv'
<1>1. job[w] \in JobType /\ AtHome(job[w], page.name) /\ job[w].at = "wait"
  BY JobTyped DEF AfterUplink, Step
<1>2. CASE End(w) /\ UNCHANGED page
  <2>1. JobOK' /\ PageOK'
    BY <1>2, EndOK, SamePage DEF AfterUplink, TypeInv
  <2>2. QED
    BY <2>1, LookTyped DEF AfterUplink
<1>3. CASE /\ job[w].home
           /\ page' = [page EXCEPT !.offer = "none", !.nets = {}]
           /\ job' = [job EXCEPT ![w] = [Start("conflict") EXCEPT !.home = TRUE]]
  <2> DEFINE j == [Start("conflict") EXCEPT !.home = TRUE]
  <2>1. PageOK' /\ page'.name = page.name
    BY <1>3 DEF TypeInv, PageOK, PageType
  <2>2. "conflict" \in At /\ ScreenOf("conflict") = ScreenOf("wait")
    BY DEF At, ScreenOf
  <2>3. Start("conflict") \in JobType /\ HasArgs(Start("conflict"), backup) /\ Start("conflict").at = "conflict"
    BY <2>2, StartOK
  <2>4. j \in JobType /\ HasArgs(j, backup) /\ j.at = "conflict"
    BY <2>3, ShownOK
  <2>5. job' = [job EXCEPT ![w] = j] /\ backup' = backup
    BY <1>3 DEF AfterUplink
  <2> HIDE DEF j
  <2>6. AtHome(j, page'.name)
    BY <1>1, <1>3, <2>1, <2>2, <2>4 DEF AtHome
  <2>7. JobOK'
    BY <2>1, <2>4, <2>5, <2>6, OneJob DEF TypeInv
  <2>8. QED
    BY <2>1, <2>7, LookTyped DEF AfterUplink
<1>4. QED
  BY <1>2, <1>3 DEF AfterUplink

LEMMA StageIfaceTyped == ASSUME TypeInv, NEW w \in Worker, StageIface(w) PROVE TypeInv'
<1> DEFINE i == [device |-> job[w].radio, mode |-> "sta", ssid |-> job[w].ssid]
           c == [conf EXCEPT !.wireless["sta"] = i]
<1>1. job[w] \in JobType /\ job[w].at = "iface"
  BY JobTyped DEF StageIface, Step
<1>2. conf \in NoApUplink /\ conf.firewall \in Nat
  BY ConfigParts DEF TypeInv, ConfigOK, NoApUplink
<1>3. i \in Iface /\ i.mode # "ap"
  BY <1>1 DEF Iface, JobType
<1>4. Stage(c)
  BY DEF StageIface
<1> HIDE DEF i
<1>5. c \in NoApUplink /\ c.firewall = conf.firewall
  BY <1>2, <1>3, WirelessChange DEF Same
<1> HIDE DEF c
<1>6. ConfigOK'
  BY <1>2, <1>4, <1>5, StageOK DEF StageIface, TypeInv
<1>7. "wwan" \in At /\ ScreenOf("wwan") = ScreenOf("iface")
  BY DEF At, ScreenOf
<1>8. JobOK'
  BY <1>1, <1>7, GoToOK DEF StageIface, TypeInv
<1>9. QED
  BY <1>6, <1>8, SamePage DEF StageIface, TypeInv, RouterOK, HistoryOK, history

LEMMA StageWwanTyped == ASSUME TypeInv, NEW w \in Worker, StageWwan(w) PROVE TypeInv'
<1> DEFINE n == [conf.network EXCEPT !.wwan = TRUE]
           c == [conf EXCEPT !.network = n]
<1>1. job[w].at = "wwan"
  BY DEF StageWwan, Step
<1>2. conf \in NoApUplink /\ conf.network \in NetworkOf /\ conf.firewall \in Nat
  BY ConfigParts DEF TypeInv, ConfigOK, NoApUplink
<1>3. n \in NetworkOf
  BY <1>2 DEF NetworkOf
<1>4. Stage(c)
  BY DEF StageWwan
<1> HIDE DEF n
<1>5. c \in NoApUplink /\ c.firewall = conf.firewall
  BY <1>2, <1>3, NetworkChange DEF Same
<1> HIDE DEF c
<1>6. ConfigOK'
  BY <1>2, <1>4, <1>5, StageOK DEF StageWwan, TypeInv
<1>7. "zone" \in At /\ ScreenOf("zone") = ScreenOf("wwan")
  BY DEF At, ScreenOf
<1>8. JobOK'
  BY <1>1, <1>7, GoToOK DEF StageWwan, TypeInv
<1>9. QED
  BY <1>6, <1>8, SamePage DEF StageWwan, TypeInv, RouterOK, HistoryOK, history

LEMMA AddToZoneTyped == ASSUME TypeInv, NEW w \in Worker, AddToZone(w) PROVE TypeInv'
<1> DEFINE c == [conf EXCEPT !.firewall = conf.firewall + 1]
<1>1. job[w].at = "zone"
  BY DEF AddToZone, Step
<1>2. conf \in NoApUplink /\ conf.firewall \in Nat
  BY ConfigParts DEF TypeInv, ConfigOK, NoApUplink
<1>3. Stage(c) \/ UNCHANGED config
  BY DEF AddToZone
<1>4. c \in NoApUplink /\ conf.firewall <= c.firewall
  BY <1>2, FirewallChange
<1> HIDE DEF c
<1>5. ConfigOK'
  <2>1. CASE Stage(c)
    BY <1>4, <2>1, StageOK DEF AddToZone, TypeInv
  <2>2. CASE UNCHANGED config
    BY <2>2 DEF AddToZone, TypeInv, ConfigOK, config
  <2>3. QED
    BY <1>3, <2>1, <2>2
<1>6. "commitSta" \in At /\ ScreenOf("commitSta") = ScreenOf("zone")
  BY DEF At, ScreenOf
<1>7. JobOK'
  BY <1>1, <1>6, GoToOK DEF AddToZone, TypeInv
<1>8. QED
  BY <1>5, <1>7, SamePage DEF AddToZone, TypeInv, RouterOK, HistoryOK

LEMMA CommitStaTyped == ASSUME TypeInv, NEW w \in Worker, CommitSta(w) PROVE TypeInv'
<1>1. ConfigOK'
  BY CommitConf DEF CommitSta
<1>2. saved'.network.ip \in Address
  BY <1>1, ConfigParts DEF ConfigOK, NoApUplink, NetworkOf
<1>3. "wait" \in At /\ ScreenOf("wait") = ScreenOf("commitSta") /\ job[w].at = "commitSta"
  BY DEF At, ScreenOf, CommitSta, Step
<1>4. JobOK'
  BY <1>3, GoToOK DEF CommitSta, TypeInv
<1>5. HistoryOK'
  BY TearTyped DEF CommitSta, TypeInv
<1>6. RouterOK'
  BY <1>2 DEF CommitSta, TypeInv, RouterOK
<1>7. QED
  BY <1>1, <1>4, <1>5, <1>6, SamePage DEF CommitSta, TypeInv

LEMMA ChangeLanIpTyped == ASSUME TypeInv, NEW w \in Worker, ChangeLanIp(w) PROVE TypeInv'
<1> DEFINE n == [conf.network EXCEPT !.ip = job[w].ip, !.mask = 24,
                                     !.form = IF release = "cidr" /\ @ = "cidr" THEN "split" ELSE @]
           c == [conf EXCEPT !.network = n]
<1>1. job[w] \in JobType /\ job[w].at = "move" /\ job[w].ip \in Address /\ job[w].wan \in Leases
  BY JobTyped DEF ChangeLanIp, Step, HasArgs
<1>2. conf \in NoApUplink /\ conf.network \in NetworkOf /\ conf.firewall \in Nat
      /\ saved.firewall <= conf.firewall
  BY ConfigParts DEF TypeInv, ConfigOK, NoApUplink
<1>3. n \in NetworkOf
  BY <1>1, <1>2 DEF NetworkOf, Mask
<1>4. Commit(c, {"network"})
  BY DEF ChangeLanIp
<1> HIDE DEF n
<1>5. c \in NoApUplink /\ c.firewall = conf.firewall
  BY <1>2, <1>3, NetworkChange DEF Same
<1> HIDE DEF c
<1>6. ConfigOK'
  BY <1>2, <1>4, <1>5, CommitOK DEF ChangeLanIp, TypeInv
<1>7. "moved" \in At /\ ScreenOf("moved") = ScreenOf("move")
  BY DEF At, ScreenOf
<1>8. JobOK'
  BY <1>1, <1>7, GoToOK DEF ChangeLanIp, TypeInv
<1>9. HistoryOK' /\ RouterOK'
  BY <1>1 DEF ChangeLanIp, Tear, TypeInv, HistoryOK, RouterOK
<1>10. QED
  BY <1>6, <1>8, <1>9, SamePage DEF ChangeLanIp, TypeInv

LEMMA LanChangedTyped == ASSUME TypeInv, NEW w \in Worker, LanChanged(w) PROVE TypeInv'
<1>1. PageOK' /\ page'.name \in {page.name, "connect"}
  BY BlankOK DEF LanChanged, TypeInv, PageOK, Page
<1>2. JobOK'
  BY <1>1, EndOK DEF LanChanged, TypeInv
<1>3. QED
  BY <1>1, <1>2, LookTyped DEF LanChanged

-----------------------------------------------------------------------------
(* The jobs of the access point and of the advanced screen.                *)

LEMMA LookAroundTyped == ASSUME TypeInv, NEW w \in Worker, LookAround(w) PROVE TypeInv'
<1> DEFINE j == [job[w] EXCEPT !.at = "stageAp", !.todo = Radio \ {conf.wireless["sta"].device}]
<1>1. /\ job[w] \in JobType /\ HasArgs(job[w], backup) /\ AtHome(job[w], page.name) /\ job[w].at = "look"
  BY JobTyped DEF LookAround, Step
<1>2. "stageAp" \in At /\ ScreenOf("stageAp") = ScreenOf("look")
  BY DEF At, ScreenOf
<1>3. j \in JobType /\ j.at = "stageAp" /\ j.section = job[w].section /\ j.home = job[w].home
  BY <1>1, <1>2 DEF JobType
<1>4. job' = [job EXCEPT ![w] = j]
  BY DEF LookAround
<1> HIDE DEF j
<1>5. UNCHANGED <<page, backup>>
  BY DEF LookAround
<1>6. HasArgs(j, backup') /\ AtHome(j, page'.name)
  BY <1>1, <1>2, <1>3, <1>5 DEF HasArgs, AtHome
<1>7. JobOK'
  BY <1>3, <1>4, <1>5, <1>6, OneJob DEF TypeInv
<1>8. QED
  BY <1>5, <1>7, SamePage, LookTyped DEF LookAround, TypeInv

\* One section of the Wi-Fi becomes an access point.
LEMMA ApSection ==
  ASSUME TypeInv, NEW s \in (Section \cup {None}) \ {"sta"}, NEW r \in Radio \cup {None},
         NEW name \in Ssid \cup {"air", None}
  PROVE LET c == [conf EXCEPT !.wireless[s] = [device |-> r, mode |-> "ap", ssid |-> name]] IN
          c \in NoApUplink /\ Same(c, conf, {"network", "firewall", "dhcp"})
          /\ c.wireless["sta"] = conf.wireless["sta"]
<1>1. [device |-> r, mode |-> "ap", ssid |-> name] \in Iface
  BY DEF Iface
<1>2. conf \in NoApUplink
  BY DEF TypeInv, ConfigOK
<1>3. QED
  BY <1>1, <1>2, WirelessChange

LEMMA StageApTyped == ASSUME TypeInv, NEW w \in Worker, StageAp(w) PROVE TypeInv'
<1>1. PICK r \in job[w].todo :
        /\ Stage([conf EXCEPT !.wireless[r] = [device |-> r, mode |-> "ap", ssid |-> job[w].ssid]])
        /\ job' = [job EXCEPT ![w].todo = @ \ {r}]
  BY DEF StageAp
<1> DEFINE c == [conf EXCEPT !.wireless[r] = [device |-> r, mode |-> "ap", ssid |-> job[w].ssid]]
           j == [job[w] EXCEPT !.todo = @ \ {r}]
<1>2. /\ job[w] \in JobType /\ HasArgs(job[w], backup) /\ AtHome(job[w], page.name) /\ job[w].at = "stageAp"
  BY JobTyped DEF StageAp, Step
<1>3. /\ r \in (Section \cup {None}) \ {"sta"} /\ r \in Radio \cup {None}
      /\ job[w].ssid \in Ssid \cup {"air", None}
  BY <1>2, NetworkAssumption DEF NetworkAssumption, JobType, Section
<1>4. c \in NoApUplink /\ c.firewall = conf.firewall
  <2> DEFINE name == job[w].ssid
  <2>1. name \in Ssid \cup {"air", None}
    BY <1>3
  <2> HIDE DEF name
  <2> DEFINE d == [conf EXCEPT !.wireless[r] = [device |-> r, mode |-> "ap", ssid |-> name]]
  <2>2. d \in NoApUplink /\ Same(d, conf, {"network", "firewall", "dhcp"})
    BY <1>3, <2>1, ApSection, Zenon
  <2> HIDE DEF d
  <2>3. d.firewall = conf.firewall
    BY <2>2 DEF Same
  <2>4. QED
    BY <2>2, <2>3 DEF d, name
<1>5. Stage(c)
  BY <1>1
<1>6. conf.firewall \in Nat
  BY ConfigParts DEF TypeInv, ConfigOK, NoApUplink
<1> HIDE DEF c
<1>7. ConfigOK'
  BY <1>4, <1>5, <1>6, StageOK DEF StageAp, TypeInv
<1>8. j \in JobType /\ j.at = "stageAp" /\ j.section = job[w].section /\ j.home = job[w].home
  BY <1>2 DEF JobType
<1>9. job' = [job EXCEPT ![w] = j]
  BY <1>1
<1> HIDE DEF j
<1>10. UNCHANGED <<page, backup>>
  BY DEF StageAp
<1>11. HasArgs(j, backup') /\ AtHome(j, page'.name)
  BY <1>2, <1>8, <1>10 DEF HasArgs, AtHome
<1>12. JobOK'
  BY <1>8, <1>9, <1>10, <1>11, OneJob DEF TypeInv
<1>13. QED
  BY <1>7, <1>12, SamePage DEF StageAp, TypeInv, RouterOK, HistoryOK, history

LEMMA CommitApTyped == ASSUME TypeInv, NEW w \in Worker, CommitAp(w) PROVE TypeInv'
<1>1. ConfigOK'
  BY CommitConf DEF CommitAp
<1>2. "poll" \in At /\ ScreenOf("poll") = ScreenOf("stageAp") /\ job[w].at = "stageAp"
  BY DEF At, ScreenOf, CommitAp, Step
<1>3. JobOK'
  BY <1>2, GoToOK DEF CommitAp, TypeInv
<1>4. HistoryOK'
  BY TearTyped DEF CommitAp, TypeInv
<1>5. QED
  BY <1>1, <1>3, <1>4, SamePage DEF CommitAp, TypeInv, RouterOK

LEMMA CreatedTyped == ASSUME TypeInv, NEW w \in Worker, Created(w) PROVE TypeInv'
<1>1. PageOK' /\ page'.name = page.name
  BY DEF Created, TypeInv, PageOK, PageType
<1>2. JobOK'
  BY <1>1, EndOK DEF Created, TypeInv
<1>3. QED
  BY <1>1, <1>2, LookTyped DEF Created

LEMMA ReadSettingsTyped == ASSUME TypeInv, NEW w \in Worker, ReadSettings(w) PROVE TypeInv'
<1> DEFINE f == [ip |-> conf.network.ip, mask |-> conf.network.mask,
                 start |-> conf.dhcp.start, limit |-> conf.dhcp.limit]
<1>1. conf.network \in NetworkOf /\ conf.dhcp \in DhcpOf /\ conf.wireless \in [Section -> Iface]
  BY ConfigParts DEF TypeInv, ConfigOK, NoApUplink
<1>2. f \in Form
  BY <1>1 DEF NetworkOf, DhcpOf, Form
<1>3. Busy(conf.wireless) \subseteq Radio
  BY <1>1 DEF Busy, Iface
<1>4. conf.dhcp.hosts \in Seq(Mac)
  BY <1>1 DEF DhcpOf
<1>5. page' = IF job[w].home
              THEN [page EXCEPT !.offer = "choices", !.hosts = conf.dhcp.hosts, !.busy = Busy(conf.wireless),
                                !.confirm = "no", !.lan = f]
              ELSE page
  BY DEF ReadSettings
<1> HIDE DEF f
<1>6. PageOK' /\ page'.name = page.name
  BY <1>2, <1>3, <1>4, <1>5 DEF TypeInv, PageOK, PageType
<1>7. JobOK'
  BY <1>6, EndOK DEF ReadSettings, TypeInv
<1>8. QED
  BY <1>6, <1>7, LookTyped DEF ReadSettings

LEMMA FindIfaceTyped == ASSUME TypeInv, NEW w \in Worker, FindIface(w) PROVE TypeInv'
<1>1. PICK s \in ApSections(conf.wireless, job[w].radio) :
        job' = [job EXCEPT ![w].at = "radio", ![w].section = s]
  BY DEF FindIface
<1> DEFINE j == [job[w] EXCEPT !.at = "radio", !.section = s]
<1>2. /\ job[w] \in JobType /\ HasArgs(job[w], backup) /\ AtHome(job[w], page.name) /\ job[w].at = "find"
  BY JobTyped DEF FindIface, Step
<1>3. conf.wireless["sta"].mode # "ap"
  BY DEF TypeInv, ConfigOK, NoApUplink
<1>4. s \in Section \cup {None} /\ s # "sta"
  BY <1>2, <1>3, NetworkAssumption DEF ApSections, Section, JobType, NetworkAssumption
<1>5. "radio" \in At /\ ScreenOf("radio") = ScreenOf("find")
  BY DEF At, ScreenOf
<1>6. j \in JobType /\ j.at = "radio" /\ j.section = s /\ j.home = job[w].home
  BY <1>2, <1>4, <1>5 DEF JobType
<1>7. job' = [job EXCEPT ![w] = j]
  BY <1>1
<1> HIDE DEF j
<1>8. UNCHANGED <<page, backup>>
  BY DEF FindIface
<1>9. HasArgs(j, backup') /\ AtHome(j, page'.name)
  BY <1>2, <1>4, <1>5, <1>6, <1>8 DEF HasArgs, AtHome
<1>10. JobOK'
  BY <1>6, <1>7, <1>8, <1>9, OneJob DEF TypeInv
<1>11. QED
  BY <1>8, <1>10, SamePage, LookTyped DEF FindIface, TypeInv

LEMMA WriteRadioTyped == ASSUME TypeInv, NEW w \in Worker, WriteRadio(w) PROVE TypeInv'
<1> DEFINE c == [conf EXCEPT !.wireless[job[w].section] =
                   [device |-> job[w].radio, mode |-> "ap", ssid |-> job[w].ssid]]
<1>1. /\ job[w].section \in (Section \cup {None}) \ {"sta"} /\ job[w].radio \in Radio \cup {None}
      /\ job[w].ssid \in Ssid \cup {"air", None}
  BY JobTyped DEF HasArgs, JobType
<1>2. c \in NoApUplink /\ c.firewall = conf.firewall
  BY <1>1, ApSection DEF Same
<1>3. Commit(c, {"wireless"})
  BY DEF WriteRadio
<1> HIDE DEF c
<1>4. saved.firewall <= conf.firewall
  BY DEF TypeInv, ConfigOK
<1>5. ConfigOK'
  BY <1>2, <1>3, <1>4, CommitOK DEF WriteRadio, TypeInv
<1>6. JobOK'
  BY EndOK DEF WriteRadio, TypeInv
<1>7. HistoryOK'
  BY TearTyped DEF WriteRadio, TypeInv
<1>8. QED
  BY <1>5, <1>6, <1>7, SamePage DEF WriteRadio, TypeInv, RouterOK

LEMMA ApplyLanTyped == ASSUME TypeInv, NEW w \in Worker, ApplyLan(w) PROVE TypeInv'
<1> DEFINE f == job[w].form
           n == [conf.network EXCEPT !.ip = f.ip, !.mask = f.mask, !.form = FormOf(release)]
           h == [conf.dhcp EXCEPT !.start = f.start, !.limit = f.limit]
           b == [conf EXCEPT !.network = n]
           c == [b EXCEPT !.dhcp = h]
<1>1. f \in Form
  BY JobTyped DEF ApplyLan, Step, HasArgs
<1>2. /\ conf \in NoApUplink /\ conf.network \in NetworkOf /\ conf.dhcp \in DhcpOf /\ conf.firewall \in Nat
      /\ saved.firewall <= conf.firewall
  BY ConfigParts DEF TypeInv, ConfigOK, NoApUplink
<1>3. n \in NetworkOf /\ h \in DhcpOf
  BY <1>1, <1>2 DEF NetworkOf, DhcpOf, Form, FormOf
<1>4. Commit([conf EXCEPT !.network.ip = f.ip, !.network.mask = f.mask, !.network.form = FormOf(release),
                          !.dhcp.start = f.start, !.dhcp.limit = f.limit], {"network", "dhcp"})
  BY DEF ApplyLan
<1>5. [conf EXCEPT !.network.ip = f.ip, !.network.mask = f.mask, !.network.form = FormOf(release),
                   !.dhcp.start = f.start, !.dhcp.limit = f.limit] = c
  BY <1>2 DEF NoApUplink, Config
<1>6. Commit(c, {"network", "dhcp"})
  BY <1>4, <1>5
<1> HIDE DEF n, h, f
<1>7. b \in NoApUplink /\ b.firewall = conf.firewall
  BY <1>2, <1>3, NetworkChange DEF Same
<1> HIDE DEF b
<1>8. c \in NoApUplink /\ c.firewall = conf.firewall
  BY <1>3, <1>7, DhcpChange DEF Same
<1> HIDE DEF c
<1>9. ConfigOK'
  BY <1>2, <1>6, <1>8, CommitOK DEF ApplyLan, TypeInv
<1>10. JobOK'
  BY EndOK DEF ApplyLan, TypeInv
<1>11. HistoryOK' /\ RouterOK'
  BY DEF ApplyLan, Tear, TypeInv, HistoryOK, RouterOK
<1>12. QED
  BY <1>9, <1>10, <1>11, SamePage DEF ApplyLan, TypeInv

-----------------------------------------------------------------------------
(* Reservations.                                                           *)

LEMMA HostsChange ==
  ASSUME NEW c \in NoApUplink, NEW s \in Seq(Mac)
  PROVE LET d == [c EXCEPT !.dhcp.hosts = s] IN
          d \in NoApUplink /\ d.dhcp.hosts = s /\ Same(d, c, {"wireless", "firewall", "network"})
<1> DEFINE n == [c.dhcp EXCEPT !.hosts = s]
<1>1. c.dhcp \in DhcpOf
  BY ConfigParts DEF NoApUplink
<1>2. n \in DhcpOf /\ n.hosts = s
  BY <1>1 DEF DhcpOf
<1>3. [c EXCEPT !.dhcp.hosts = s] = [c EXCEPT !.dhcp = n]
  OBVIOUS
<1> HIDE DEF n
<1>4. QED
  BY <1>2, <1>3, DhcpChange

LEMMA WithoutTyped == ASSUME NEW s \in Seq(Mac), NEW i PROVE Without(s, i) \in Seq(Mac)
<1>1. CASE i \in 1..Len(s)
  BY <1>1, WithoutOne
<1>2. CASE i \notin 1..Len(s)
  BY <1>2 DEF Without
<1>3. QED
  BY <1>1, <1>2

LEMMA HostsTyped == TypeInv => conf.dhcp.hosts \in Seq(Mac) /\ conf \in NoApUplink /\ conf.firewall \in Nat
  BY ConfigParts DEF TypeInv, ConfigOK, NoApUplink, DhcpOf

\* A thread whose job is done reads the settings again for its screen.
LEMMA AgainTyped ==
  ASSUME TypeInv, NEW w \in Worker, ScreenOf(job[w].at) = "advanced", UNCHANGED <<page, backup>>,
         job' = [job EXCEPT ![w] = IF job[w].home THEN [Start("read") EXCEPT !.home = TRUE] ELSE Nothing]
  PROVE JobOK' /\ (\A u \in Worker \ {w} : job'[u] = job[u]) /\ job'[w].at \in {"read", "idle"}
<1> DEFINE again == [Start("read") EXCEPT !.home = TRUE]
           j == IF job[w].home THEN again ELSE Nothing
<1>1. "read" \in At /\ ScreenOf("read") = "advanced"
  BY DEF At, ScreenOf
<1>2. Start("read") \in JobType /\ HasArgs(Start("read"), backup) /\ Start("read").at = "read"
  BY <1>1, StartOK
<1>3. again \in JobType /\ HasArgs(again, backup) /\ again.at = "read"
  BY <1>2, ShownOK
<1>4. job[w] \in JobType /\ AtHome(job[w], page.name)
  BY JobTyped
<1>5. job' = [job EXCEPT ![w] = j]
  OBVIOUS
<1> HIDE DEF again
<1>6. j \in JobType /\ HasArgs(j, backup') /\ AtHome(j, page'.name) /\ j.at \in {"read", "idle"}
  BY <1>1, <1>3, <1>4, NothingOK DEF AtHome
<1> HIDE DEF j
<1>7. JobOK'
  BY <1>5, <1>6, OneJob DEF TypeInv
<1>8. QED
  BY <1>5, <1>6, <1>7 DEF TypeInv, JobOK

LEMMA RaceTyped == ASSUME HistoryOK, NEW w \in Worker, Race(w), UNCHANGED <<fixedFor, torn, unzoned, begun>> PROVE HistoryOK'
  BY DEF HistoryOK, Race

LEMMA ListLeasesTyped == ASSUME TypeInv, NEW w \in Worker, ListLeases(w) PROVE TypeInv'
<1> DEFINE at == IF job[w].at = "pin" THEN "drop" ELSE "unset"
           left == 1..Len(conf.dhcp.hosts)
           j == [job[w] EXCEPT !.at = at, !.left = left]
<1>1. /\ job[w] \in JobType /\ HasArgs(job[w], backup) /\ AtHome(job[w], page.name) /\ job[w].at \in {"pin", "unpin"}
  BY JobTyped DEF ListLeases
<1>2. at \in At /\ ScreenOf(at) = ScreenOf(job[w].at) /\ left \in SUBSET Nat
  BY <1>1, HostsTyped, LenProperties DEF At, ScreenOf
<1>3. job' = [job EXCEPT ![w] = j]
  BY DEF ListLeases
<1> HIDE DEF left
<1>4. /\ j \in JobType /\ j.at = at /\ j.section = job[w].section /\ j.home = job[w].home
      /\ j.mac = job[w].mac
  BY <1>1, <1>2 DEF JobType
<1>5. UNCHANGED <<page, backup>>
  BY DEF ListLeases
<1> HIDE DEF j
<1>6. HasArgs(j, backup') /\ AtHome(j, page'.name)
  BY <1>1, <1>2, <1>4, <1>5 DEF HasArgs, AtHome
<1>7. JobOK'
  BY <1>3, <1>4, <1>5, <1>6, OneJob DEF TypeInv
<1>8. QED
  BY <1>5, <1>7, SamePage, LookTyped DEF ListLeases, TypeInv

LEMMA AskLeaseTyped == ASSUME TypeInv, NEW w \in Worker, AskLease(w) PROVE TypeInv'
<1>0. PICK i \in job[w].left : \E list \in {job[w].list, job[w].list \cup {i}} :
        job' = [job EXCEPT ![w].left = job[w].left \ {i}, ![w].list = list]
  BY DEF AskLease
<1>1. PICK list \in {job[w].list, job[w].list \cup {i}} :
        job' = [job EXCEPT ![w].left = job[w].left \ {i}, ![w].list = list]
  BY <1>0
<1> DEFINE j == [job[w] EXCEPT !.left = job[w].left \ {i}, !.list = list]
<1>2. /\ job[w] \in JobType /\ HasArgs(job[w], backup) /\ AtHome(job[w], page.name)
      /\ job[w].at \in {"drop", "unset"}
  BY JobTyped DEF AskLease
<1>3. i \in Nat /\ list \in SUBSET Nat
  BY <1>2 DEF JobType
<1>4. /\ j \in JobType /\ j.at = job[w].at /\ j.section = job[w].section /\ j.home = job[w].home
      /\ j.mac = job[w].mac /\ j.ip = job[w].ip /\ j.wan = job[w].wan /\ j.form = job[w].form
  BY <1>2, <1>3 DEF JobType
<1>5. job' = [job EXCEPT ![w] = j]
  BY <1>1
<1> HIDE DEF j
<1>6. UNCHANGED <<page, backup>>
  BY DEF AskLease
<1>7. HasArgs(j, backup') /\ AtHome(j, page'.name)
  BY <1>2, <1>4, <1>6 DEF HasArgs, AtHome
<1>8. JobOK'
  BY <1>4, <1>5, <1>6, <1>7, OneJob DEF TypeInv
<1>9. QED
  BY <1>6, <1>8, SamePage, LookTyped DEF AskLease, TypeInv

LEMMA DropLeaseTyped == ASSUME TypeInv, NEW w \in Worker, DropLease(w) PROVE TypeInv'
<1>1. PICK i \in job[w].list :
        /\ Stage([conf EXCEPT !.dhcp.hosts = Without(conf.dhcp.hosts, i)])
        /\ job' = [job EXCEPT ![w].list = job[w].list \ {i}]
  BY DEF DropLease
<1> DEFINE s == Without(conf.dhcp.hosts, i)
           c == [conf EXCEPT !.dhcp.hosts = s]
           j == [job[w] EXCEPT !.list = job[w].list \ {i}]
<1>2. s \in Seq(Mac)
  BY HostsTyped, WithoutTyped
<1>3. Stage(c)
  BY <1>1
<1> HIDE DEF s
<1>4. c \in NoApUplink /\ c.firewall = conf.firewall
  BY <1>2, HostsTyped, HostsChange DEF Same
<1> HIDE DEF c
<1>5. ConfigOK'
  BY <1>3, <1>4, HostsTyped, StageOK DEF DropLease, TypeInv
<1>6. /\ job[w] \in JobType /\ HasArgs(job[w], backup) /\ AtHome(job[w], page.name)
  BY JobTyped
<1>7. /\ j \in JobType /\ j.at = job[w].at /\ j.section = job[w].section /\ j.home = job[w].home
      /\ j.mac = job[w].mac /\ j.ip = job[w].ip /\ j.wan = job[w].wan /\ j.form = job[w].form
  BY <1>6 DEF JobType
<1>8. job' = [job EXCEPT ![w] = j]
  BY <1>1
<1> HIDE DEF j
<1>9. UNCHANGED <<page, backup>>
  BY DEF DropLease
<1>10. HasArgs(j, backup') /\ AtHome(j, page'.name)
  BY <1>6, <1>7, <1>9 DEF HasArgs, AtHome
<1>11. JobOK'
  BY <1>7, <1>8, <1>9, <1>10, OneJob DEF TypeInv
<1>12. HistoryOK'
  BY RaceTyped DEF DropLease, TypeInv
<1>13. QED
  BY <1>5, <1>11, <1>12, SamePage DEF DropLease, TypeInv, RouterOK

LEMMA AddLeaseTyped == ASSUME TypeInv, NEW w \in Worker, AddLease(w) PROVE TypeInv'
<1> DEFINE s == Append(conf.dhcp.hosts, job[w].mac)
           c == [conf EXCEPT !.dhcp.hosts = s]
<1>1. job[w].mac \in Mac /\ ScreenOf(job[w].at) = "advanced"
  BY JobTyped DEF AddLease, StepListed, Step, HasArgs, ScreenOf
<1>2. s \in Seq(Mac)
  BY <1>1, HostsTyped, AppendProperties
<1>3. Commit(c, {"dhcp"})
  BY DEF AddLease
<1> HIDE DEF s
<1>4. c \in NoApUplink /\ c.firewall = conf.firewall
  BY <1>2, HostsTyped, HostsChange DEF Same
<1> HIDE DEF c
<1>5. saved.firewall <= conf.firewall
  BY DEF TypeInv, ConfigOK
<1>6. ConfigOK'
  BY <1>3, <1>4, <1>5, CommitOK DEF AddLease, TypeInv
<1>7. JobOK'
  BY <1>1, AgainTyped DEF AddLease
<1>8. HistoryOK'
  BY RaceTyped DEF AddLease, TypeInv
<1>9. QED
  BY <1>6, <1>7, <1>8, SamePage DEF AddLease, TypeInv, RouterOK

LEMMA RemoveLeaseTyped == ASSUME TypeInv, NEW w \in Worker, RemoveLease(w) PROVE TypeInv'
<1>1. PICK i \in job[w].list : Commit([conf EXCEPT !.dhcp.hosts = Without(conf.dhcp.hosts, i)], {"dhcp"})
  BY DEF RemoveLease
<1> DEFINE s == Without(conf.dhcp.hosts, i)
           c == [conf EXCEPT !.dhcp.hosts = s]
<1>2. ScreenOf(job[w].at) = "advanced"
  BY DEF RemoveLease, StepListed, Step, ScreenOf
<1>3. s \in Seq(Mac)
  BY HostsTyped, WithoutTyped
<1>4. Commit(c, {"dhcp"})
  BY <1>1
<1> HIDE DEF s
<1>5. c \in NoApUplink /\ c.firewall = conf.firewall
  BY <1>3, HostsTyped, HostsChange DEF Same
<1> HIDE DEF c
<1>6. saved.firewall <= conf.firewall
  BY DEF TypeInv, ConfigOK
<1>7. ConfigOK'
  BY <1>4, <1>5, <1>6, CommitOK DEF RemoveLease, TypeInv
<1>8. JobOK'
  BY <1>2, AgainTyped DEF RemoveLease
<1>9. HistoryOK'
  BY RaceTyped DEF RemoveLease, TypeInv
<1>10. QED
  BY <1>7, <1>8, <1>9, SamePage DEF RemoveLease, TypeInv, RouterOK

-----------------------------------------------------------------------------
(* Backup, restore, factory reset.                                         *)

LEMMA CreateBackupTyped == ASSUME TypeInv, NEW w \in Worker, CreateBackup(w) PROVE TypeInv'
<1>1. saved \in NoApUplink
  BY DEF TypeInv, ConfigOK
<1>2. JobOK'
  BY <1>1, EndOK DEF CreateBackup, TypeInv
<1>3. ConfigOK'
  BY DEF CreateBackup, TypeInv, ConfigOK, router, config
<1>4. QED
  BY <1>2, <1>3, SamePage DEF CreateBackup, TypeInv, RouterOK, HistoryOK, history, router, config

LEMMA UploadTyped == ASSUME TypeInv, NEW w \in Worker, Upload(w) PROVE TypeInv'
<1>1. "extract" \in At /\ ScreenOf("extract") = ScreenOf("upload") /\ job[w].at = "upload"
  BY DEF At, ScreenOf, Upload, Step
<1>2. JobOK'
  BY <1>1, GoToOK DEF Upload, TypeInv
<1>3. QED
  BY <1>2, SamePage, LookTyped DEF Upload, TypeInv

\* What is staged over the files that an archive replaced.
Merged(s, c, b) ==
  [p \in Package |->
     IF p = "firewall" THEN b[p] + (c[p] - s[p])
     ELSE [f \in DOMAIN s[p] |-> IF c[p][f] = s[p][f] THEN b[p][f] ELSE c[p][f]]]

LEMMA MergedOK ==
  ASSUME NEW s \in NoApUplink, NEW c \in NoApUplink, NEW b \in NoApUplink, s.firewall <= c.firewall
  PROVE /\ Merged(s, c, b) \in NoApUplink
        /\ b.firewall <= Merged(s, c, b).firewall
        /\ Merged(s, c, b).dhcp.hosts = IF c.dhcp.hosts = s.dhcp.hosts THEN b.dhcp.hosts ELSE c.dhcp.hosts
        /\ Merged(s, c, b).network.ip = IF c.network.ip = s.network.ip THEN b.network.ip ELSE c.network.ip
        /\ Merged(s, c, b).network.mask = IF c.network.mask = s.network.mask THEN b.network.mask ELSE c.network.mask
        /\ Merged(s, c, b).network.wwan = IF c.network.wwan = s.network.wwan THEN b.network.wwan ELSE c.network.wwan
        /\ Merged(s, c, b).firewall = b.firewall + (c.firewall - s.firewall)
        /\ Merged(s, c, b).wireless["sta"] = IF c.wireless["sta"] = s.wireless["sta"] THEN b.wireless["sta"]
                                             ELSE c.wireless["sta"]
<1> DEFINE m == Merged(s, c, b)
           Of(p) == [f \in DOMAIN s[p] |-> IF c[p][f] = s[p][f] THEN b[p][f] ELSE c[p][f]]
<1>1. \A k \in {s, c, b} : /\ k.wireless \in [Section -> Iface] /\ k.network \in NetworkOf
                           /\ k.firewall \in Nat /\ k.dhcp \in DhcpOf /\ k.wireless["sta"].mode # "ap"
  BY ConfigParts DEF NoApUplink
<1>2. /\ DOMAIN m = Package
      /\ m.wireless = Of("wireless") /\ m.network = Of("network") /\ m.dhcp = Of("dhcp")
      /\ m.firewall = b.firewall + (c.firewall - s.firewall)
  BY DEF Merged, Package
<1>3. m = [wireless |-> m.wireless, network |-> m.network, firewall |-> m.firewall, dhcp |-> m.dhcp]
  BY <1>2 DEF Merged, Package
<1>4. Of("wireless") \in [Section -> Iface]
      /\ Of("wireless")["sta"] = IF c.wireless["sta"] = s.wireless["sta"] THEN b.wireless["sta"] ELSE c.wireless["sta"]
  BY <1>1 DEF Section
<1>5. Of("network") = [proto |-> IF c.network.proto = s.network.proto THEN b.network.proto ELSE c.network.proto,
                       opts |-> IF c.network.opts = s.network.opts THEN b.network.opts ELSE c.network.opts,
                       wwan |-> IF c.network.wwan = s.network.wwan THEN b.network.wwan ELSE c.network.wwan,
                       ip |-> IF c.network.ip = s.network.ip THEN b.network.ip ELSE c.network.ip,
                       mask |-> IF c.network.mask = s.network.mask THEN b.network.mask ELSE c.network.mask,
                       form |-> IF c.network.form = s.network.form THEN b.network.form ELSE c.network.form]
  BY <1>1 DEF NetworkOf
<1>6. Of("dhcp") = [hosts |-> IF c.dhcp.hosts = s.dhcp.hosts THEN b.dhcp.hosts ELSE c.dhcp.hosts,
                    start |-> IF c.dhcp.start = s.dhcp.start THEN b.dhcp.start ELSE c.dhcp.start,
                    limit |-> IF c.dhcp.limit = s.dhcp.limit THEN b.dhcp.limit ELSE c.dhcp.limit]
  BY <1>1 DEF DhcpOf
<1>7. Of("network") \in NetworkOf /\ Of("dhcp") \in DhcpOf
  <2>1. Of("network") \in NetworkOf
    BY <1>1, <1>5 DEF NetworkOf
  <2>2. Of("dhcp") \in DhcpOf
    BY <1>1, <1>6 DEF DhcpOf
  <2>3. QED
    BY <2>1, <2>2
<1>8. m.firewall \in Nat /\ b.firewall <= m.firewall
  BY <1>1, <1>2
<1>9. m.wireless["sta"].mode # "ap"
  BY <1>1, <1>2, <1>4
<1> HIDE DEF Of, m
<1>10. m \in Config
  BY <1>2, <1>3, <1>4, <1>7, <1>8 DEF Config, NetworkOf, DhcpOf
<1>11. m \in NoApUplink
  BY <1>9, <1>10 DEF NoApUplink
<1>12. QED
  BY <1>2, <1>4, <1>5, <1>6, <1>8, <1>11 DEF m

LEMMA ExtractTyped == ASSUME TypeInv, NEW w \in Worker, Extract(w) PROVE TypeInv'
<1>1. job[w].at = "extract" /\ backup \in NoApUplink
  BY JobTyped DEF Extract, Step, HasArgs
<1>2. conf \in NoApUplink /\ saved \in NoApUplink /\ backup \in NoApUplink /\ saved.firewall <= conf.firewall
  BY <1>1 DEF TypeInv, ConfigOK
<1>3. saved' = backup /\ conf' = Merged(saved, conf, backup) /\ backup' = backup
  BY DEF Extract, Merged
<1>4. ConfigOK'
  BY <1>2, <1>3, MergedOK DEF ConfigOK
<1>5. "reboot" \in At /\ ScreenOf("reboot") = ScreenOf("extract")
  BY DEF At, ScreenOf
<1>6. JobOK'
  BY <1>1, <1>5, GoToOK DEF Extract, TypeInv
<1>7. HistoryOK' /\ RouterOK'
  BY DEF Extract, Tear, TypeInv, HistoryOK, RouterOK
<1>8. QED
  BY <1>4, <1>6, <1>7, SamePage DEF Extract, TypeInv

LEMMA DetachTyped == ASSUME TypeInv, NEW w \in Worker, Detach(w) PROVE TypeInv'
<1>1. PageOK' /\ page'.name \in {page.name, "connect"}
  BY BlankOK DEF Detach, TypeInv, PageOK, Page
<1>2. JobOK'
  BY <1>1, EndOK DEF Detach, TypeInv
<1>3. RouterOK'
  BY DEF Detach, TypeInv, RouterOK, config
<1>4. QED
  BY <1>1, <1>2, <1>3 DEF Detach, TypeInv, ConfigOK, HistoryOK, config, history

-----------------------------------------------------------------------------
(* Type correctness.                                                       *)

LEMMA InitHosts ==
  ASSUME Init
  PROVE /\ conf.dhcp.hosts \in Seq(Mac)
        /\ \A i, k \in 1..Len(conf.dhcp.hosts) : conf.dhcp.hosts[i] = conf.dhcp.hosts[k] => i = k
        /\ conf \in NoApUplink /\ conf.wireless["sta"] = Absent /\ conf.firewall = 0
        /\ conf.network.ip \in Address
<1>1. PICK macs \in {<<>>} \cup SetToSeqs(Mac) : conf = [Fresh(FormOf(release), OwnerAp) EXCEPT !.dhcp.hosts = macs]
  BY DEF Init
<1> DEFINE f == Fresh(FormOf(release), OwnerAp)
<1>2. /\ f \in NoApUplink /\ f.wireless["sta"] = Absent /\ f.firewall = 0
      /\ f.network.ip \in Address
  BY FreshOK DEF Init
<1>3. macs \in Seq(Mac) /\ \A i, k \in 1..Len(macs) : macs[i] = macs[k] => i = k
  <2>1. CASE macs = <<>>
    BY <2>1
  <2>2. CASE macs \in SetToSeqs(Mac)
    <3>1. Cardinality(Mac) \in Nat
      BY NetworkAssumption, FS_CardinalityType DEF NetworkAssumption
    <3>2. /\ macs \in [1..Cardinality(Mac) -> Mac]
          /\ \A i, k \in 1..Cardinality(Mac) : i # k => macs[i] # macs[k]
      BY <2>2 DEF SetToSeqs
    <3>3. macs \in Seq(Mac) /\ DOMAIN macs = 1..Len(macs)
      BY <3>1, <3>2
    <3>4. QED
      BY <3>2, <3>3
  <2>3. QED
    BY <2>1, <2>2
<1> HIDE DEF f
<1>4. conf = [f EXCEPT !.dhcp.hosts = macs]
  BY <1>1 DEF f
<1>5. QED
  BY <1>2, <1>3, <1>4, HostsChange DEF Same

LEMMA InitTyped == Init => TypeInv
<1> SUFFICES ASSUME Init PROVE TypeInv
  OBVIOUS
<1>0. saved = conf /\ backup = None
  BY DEF Init
<1>1. ConfigOK
  BY <1>0, InitHosts DEF ConfigOK
<1>2. page = Blank("connect") /\ "connect" \in Page
  BY DEF Init, Page
<1>3. PageOK
  BY <1>2, BlankOK DEF PageOK
<1>4. RouterOK /\ HistoryOK
  <2>1. /\ release \in {"split", "cidr", "snapshot"} /\ lease = None /\ due = {} /\ linked = TRUE
        /\ address = saved.network.ip /\ fixedFor = None /\ torn = FALSE /\ unzoned = FALSE /\ raced = FALSE /\ begun = 0
    BY DEF Init
  <2>2. address \in Address
    BY <1>0, <2>1, InitHosts
  <2>3. begun \in 0..MaxJobs
    BY <2>1, NetworkAssumption DEF NetworkAssumption
  <2>4. QED
    BY <2>1, <2>2, <2>3 DEF RouterOK, HistoryOK
<1>5. JobOK
  BY NothingOK DEF Init, JobOK
<1>6. QED
  BY <1>1, <1>3, <1>4, <1>5 DEF TypeInv

LEMMA NextTyped == TypeInv /\ [Next]_vars => TypeInv'
<1> SUFFICES ASSUME TypeInv, [Next]_vars PROVE TypeInv'
  OBVIOUS
<1>1. CASE User
  BY <1>1, OpenTyped, ReconnectTyped, RefreshTyped, ScanTyped, DoWanTyped, DoWifiTyped, FixConflictTyped,
     DoCreateTyped, ApplyRadioTyped, EditTyped, DoLanApplyTyped, PinDeviceTyped, UnpinDeviceTyped, MaintainTyped
     DEF User
<1>2. CASE Outside
  BY <1>2, OutsideTyped
<1>3. ASSUME NEW w \in Worker, Work(w) PROVE TypeInv'
  BY <1>3, DetectConflictTyped, RenderTyped, ScanNetworksTyped, StageWanTyped, CommitWanTyped, AfterUplinkTyped,
     StageIfaceTyped, StageWwanTyped, AddToZoneTyped, CommitStaTyped, ChangeLanIpTyped, LanChangedTyped,
     LookAroundTyped, StageApTyped, CommitApTyped, CreatedTyped, ReadSettingsTyped, FindIfaceTyped,
     WriteRadioTyped, ApplyLanTyped, ListLeasesTyped, AskLeaseTyped, DropLeaseTyped, AddLeaseTyped, RemoveLeaseTyped,
     CreateBackupTyped, UploadTyped, ExtractTyped, DetachTyped, FailTyped DEF Work
<1>4. CASE UNCHANGED vars
  BY <1>4, NoJob, SamePage, LookTyped DEF vars, TypeInv, router, config, history
<1>5. QED
  BY <1>1, <1>2, <1>3, <1>4 DEF Next

\* Every variable keeps its type: no step of a job works on an argument another step, the user or
\* a lost connection left without its value.
THEOREM TypeCorrect == Spec => []TypeOK
<1>1. Init => TypeInv
  BY InitTyped
<1>2. TypeInv /\ [Next]_vars => TypeInv'
  BY NextTyped
<1>3. TypeInv => TypeOK
  BY DEF TypeInv, ConfigOK, NoApUplink, RouterOK, HistoryOK, PageOK, PageType, JobOK, JobType, TypeOK
<1>4. QED
  BY <1>1, <1>2, <1>3, PTL DEF Spec

-----------------------------------------------------------------------------
(* The conflict stays solved.                                              *)

\* The LAN of a configuration; nobody leaves a change of it staged.
LanOf(c) == <<c.network.ip, c.network.mask>>
FixInv == LanOf(conf) = LanOf(saved) /\ FixResolves

\* The LAN of the two configurations and the history of it are left as they are.
LEMMA LanSame ==
  ASSUME FixInv, LanOf(conf') = LanOf(conf), LanOf(saved') = LanOf(saved), fixedFor' = fixedFor
  PROVE FixInv'
  BY DEF FixInv, FixResolves, LanOf

LEMMA LanStaged ==
  ASSUME FixInv, NEW c, Stage(c), LanOf(c) = LanOf(conf), fixedFor' = fixedFor
  PROVE FixInv'
  BY LanSame DEF Stage

LEMMA LanCommitted ==
  ASSUME TypeInv, FixInv, NEW c, NEW pkgs, Commit(c, pkgs), LanOf(c) = LanOf(conf), fixedFor' = fixedFor
  PROVE FixInv'
<1>1. conf' = c /\ saved'.network \in {c.network, saved.network}
  BY DEF Commit, Package
<1>2. LanOf(saved') = LanOf(saved)
  BY <1>1 DEF FixInv, LanOf
<1>3. QED
  BY <1>1, <1>2, LanSame

\* Changes of the configuration that leave the LAN alone.
LEMMA LanOfChanges ==
  ASSUME TypeInv
  PROVE /\ \A s, i : LanOf([conf EXCEPT !.wireless[s] = i]) = LanOf(conf)
        /\ \A s : LanOf([conf EXCEPT !.dhcp.hosts = s]) = LanOf(conf)
        /\ \A n : LanOf([conf EXCEPT !.firewall = n]) = LanOf(conf)
        /\ \A p, o : LanOf([conf EXCEPT !.network.proto = p, !.network.opts = o]) = LanOf(conf)
        /\ \A v : LanOf([conf EXCEPT !.network.wwan = v]) = LanOf(conf)
<1>1. conf \in Config /\ conf.network \in NetworkOf
  BY ConfigParts DEF TypeInv, ConfigOK, NoApUplink
<1>2. QED
  BY <1>1 DEF LanOf, Config, NetworkOf

LEMMA StagingKeepsLan ==
  ASSUME TypeInv, FixInv, NEW w \in Worker,
         StageWan(w) \/ StageIface(w) \/ StageWwan(w) \/ AddToZone(w) \/ StageAp(w) \/ DropLease(w)
  PROVE FixInv'
<1>1. CASE StageWan(w)
  BY <1>1, LanOfChanges, LanStaged DEF StageWan, history
<1>2. CASE StageIface(w)
  BY <1>2, LanOfChanges, LanStaged DEF StageIface, history
<1>3. CASE StageWwan(w)
  BY <1>3, LanOfChanges, LanStaged DEF StageWwan, history
<1>4. CASE AddToZone(w)
  BY <1>4, LanOfChanges, LanStaged, LanSame DEF AddToZone, config
<1>5. CASE StageAp(w)
  BY <1>5, LanOfChanges, LanStaged DEF StageAp, history
<1>6. CASE DropLease(w)
  BY <1>6, LanOfChanges, LanStaged DEF DropLease
<1>7. QED
  BY <1>1, <1>2, <1>3, <1>4, <1>5, <1>6

LEMMA CommitsKeepLan ==
  ASSUME TypeInv, FixInv, NEW w \in Worker,
         CommitWan(w) \/ CommitSta(w) \/ CommitAp(w) \/ WriteRadio(w) \/ AddLease(w) \/ RemoveLease(w)
  PROVE FixInv'
<1>1. CASE CommitWan(w)
  BY <1>1, LanCommitted DEF CommitWan
<1>2. CASE CommitSta(w)
  BY <1>2, LanCommitted DEF CommitSta
<1>3. CASE CommitAp(w)
  BY <1>3, LanCommitted DEF CommitAp
<1>4. CASE WriteRadio(w)
  <2> DEFINE c == [conf EXCEPT !.wireless[job[w].section] =
                     [device |-> job[w].radio, mode |-> "ap", ssid |-> job[w].ssid]]
  <2>1. Commit(c, {"wireless"}) /\ fixedFor' = fixedFor
    BY <1>4 DEF WriteRadio
  <2>2. LanOf(c) = LanOf(conf)
    BY LanOfChanges
  <2> HIDE DEF c
  <2>3. QED
    BY <2>1, <2>2, LanCommitted
<1>5. CASE AddLease(w)
  <2>1. PICK hosts : Commit([conf EXCEPT !.dhcp.hosts = hosts], {"dhcp"}) /\ fixedFor' = fixedFor
    BY <1>5 DEF AddLease
  <2> DEFINE c == [conf EXCEPT !.dhcp.hosts = hosts]
  <2>2. LanOf(c) = LanOf(conf) /\ Commit(c, {"dhcp"})
    BY <2>1, LanOfChanges
  <2> HIDE DEF c
  <2>3. QED
    BY <2>1, <2>2, LanCommitted
<1>6. CASE RemoveLease(w)
  <2>1. PICK hosts : Commit([conf EXCEPT !.dhcp.hosts = hosts], {"dhcp"}) /\ fixedFor' = fixedFor
    BY <1>6 DEF RemoveLease
  <2> DEFINE c == [conf EXCEPT !.dhcp.hosts = hosts]
  <2>2. LanOf(c) = LanOf(conf) /\ Commit(c, {"dhcp"})
    BY <2>1, LanOfChanges
  <2> HIDE DEF c
  <2>3. QED
    BY <2>1, <2>2, LanCommitted
<1>7. QED
  BY <1>1, <1>2, <1>3, <1>4, <1>5, <1>6

\* The job was given an address that is clear of the network it resolves the conflict with.
LEMMA ChangeLanIpResolves == ASSUME TypeInv, FixInv, NEW w \in Worker, ChangeLanIp(w) PROVE FixInv'
<1> DEFINE c == [conf EXCEPT !.network.ip = job[w].ip, !.network.mask = 24,
                             !.network.form = IF release = "cidr" /\ @ = "cidr" THEN "split" ELSE @]
<1>1. ValidNewLan(job[w].ip, job[w].wan)
  BY JobTyped DEF ChangeLanIp, Step, HasArgs
<1>2. conf \in Config /\ conf.network \in NetworkOf
  BY ConfigParts DEF TypeInv, ConfigOK, NoApUplink
<1>3. c.network.ip = job[w].ip /\ c.network.mask = 24
  BY <1>2 DEF Config, NetworkOf
<1>4. Commit(c, {"network"}) /\ fixedFor' = job[w].wan
  BY DEF ChangeLanIp
<1> HIDE DEF c
<1>5. conf' = c /\ saved'.network = c.network
  BY <1>4 DEF Commit, Package
<1>6. QED
  BY <1>1, <1>3, <1>4, <1>5 DEF FixInv, FixResolves, LanOf, ValidNewLan

\* What replaces the LAN for another reason ends the history.
LEMMA LanReplaced == ASSUME LanOf(conf') = LanOf(saved'), fixedFor' = None PROVE FixInv'
  BY DEF FixInv, FixResolves

LEMMA ApplyLanReplaces == ASSUME TypeInv, FixInv, NEW w \in Worker, ApplyLan(w) PROVE FixInv'
<1>1. PICK c : Commit(c, {"network", "dhcp"})
  BY DEF ApplyLan
<1>2. conf'.network = saved'.network
  BY <1>1 DEF Commit, Package
<1>3. QED
  BY <1>2, LanReplaced DEF ApplyLan, LanOf

LEMMA ExtractReplaces == ASSUME TypeInv, FixInv, NEW w \in Worker, Extract(w) PROVE FixInv'
<1>1. conf \in NoApUplink /\ saved \in NoApUplink /\ backup \in NoApUplink /\ saved.firewall <= conf.firewall
  BY JobTyped DEF Extract, Step, HasArgs, TypeInv, ConfigOK
<1>2. saved' = backup /\ conf' = Merged(saved, conf, backup) /\ fixedFor' = None
  BY DEF Extract, Merged
<1>3. LanOf(conf') = LanOf(saved')
  BY <1>1, <1>2, MergedOK DEF FixInv, LanOf
<1>4. QED
  BY <1>2, <1>3, LanReplaced

\* The network that the new address of a solved conflict is in does not meet the provider's, in
\* whatever order the screens' jobs, a restore, a reset or a restart of the router come.
THEOREM ConflictsStaySolved == Spec => []FixResolves
<1>1. Init => TypeInv /\ FixInv
  BY InitTyped DEF Init, FixInv, FixResolves, LanOf
<1>2. TypeInv /\ FixInv /\ [Next]_vars => FixInv'
  <2> SUFFICES ASSUME TypeInv, FixInv, [Next]_vars PROVE FixInv'
    OBVIOUS
  <2>1. CASE User
    <3>1. UNCHANGED <<conf, saved, fixedFor>>
      BY <2>1 DEF User, Open, Reconnect, Refresh, Scan, DoWan, DoWifi, FixConflict, DoCreate, ApplyRadio, Edit, Arm,
                  DoLanApply, PinDevice, UnpinDevice, Maintain, router, config, history
    <3>2. QED
      BY <3>1, LanSame
  <2>2. CASE Renew \/ Reload
    BY <2>2, LanSame DEF Renew, Reload, config, history
  <2>3. CASE Reboot
    BY <2>3, LanSame DEF Reboot, history, FixInv
  <2>4. CASE FirstBoot
    BY <2>4, LanReplaced DEF FirstBoot
  <2>5. ASSUME NEW w \in Worker, Work(w) PROVE FixInv'
    <3>1. CASE \/ DetectConflict(w) \/ Render(w) \/ ScanNetworks(w) \/ AfterUplink(w) \/ LanChanged(w)
               \/ LookAround(w) \/ Created(w) \/ ReadSettings(w) \/ FindIface(w) \/ ListLeases(w) \/ AskLease(w)
               \/ CreateBackup(w) \/ Upload(w) \/ Detach(w) \/ Fail(w)
      <4>1. UNCHANGED <<conf, saved, fixedFor>>
        BY <3>1 DEF DetectConflict, Render, ScanNetworks, AfterUplink, LanChanged, LookAround, Created, ReadSettings,
                    FindIface, ListLeases, AskLease, CreateBackup, Upload, Detach, Fail, router, config, history
      <4>2. QED
        BY <4>1, LanSame
    <3>2. QED
      BY <2>5, <3>1, StagingKeepsLan, CommitsKeepLan, ChangeLanIpResolves, ApplyLanReplaces, ExtractReplaces DEF Work
  <2>6. CASE UNCHANGED vars
    BY <2>6, LanSame DEF vars
  <2>7. QED
    BY <2>1, <2>2, <2>3, <2>4, <2>5, <2>6 DEF Next, Outside
<1>3. TypeInv /\ [Next]_vars => TypeInv'
  BY NextTyped
<1>4. FixInv => FixResolves
  BY DEF FixInv
<1>5. QED
  BY <1>1, <1>2, <1>3, <1>4, PTL DEF Spec

-----------------------------------------------------------------------------
(* The jobs that are in the middle of something.                           *)

\* Jobs between the first change of an uplink and its commit, and jobs that hold positions.
Uplinking == {"wwan", "zone", "commitSta"}
Holding == {"drop", "unset"}

\* A step neither begins, ends nor moves a job that is at one of the steps.
JobsKeep(steps) == \A v \in Worker : job[v].at \in steps \/ job'[v].at \in steps =>
  /\ job'[v].at = job[v].at /\ job'[v].mac = job[v].mac
  /\ job'[v].list = job[v].list /\ job'[v].left = job[v].left

LEMMA KeepOne ==
  ASSUME TypeInv, NEW w \in Worker, NEW j, job' = [job EXCEPT ![w] = j], NEW steps,
         job[w].at \notin steps, j.at \notin steps
  PROVE JobsKeep(steps)
<1>1. job \in [Worker -> JobType]
  BY DEF TypeInv, JobOK
<1>2. ASSUME NEW v \in Worker, job[v].at \in steps \/ job'[v].at \in steps PROVE job'[v] = job[v]
  BY <1>1, <1>2
<1>3. QED
  BY <1>2 DEF JobsKeep

LEMMA KeepAll == ASSUME UNCHANGED job, NEW steps PROVE JobsKeep(steps)
  BY DEF JobsKeep

LEMMA KeepEnd ==
  ASSUME TypeInv, NEW w \in Worker, End(w), NEW steps \in {Uplinking, Holding}, job[w].at \notin steps
  PROVE JobsKeep(steps)
<1>1. Nothing.at \notin steps
  BY NothingOK DEF Uplinking, Holding
<1>2. job' = [job EXCEPT ![w] = Nothing]
  BY DEF End
<1>3. QED
  BY <1>1, <1>2, KeepOne

LEMMA KeepGoTo ==
  ASSUME TypeInv, NEW w \in Worker, NEW at, GoTo(w, at), NEW steps, job[w].at \notin steps, at \notin steps
  PROVE JobsKeep(steps)
<1> DEFINE j == [job[w] EXCEPT !.at = at]
<1>1. job' = [job EXCEPT ![w] = j]
  BY DEF GoTo
<1>2. j.at = at
  BY JobTyped DEF JobType
<1> HIDE DEF j
<1>3. QED
  BY <1>1, <1>2, KeepOne

LEMMA KeepBegin ==
  ASSUME TypeInv, NEW j \in JobType, Begin(j), NEW steps \in {Uplinking, Holding}, j.at \notin steps
  PROVE JobsKeep(steps)
<1>1. PICK w \in Worker : job[w] = Nothing /\ job' = [job EXCEPT ![w] = [j EXCEPT !.home = TRUE]]
  BY DEF Begin
<1> DEFINE k == [j EXCEPT !.home = TRUE]
<1>2. k.at = j.at
  BY DEF JobType
<1>3. job' = [job EXCEPT ![w] = k]
  BY <1>1
<1> HIDE DEF k
<1>4. job[w].at \notin steps
  BY <1>1, NothingOK DEF Uplinking, Holding
<1>5. QED
  BY <1>2, <1>3, <1>4, KeepOne

\* No button begins a job in the middle of it.
LEMMA KeepBegun ==
  ASSUME TypeInv, NEW at \in At \ (Uplinking \cup Holding), NEW steps \in {Uplinking, Holding},
         \/ Begin(Start(at))
         \/ \E p \in Proto : Begin([Start(at) EXCEPT !.proto = p])
         \/ \E s \in Ssid : Begin([Start(at) EXCEPT !.ssid = s])
         \/ \E r \in Radio : Begin([Start(at) EXCEPT !.ssid = "air", !.radio = r])
         \/ \E r \in Radio, s \in Ssid : Begin([Start(at) EXCEPT !.radio = r, !.ssid = s])
         \/ \E a \in Address, x \in Leases : Begin([Start(at) EXCEPT !.ip = a, !.wan = x])
         \/ \E m \in Mac : Begin([Start(at) EXCEPT !.mac = m])
         \/ \E f \in Form : Begin([Start(at) EXCEPT !.form = f])
  PROVE JobsKeep(steps)
<1> DEFINE Good(j) == j \in JobType /\ j.at = at
<1>1. Start(at) \in JobType /\ Start(at).at = at
  BY StartOK
<1>2. /\ Good(Start(at))
      /\ \A p \in Proto : Good([Start(at) EXCEPT !.proto = p])
      /\ \A s \in Ssid : Good([Start(at) EXCEPT !.ssid = s])
  BY <1>1 DEF JobType
<1>3. /\ \A r \in Radio : Good([Start(at) EXCEPT !.ssid = "air", !.radio = r])
      /\ \A r \in Radio, s \in Ssid : Good([Start(at) EXCEPT !.radio = r, !.ssid = s])
  <2>1. ASSUME NEW r \in Radio PROVE Good([Start(at) EXCEPT !.ssid = "air", !.radio = r])
    BY <1>1 DEF JobType
  <2>2. ASSUME NEW r \in Radio, NEW s \in Ssid PROVE Good([Start(at) EXCEPT !.radio = r, !.ssid = s])
    BY <1>1 DEF JobType
  <2>3. QED
    BY <2>1, <2>2
<1>4. \A a \in Address, x \in Leases : Good([Start(at) EXCEPT !.ip = a, !.wan = x])
  BY <1>1 DEF JobType
<1>5. /\ \A m \in Mac : Good([Start(at) EXCEPT !.mac = m])
      /\ \A f \in Form : Good([Start(at) EXCEPT !.form = f])
  BY <1>1 DEF JobType
<1>6. PICK j : Begin(j) /\ Good(j)
  BY <1>2, <1>3, <1>4, <1>5
<1>7. at \notin steps
  OBVIOUS
<1>8. QED
  BY <1>6, <1>7, KeepBegin

LEMMA KeepOpen ==
  ASSUME TypeInv, NEW name \in {"internet", "ap", "advanced"}, Open(name), NEW steps \in {Uplinking, Holding}
  PROVE JobsKeep(steps)
<1> DEFINE away == [w \in Worker |-> IF job[w] = Nothing THEN Nothing ELSE [job[w] EXCEPT !.home = FALSE]]
           at == IF name = "internet" THEN "conflict" ELSE "read"
           j == [Start(at) EXCEPT !.home = TRUE]
<1>1. ASSUME NEW v \in Worker
      PROVE /\ away[v].at = job[v].at /\ away[v].mac = job[v].mac
            /\ away[v].list = job[v].list /\ away[v].left = job[v].left
  BY JobTyped DEF JobType
<1>2. CASE name = "ap"
  <2>1. job' = away
    BY <1>2 DEF Open
  <2> HIDE DEF away
  <2>2. QED
    BY <1>1, <2>1 DEF JobsKeep
<1>3. CASE name # "ap"
  <2>1. PICK w \in Worker : job[w] = Nothing /\ job' = [away EXCEPT ![w] = j]
    BY <1>3 DEF Open
  <2>2. at \in At /\ at \notin steps
    BY DEF At, Uplinking, Holding
  <2>3. j.at = at
    BY <2>2, StartOK DEF JobType
  <2>4. DOMAIN away = Worker
    OBVIOUS
  <2> HIDE DEF away, j, at
  <2>5. job'[w] = j /\ \A v \in Worker \ {w} : job'[v] = away[v]
    BY <2>1, <2>4
  <2>6. job[w].at \notin steps
    BY <2>1, NothingOK DEF Uplinking, Holding
  <2>7. QED
    BY <1>1, <2>2, <2>3, <2>5, <2>6 DEF JobsKeep
<1>4. QED
  BY <1>2, <1>3

LEMMA UserKeeps == ASSUME TypeInv, User, NEW steps \in {Uplinking, Holding} PROVE JobsKeep(steps)
<1> DEFINE free == At \ (Uplinking \cup Holding)
<1>1. {"conflict", "scan", "stageWan", "iface", "move", "look", "find", "lan", "pin", "unpin",
       "backup", "upload", "reset"} \subseteq free
  BY DEF At, Uplinking, Holding
<1>2. page.conflict \in Leases \cup {None} /\ ToSet(page.hosts) \subseteq Mac
  BY DEF TypeInv, PageOK, PageType, ToSet
<1>3. CASE \E name \in {"internet", "ap", "advanced"} : Open(name)
  BY <1>3, KeepOpen
<1>4. CASE Reconnect \/ Edit \/ Arm
  BY <1>4, KeepAll DEF Reconnect, Edit, Arm
<1>5. CASE Refresh
  BY <1>1, <1>5, KeepBegun DEF Refresh
<1>6. CASE Scan
  BY <1>1, <1>6, KeepBegun DEF Scan
<1>7. CASE DoWan
  BY <1>1, <1>7, KeepBegun DEF DoWan
<1>8. CASE DoWifi
  <2>1. \E r \in Radio : Begin([Start("iface") EXCEPT !.ssid = "air", !.radio = r])
    BY <1>8 DEF DoWifi, RadioFor
  <2>2. QED
    BY <1>1, <2>1, KeepBegun
<1>9. CASE FixConflict
  <2>1. \E a \in Address, x \in Leases : Begin([Start("move") EXCEPT !.ip = a, !.wan = x])
    BY <1>2, <1>9 DEF FixConflict
  <2>2. QED
    BY <1>1, <2>1, KeepBegun
<1>10. CASE DoCreate
  BY <1>1, <1>10, KeepBegun DEF DoCreate
<1>11. CASE ApplyRadio
  <2>1. \E r \in Radio, s \in Ssid : Begin([Start("find") EXCEPT !.radio = r, !.ssid = s])
    BY <1>11 DEF ApplyRadio
  <2>2. QED
    BY <1>1, <2>1, KeepBegun
<1>12. CASE DoLanApply
  <2>1. page.lan \in Form
    BY <1>12 DEF DoLanApply, Cards, TypeInv, PageOK
  <2>2. QED
    BY <1>1, <1>12, <2>1, KeepBegun DEF DoLanApply
<1>13. CASE PinDevice
  <2>1. \E m \in Mac : Begin([Start("pin") EXCEPT !.mac = m])
    BY <1>13 DEF PinDevice
  <2>2. QED
    BY <1>1, <2>1, KeepBegun
<1>14. CASE UnpinDevice
  <2>1. \E m \in Mac : Begin([Start("unpin") EXCEPT !.mac = m])
    BY <1>2, <1>14 DEF UnpinDevice
  <2>2. QED
    BY <1>1, <2>1, KeepBegun
<1>15. ASSUME NEW at \in {"backup", "upload", "reset"}, Maintain(at) PROVE JobsKeep(steps)
  BY <1>1, <1>15, KeepBegun DEF Maintain
<1>16. QED
  BY <1>3, <1>4, <1>5, <1>6, <1>7, <1>8, <1>9, <1>10, <1>11, <1>12, <1>13, <1>14, <1>15 DEF User


\* A job moves itself only.
LEMMA KeepMove ==
  ASSUME NEW w \in Worker, NEW steps, job[w].at \notin steps, job'[w].at \notin steps,
         \A v \in Worker \ {w} : job'[v] = job[v]
  PROVE JobsKeep(steps)
  BY DEF JobsKeep

LEMMA LooksKeep ==
  ASSUME TypeInv, NEW w \in Worker, NEW steps \in {Uplinking, Holding},
         \/ DetectConflict(w) \/ Render(w) \/ ScanNetworks(w) \/ AfterUplink(w) \/ LanChanged(w)
         \/ LookAround(w) \/ Created(w) \/ ReadSettings(w) \/ FindIface(w)
         \/ CreateBackup(w) \/ Upload(w) \/ Detach(w)
  PROVE JobsKeep(steps)
<1> DEFINE Free(at) == at \notin Uplinking \cup Holding
<1>1. job \in [Worker -> JobType]
  BY DEF TypeInv, JobOK
<1>2. CASE DetectConflict(w)
  <2>1. job[w].at = "conflict" /\ job'[w].at = "ping" /\ \A v \in Worker \ {w} : job'[v] = job[v]
    BY <1>1, <1>2 DEF DetectConflict, Step, JobType
  <2>2. QED
    BY <2>1, KeepMove DEF Uplinking, Holding
<1>3. CASE Render(w) \/ ScanNetworks(w) \/ LanChanged(w) \/ Created(w) \/ ReadSettings(w) \/ CreateBackup(w) \/ Detach(w)
  <2>1. End(w) /\ job[w].at \in {"ping", "scan", "moved", "poll", "read", "backup", "reboot", "reset"}
    BY <1>3 DEF Render, ScanNetworks, LanChanged, Created, ReadSettings, CreateBackup, Detach, Step
  <2>2. job[w].at \notin steps
    BY <2>1 DEF Uplinking, Holding
  <2>3. QED
    BY <2>1, <2>2, KeepEnd
<1>4. CASE AfterUplink(w)
  <2>1. job[w].at = "wait"
    BY <1>4 DEF AfterUplink, Step
  <2>2. CASE End(w)
    BY <2>1, <2>2, KeepEnd DEF Uplinking, Holding
  <2>3. CASE job' = [job EXCEPT ![w] = [Start("conflict") EXCEPT !.home = TRUE]]
    <3>1. "conflict" \in At
      BY DEF At
    <3>2. job'[w].at = "conflict" /\ \A v \in Worker \ {w} : job'[v] = job[v]
      BY <1>1, <2>3, <3>1, StartOK DEF JobType
    <3>3. QED
      BY <2>1, <3>2, KeepMove DEF Uplinking, Holding
  <2>4. QED
    BY <1>4, <2>2, <2>3 DEF AfterUplink
<1>5. CASE LookAround(w)
  <2>1. job[w].at = "look" /\ job'[w].at = "stageAp" /\ \A v \in Worker \ {w} : job'[v] = job[v]
    BY <1>1, <1>5 DEF LookAround, Step, JobType
  <2>2. QED
    BY <2>1, KeepMove DEF Uplinking, Holding
<1>6. CASE FindIface(w)
  <2>1. job[w].at = "find" /\ job'[w].at = "radio" /\ \A v \in Worker \ {w} : job'[v] = job[v]
    BY <1>1, <1>6 DEF FindIface, Step, JobType
  <2>2. QED
    BY <2>1, KeepMove DEF Uplinking, Holding
<1>7. CASE Upload(w)
  <2>1. GoTo(w, "extract") /\ job[w].at = "upload"
    BY <1>7 DEF Upload, Step
  <2>2. QED
    BY <2>1, KeepGoTo DEF Uplinking, Holding
<1>8. QED
  BY <1>2, <1>3, <1>4, <1>5, <1>6, <1>7

LEMMA WritesKeep ==
  ASSUME TypeInv, NEW w \in Worker, NEW steps \in {Uplinking, Holding},
         \/ StageWan(w) \/ CommitWan(w) \/ ChangeLanIp(w) \/ StageAp(w) \/ CommitAp(w)
         \/ WriteRadio(w) \/ ApplyLan(w) \/ Extract(w)
  PROVE JobsKeep(steps)
<1>1. CASE WriteRadio(w) \/ ApplyLan(w)
  <2>1. End(w) /\ job[w].at \in {"radio", "lan"}
    BY <1>1 DEF WriteRadio, ApplyLan, Step
  <2>2. job[w].at \notin steps
    BY <2>1 DEF Uplinking, Holding
  <2>3. QED
    BY <2>1, <2>2, KeepEnd
<1>2. CASE StageWan(w) \/ CommitWan(w) \/ ChangeLanIp(w) \/ CommitAp(w) \/ Extract(w)
  <2>1. PICK at \in {"commitWan", "wait", "moved", "poll", "reboot"} : GoTo(w, at)
    BY <1>2 DEF StageWan, CommitWan, ChangeLanIp, CommitAp, Extract
  <2>2. job[w].at \in {"stageWan", "commitWan", "move", "stageAp", "extract"}
    BY <1>2 DEF StageWan, CommitWan, ChangeLanIp, CommitAp, Extract, Step
  <2>3. job[w].at \notin steps /\ at \notin steps
    BY <2>2 DEF Uplinking, Holding
  <2>4. QED
    BY <2>1, <2>3, KeepGoTo
<1>3. CASE StageAp(w)
  <2>1. /\ job[w].at = "stageAp" /\ job'[w].at = "stageAp"
        /\ \A v \in Worker \ {w} : job'[v] = job[v]
    BY <1>3, JobTyped DEF StageAp, Step, TypeInv, JobOK, JobType
  <2>2. QED
    BY <2>1, KeepMove DEF Uplinking, Holding
<1>4. QED
  BY <1>1, <1>2, <1>3

\* The jobs of an uplink do not touch those that hold positions, and these not those.
LEMMA UplinkKeepsHolders ==
  ASSUME TypeInv, NEW w \in Worker, StageIface(w) \/ StageWwan(w) \/ AddToZone(w) \/ CommitSta(w)
  PROVE JobsKeep(Holding)
<1>1. PICK at \in {"wwan", "zone", "commitSta", "wait"} : GoTo(w, at)
  BY DEF StageIface, StageWwan, AddToZone, CommitSta
<1>2. job[w].at \in {"iface", "wwan", "zone", "commitSta"}
  BY DEF StageIface, StageWwan, AddToZone, CommitSta, Step
<1>3. QED
  BY <1>1, <1>2, KeepGoTo DEF Holding

LEMMA HoldersKeepUplink ==
  ASSUME TypeInv, NEW w \in Worker,
         ListLeases(w) \/ AskLease(w) \/ DropLease(w) \/ AddLease(w) \/ RemoveLease(w)
  PROVE JobsKeep(Uplinking)
<1>1. job \in [Worker -> JobType]
  BY DEF TypeInv, JobOK
<1>2. job[w].at \in {"pin", "unpin", "drop", "unset"}
  BY DEF ListLeases, AskLease, DropLease, AddLease, RemoveLease, StepListed, Step
<1>3. CASE ListLeases(w)
  <2>1. job'[w].at \in {"drop", "unset"} /\ \A v \in Worker \ {w} : job'[v] = job[v]
    BY <1>1, <1>3 DEF ListLeases, JobType
  <2>2. QED
    BY <1>2, <2>1, KeepMove DEF Uplinking
<1>4. CASE AskLease(w) \/ DropLease(w)
  <2>1. job'[w].at = job[w].at /\ \A v \in Worker \ {w} : job'[v] = job[v]
    BY <1>1, <1>4 DEF AskLease, DropLease, JobType
  <2>2. QED
    BY <1>2, <2>1, KeepMove DEF Uplinking
<1>5. CASE AddLease(w) \/ RemoveLease(w)
  <2>1. UNCHANGED <<page, backup>>
        /\ job' = [job EXCEPT ![w] = IF job[w].home THEN [Start("read") EXCEPT !.home = TRUE] ELSE Nothing]
    BY <1>5 DEF AddLease, RemoveLease
  <2>2. ScreenOf(job[w].at) = "advanced"
    BY <1>2 DEF ScreenOf
  <2>3. job'[w].at \in {"read", "idle"} /\ \A v \in Worker \ {w} : job'[v] = job[v]
    BY <2>1, <2>2, AgainTyped
  <2>4. QED
    BY <1>2, <2>3, KeepMove DEF Uplinking
<1>6. QED
  BY <1>3, <1>4, <1>5


-----------------------------------------------------------------------------
(* The uplink is whole.                                                    *)

\* What of a configuration is the uplink's; is it whole?
UpOf(c) == <<c.wireless["sta"], c.network.wwan, c.firewall>>
Routed(c, excused) == c.wireless["sta"].mode = "sta" => c.network.wwan /\ (c.firewall > 0 \/ excused)

\* Unless a job is between its first change and its commit nothing of an uplink is staged, and
\* what that job has behind it is there.
WholeInv ==
  /\ Routed(saved, unzoned)
  /\ backup \in NoApUplink => Routed(backup, unzoned)
  /\ (\E w \in Worker : Unfinished(w)) \/ UpOf(conf) = UpOf(saved)
  /\ linked => \A w \in Worker : /\ job[w].at \in {"zone", "commitSta"} => conf.network.wwan
                                 /\ job[w].at = "commitSta" => conf.firewall > 0 \/ unzoned

\* Nothing of the uplink changes, in the configurations or in the jobs.
LEMMA UpSame ==
  ASSUME WholeInv, unzoned => unzoned', JobsKeep(Uplinking), UpOf(conf') = UpOf(conf), UpOf(saved') = UpOf(saved),
         backup' \in {backup, saved}, linked' => linked
  PROVE WholeInv'
<1>1. conf'.network.wwan = conf.network.wwan /\ conf'.firewall = conf.firewall
  BY DEF UpOf
<1>2. saved'.wireless["sta"] = saved.wireless["sta"] /\ saved'.network.wwan = saved.network.wwan
      /\ saved'.firewall = saved.firewall
  BY DEF UpOf
<1>3. Routed(saved', unzoned') /\ (backup' \in NoApUplink => Routed(backup', unzoned'))
  BY <1>2 DEF WholeInv, Routed
<1>4. (\E w \in Worker : job'[w].at \in Uplinking) \/ UpOf(conf') = UpOf(saved')
  BY DEF WholeInv, Unfinished, JobsKeep, Uplinking
<1>5. linked' => \A w \in Worker : /\ job'[w].at \in {"zone", "commitSta"} => conf'.network.wwan
                                   /\ job'[w].at = "commitSta" => conf'.firewall > 0 \/ unzoned'
  <2> SUFFICES ASSUME linked', NEW w \in Worker, job'[w].at \in {"zone", "commitSta"}
               PROVE conf'.network.wwan /\ (job'[w].at = "commitSta" => conf'.firewall > 0 \/ unzoned')
    OBVIOUS
  <2>1. job[w].at = job'[w].at
    BY DEF JobsKeep, Uplinking
  <2>2. QED
    BY <1>1, <2>1 DEF WholeInv
<1>6. QED
  BY <1>3, <1>4, <1>5 DEF WholeInv, Unfinished, Uplinking

LEMMA UpStaged ==
  ASSUME WholeInv, unzoned => unzoned', JobsKeep(Uplinking), NEW c, Stage(c), UpOf(c) = UpOf(conf), backup' = backup, linked' => linked
  PROVE WholeInv'
  BY UpSame DEF Stage

\* A commit by another job finds nothing of the uplink to commit, or is taken note of.
LEMMA UpCommitted ==
  ASSUME WholeInv, unzoned => unzoned', JobsKeep(Uplinking), NEW w \in Worker, ~Unfinished(w), Tear(w),
         NEW c, NEW pkgs, Commit(c, pkgs), UpOf(c) = UpOf(conf), backup' = backup, linked' => linked
  PROVE torn' \/ WholeInv'
<1>1. CASE \E v \in Worker : Unfinished(v)
  BY <1>1 DEF Tear
<1>2. CASE ~\E v \in Worker : Unfinished(v)
  <2>1. UpOf(conf) = UpOf(saved)
    BY <1>2 DEF WholeInv
  <2>2. /\ conf' = c /\ saved'.wireless \in {c.wireless, saved.wireless}
        /\ saved'.network \in {c.network, saved.network} /\ saved'.firewall \in {c.firewall, saved.firewall}
    BY DEF Commit, Package
  <2>3. UpOf(saved') = UpOf(saved)
    BY <2>1, <2>2 DEF UpOf
  <2>4. QED
    BY <2>2, <2>3, UpSame
<1>3. QED
  BY <1>1, <1>2

LEMMA UpOfChanges ==
  ASSUME TypeInv
  PROVE /\ \A i : \A s \in (Section \cup {None}) \ {"sta"} : UpOf([conf EXCEPT !.wireless[s] = i]) = UpOf(conf)
        /\ \A s : UpOf([conf EXCEPT !.dhcp.hosts = s]) = UpOf(conf)
<1>1. conf \in Config /\ conf.wireless \in [Section -> Iface]
  BY ConfigParts DEF TypeInv, ConfigOK, NoApUplink
<1>2. \A i : \A s \in (Section \cup {None}) \ {"sta"} : UpOf([conf EXCEPT !.wireless[s] = i]) = UpOf(conf)
  BY <1>1 DEF UpOf, Config, Section
<1>3. \A s : UpOf([conf EXCEPT !.dhcp.hosts = s]) = UpOf(conf)
  BY <1>1 DEF UpOf, Config
<1>4. QED
  BY <1>2, <1>3

\* A change of the packages network and dhcp that is not about 'wwan'.
LEMMA UpOfLan ==
  ASSUME TypeInv, NEW c, c.wireless = conf.wireless, c.firewall = conf.firewall,
         c.network.wwan = conf.network.wwan
  PROVE UpOf(c) = UpOf(conf)
  BY DEF UpOf

LEMMA OthersStage ==
  ASSUME TypeInv, WholeInv, unzoned => unzoned', NEW w \in Worker, StageWan(w) \/ StageAp(w) \/ DropLease(w)
  PROVE WholeInv'
<1>0. conf \in Config /\ conf.network \in NetworkOf
  BY ConfigParts DEF TypeInv, ConfigOK, NoApUplink
<1>1. JobsKeep(Uplinking) /\ backup' = backup /\ linked' = linked
  BY WritesKeep, HoldersKeepUplink DEF StageWan, StageAp, DropLease
<1>2. CASE StageWan(w)
  <2> DEFINE c == [conf EXCEPT !.network.proto = job[w].proto,
                               !.network.opts = (@ \ WanOption) \cup OptionsOf(job[w].proto)]
  <2>1. Stage(c)
    BY <1>2 DEF StageWan
  <2>2. c.wireless = conf.wireless /\ c.firewall = conf.firewall /\ c.network.wwan = conf.network.wwan
    BY <1>0 DEF Config, NetworkOf
  <2> HIDE DEF c
  <2>3. QED
    BY <1>1, <2>1, <2>2, UpOfLan, UpStaged
<1>3. CASE StageAp(w)
  <2>1. PICK r \in job[w].todo :
          Stage([conf EXCEPT !.wireless[r] = [device |-> r, mode |-> "ap", ssid |-> job[w].ssid]])
    BY <1>3 DEF StageAp
  <2>2. r \in (Section \cup {None}) \ {"sta"}
    BY JobTyped, NetworkAssumption DEF NetworkAssumption, JobType, Section
  <2>3. QED
    BY <1>1, <2>1, <2>2, UpOfChanges, UpStaged
<1>4. CASE DropLease(w)
  <2>1. PICK hosts : Stage([conf EXCEPT !.dhcp.hosts = hosts])
    BY <1>4 DEF DropLease
  <2>2. QED
    BY <1>1, <2>1, UpOfChanges, UpStaged
<1>5. QED
  BY <1>2, <1>3, <1>4

LEMMA OthersCommit ==
  ASSUME TypeInv, WholeInv, unzoned => unzoned', NEW w \in Worker,
         CommitWan(w) \/ ChangeLanIp(w) \/ CommitAp(w) \/ WriteRadio(w) \/ ApplyLan(w)
  PROVE torn' \/ WholeInv'
<1>0. conf \in Config /\ conf.network \in NetworkOf /\ conf.dhcp \in DhcpOf
  BY ConfigParts DEF TypeInv, ConfigOK, NoApUplink
<1>1. JobsKeep(Uplinking) /\ backup' = backup /\ linked' = linked /\ Tear(w)
  BY WritesKeep DEF CommitWan, ChangeLanIp, CommitAp, WriteRadio, ApplyLan
<1>2. ~Unfinished(w)
  BY DEF Unfinished, CommitWan, ChangeLanIp, CommitAp, WriteRadio, ApplyLan, Step
<1>3. CASE CommitWan(w) \/ CommitAp(w)
  BY <1>1, <1>2, <1>3, UpCommitted DEF CommitWan, CommitAp
<1>4. CASE ChangeLanIp(w)
  <2>1. PICK form : Commit([conf EXCEPT !.network.ip = job[w].ip, !.network.mask = 24, !.network.form = form],
                           {"network"})
    BY <1>4 DEF ChangeLanIp
  <2> DEFINE c == [conf EXCEPT !.network.ip = job[w].ip, !.network.mask = 24, !.network.form = form]
  <2>2. Commit(c, {"network"})
    BY <2>1
  <2>3. c.wireless = conf.wireless /\ c.firewall = conf.firewall /\ c.network.wwan = conf.network.wwan
    BY <1>0 DEF Config, NetworkOf
  <2> HIDE DEF c
  <2>4. QED
    BY <1>1, <1>2, <2>2, <2>3, UpOfLan, UpCommitted
<1>5. CASE WriteRadio(w)
  <2> DEFINE c == [conf EXCEPT !.wireless[job[w].section] =
                     [device |-> job[w].radio, mode |-> "ap", ssid |-> job[w].ssid]]
  <2>1. job[w].section \in (Section \cup {None}) \ {"sta"}
    BY JobTyped DEF HasArgs, JobType
  <2>2. UpOf(c) = UpOf(conf) /\ Commit(c, {"wireless"})
    BY <1>5, <2>1, UpOfChanges DEF WriteRadio
  <2> HIDE DEF c
  <2>3. QED
    BY <1>1, <1>2, <2>2, UpCommitted
<1>6. CASE ApplyLan(w)
  <2> DEFINE c == [conf EXCEPT !.network.ip = job[w].form.ip, !.network.mask = job[w].form.mask,
                               !.network.form = FormOf(release),
                               !.dhcp.start = job[w].form.start, !.dhcp.limit = job[w].form.limit]
  <2>1. Commit(c, {"network", "dhcp"})
    BY <1>6 DEF ApplyLan
  <2>2. c.wireless = conf.wireless /\ c.firewall = conf.firewall /\ c.network.wwan = conf.network.wwan
    BY <1>0 DEF Config, NetworkOf, DhcpOf
  <2> HIDE DEF c
  <2>3. QED
    BY <1>1, <1>2, <2>1, <2>2, UpOfLan, UpCommitted
<1>7. QED
  BY <1>3, <1>4, <1>5, <1>6

\* The reservations are a package of their own.
LEMMA HoldersCommit ==
  ASSUME TypeInv, WholeInv, unzoned => unzoned', NEW w \in Worker, AddLease(w) \/ RemoveLease(w)
  PROVE WholeInv'
<1>1. JobsKeep(Uplinking) /\ backup' = backup /\ linked' = linked
  BY HoldersKeepUplink DEF AddLease, RemoveLease
<1>2. PICK hosts : Commit([conf EXCEPT !.dhcp.hosts = hosts], {"dhcp"})
  BY DEF AddLease, RemoveLease
<1> DEFINE c == [conf EXCEPT !.dhcp.hosts = hosts]
<1>3. UpOf(c) = UpOf(conf) /\ Commit(c, {"dhcp"})
  BY <1>2, UpOfChanges
<1> HIDE DEF c
<1>4. UpOf(conf') = UpOf(conf) /\ UpOf(saved') = UpOf(saved)
  BY <1>3 DEF Commit, Package, UpOf
<1>5. QED
  BY <1>1, <1>4, UpSame


\* The steps of an uplink's own job.
LEMMA UplinkMoves ==
  ASSUME TypeInv, NEW w \in Worker, NEW at, GoTo(w, at)
  PROVE job'[w].at = at /\ \A v \in Worker \ {w} : job'[v] = job[v]
  BY DEF GoTo, TypeInv, JobOK, JobType

LEMMA UplinkStages ==
  ASSUME TypeInv, WholeInv, unzoned => unzoned', NEW w \in Worker, StageIface(w) \/ StageWwan(w) \/ AddToZone(w)
  PROVE WholeInv'
<1>1. /\ conf \in Config /\ conf.network \in NetworkOf /\ conf.firewall \in Nat
      /\ saved' = saved /\ backup' = backup /\ linked /\ linked'
  <2>1. conf \in Config /\ conf.network \in NetworkOf /\ conf.firewall \in Nat
    BY ConfigParts DEF TypeInv, ConfigOK, NoApUplink
  <2>2. saved' = saved /\ backup' = backup /\ linked /\ linked'
    BY DEF StageIface, StageWwan, AddToZone, Stage, Step, config
  <2>3. QED
    BY <2>1, <2>2
<1>2. PICK at \in {"wwan", "zone", "commitSta"} : GoTo(w, at)
  BY DEF StageIface, StageWwan, AddToZone
<1>3. job'[w].at = at /\ \A v \in Worker \ {w} : job'[v] = job[v]
  BY <1>2, UplinkMoves
<1>4. /\ conf.network.wwan => conf'.network.wwan
      /\ conf.firewall > 0 => conf'.firewall > 0
      /\ at \in {"zone", "commitSta"} => conf'.network.wwan
      /\ at = "commitSta" => conf'.firewall > 0 \/ unzoned'
  <2>1. CASE StageIface(w)
    <3>1. conf'.network = conf.network /\ conf'.firewall = conf.firewall /\ job'[w].at = "wwan"
      BY <1>1, <2>1, UplinkMoves DEF StageIface, Stage, Config
    <3>2. QED
      BY <1>3, <3>1
  <2>2. CASE StageWwan(w)
    <3>1. conf'.network.wwan /\ conf'.firewall = conf.firewall /\ job'[w].at = "zone"
      BY <1>1, <2>2, UplinkMoves DEF StageWwan, Stage, Config, NetworkOf
    <3>2. QED
      BY <1>3, <3>1
  <2>3. CASE AddToZone(w)
    <3>1. /\ conf'.network = conf.network /\ job[w].at = "zone"
          /\ conf'.firewall = conf.firewall + 1 \/ (conf' = conf /\ unzoned')
      BY <1>1, <2>3 DEF AddToZone, Stage, Config, Step, config
    <3>2. conf.network.wwan
      BY <1>1, <3>1 DEF WholeInv
    <3>3. QED
      BY <1>1, <3>1, <3>2
  <2>4. QED
    BY <2>1, <2>2, <2>3
<1>5. \A v \in Worker : /\ job'[v].at \in {"zone", "commitSta"} => conf'.network.wwan
                        /\ job'[v].at = "commitSta" => conf'.firewall > 0 \/ unzoned'
  BY <1>1, <1>3, <1>4 DEF WholeInv
<1>6. \E v \in Worker : job'[v].at \in {"wwan", "zone", "commitSta"}
  BY <1>3
<1>7. Routed(saved', unzoned') /\ (backup' \in NoApUplink => Routed(backup', unzoned'))
  BY <1>1 DEF WholeInv, Routed
<1>8. QED
  BY <1>5, <1>6, <1>7 DEF WholeInv, Unfinished

LEMMA UplinkCommits == ASSUME TypeInv, WholeInv, unzoned => unzoned', NEW w \in Worker, CommitSta(w) PROVE torn' \/ WholeInv'
<1>1. CASE \E v \in Worker \ {w} : Unfinished(v)
  BY <1>1 DEF CommitSta, Tear
<1>2. CASE ~\E v \in Worker \ {w} : Unfinished(v)
  <2>1. linked /\ job[w].at = "commitSta" /\ backup' = backup
    BY DEF CommitSta, Step
  <2>2. conf.network.wwan /\ (conf.firewall > 0 \/ unzoned)
    BY <2>1 DEF WholeInv
  <2>3. /\ conf' = conf /\ saved'.wireless = conf.wireless
        /\ saved'.network = conf.network /\ saved'.firewall = conf.firewall
    BY DEF CommitSta, Commit, UplinkPackages, Package
  <2>4. Routed(saved', unzoned') /\ (backup' \in NoApUplink => Routed(backup', unzoned')) /\ UpOf(conf') = UpOf(saved')
    BY <2>1, <2>2, <2>3 DEF WholeInv, Routed, UpOf
  <2>5. \A v \in Worker : job'[v].at \notin {"zone", "commitSta"}
    BY <1>2, UplinkMoves DEF CommitSta, Unfinished
  <2>6. QED
    BY <2>4, <2>5 DEF WholeInv
<1>3. QED
  BY <1>1, <1>2

LEMMA UpExtract == ASSUME TypeInv, WholeInv, unzoned => unzoned', NEW w \in Worker, Extract(w) PROVE torn' \/ WholeInv'
<1>1. CASE \E v \in Worker \ {w} : Unfinished(v)
  BY <1>1 DEF Extract, Tear
<1>2. CASE ~\E v \in Worker \ {w} : Unfinished(v)
  <2>1. job[w].at = "extract" /\ backup \in NoApUplink
    BY JobTyped DEF Extract, Step, HasArgs
  <2>2. conf \in NoApUplink /\ saved \in NoApUplink /\ saved.firewall <= conf.firewall
    BY DEF TypeInv, ConfigOK
  <2>3. saved' = backup /\ conf' = Merged(saved, conf, backup) /\ backup' = backup
    BY DEF Extract, Merged
  <2>4. UpOf(conf) = UpOf(saved)
    BY <1>2, <2>1 DEF WholeInv, Unfinished, Routed
  <2>5. UpOf(conf') = UpOf(saved')
    <3>1. backup.firewall \in Nat /\ conf.firewall \in Nat
      BY <2>1, <2>2, ConfigParts DEF NoApUplink
    <3>2. QED
      BY <2>1, <2>2, <2>3, <2>4, <3>1, MergedOK DEF UpOf
  <2>6. \A v \in Worker : job'[v].at \notin {"zone", "commitSta"}
    BY <1>2, UplinkMoves DEF Extract, Unfinished
  <2>7. QED
    BY <2>1, <2>3, <2>5, <2>6 DEF WholeInv, Routed
<1>3. QED
  BY <1>1, <1>2

LEMMA UpFail == ASSUME TypeInv, WholeInv, unzoned => unzoned', NEW w \in Worker, Fail(w) PROVE torn' \/ WholeInv'
<1>1. CASE Unfinished(w)
  BY <1>1 DEF Fail
<1>2. CASE ~Unfinished(w)
  <2>1. JobsKeep(Uplinking)
    BY <1>2, KeepEnd DEF Fail, Unfinished, Uplinking
  <2>2. QED
    BY <2>1, UpSame DEF Fail, router, config
<1>3. QED
  BY <1>1, <1>2

LEMMA UpUser == ASSUME TypeInv, WholeInv, unzoned => unzoned', User PROVE WholeInv'
<1>1. JobsKeep(Uplinking)
  BY UserKeeps
<1>2. UNCHANGED <<conf, saved, backup>>
  BY DEF User, Open, Reconnect, Refresh, Scan, DoWan, DoWifi, FixConflict, DoCreate, ApplyRadio, Edit, Arm,
         DoLanApply, PinDevice, UnpinDevice, Maintain, router, config
<1>3. CASE Reconnect
  <2>1. \A w \in Worker : job'[w].at = "idle" /\ job[w].at = "idle"
    BY <1>3, NothingOK DEF Reconnect
  <2>2. QED
    BY <1>2, <2>1 DEF WholeInv, Unfinished, Routed
<1>4. CASE ~Reconnect
  <2>1. linked' = linked
    BY <1>4 DEF User, Open, Refresh, Scan, DoWan, DoWifi, FixConflict, DoCreate, ApplyRadio, Edit, Arm,
                DoLanApply, PinDevice, UnpinDevice, Maintain, router
  <2>2. QED
    BY <1>1, <1>2, <2>1, UpSame
<1>5. QED
  BY <1>3, <1>4

LEMMA UpOutside == ASSUME TypeInv, WholeInv, unzoned => unzoned', Outside PROVE WholeInv'
<1>1. JobsKeep(Uplinking) /\ backup' = backup /\ (linked' => linked)
  BY KeepAll DEF Outside, Renew, Reload, Reboot, FirstBoot, TypeInv, RouterOK
<1>2. CASE Renew \/ Reload
  BY <1>1, <1>2, UpSame DEF Renew, Reload, config
<1>3. CASE Reboot
  BY <1>1, <1>3 DEF Reboot, WholeInv, Routed
<1>4. CASE FirstBoot
  <2>1. saved'.wireless["sta"] = Absent /\ conf' = saved' /\ ~linked'
    BY <1>4, FreshOK DEF FirstBoot, TypeInv, RouterOK
  <2>2. Routed(saved', unzoned')
    BY <2>1 DEF Routed, Absent
  <2>3. QED
    BY <1>1, <2>1, <2>2 DEF WholeInv, Routed
<1>5. QED
  BY <1>2, <1>3, <1>4 DEF Outside

LEMMA UpWork == ASSUME TypeInv, WholeInv, unzoned => unzoned', NEW w \in Worker, Work(w) PROVE torn' \/ WholeInv'
<1>1. CASE \/ DetectConflict(w) \/ Render(w) \/ ScanNetworks(w) \/ AfterUplink(w) \/ LanChanged(w)
           \/ LookAround(w) \/ Created(w) \/ ReadSettings(w) \/ FindIface(w)
           \/ CreateBackup(w) \/ Upload(w) \/ Detach(w)
  <2>1. UNCHANGED <<conf, saved, linked>> /\ backup' \in {backup, saved}
    BY <1>1 DEF DetectConflict, Render, ScanNetworks, AfterUplink, LanChanged, LookAround, Created, ReadSettings,
                FindIface, CreateBackup, Upload, Detach, router, config
  <2>2. JobsKeep(Uplinking)
    BY <1>1, LooksKeep
  <2>3. QED
    BY <2>1, <2>2, UpSame
<1>2. CASE ListLeases(w) \/ AskLease(w)
  <2>1. JobsKeep(Uplinking)
    BY <1>2, HoldersKeepUplink
  <2>2. QED
    BY <1>2, <2>1, UpSame DEF ListLeases, AskLease, router, config
<1>3. CASE StageWan(w) \/ StageAp(w) \/ DropLease(w)
  BY <1>3, OthersStage
<1>4. CASE CommitWan(w) \/ ChangeLanIp(w) \/ CommitAp(w) \/ WriteRadio(w) \/ ApplyLan(w)
  BY <1>4, OthersCommit
<1>5. CASE AddLease(w) \/ RemoveLease(w)
  BY <1>5, HoldersCommit
<1>6. CASE StageIface(w) \/ StageWwan(w) \/ AddToZone(w)
  BY <1>6, UplinkStages
<1>7. CASE CommitSta(w) \/ Extract(w) \/ Fail(w)
  BY <1>7, UplinkCommits, UpExtract, UpFail
<1>8. QED
  BY <1>1, <1>2, <1>3, <1>4, <1>5, <1>6, <1>7 DEF Work

\* What excuses an uplink stays.
LEMMA TornStays == torn /\ [Next]_vars => torn'
<1> SUFFICES ASSUME torn, [Next]_vars PROVE torn'
  OBVIOUS
<1>1. CASE User
  BY <1>1 DEF User, Open, Reconnect, Refresh, Scan, DoWan, DoWifi, FixConflict, DoCreate, ApplyRadio, Edit, Arm,
              DoLanApply, PinDevice, UnpinDevice, Maintain, history
<1>2. CASE Outside
  BY <1>2 DEF Outside, Renew, Reload, Reboot, FirstBoot, history
<1>3. ASSUME NEW w \in Worker, Work(w) PROVE torn'
  <2>1. CASE \/ CommitWan(w) \/ CommitSta(w) \/ CommitAp(w) \/ WriteRadio(w) \/ ApplyLan(w) \/ ChangeLanIp(w)
             \/ Extract(w) \/ Fail(w)
    BY <2>1 DEF CommitWan, CommitSta, CommitAp, WriteRadio, ApplyLan, ChangeLanIp, Extract, Fail, Tear
  <2>2. CASE \/ DetectConflict(w) \/ Render(w) \/ ScanNetworks(w) \/ AfterUplink(w) \/ LanChanged(w)
             \/ LookAround(w) \/ Created(w) \/ ReadSettings(w) \/ FindIface(w) \/ ListLeases(w) \/ AskLease(w)
             \/ CreateBackup(w) \/ Upload(w) \/ Detach(w)
    BY <2>2 DEF DetectConflict, Render, ScanNetworks, AfterUplink, LanChanged, LookAround, Created, ReadSettings,
                FindIface, ListLeases, AskLease, CreateBackup, Upload, Detach, history
  <2>3. CASE \/ StageWan(w) \/ StageIface(w) \/ StageWwan(w) \/ AddToZone(w) \/ StageAp(w)
             \/ DropLease(w) \/ AddLease(w) \/ RemoveLease(w)
    BY <2>3 DEF StageWan, StageIface, StageWwan, AddToZone, StageAp, DropLease, AddLease, RemoveLease, history
  <2>4. QED
    BY <1>3, <2>1, <2>2, <2>3 DEF Work
<1>4. CASE UNCHANGED vars
  BY <1>4 DEF vars
<1>5. QED
  BY <1>1, <1>2, <1>3, <1>4 DEF Next

LEMMA UnzonedStays == unzoned /\ [Next]_vars => unzoned'
<1> SUFFICES ASSUME unzoned, [Next]_vars PROVE unzoned'
  OBVIOUS
<1>1. CASE User
  BY <1>1 DEF User, Open, Reconnect, Refresh, Scan, DoWan, DoWifi, FixConflict, DoCreate, ApplyRadio, Edit, Arm,
              DoLanApply, PinDevice, UnpinDevice, Maintain, history
<1>2. CASE Outside
  BY <1>2 DEF Outside, Renew, Reload, Reboot, FirstBoot, history
<1>3. ASSUME NEW w \in Worker, Work(w) PROVE unzoned'
  <2>1. CASE \/ CommitWan(w) \/ CommitSta(w) \/ CommitAp(w) \/ WriteRadio(w) \/ ApplyLan(w) \/ ChangeLanIp(w)
             \/ Extract(w) \/ Fail(w) \/ AddToZone(w) \/ DropLease(w) \/ AddLease(w) \/ RemoveLease(w)
    BY <2>1 DEF CommitWan, CommitSta, CommitAp, WriteRadio, ApplyLan, ChangeLanIp, Extract, Fail, AddToZone,
                DropLease, AddLease, RemoveLease
  <2>2. CASE \/ DetectConflict(w) \/ Render(w) \/ ScanNetworks(w) \/ AfterUplink(w) \/ LanChanged(w)
             \/ LookAround(w) \/ Created(w) \/ ReadSettings(w) \/ FindIface(w) \/ ListLeases(w) \/ AskLease(w)
             \/ CreateBackup(w) \/ Upload(w) \/ Detach(w)
             \/ StageWan(w) \/ StageIface(w) \/ StageWwan(w) \/ StageAp(w)
    BY <2>2 DEF DetectConflict, Render, ScanNetworks, AfterUplink, LanChanged, LookAround, Created, ReadSettings,
                FindIface, ListLeases, AskLease, CreateBackup, Upload, Detach, StageWan, StageIface, StageWwan,
                StageAp, history
  <2>3. QED
    BY <1>3, <2>1, <2>2 DEF Work
<1>4. CASE UNCHANGED vars
  BY <1>4 DEF vars
<1>5. QED
  BY <1>1, <1>2, <1>3, <1>4 DEF Next

\* A Wi-Fi uplink in the flash has its network and its place in the firewall's zone, in whatever
\* order the commands of several screens, a restore and restarts come, unless its own job failed
\* half-way or a commit of another job came into the middle of it.
THEOREM UplinkIsWhole == Spec => []UplinkRouted
<1>1. Init => TypeInv /\ WholeInv
  <2> SUFFICES ASSUME Init PROVE WholeInv
    BY InitTyped
  <2>1. saved = conf /\ backup = None /\ conf.wireless["sta"] = Absent /\ \A w \in Worker : job[w].at = "idle"
    BY InitHosts, NothingOK DEF Init
  <2>2. None \notin NoApUplink
    BY NoneAssumption DEF NoApUplink
  <2>3. QED
    BY <2>1, <2>2 DEF WholeInv, Routed, Absent
<1>2. TypeInv /\ (torn \/ WholeInv) /\ [Next]_vars => torn' \/ WholeInv'
  <2> SUFFICES ASSUME TypeInv, WholeInv, ~torn, [Next]_vars PROVE torn' \/ WholeInv'
    BY TornStays
  <2>1. unzoned => unzoned'
    BY UnzonedStays
  <2>2. CASE UNCHANGED vars
    BY <2>1, <2>2, KeepAll, UpSame DEF vars
  <2>3. QED
    BY <2>1, <2>2, UpUser, UpOutside, UpWork DEF Next
<1>3. TypeInv /\ [Next]_vars => TypeInv'
  BY NextTyped
<1>4. torn \/ WholeInv => UplinkRouted
  BY DEF WholeInv, UplinkRouted, Routed
<1>5. QED
  BY <1>1, <1>2, <1>3, <1>4, PTL DEF Spec


-----------------------------------------------------------------------------
(* Reservations stay.                                                      *)

HostsOf(c) == c.dhcp.hosts
Unique(hosts) == \A i, k \in 1..Len(hosts) : hosts[i] = hosts[k] => i = k

PositionsOf(m, hosts) == {i \in 1..Len(hosts) : hosts[i] = m}

\* What a job knows of its device's positions: none that is wrong, all but those it has yet to
\* ask for.
Knows(j, hosts) ==
  /\ j.list \subseteq PositionsOf(j.mac, hosts)
  /\ PositionsOf(j.mac, hosts) \subseteq j.list \cup j.left

\* A device has one reservation; none is in the flash only because its deletion is not; a job
\* that reads or holds positions is right about them.
KeptInv ==
  /\ Unique(HostsOf(conf)) /\ Unique(HostsOf(saved))
  /\ backup \in NoApUplink => Unique(HostsOf(backup))
  /\ ToSet(HostsOf(conf)) \subseteq ToSet(HostsOf(saved))
  /\ linked => \A w \in Worker : job[w].at \in Holding => Knows(job[w], HostsOf(conf))

\* A device's only reservation is deleted.
LEMMA WithoutUnique ==
  ASSUME NEW hosts \in Seq(Mac), Unique(hosts), NEW i \in 1..Len(hosts)
  PROVE /\ Unique(Without(hosts, i))
        /\ hosts[i] \notin ToSet(Without(hosts, i))
        /\ ToSet(Without(hosts, i)) \subseteq ToSet(hosts)
        /\ \A x \in ToSet(hosts) : x # hosts[i] => x \in ToSet(Without(hosts, i))
<1> DEFINE s == Without(hosts, i)
           n == Len(hosts)
<1>1. /\ s \in Seq(Mac) /\ Len(s) = n - 1
      /\ \A k \in 1..(n - 1) : s[k] = IF k < i THEN hosts[k] ELSE hosts[k + 1]
  BY WithoutOne
<1>2. n \in Nat /\ i \in Nat /\ i >= 1 /\ i <= n /\ DOMAIN s = 1..(n - 1) /\ DOMAIN hosts = 1..n
  BY <1>1, LenProperties
<1>3. \A j, k \in 1..n : hosts[j] = hosts[k] => j = k
  BY DEF Unique
<1> HIDE DEF s, n
<1>4. Unique(s)
  <2> SUFFICES ASSUME NEW j \in 1..(n - 1), NEW k \in 1..(n - 1), s[j] = s[k] PROVE j = k
    BY <1>1 DEF Unique
  <2> DEFINE J == IF j < i THEN j ELSE j + 1
             K == IF k < i THEN k ELSE k + 1
  <2>1. J \in 1..n /\ K \in 1..n /\ s[j] = hosts[J] /\ s[k] = hosts[K]
    BY <1>1, <1>2
  <2>2. J = K
    BY <1>3, <2>1
  <2>3. QED
    BY <1>2, <2>2
<1>5. ASSUME NEW k \in 1..(n - 1) PROVE s[k] # hosts[i] /\ s[k] \in ToSet(hosts)
  <2> DEFINE K == IF k < i THEN k ELSE k + 1
  <2>1. K \in 1..n /\ s[k] = hosts[K] /\ K # i
    BY <1>1, <1>2
  <2>2. QED
    BY <1>2, <1>3, <2>1 DEF ToSet
<1>6. ASSUME NEW x \in ToSet(hosts), x # hosts[i] PROVE x \in ToSet(s)
  <2>1. PICK j \in 1..n : x = hosts[j]
    BY <1>2 DEF ToSet
  <2>2. j # i
    BY <1>6, <2>1
  <2> DEFINE k == IF j < i THEN j ELSE j - 1
  <2>3. k \in 1..(n - 1) /\ s[k] = hosts[j]
    BY <1>1, <1>2, <2>2
  <2>4. QED
    BY <1>2, <2>1, <2>3 DEF ToSet
<1>7. hosts[i] \notin ToSet(s) /\ ToSet(s) \subseteq ToSet(hosts)
  BY <1>2, <1>5 DEF ToSet
<1>8. QED
  BY <1>4, <1>6, <1>7 DEF s

LEMMA AppendUnique ==
  ASSUME NEW hosts \in Seq(Mac), Unique(hosts), NEW m \in Mac, m \notin ToSet(hosts)
  PROVE Unique(Append(hosts, m)) /\ ToSet(hosts) \subseteq ToSet(Append(hosts, m))
<1> DEFINE s == Append(hosts, m)
           n == Len(hosts)
<1>1. /\ s \in Seq(Mac) /\ Len(s) = n + 1 /\ s[n + 1] = m
      /\ \A k \in 1..n : s[k] = hosts[k]
  BY AppendProperties
<1>2. n \in Nat /\ DOMAIN s = 1..(n + 1) /\ DOMAIN hosts = 1..n
  BY <1>1, LenProperties
<1> HIDE DEF s, n
<1>3. \A k \in 1..n : hosts[k] # m
  BY <1>2 DEF ToSet
<1>4. \A j, k \in 1..n : hosts[j] = hosts[k] => j = k
  BY DEF Unique, n
<1>5. ASSUME NEW j \in 1..(n + 1), NEW k \in 1..(n + 1), s[j] = s[k] PROVE j = k
  BY <1>1, <1>2, <1>3, <1>4, <1>5
<1>6. Unique(s)
  BY <1>1, <1>5 DEF Unique
<1>7. ToSet(hosts) \subseteq ToSet(s)
  BY <1>1, <1>2 DEF ToSet
<1>8. QED
  BY <1>6, <1>7 DEF s

\* The reservations are as they were, or the ones in sight are in the flash now.
LEMMA KeptSame ==
  ASSUME KeptInv, JobsKeep(Holding), HostsOf(conf') = HostsOf(conf),
         HostsOf(saved') \in {HostsOf(saved), HostsOf(conf)},
         backup' \in {backup, saved}, linked' => linked
  PROVE KeptInv'
<1>1. ASSUME linked', NEW w \in Worker, job'[w].at \in Holding
      PROVE /\ job'[w].at = job[w].at /\ job'[w].mac = job[w].mac
            /\ job'[w].list = job[w].list /\ job'[w].left = job[w].left
  BY <1>1 DEF JobsKeep
<1>2. linked' => \A w \in Worker : job'[w].at \in Holding => Knows(job'[w], HostsOf(conf'))
  BY <1>1 DEF KeptInv, Knows
<1>3. /\ Unique(HostsOf(conf')) /\ Unique(HostsOf(saved'))
      /\ backup' \in NoApUplink => Unique(HostsOf(backup'))
      /\ ToSet(HostsOf(conf')) \subseteq ToSet(HostsOf(saved'))
  BY DEF KeptInv
<1>4. QED
  BY <1>2, <1>3 DEF KeptInv

\* Steps of a job that leave the reservations alone.
LEMMA OthersKeep ==
  ASSUME TypeInv, KeptInv, NEW w \in Worker,
         \/ DetectConflict(w) \/ Render(w) \/ ScanNetworks(w) \/ AfterUplink(w) \/ LanChanged(w)
         \/ LookAround(w) \/ Created(w) \/ ReadSettings(w) \/ FindIface(w)
         \/ CreateBackup(w) \/ Upload(w) \/ Detach(w)
  PROVE KeptInv' /\ HostsOf(conf') = HostsOf(conf)
<1>1. UNCHANGED <<conf, saved, linked>> /\ backup' \in {backup, saved}
  BY DEF DetectConflict, Render, ScanNetworks, AfterUplink, LanChanged, LookAround, Created, ReadSettings,
         FindIface, CreateBackup, Upload, Detach, router, config
<1>2. JobsKeep(Holding)
  BY LooksKeep
<1>3. QED
  BY <1>1, <1>2, KeptSame

LEMMA StagesKeep ==
  ASSUME TypeInv, KeptInv, NEW w \in Worker,
         StageWan(w) \/ StageAp(w) \/ StageIface(w) \/ StageWwan(w) \/ AddToZone(w)
  PROVE KeptInv' /\ HostsOf(conf') = HostsOf(conf)
<1>1. JobsKeep(Holding)
  BY WritesKeep, UplinkKeepsHolders
<1>2. conf \in Config
  BY DEF TypeInv, ConfigOK, NoApUplink
<1>3. saved' = saved /\ backup' = backup /\ linked' = linked
  BY DEF StageWan, StageAp, StageIface, StageWwan, AddToZone, Stage, config
<1>4. HostsOf(conf') = HostsOf(conf)
  BY <1>2 DEF StageWan, StageAp, StageIface, StageWwan, AddToZone, Stage, HostsOf, Config, config
<1>5. QED
  BY <1>1, <1>3, <1>4, KeptSame

LEMMA CommitsKeep ==
  ASSUME TypeInv, KeptInv, NEW w \in Worker,
         \/ CommitWan(w) \/ CommitSta(w) \/ CommitAp(w) \/ WriteRadio(w) \/ ChangeLanIp(w) \/ ApplyLan(w)
  PROVE KeptInv' /\ HostsOf(conf') = HostsOf(conf)
<1>1. JobsKeep(Holding)
  BY WritesKeep, UplinkKeepsHolders
<1>2. conf \in Config /\ conf.dhcp \in DhcpOf
  BY ConfigParts DEF TypeInv, ConfigOK, NoApUplink
<1>3. backup' = backup /\ (linked' => linked)
  BY DEF CommitWan, CommitSta, CommitAp, WriteRadio, ChangeLanIp, ApplyLan, Step
<1>4. PICK c, pkgs : Commit(c, pkgs) /\ HostsOf(c) = HostsOf(conf)
  <2>1. CASE CommitWan(w) \/ CommitSta(w) \/ CommitAp(w)
    BY <2>1 DEF CommitWan, CommitSta, CommitAp
  <2>2. CASE WriteRadio(w)
    <3> DEFINE c == [conf EXCEPT !.wireless[job[w].section] =
                       [device |-> job[w].radio, mode |-> "ap", ssid |-> job[w].ssid]]
    <3>1. Commit(c, {"wireless"})
      BY <2>2 DEF WriteRadio
    <3>2. HostsOf(c) = HostsOf(conf)
      BY <1>2 DEF HostsOf, Config
    <3>3. QED
      BY <3>1, <3>2
  <2>3. CASE ChangeLanIp(w)
    <3>1. PICK form : Commit([conf EXCEPT !.network.ip = job[w].ip, !.network.mask = 24, !.network.form = form],
                             {"network"})
      BY <2>3 DEF ChangeLanIp
    <3> DEFINE c == [conf EXCEPT !.network.ip = job[w].ip, !.network.mask = 24, !.network.form = form]
    <3>2. HostsOf(c) = HostsOf(conf)
      BY <1>2 DEF HostsOf, Config
    <3>3. QED
      BY <3>1, <3>2
  <2>4. CASE ApplyLan(w)
    <3> DEFINE c == [conf EXCEPT !.network.ip = job[w].form.ip, !.network.mask = job[w].form.mask,
                                 !.network.form = FormOf(release),
                                 !.dhcp.start = job[w].form.start, !.dhcp.limit = job[w].form.limit]
    <3>1. Commit(c, {"network", "dhcp"})
      BY <2>4 DEF ApplyLan
    <3>2. HostsOf(c) = HostsOf(conf)
      BY <1>2 DEF HostsOf, Config, DhcpOf
    <3>3. QED
      BY <3>1, <3>2
  <2>5. QED
    BY <2>1, <2>2, <2>3, <2>4
<1>5. conf' = c /\ HostsOf(saved') \in {HostsOf(saved), HostsOf(c)}
  BY <1>4 DEF Commit, Package, HostsOf
<1>6. QED
  BY <1>1, <1>3, <1>4, <1>5, KeptSame


\* What a job that changes the reservations must not do.
Spares(w) == \A m \in Mac : m \in ToSet(HostsOf(conf)) /\ m \notin ToSet(HostsOf(conf')) => Concerns(w, m)
Alone(w) == \A v \in Worker \ {w} : job[v].at \notin Holding

LEMMA HostsKnown == TypeInv => HostsOf(conf) \in Seq(Mac) /\ HostsOf(saved) \in Seq(Mac)
  BY ConfigParts DEF TypeInv, ConfigOK, NoApUplink, DhcpOf, HostsOf

LEMMA RaceSeen == ASSUME NEW w \in Worker, Race(w), ~Alone(w) PROVE raced'
  BY DEF Race, Alone, Holding

\* The only job that holds positions is done, or goes on with what is true of it.
LEMMA KeptChanged ==
  ASSUME KeptInv, NEW w \in Worker, Alone(w), \A v \in Worker \ {w} : job'[v] = job[v], backup' = backup,
         Unique(HostsOf(conf')), Unique(HostsOf(saved')), ToSet(HostsOf(conf')) \subseteq ToSet(HostsOf(saved')),
         job'[w].at \in Holding => Knows(job'[w], HostsOf(conf'))
  PROVE KeptInv'
<1>1. \A v \in Worker : v # w => job'[v].at \notin Holding
  BY DEF Alone
<1>2. QED
  BY <1>1 DEF KeptInv

\* Reading changes nothing, and learns what is true as long as nothing else changes.
LEMMA ReadingKeeps ==
  ASSUME TypeInv, KeptInv, NEW w \in Worker, \A v \in Worker \ {w} : job'[v] = job[v],
         UNCHANGED <<conf, saved, backup, linked>>, Knows(job'[w], HostsOf(conf))
  PROVE KeptInv' /\ HostsOf(conf') = HostsOf(conf)
<1>1. linked' => \A v \in Worker : job'[v].at \in Holding => Knows(job'[v], HostsOf(conf'))
  BY DEF KeptInv
<1>2. QED
  BY <1>1 DEF KeptInv

LEMMA ListLeasesKeeps ==
  ASSUME TypeInv, KeptInv, NEW w \in Worker, ListLeases(w)
  PROVE KeptInv' /\ HostsOf(conf') = HostsOf(conf)
<1>1. UNCHANGED <<conf, saved, backup, linked>>
  BY DEF ListLeases, router, config
<1>2. job[w] \in JobType /\ job \in [Worker -> JobType] /\ HasArgs(job[w], backup) /\ job[w].list = {}
  BY JobTyped DEF TypeInv, JobOK, ListLeases, HasArgs
<1> DEFINE left == 1..Len(HostsOf(conf))
<1>3. PICK at : job' = [job EXCEPT ![w].at = at, ![w].left = left]
  BY DEF ListLeases, HostsOf
<1> HIDE DEF left
<1>4. /\ \A v \in Worker \ {w} : job'[v] = job[v]
      /\ job'[w].list = {} /\ job'[w].left = left
  BY <1>2, <1>3 DEF JobType
<1>5. Knows(job'[w], HostsOf(conf))
  BY <1>4 DEF Knows, PositionsOf, left
<1>6. QED
  BY <1>1, <1>4, <1>5, ReadingKeeps

LEMMA AskLeaseKeeps ==
  ASSUME TypeInv, KeptInv, NEW w \in Worker, AskLease(w)
  PROVE KeptInv' /\ HostsOf(conf') = HostsOf(conf)
<1>1. linked /\ job[w].at \in Holding /\ UNCHANGED <<conf, saved, backup, linked>>
  BY DEF AskLease, router, config, Holding
<1>2. job[w] \in JobType /\ job \in [Worker -> JobType]
  BY DEF TypeInv, JobOK
<1> DEFINE m == job[w].mac
<1>3. PICK i \in job[w].left :
        job' = [job EXCEPT ![w].left = job[w].left \ {i},
                           ![w].list = IF HeldBy(HostsOf(conf), i, m) THEN job[w].list \cup {i} ELSE job[w].list]
  BY DEF AskLease, HostsOf
<1> DEFINE list == IF HeldBy(HostsOf(conf), i, m) THEN job[w].list \cup {i} ELSE job[w].list
<1>4. job' = [job EXCEPT ![w].left = job[w].left \ {i}, ![w].list = list]
  BY <1>3
<1>5. Knows(job[w], HostsOf(conf))
  BY <1>1 DEF KeptInv
<1> HIDE DEF list
<1>6. /\ \A v \in Worker \ {w} : job'[v] = job[v]
      /\ job'[w].list = list /\ job'[w].left = job[w].left \ {i} /\ job'[w].mac = m
  BY <1>2, <1>4 DEF JobType
<1>7. list \subseteq PositionsOf(m, HostsOf(conf)) /\ PositionsOf(m, HostsOf(conf)) \subseteq list \cup (job[w].left \ {i})
  BY <1>5 DEF Knows, PositionsOf, HeldBy, list
<1>8. Knows(job'[w], HostsOf(conf))
  BY <1>6, <1>7 DEF Knows
<1>9. QED
  BY <1>1, <1>6, <1>8, ReadingKeeps

\* In sight of KeptInv a job deletes its own device's reservation.
LEMMA PositionHeld ==
  ASSUME TypeInv, KeptInv, linked, NEW w \in Worker, job[w].at \in {"drop", "unset"}, NEW i \in job[w].list
  PROVE /\ i \in 1..Len(HostsOf(conf)) /\ HostsOf(conf)[i] = job[w].mac
        /\ job[w].list \ {i} = {}
<1>1. \A k \in job[w].list : k \in 1..Len(HostsOf(conf)) /\ HostsOf(conf)[k] = job[w].mac
  BY DEF KeptInv, Knows, PositionsOf, Holding
<1>2. \A k \in job[w].list : k = i
  BY <1>1 DEF KeptInv, Unique
<1>3. QED
  BY <1>1, <1>2

LEMMA DropLeaseKeeps ==
  ASSUME TypeInv, KeptInv, NEW w \in Worker, DropLease(w)
  PROVE (raced' \/ KeptInv') /\ Spares(w)
<1>1. linked /\ job[w].at = "drop" /\ job[w].left = {} /\ Race(w) /\ backup' = backup /\ saved' = saved
  BY DEF DropLease, StepListed, Step, Stage
<1>2. PICK i \in job[w].list :
        /\ conf' = [conf EXCEPT !.dhcp.hosts = Without(HostsOf(conf), i)]
        /\ job' = [job EXCEPT ![w].list = job[w].list \ {i}]
  BY DEF DropLease, Stage, HostsOf
<1>3. i \in 1..Len(HostsOf(conf)) /\ HostsOf(conf)[i] = job[w].mac /\ job[w].list \ {i} = {}
  BY <1>1, PositionHeld
<1> DEFINE s == Without(HostsOf(conf), i)
<1>4. HostsOf(conf') = s
  <2>1. conf \in Config /\ conf.dhcp \in DhcpOf
    BY ConfigParts DEF TypeInv, ConfigOK, NoApUplink
  <2> HIDE DEF s
  <2>2. conf' = [conf EXCEPT !.dhcp.hosts = s]
    BY <1>2 DEF s
  <2>3. QED
    BY <2>1, <2>2 DEF HostsOf, Config, DhcpOf
<1>5. /\ Unique(s) /\ job[w].mac \notin ToSet(s) /\ ToSet(s) \subseteq ToSet(HostsOf(conf))
      /\ \A x \in ToSet(HostsOf(conf)) : x # job[w].mac => x \in ToSet(s)
  BY <1>3, HostsKnown, WithoutUnique DEF KeptInv
<1>6. s \in Seq(Mac)
  BY HostsKnown, WithoutTyped
<1> HIDE DEF s
<1>7. Spares(w)
  BY <1>1, <1>4, <1>5 DEF Spares, Concerns
<1>8. CASE Alone(w)
  <2>1. /\ job'[w].list = {} /\ job'[w].mac = job[w].mac
        /\ \A v \in Worker \ {w} : job'[v] = job[v]
    BY <1>1, <1>2, <1>3, JobTyped DEF TypeInv, JobOK, JobType
  <2>2. PositionsOf(job[w].mac, s) = {}
    BY <1>5, <1>6, LenProperties DEF PositionsOf, ToSet
  <2>3. ToSet(HostsOf(conf')) \subseteq ToSet(HostsOf(saved')) /\ Unique(HostsOf(conf')) /\ Unique(HostsOf(saved'))
    BY <1>1, <1>4, <1>5 DEF KeptInv
  <2>4. QED
    BY <1>1, <1>4, <1>7, <1>8, <2>1, <2>2, <2>3, KeptChanged DEF Knows
<1>9. QED
  BY <1>1, <1>7, <1>8, RaceSeen

LEMMA AddLeaseKeeps ==
  ASSUME TypeInv, KeptInv, NEW w \in Worker, AddLease(w)
  PROVE (raced' \/ KeptInv') /\ Spares(w)
<1>1. /\ linked /\ job[w].at = "drop" /\ job[w].list = {} /\ job[w].left = {} /\ Race(w)
      /\ UNCHANGED <<page, backup>> /\ job[w].mac \in Mac
  BY JobTyped DEF AddLease, StepListed, Step, HasArgs
<1> DEFINE s == Append(HostsOf(conf), job[w].mac)
<1>2. job[w].mac \notin ToSet(HostsOf(conf))
  BY <1>1, HostsKnown, LenProperties DEF KeptInv, Knows, Holding, PositionsOf, ToSet
<1>3. Unique(s) /\ ToSet(HostsOf(conf)) \subseteq ToSet(s)
  BY <1>1, <1>2, HostsKnown, AppendUnique DEF KeptInv
<1>4. Commit([conf EXCEPT !.dhcp.hosts = s], {"dhcp"})
  BY DEF AddLease, HostsOf
<1> HIDE DEF s
<1>5. HostsOf(conf') = s /\ HostsOf(saved') = s
  <2>1. conf \in Config /\ conf.dhcp \in DhcpOf
    BY ConfigParts DEF TypeInv, ConfigOK, NoApUplink
  <2>2. QED
    BY <1>4, <2>1 DEF Commit, Package, HostsOf, Config, DhcpOf
<1>6. Spares(w)
  BY <1>3, <1>5 DEF Spares
<1>7. ScreenOf(job[w].at) = "advanced"
  BY <1>1 DEF ScreenOf
<1>8. job'[w].at \in {"read", "idle"} /\ \A v \in Worker \ {w} : job'[v] = job[v]
  BY <1>1, <1>7, AgainTyped DEF AddLease
<1>9. CASE Alone(w)
  BY <1>1, <1>3, <1>5, <1>6, <1>8, <1>9, KeptChanged DEF Holding
<1>10. QED
  BY <1>1, <1>6, <1>9, RaceSeen

LEMMA RemoveLeaseKeeps ==
  ASSUME TypeInv, KeptInv, NEW w \in Worker, RemoveLease(w)
  PROVE (raced' \/ KeptInv') /\ Spares(w)
<1>1. linked /\ job[w].at = "unset" /\ job[w].left = {} /\ Race(w) /\ UNCHANGED <<page, backup>>
  BY DEF RemoveLease, StepListed, Step
<1>2. PICK i \in job[w].list : Commit([conf EXCEPT !.dhcp.hosts = Without(HostsOf(conf), i)], {"dhcp"})
  BY DEF RemoveLease, HostsOf
<1>3. i \in 1..Len(HostsOf(conf)) /\ HostsOf(conf)[i] = job[w].mac
  BY <1>1, PositionHeld
<1> DEFINE s == Without(HostsOf(conf), i)
<1>4. /\ Unique(s) /\ \A x \in ToSet(HostsOf(conf)) : x # job[w].mac => x \in ToSet(s)
  BY <1>3, HostsKnown, WithoutUnique DEF KeptInv
<1>5. Commit([conf EXCEPT !.dhcp.hosts = s], {"dhcp"})
  BY <1>2
<1> HIDE DEF s
<1>6. HostsOf(conf') = s /\ HostsOf(saved') = s
  <2>1. conf \in Config /\ conf.dhcp \in DhcpOf
    BY ConfigParts DEF TypeInv, ConfigOK, NoApUplink
  <2>2. QED
    BY <1>5, <2>1 DEF Commit, Package, HostsOf, Config, DhcpOf
<1>7. Spares(w)
  BY <1>1, <1>4, <1>6 DEF Spares, Concerns
<1>8. ScreenOf(job[w].at) = "advanced"
  BY <1>1 DEF ScreenOf
<1>9. job'[w].at \in {"read", "idle"} /\ \A v \in Worker \ {w} : job'[v] = job[v]
  BY <1>1, <1>8, AgainTyped DEF RemoveLease
<1>10. CASE Alone(w)
  BY <1>1, <1>4, <1>6, <1>7, <1>9, <1>10, KeptChanged DEF Holding
<1>11. QED
  BY <1>1, <1>7, <1>10, RaceSeen

LEMMA ExtractKeeps == ASSUME TypeInv, KeptInv, NEW w \in Worker, Extract(w) PROVE raced' \/ KeptInv'
<1>1. CASE HostsOf(conf) = HostsOf(saved) /\ Alone(w)
  <2>1. backup \in NoApUplink
    BY JobTyped DEF Extract, Step, HasArgs
  <2>2. conf \in NoApUplink /\ saved \in NoApUplink /\ saved.firewall <= conf.firewall
    BY DEF TypeInv, ConfigOK
  <2>3. saved' = backup /\ conf' = Merged(saved, conf, backup) /\ backup' = backup
    BY DEF Extract, Merged
  <2>4. HostsOf(conf') = HostsOf(backup)
    BY <1>1, <2>1, <2>2, <2>3, MergedOK DEF HostsOf
  <2>5. job'[w].at = "reboot" /\ \A v \in Worker \ {w} : job'[v] = job[v]
    BY UplinkMoves DEF Extract
  <2>6. Unique(HostsOf(conf')) /\ Unique(HostsOf(saved')) /\ ToSet(HostsOf(conf')) \subseteq ToSet(HostsOf(saved'))
    BY <2>1, <2>3, <2>4 DEF KeptInv
  <2>7. QED
    BY <1>1, <2>3, <2>5, <2>6, KeptChanged DEF Holding
<1>2. CASE ~(HostsOf(conf) = HostsOf(saved) /\ Alone(w))
  BY <1>2 DEF Extract, HostsOf, Alone, Holding
<1>3. QED
  BY <1>1, <1>2

LEMMA UserSpares == ASSUME TypeInv, KeptInv, User PROVE KeptInv' /\ conf' = conf
<1>1. JobsKeep(Holding)
  BY UserKeeps
<1>2. UNCHANGED <<conf, saved, backup>>
  BY DEF User, Open, Reconnect, Refresh, Scan, DoWan, DoWifi, FixConflict, DoCreate, ApplyRadio, Edit, Arm,
         DoLanApply, PinDevice, UnpinDevice, Maintain, router, config
<1>3. CASE Reconnect
  <2>1. \A w \in Worker : job'[w].at = "idle"
    BY <1>3, NothingOK DEF Reconnect
  <2>2. QED
    BY <1>2, <2>1 DEF KeptInv, Holding
<1>4. CASE ~Reconnect
  <2>1. linked' = linked
    BY <1>4 DEF User, Open, Refresh, Scan, DoWan, DoWifi, FixConflict, DoCreate, ApplyRadio, Edit, Arm,
                DoLanApply, PinDevice, UnpinDevice, Maintain, router
  <2>2. QED
    BY <1>1, <1>2, <2>1, KeptSame
<1>5. QED
  BY <1>3, <1>4

LEMMA OutsideSpares ==
  ASSUME TypeInv, KeptInv, Outside
  PROVE KeptInv' /\ ("reset" \in due \/ ToSet(HostsOf(conf)) \subseteq ToSet(HostsOf(conf')))
<1>1. JobsKeep(Holding) /\ backup' = backup /\ (linked' => linked)
  BY KeepAll DEF Outside, Renew, Reload, Reboot, FirstBoot, TypeInv, RouterOK
<1>2. CASE Renew \/ Reload
  BY <1>1, <1>2, KeptSame DEF Renew, Reload, config
<1>3. CASE Reboot
  BY <1>1, <1>3 DEF Reboot, KeptInv
<1>4. CASE FirstBoot
  <2>1. HostsOf(saved') = <<>> /\ conf' = saved' /\ ~linked' /\ "reset" \in due
    BY <1>4, FreshOK DEF FirstBoot, TypeInv, RouterOK, HostsOf
  <2>2. Unique(HostsOf(saved'))
    BY <2>1 DEF Unique
  <2>3. QED
    BY <1>1, <2>1, <2>2 DEF KeptInv
<1>5. QED
  BY <1>2, <1>3, <1>4 DEF Outside

LEMMA WorkSpares ==
  ASSUME TypeInv, KeptInv, NEW w \in Worker, Work(w)
  PROVE (raced' \/ KeptInv') /\ (Spares(w) \/ job[w].at = "extract")
<1>1. HostsOf(conf') = HostsOf(conf) => Spares(w)
  BY DEF Spares
<1>2. CASE \/ DetectConflict(w) \/ Render(w) \/ ScanNetworks(w) \/ AfterUplink(w) \/ LanChanged(w)
           \/ LookAround(w) \/ Created(w) \/ ReadSettings(w) \/ FindIface(w)
           \/ CreateBackup(w) \/ Upload(w) \/ Detach(w)
  BY <1>1, <1>2, OthersKeep
<1>3. CASE StageWan(w) \/ StageAp(w) \/ StageIface(w) \/ StageWwan(w) \/ AddToZone(w)
  BY <1>1, <1>3, StagesKeep
<1>4. CASE CommitWan(w) \/ CommitSta(w) \/ CommitAp(w) \/ WriteRadio(w) \/ ChangeLanIp(w) \/ ApplyLan(w)
  BY <1>1, <1>4, CommitsKeep
<1>5. CASE ListLeases(w) \/ AskLease(w) \/ DropLease(w) \/ AddLease(w) \/ RemoveLease(w)
  BY <1>1, <1>5, ListLeasesKeeps, AskLeaseKeeps, DropLeaseKeeps, AddLeaseKeeps, RemoveLeaseKeeps
<1>6. CASE Extract(w)
  BY <1>6, ExtractKeeps DEF Extract, Step
<1>7. CASE Fail(w)
  <2>1. UNCHANGED <<conf, saved, backup, linked>> /\ End(w)
    BY <1>7 DEF Fail, router, config
  <2>2. job'[w] = Nothing /\ \A v \in Worker \ {w} : job'[v] = job[v]
    BY <2>1 DEF End, TypeInv, JobOK
  <2>3. KeptInv'
    BY <2>1, <2>2, NothingOK DEF KeptInv, Holding
  <2>4. QED
    BY <1>1, <2>1, <2>3
<1>8. QED
  BY <1>2, <1>3, <1>4, <1>5, <1>6, <1>7 DEF Work

LEMMA RacedStays == raced /\ [Next]_vars => raced'
<1> SUFFICES ASSUME raced, [Next]_vars PROVE raced'
  OBVIOUS
<1>1. CASE User
  BY <1>1 DEF User, Open, Reconnect, Refresh, Scan, DoWan, DoWifi, FixConflict, DoCreate, ApplyRadio, Edit, Arm,
              DoLanApply, PinDevice, UnpinDevice, Maintain, history
<1>2. CASE Outside
  BY <1>2 DEF Outside, Renew, Reload, Reboot, FirstBoot, history
<1>3. ASSUME NEW w \in Worker, Work(w) PROVE raced'
  <2>1. CASE DropLease(w) \/ AddLease(w) \/ RemoveLease(w) \/ Extract(w)
    BY <2>1 DEF DropLease, AddLease, RemoveLease, Extract, Race
  <2>2. CASE \/ DetectConflict(w) \/ Render(w) \/ ScanNetworks(w) \/ AfterUplink(w) \/ LanChanged(w)
             \/ LookAround(w) \/ Created(w) \/ ReadSettings(w) \/ FindIface(w) \/ ListLeases(w) \/ AskLease(w)
             \/ CreateBackup(w) \/ Upload(w) \/ Detach(w)
    BY <2>2 DEF DetectConflict, Render, ScanNetworks, AfterUplink, LanChanged, LookAround, Created, ReadSettings,
                FindIface, ListLeases, AskLease, CreateBackup, Upload, Detach, history
  <2>3. CASE \/ StageWan(w) \/ StageIface(w) \/ StageWwan(w) \/ AddToZone(w) \/ StageAp(w)
             \/ CommitWan(w) \/ CommitSta(w) \/ CommitAp(w) \/ WriteRadio(w) \/ ApplyLan(w) \/ ChangeLanIp(w)
             \/ Fail(w)
    BY <2>3 DEF StageWan, StageIface, StageWwan, AddToZone, StageAp, CommitWan, CommitSta, CommitAp, WriteRadio,
                ApplyLan, ChangeLanIp, Fail, history
  <2>4. QED
    BY <1>3, <2>1, <2>2, <2>3 DEF Work
<1>4. CASE UNCHANGED vars
  BY <1>4 DEF vars
<1>5. QED
  BY <1>1, <1>2, <1>3, <1>4 DEF Next

\* A device keeps its reservation when another device's is pinned or unpinned by position, when a
\* staged deletion is lost in a restart, and when any other setting is committed.
THEOREM ReservationsStay == Spec => LeasesKept
<1>1. Init => TypeInv /\ (raced \/ KeptInv)
  <2> SUFFICES ASSUME Init PROVE KeptInv
    BY InitTyped
  <2>1. saved = conf /\ backup = None /\ \A w \in Worker : job[w].at = "idle"
    BY NothingOK DEF Init
  <2>2. None \notin NoApUplink
    BY NoneAssumption DEF NoApUplink
  <2>3. Unique(HostsOf(conf))
    BY InitHosts DEF Unique, HostsOf
  <2>4. QED
    BY <2>1, <2>2, <2>3 DEF KeptInv, Holding
<1>2. TypeInv /\ (raced \/ KeptInv) /\ [Next]_vars => (raced \/ KeptInv)'
  <2> SUFFICES ASSUME TypeInv, KeptInv, [Next]_vars PROVE raced' \/ KeptInv'
    BY RacedStays
  <2>1. CASE UNCHANGED vars
    BY <2>1, KeepAll, KeptSame DEF vars
  <2>2. QED
    BY <2>1, UserSpares, OutsideSpares, WorkSpares DEF Next
<1>3. TypeInv /\ (raced \/ KeptInv) /\ [Next]_vars =>
      [\A m \in Mac :
         m \in ToSet(conf.dhcp.hosts) /\ m \notin ToSet(conf'.dhcp.hosts) =>
           \/ \E w \in Worker : Concerns(w, m)
           \/ raced
           \/ "reset" \in due \/ \E w \in Worker : job[w].at = "extract"]_vars
  <2> SUFFICES ASSUME TypeInv, KeptInv, Next, ~raced, "reset" \notin due,
                      NEW m \in Mac, m \in ToSet(HostsOf(conf)), m \notin ToSet(HostsOf(conf'))
               PROVE \E w \in Worker : Concerns(w, m) \/ job[w].at = "extract"
    BY DEF HostsOf
  <2>1. CASE User
    BY <2>1, UserSpares
  <2>2. CASE Outside
    BY <2>2, OutsideSpares
  <2>3. CASE \E w \in Worker : Work(w)
    BY <2>3, WorkSpares DEF Spares
  <2>4. QED
    BY <2>1, <2>2, <2>3 DEF Next
<1>4. TypeInv /\ [Next]_vars => TypeInv'
  BY NextTyped
<1>5. QED
  BY <1>1, <1>2, <1>3, <1>4, PTL DEF Spec, LeasesKept
=============================================================================
