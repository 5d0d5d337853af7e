------------------------------- MODULE Network ------------------------------
(***************************************************************************)
(* The router's network configuration as the program changes it: the       *)
(* uplink and the access point (engine/network.py with ui/internet_screen  *)
(* and ui/wifi_ap_screen), the LAN, its DHCP server and its reservations   *)
(* (engine/lan.py), backup, restore and factory reset                      *)
(* (engine/maintenance.py), the latter two from ui/advanced_screen.py.     *)
(*                                                                         *)
(* A job is a worker thread of a screen; leaving the screen leaves it      *)
(* running.  Each step of a job is one command of the router: it works on  *)
(* uci's view (conf) and what it commits reaches the flash (saved).        *)
(***************************************************************************)
EXTENDS Naturals, Sequences, FiniteSets, SequencesExt

CONSTANTS
  Worker,      \* the threads
  Radio, Band, BandOf,   \* the wifi-devices and the band of each
  OwnerRadio,  \* the radio of an access point the owner made himself, or None
  Air,         \* the cells a scan reports: [ssid, band, signal]
  Ssid,        \* names the user gives the home network
  Subnet,      \* the /24 subnets there are
  Private,     \* those with private addresses
  Candidates,  \* _LAN_CANDIDATES, a sequence of addresses
  Forms,       \* what the user types into the LAN card: [ip, mask, start, limit]
  Leases,      \* the addresses the provider may give the WAN: [ip, mask]
  Mac,         \* devices that may have a reservation
  MaxJobs,     \* bound: the jobs the user starts
  None

\* An address is a subnet and its last octet, of which 0 stands for 0
\* and 7 for 255; the masks are /16 (it spans every subnet here), /24 and /25.
Octet == 0..7
Address == Subnet \X Octet
Mask == {16, 24, 25}
Form == [ip : Address, mask : Mask, start : Nat, limit : Nat]

ASSUME NetworkAssumption ==
  /\ BandOf \in [Radio -> Band]
  /\ OwnerRadio \in Radio \cup {None}
  /\ Private \subseteq Subnet
  /\ Candidates \in Seq(Address) /\ Candidates # <<>>
  /\ IsFiniteSet(Mac) /\ (Radio \cup {None}) \cap {"sta", "own"} = {}
  /\ Forms \subseteq Form
  /\ Leases \subseteq [ip : Address, mask : Mask]
  /\ None \notin Leases \cup Radio \cup Mac \cup Forms \cup Address
  /\ MaxJobs \in Nat

VARIABLES
  conf,     \* uci's view: what is saved, with what is staged on top
  saved,    \* what is committed
  backup,   \* the archive the user downloaded, or None
  release,  \* how this firmware writes the LAN address: "split", "cidr" or "snapshot"
  lease,    \* external: the address the WAN got, or None
  due,      \* what the router does in two seconds: "reload", "reboot", "reset"
  address,  \* the LAN address in force
  linked,   \* does the session reach the router?
  page,     \* the screen and what it shows
  fixedFor, \* history: the provider's network for which the LAN was last moved away, or None
  torn,     \* history: was an unfinished Wi-Fi uplink left behind, or committed or replaced by
            \* another job?
  unzoned,  \* history: did an uplink's step for the firewall find no zone 'wan', or fail?
  raced,    \* history: were reservations changed while another job read or held their positions,
            \* or replaced under a change not committed yet?
  begun,    \* how many jobs were started
  job       \* the job of each thread

vars == <<conf, saved, backup, release, lease, due, address, linked, page, fixedFor, torn, unzoned, raced, begun, job>>
config == <<conf, saved>>
router == <<config, release, lease, due, address, linked>>
history == <<fixedFor, torn, unzoned, raced>>

\* The wifi-iface sections: default_<radio>, 'sta' and one the user may have made himself.
Section == Radio \cup {"sta", "own"}
Absent == [device |-> None, mode |-> "none", ssid |-> None]
Iface == [device : Radio \cup {None}, mode : {"none", "ap", "sta"}, ssid : Ssid \cup {"stock", "air", None}]
Proto == {"dhcp", "pppoe", "static", "dhcpv6"}
WanOption == {"username", "password", "ipaddr", "netmask", "gateway", "dns"}
Package == {"wireless", "network", "firewall", "dhcp"}
Page == {"internet", "ap", "advanced", "connect"}
At == {"idle", "conflict", "ping", "scan", "stageWan", "commitWan", "wait", "iface", "wwan", "zone",
       "commitSta", "move", "moved", "look", "stageAp", "commitAp", "poll", "find", "radio", "probe",
       "read", "lan", "pin", "drop", "add", "unpin", "unset", "backup", "upload", "extract",
       "reboot", "reset"}

Config ==
  [wireless : [Section -> Iface],
   network : [proto : Proto, opts : SUBSET WanOption, wwan : BOOLEAN,
              ip : Address, mask : Mask, form : {"split", "cidr"}],
   firewall : Nat,  \* how often 'wwan' is in the list of the zone wan
   dhcp : [hosts : Seq(Mac), start : Nat, limit : Nat]]

ASSUME NoneAssumption == None \notin Config

Nothing == [at |-> "idle", home |-> FALSE, proto |-> "dhcp", ssid |-> None, radio |-> None,
            section |-> None, wan |-> None, ip |-> None, mac |-> None, form |-> None, list |-> {}, left |-> {}, todo |-> {}]
Blank(name) == [name |-> name, offer |-> "none", conflict |-> None, nets |-> {}, hosts |-> <<>>,
                busy |-> {}, lan |-> None, confirm |-> "no"]

TypeOK ==
  /\ conf \in Config
  /\ saved \in Config
  /\ backup \in Config \cup {None}
  /\ release \in {"split", "cidr", "snapshot"}
  /\ lease \in Leases \cup {None}
  /\ due \subseteq {"reload", "reboot", "reset"}
  /\ address \in Address
  /\ linked \in BOOLEAN
  /\ page \in [name : Page, offer : {"none", "next", "choices"}, conflict : Leases \cup {None},
               nets : SUBSET Air, hosts : Seq(Mac), busy : SUBSET Radio,
               lan : Form \cup {None}, confirm : {"no", "armed", "sent"}]
  /\ fixedFor \in Leases \cup {None}
  /\ torn \in BOOLEAN
  /\ unzoned \in BOOLEAN
  /\ raced \in BOOLEAN
  /\ begun \in 0..MaxJobs
  /\ job \in [Worker -> [at : At, home : BOOLEAN, proto : Proto, ssid : Ssid \cup {"air", None},
                         radio : Radio \cup {None}, section : Section \cup {None},
                         wan : Leases \cup {None}, ip : Address \cup {None}, mac : Mac \cup {None}, form : Form \cup {None},
                         list : SUBSET Nat, left : SUBSET Nat, todo : SUBSET Radio]]

-----------------------------------------------------------------------------
(* Networks, addresses and radios.                                         *)

\* ipaddress.ip_network: the addresses of the network that ip has under the mask.
NetOf(ip, mask) == {a \in Address : \/ mask = 16
                                    \/ a[1] = ip[1] /\ (mask = 24 \/ (a[2] < 4) = (ip[2] < 4))}
Overlap(net, other) == net \cap other # {}
EdgeOctet(ip) == ip[2] \in {0, 7}

\* Mutant: a new address is taken without a look at the provider's network.
NewIfPrivate(ip, wan) == ip[1] \in Private /\ ~EdgeOctet(ip)

\* The conflict's own form: a private address whose /24 is clear of the provider's network.
ValidNewLan(ip, wan) ==
  /\ ip[1] \in Private
  /\ ~EdgeOctet(ip)
  /\ ~Overlap(NetOf(ip, 24), NetOf(wan.ip, wan.mask))

\* The LAN card's form: the range of the DHCP server fits the subnet.
ValidLan(f) ==
  /\ f.ip[1] \in Private
  /\ ~EdgeOctet(f.ip)
  /\ f.start > 0 /\ f.limit > 0
  /\ f.start + f.limit - 1 <= Cardinality(NetOf(f.ip, f.mask)) - 2

PickFree(wan) ==
  LET clear == SelectSeq(Candidates, LAMBDA c : c \notin NetOf(wan.ip, wan.mask))
  IN  IF clear = <<>> THEN Candidates[1] ELSE clear[1]

\* A CIDR address with the netmask appended does not parse: no conflict is seen then.
Conflict == IF /\ lease # None
               /\ conf.network.form = "split"
               /\ Overlap(NetOf(lease.ip, lease.mask), NetOf(conf.network.ip, conf.network.mask))
            THEN lease ELSE None

\* Merged by name, the strongest cell of each.
Strongest(cells) == {c \in cells : \A d \in cells : d.ssid = c.ssid => d.signal <= c.signal}

\* The radio of the network's band, else the first one.
RadioFor(band) == {r \in Radio : BandOf[r] = band \/ \A q \in Radio : BandOf[q] # band}

\* Any section in client mode occupies its radio, and so does the one named 'sta'.
Busy(wireless) == {wireless[s].device : s \in {s \in Section : wireless[s].mode = "sta" \/ s = "sta"}} \ {None}

\* The sections that already are an access point on the radio, else the default one.
ApSections(wireless, r) ==
  LET own == {s \in Section : wireless[s].device = r /\ wireless[s].mode = "ap"}
  IN  IF own = {} THEN {r} ELSE own

OptionsOf(proto) == CASE proto = "pppoe" -> {"username", "password"}
                      [] proto = "static" -> {"ipaddr", "netmask", "gateway", "dns"}
                      [] OTHER -> {}

OwnerAp == IF OwnerRadio = None THEN Absent ELSE [device |-> OwnerRadio, mode |-> "ap", ssid |-> "stock"]

\* A factory-fresh router, with what its owner added to the Wi-Fi.
Fresh(form, own) ==
  [wireless |-> [s \in Section |-> IF s = "sta" THEN Absent ELSE IF s = "own" THEN own
                                   ELSE [device |-> s, mode |-> "ap", ssid |-> "stock"]],
   network |-> [proto |-> "dhcp", opts |-> {}, wwan |-> FALSE, ip |-> Candidates[1], mask |-> 24, form |-> form],
   firewall |-> 0,
   dhcp |-> [hosts |-> <<>>, start |-> 2, limit |-> 3]]
\* Mutant: the release's name is taken for the form.
FormAsNamed(rel) == rel
FormOf(rel) == IF rel = "cidr" THEN "cidr" ELSE "split"

Init ==
  /\ release \in {"split", "cidr", "snapshot"}
  /\ \E macs \in {<<>>} \cup SetToSeqs(Mac) :
       conf = [Fresh(FormOf(release), OwnerAp) EXCEPT !.dhcp.hosts = macs]
  /\ saved = conf
  /\ backup = None
  /\ lease = None
  /\ due = {}
  /\ address = saved.network.ip
  /\ linked = TRUE
  /\ page = Blank("connect")
  /\ fixedFor = None
  /\ torn = FALSE
  /\ unzoned = FALSE
  /\ raced = FALSE
  /\ begun = 0
  /\ job = [w \in Worker |-> Nothing]

-----------------------------------------------------------------------------
(* Commands, answers and screens.                                          *)

Stage(c) == conf' = c /\ UNCHANGED saved
Commit(c, pkgs) ==
  /\ conf' = c
  /\ saved' = [p \in Package |-> IF p \in pkgs THEN c[p] ELSE saved[p]]

\* A step of a job that runs a command: the session must reach the router.
Step(w, at) == linked /\ job[w].at = at
GoTo(w, at) == job' = [job EXCEPT ![w].at = at]
End(w) == job' = [job EXCEPT ![w] = Nothing]

\* Steps between the first change of the uplink and its commit.
Unfinished(w) == job[w].at \in {"wwan", "zone", "commitSta"}
Tear(w) == torn' = (torn \/ \E v \in Worker \ {w} : Unfinished(v))

\* run_async: a thread takes the job.
Begin(j) ==
  /\ begun < MaxJobs
  /\ begun' = begun + 1
  /\ \E w \in Worker : job[w] = Nothing /\ job' = [job EXCEPT ![w] = [j EXCEPT !.home = TRUE]]
Start(at) == [Nothing EXCEPT !.at = at]

\* The screens: what was started on one goes on without it when it is left.
Open(name) ==
  /\ linked
  /\ name = "ap" => page.name = "internet" /\ page.offer # "none"
  /\ page' = Blank(name)
  /\ begun < MaxJobs
  /\ LET away == [w \in Worker |-> IF job[w] = Nothing THEN Nothing ELSE [job[w] EXCEPT !.home = FALSE]]
     IN  IF name = "ap" THEN job' = away /\ UNCHANGED begun
         ELSE /\ begun' = begun + 1
              /\ \E w \in Worker :
                   /\ job[w] = Nothing
                   /\ job' = [away EXCEPT ![w] = [Start(IF name = "internet" THEN "conflict" ELSE "read")
                                                    EXCEPT !.home = TRUE]]
  /\ UNCHANGED <<router, backup, history>>

\* A command raises: the link is gone, or the router refused.
Fail(w) ==
  /\ job[w] # Nothing
  /\ torn' = (torn \/ Unfinished(w))
  /\ page' = IF job[w].home /\ job[w].at = "lan" THEN [page EXCEPT !.confirm = "no"] ELSE page
  /\ End(w)
  /\ UNCHANGED <<router, backup, fixedFor, unzoned, raced, begun>>

\* The user connects again; the threads of the old session have ended by then.
Reconnect ==
  /\ ~linked
  /\ \A w \in Worker : job[w] = Nothing
  /\ linked' = TRUE
  /\ page' = Blank("connect")
  /\ UNCHANGED <<config, backup, release, lease, due, address, history, begun, job>>

-----------------------------------------------------------------------------
(* The router's side.                                                      *)

\* The provider gives the WAN another address, or none.
Renew == \E l \in Leases \cup {None} :
  /\ lease' = l
  /\ l # lease
  /\ UNCHANGED <<config, backup, release, due, address, linked, page, history, begun, job>>

\* The detached `network reload`.
Reload ==
  /\ "reload" \in due
  /\ due' = due \ {"reload"}
  /\ address' = saved.network.ip
  /\ linked' = (linked /\ address' = address)
  /\ UNCHANGED <<config, backup, release, lease, page, history, begun, job>>

\* Power loss, or the detached `reboot`: what was only staged is gone.
Reboot ==
  /\ conf' = saved
  /\ due' = {}
  /\ address' = saved.network.ip
  /\ linked' = FALSE
  /\ UNCHANGED <<saved, backup, release, lease, page, history, begun, job>>

\* The detached `firstboot -y && reboot`.
FirstBoot ==
  /\ "reset" \in due
  /\ saved' = Fresh(FormOf(release), Absent)
  /\ conf' = saved'
  /\ due' = {}
  /\ address' = saved'.network.ip
  /\ linked' = FALSE
  /\ fixedFor' = None
  /\ UNCHANGED <<backup, release, lease, page, torn, unzoned, raced, begun, job>>

-----------------------------------------------------------------------------
(* The internet screen.                                                    *)

Refresh ==
  /\ page.name = "internet"
  /\ page.offer # "none"
  /\ page' = [page EXCEPT !.offer = "none", !.nets = {}]
  /\ Begin(Start("conflict"))
  /\ UNCHANGED <<router, backup, history>>

DetectConflict(w) ==
  /\ Step(w, "conflict")
  /\ job' = [job EXCEPT ![w].at = "ping", ![w].wan = Conflict]
  /\ UNCHANGED <<router, backup, page, history, begun>>

\* The ping's answer is the provider's; the screen is drawn with it.
Render(w) ==
  /\ Step(w, "ping")
  /\ \E offer \in {"next", "choices"} :
       page' = IF job[w].home THEN [page EXCEPT !.offer = offer, !.conflict = job[w].wan] ELSE page
  /\ End(w)
  /\ UNCHANGED <<router, backup, history, begun>>

Scan ==
  /\ page.name = "internet" /\ page.offer = "choices"
  /\ Begin(Start("scan"))
  /\ UNCHANGED <<router, backup, page, history>>

ScanNetworks(w) ==
  /\ Step(w, "scan")
  /\ page' = IF job[w].home THEN [page EXCEPT !.nets = Strongest(Air)] ELSE page
  /\ End(w)
  /\ UNCHANGED <<router, backup, history, begun>>

DoWan ==
  /\ page.name = "internet" /\ page.offer = "choices"
  /\ \E proto \in Proto : Begin([Start("stageWan") EXCEPT !.proto = proto])
  /\ UNCHANGED <<router, backup, page, history>>

\* configure_wan: the protocol, without what another protocol left.
StageWan(w) ==
  /\ Step(w, "stageWan")
  /\ Stage([conf EXCEPT !.network.proto = job[w].proto,
                        !.network.opts = (@ \ WanOption) \cup OptionsOf(job[w].proto)])
  /\ GoTo(w, "commitWan")
  /\ UNCHANGED <<backup, release, lease, due, address, linked, page, history, begun>>

CommitWan(w) ==
  /\ Step(w, "commitWan")
  /\ Commit(conf, {"network"})
  /\ Tear(w)
  /\ GoTo(w, "wait")
  /\ UNCHANGED <<backup, release, lease, due, address, linked, page, fixedFor, unzoned, raced, begun>>

\* wait_for_internet has its answer; a good one checks again from the start.
AfterUplink(w) ==
  /\ Step(w, "wait")
  /\ \/ End(w) /\ UNCHANGED page
     \/ /\ job[w].home
        /\ page' = [page EXCEPT !.offer = "none", !.nets = {}]
        /\ job' = [job EXCEPT ![w] = [Start("conflict") EXCEPT !.home = TRUE]]
  /\ UNCHANGED <<router, backup, history, begun>>

DoWifi ==
  /\ page.name = "internet" /\ page.offer = "choices"
  /\ \E c \in page.nets : \E r \in RadioFor(c.band) :
       Begin([Start("iface") EXCEPT !.ssid = "air", !.radio = r])
  /\ UNCHANGED <<router, backup, page, history>>

\* configure_wifi_sta, command by command.
StageIface(w) ==
  /\ Step(w, "iface")
  /\ Stage([conf EXCEPT !.wireless["sta"] = [device |-> job[w].radio, mode |-> "sta", ssid |-> job[w].ssid]])
  /\ GoTo(w, "wwan")
  /\ UNCHANGED <<backup, release, lease, due, address, linked, page, history, begun>>

StageWwan(w) ==
  /\ Step(w, "wwan")
  /\ Stage([conf EXCEPT !.network.wwan = TRUE])
  /\ GoTo(w, "zone")
  /\ UNCHANGED <<backup, release, lease, due, address, linked, page, history, begun>>

\* A firewall without a zone 'wan', and a change that fails, go unreported.
AddToZone(w) ==
  /\ Step(w, "zone")
  /\ \/ Stage([conf EXCEPT !.firewall = @ + 1]) /\ UNCHANGED unzoned
     \/ UNCHANGED config /\ unzoned' = TRUE
  /\ GoTo(w, "commitSta")
  /\ UNCHANGED <<backup, release, lease, due, address, linked, page, fixedFor, torn, raced, begun>>

\* Mutant: the firewall's change is left staged.
UplinkWithoutZone == {"wireless", "network"}

\* The packages an uplink is made of.
UplinkPackages == {"wireless", "network", "firewall"}

CommitSta(w) ==
  /\ Step(w, "commitSta")
  /\ Commit(conf, UplinkPackages)
  /\ Tear(w)
  /\ address' = saved'.network.ip
  /\ linked' = (address' = address)
  /\ GoTo(w, "wait")
  /\ UNCHANGED <<backup, release, lease, due, page, fixedFor, unzoned, raced, begun>>

FixConflict ==
  /\ page.name = "internet"
  /\ page.conflict # None
  /\ \E ip \in Address :
       /\ ip = PickFree(page.conflict) \/ ip \in {f.ip : f \in Forms}
       /\ ValidNewLan(ip, page.conflict)
       /\ Begin([Start("move") EXCEPT !.ip = ip, !.wan = page.conflict])
  /\ page' = [page EXCEPT !.conflict = None]
  /\ UNCHANGED <<router, backup, history>>

\* change_lan_ip: always an address with a netmask of /24.
ChangeLanIp(w) ==
  /\ Step(w, "move")
  /\ Commit([conf EXCEPT !.network.ip = job[w].ip, !.network.mask = 24,
                         !.network.form = IF release = "cidr" /\ @ = "cidr" THEN "split" ELSE @], {"network"})
  /\ Tear(w)
  /\ fixedFor' = job[w].wan
  /\ due' = due \cup {"reload"}
  /\ GoTo(w, "moved")
  /\ UNCHANGED <<backup, release, lease, address, linked, page, unzoned, raced, begun>>

\* The screen has nothing left but the new address.
LanChanged(w) ==
  /\ job[w].at = "moved"
  /\ page' = IF job[w].home THEN Blank("connect") ELSE page
  /\ End(w)
  /\ UNCHANGED <<router, backup, history, begun>>

-----------------------------------------------------------------------------
(* The access point.                                                       *)

DoCreate ==
  /\ page.name = "ap"
  /\ \E name \in Ssid : Begin([Start("look") EXCEPT !.ssid = name])
  /\ UNCHANGED <<router, backup, page, history>>

\* configure_ap: every radio but that of the section 'sta'.
LookAround(w) ==
  /\ Step(w, "look")
  /\ job' = [job EXCEPT ![w].at = "stageAp", ![w].todo = Radio \ {conf.wireless["sta"].device}]
  /\ UNCHANGED <<router, backup, page, history, begun>>

StageAp(w) ==
  /\ Step(w, "stageAp")
  /\ \E r \in job[w].todo :
       /\ Stage([conf EXCEPT !.wireless[r] = [device |-> r, mode |-> "ap", ssid |-> job[w].ssid]])
       /\ job' = [job EXCEPT ![w].todo = @ \ {r}]
  /\ UNCHANGED <<backup, release, lease, due, address, linked, page, history, begun>>

CommitAp(w) ==
  /\ Step(w, "stageAp")
  /\ job[w].todo = {}
  /\ Commit(conf, {"wireless"})
  /\ Tear(w)
  /\ GoTo(w, "poll")
  /\ UNCHANGED <<backup, release, lease, due, address, linked, page, fixedFor, unzoned, raced, begun>>

\* Created: which radios come up is the router's; one of them is enough to go on.
Created(w) ==
  /\ Step(w, "poll")
  /\ page' = IF job[w].home THEN [page EXCEPT !.offer = "next"] ELSE page
  /\ End(w)
  /\ UNCHANGED <<router, backup, history, begun>>

-----------------------------------------------------------------------------
(* The advanced screen: one radio's network, the LAN, reservations.        *)

\* refresh: what the cards show until the next one.
ReadSettings(w) ==
  /\ Step(w, "read")
  /\ page' = IF job[w].home
             THEN [page EXCEPT !.offer = "choices", !.hosts = conf.dhcp.hosts, !.busy = Busy(conf.wireless), !.confirm = "no",
                               !.lan = [ip |-> conf.network.ip, mask |-> conf.network.mask,
                                        start |-> conf.dhcp.start, limit |-> conf.dhcp.limit]]
             ELSE page
  /\ End(w)
  /\ UNCHANGED <<router, backup, history, begun>>

Cards == page.name = "advanced" /\ page.offer = "choices"

ApplyRadio ==
  /\ Cards
  /\ \E r \in Radio \ page.busy, name \in Ssid : Begin([Start("find") EXCEPT !.radio = r, !.ssid = name])
  /\ UNCHANGED <<router, backup, page, history>>

\* set_radio_wifi.
FindIface(w) ==
  /\ Step(w, "find")
  /\ \E s \in ApSections(conf.wireless, job[w].radio) :
       job' = [job EXCEPT ![w].at = "radio", ![w].section = s]
  /\ UNCHANGED <<router, backup, page, history, begun>>

WriteRadio(w) ==
  /\ Step(w, "radio")
  /\ Commit([conf EXCEPT !.wireless[job[w].section] =
               [device |-> job[w].radio, mode |-> "ap", ssid |-> job[w].ssid]], {"wireless"})
  /\ Tear(w)
  /\ End(w)
  /\ UNCHANGED <<backup, release, lease, due, address, linked, page, fixedFor, unzoned, raced, begun>>

\* The card is filled in; the trigger validates it and asks, the second button sends what is
\* in the fields by then.
Edit ==
  /\ Cards /\ release # "snapshot"
  /\ page.confirm # "sent"
  /\ \E f \in Forms : page' = [page EXCEPT !.lan = f]
  /\ UNCHANGED <<router, backup, history, begun, job>>

Arm ==
  /\ Cards /\ release # "snapshot"
  /\ page.confirm = "no"
  /\ ValidLan(page.lan)
  /\ page' = [page EXCEPT !.confirm = "armed"]
  /\ UNCHANGED <<router, backup, history, begun, job>>

DoLanApply ==
  /\ Cards
  /\ page.confirm = "armed"
  /\ page' = [page EXCEPT !.confirm = "sent"]
  /\ Begin([Start("lan") EXCEPT !.form = page.lan])
  /\ UNCHANGED <<router, backup, history>>

ApplyLan(w) ==
  /\ Step(w, "lan")
  /\ Commit([conf EXCEPT !.network.ip = job[w].form.ip, !.network.mask = job[w].form.mask,
                         !.network.form = FormOf(release),
                         !.dhcp.start = job[w].form.start, !.dhcp.limit = job[w].form.limit],
            {"network", "dhcp"})
  /\ Tear(w)
  /\ fixedFor' = None
  /\ due' = due \cup {"reload"}
  /\ End(w)
  /\ UNCHANGED <<backup, release, lease, address, linked, page, unzoned, raced, begun>>

\* The menu offers the devices the last reading found no reservation for.
PinDevice ==
  /\ Cards
  /\ \E m \in Mac \ ToSet(page.hosts) : Begin([Start("pin") EXCEPT !.mac = m])
  /\ UNCHANGED <<router, backup, page, history>>

UnpinDevice ==
  /\ Cards
  /\ \E m \in ToSet(page.hosts) : Begin([Start("unpin") EXCEPT !.mac = m])
  /\ UNCHANGED <<router, backup, page, history>>

\* Mutant: the device on the screen at the position, not the one on the router.
HeldOnScreen(hosts, i, m) == i \in 1..Len(page.hosts) /\ page.hosts[i] = m

\* uci get of the device at a position; the lowest position comes first.
HeldBy(hosts, i, m) == i \in 1..Len(hosts) /\ hosts[i] = m
Lowest(list, i) == i \in list /\ \A k \in list : i <= k
Without(hosts, i) == IF i \in 1..Len(hosts) THEN RemoveAt(hosts, i) ELSE hosts

\* list_static_leases: how many there are, and then, command by command, whose each one is.
ListLeases(w) ==
  /\ linked
  /\ job[w].at \in {"pin", "unpin"}
  /\ job' = [job EXCEPT ![w].at = IF @ = "pin" THEN "drop" ELSE "unset",
                        ![w].left = 1..Len(conf.dhcp.hosts)]
  /\ UNCHANGED <<router, backup, page, history, begun>>

AskLease(w) ==
  /\ linked
  /\ job[w].at \in {"drop", "unset"}
  /\ \E i \in job[w].left :
       /\ Lowest(job[w].left, i)
       /\ job' = [job EXCEPT ![w].left = @ \ {i},
                             ![w].list = IF HeldBy(conf.dhcp.hosts, i, job[w].mac) THEN @ \cup {i} ELSE @]
  /\ UNCHANGED <<router, backup, page, history, begun>>

\* A step of a job that knows every position.
StepListed(w, at) == Step(w, at) /\ job[w].left = {}

Race(w) == raced' = (raced \/ \E v \in Worker \ {w} : job[v].at \in {"drop", "unset"})

\* add_static_lease: the old ones by position, then the new one.
DropLease(w) ==
  /\ StepListed(w, "drop")
  /\ \E i \in job[w].list :
       /\ Lowest(job[w].list, i)
       /\ Stage([conf EXCEPT !.dhcp.hosts = Without(@, i)])
       /\ job' = [job EXCEPT ![w].list = @ \ {i}]
  /\ Race(w)
  /\ UNCHANGED <<backup, release, lease, due, address, linked, page, fixedFor, torn, unzoned, begun>>

AddLease(w) ==
  /\ StepListed(w, "drop")
  /\ job[w].list = {}
  /\ Commit([conf EXCEPT !.dhcp.hosts = Append(@, job[w].mac)], {"dhcp"})
  /\ Race(w)
  /\ job' = [job EXCEPT ![w] = IF job[w].home THEN [Start("read") EXCEPT !.home = TRUE] ELSE Nothing]
  /\ UNCHANGED <<backup, release, lease, due, address, linked, page, fixedFor, torn, unzoned, begun>>

\* remove_static_lease: the first one; with none it fails.
RemoveLease(w) ==
  /\ StepListed(w, "unset")
  /\ \E i \in job[w].list :
       Lowest(job[w].list, i) /\ Commit([conf EXCEPT !.dhcp.hosts = Without(@, i)], {"dhcp"})
  /\ Race(w)
  /\ job' = [job EXCEPT ![w] = IF job[w].home THEN [Start("read") EXCEPT !.home = TRUE] ELSE Nothing]
  /\ UNCHANGED <<backup, release, lease, due, address, linked, page, fixedFor, torn, unzoned, begun>>

-----------------------------------------------------------------------------
(* Backup, restore, factory reset.                                         *)

Maintain(at) ==
  /\ Cards
  /\ at = "upload" => backup # None
  /\ Begin(Start(at))
  /\ UNCHANGED <<router, backup, page, history>>

CreateBackup(w) ==
  /\ Step(w, "backup")
  /\ backup' = saved
  /\ End(w)
  /\ UNCHANGED <<router, page, history, begun>>

\* write_file and the test of the archive.
Upload(w) ==
  /\ Step(w, "upload")
  /\ GoTo(w, "extract")
  /\ UNCHANGED <<router, backup, page, history, begun>>

\* The archive replaces the saved files; what is staged stays on top of them.
Extract(w) ==
  /\ Step(w, "extract")
  /\ saved' = backup
  /\ conf' = [p \in Package |->
                IF p = "firewall" THEN backup[p] + (conf[p] - saved[p])
                ELSE [f \in DOMAIN saved[p] |-> IF conf[p][f] = saved[p][f] THEN backup[p][f] ELSE conf[p][f]]]
  /\ fixedFor' = None
  /\ raced' = (raced \/ conf.dhcp.hosts # saved.dhcp.hosts
                     \/ \E v \in Worker \ {w} : job[v].at \in {"drop", "unset"})
  /\ Tear(w)
  /\ GoTo(w, "reboot")
  /\ UNCHANGED <<backup, release, lease, due, address, linked, page, unzoned, begun>>

Detach(w) ==
  /\ linked
  /\ job[w].at \in {"reboot", "reset"}
  /\ due' = due \cup {job[w].at}
  /\ page' = IF job[w].home THEN Blank("connect") ELSE page
  /\ End(w)
  /\ UNCHANGED <<config, backup, release, lease, address, linked, history, begun>>

-----------------------------------------------------------------------------
User ==
  \/ \E name \in {"internet", "ap", "advanced"} : Open(name)
  \/ Reconnect \/ Refresh \/ Scan \/ DoWan \/ DoWifi \/ FixConflict \/ DoCreate \/ ApplyRadio
  \/ Edit \/ Arm \/ DoLanApply \/ PinDevice \/ UnpinDevice
  \/ \E at \in {"backup", "upload", "reset"} : Maintain(at)

Work(w) ==
  \/ DetectConflict(w) \/ Render(w) \/ ScanNetworks(w)
  \/ StageWan(w) \/ CommitWan(w) \/ AfterUplink(w)
  \/ StageIface(w) \/ StageWwan(w) \/ AddToZone(w) \/ CommitSta(w)
  \/ ChangeLanIp(w) \/ LanChanged(w)
  \/ LookAround(w) \/ StageAp(w) \/ CommitAp(w) \/ Created(w)
  \/ ReadSettings(w) \/ FindIface(w) \/ WriteRadio(w) \/ ApplyLan(w)
  \/ ListLeases(w) \/ AskLease(w) \/ DropLease(w) \/ AddLease(w) \/ RemoveLease(w)
  \/ CreateBackup(w) \/ Upload(w) \/ Extract(w) \/ Detach(w)
  \/ Fail(w)

Outside == Renew \/ Reload \/ Reboot \/ FirstBoot

Next == User \/ Outside \/ \E w \in Worker : Work(w)

Spec == Init /\ [][Next]_vars

-----------------------------------------------------------------------------
(* Properties.                                                             *)

Concerns(w, m) == job[w].at \in {"drop", "unset"} /\ job[w].left = {} /\ job[w].mac = m

\* A device loses its reservation only when the user pinned or unpinned that device, or the
\* configuration was replaced: positions are looked up again (lan.py:302), and they are right as
\* long as no other job changes the reservations from the listing to the last deletion.
LeasesKept ==
  [][\A m \in Mac :
       m \in ToSet(conf.dhcp.hosts) /\ m \notin ToSet(conf'.dhcp.hosts) =>
         \/ \E w \in Worker : Concerns(w, m)
         \/ raced
         \/ "reset" \in due \/ \E w \in Worker : job[w].at = "extract"]_vars

\* Whatever else is committed around it, a saved Wi-Fi uplink has its network, and its place in
\* the firewall's zone (network.py:905) unless that step once found no zone or failed; half an
\* uplink is saved only while its job is still running, or once a job failed half-way or another
\* one committed its half or replaced the configuration.
UplinkRouted ==
  \/ torn
  \/ \E w \in Worker : Unfinished(w)
  \/ saved.wireless["sta"].mode # "sta"
  \/ saved.network.wwan /\ (saved.firewall > 0 \/ unzoned)

\* The address that ended a conflict is clear of the provider's network it was in conflict with,
\* until the LAN is changed again (network.py:299, 322).
FixResolves == fixedFor # None =>
  ~Overlap(NetOf(saved.network.ip, saved.network.mask), NetOf(fixedFor.ip, fixedFor.mask))
=============================================================================
