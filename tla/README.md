# A verification project for Re:Sputnik

Re:Sputnik is a desktop wizard (Python, customtkinter) that brings an OpenWrt
router under its control over SSH and configures Re:HomeProxy on it. This
directory holds TLA+ models of its core logic, TLC configurations that check
them on small instances, and proofs, checked by TLAPS, of the properties that
matter most, for every value of the constants.

All paths below are relative to `src/re_sputnik/` of the repository.

```
tlc -workers 2 -config KeyLease_twopcs.cfg MCKeyLease     # one run
tlapm KeyLeaseProofs.tla                                  # one module's proofs
```

`PROJECT.json` is the machine-readable index: components, runs, the map from
definitions to source lines, mutants, findings, hazards, theorems.


## 1. The system

### How it is put together

```
  Tk thread                 worker threads             router (OpenWrt)
  ---------                 --------------             ----------------
  screens (ui/*_screen) --run_async--> engine/* ------> RouterClient ==SSH==> ash, uci, ubus,
     ^                                   |               (one transport,       opkg/apk, dropbear,
     |                                   |                one lock)            cron, homeproxy
     +---- queue, pumped every 50 ms ----+
                                         |
                             keychain (secrets.py), routers.json (profiles.py),
                             settings.json
```

- The **UI** never blocks: a screen hands a function to `run_async`
  (`ui/worker.py`), which runs it in a daemon thread and puts the callback on a
  queue that the Tk thread empties. A callback whose widget is gone is dropped.
  Leaving a screen does not stop its thread.
- The **engine** functions are straight-line sequences of router commands. None
  of them holds a lock across commands: the commands of overlapping tasks
  interleave.
- **RouterClient** (`router/client.py`) owns the only SSH transport and lets one
  command at a time on the wire (`_cmd_lock`).
- The **router** keeps the durable state: `authorized_keys`, root's password, the
  lease files, uci packages, installed packages. It restarts, loses power, is
  reset, has a clock that may be wrong, and runs a cron script of the app's own.
- The **PC** keeps an SSH identity, passwords and pinned host keys in the
  keychain, and the list of known routers in a JSON file.

### Inventory

| component | state | operations | what is hard | what makes it correct |
|---|---|---|---|---|
| **key lease** (`engine/key_lease.py`, `*_public_key` of `router/client.py`, `engine/router_security.py`) | `authorized_keys`, `.rc_blob`, `.rc_lease`, the crontab, `$tmp` copies | arm, renew, prune script, install, relabel, revoke one or all | several PCs, cron and power cuts meet in one file; a clock that jumps | no key twice; nobody else's key lost; a used key stays; an abandoned key leaves |
| **first run and connection** (`engine/firstrun.py`, connect, first-run and security screens) | root's password, the app's key, host key; keychain; plan and result of each setup | connect, accept a new host key, apply (install, verify, set, confirm, store), change password, revoke | every command may fail, or work and fail; workers outlive their screen; the app ends; the router is reset | nobody is locked out; "verified" means that the key opens the router |
| **session and workers** (`router/client.py`, `ui/worker.py`) | transport, `_cmd_lock`, threads, queue | run, run_stream, run_bytes, write_file, run_async, pump | timeouts, silent peers, exceptions inside the lock, answers after navigation | one command at a time; the lock never leaks; tasks end; answers reach their own screen only |
| **automatic pool** (`engine/nodes.py`) | the list and the pool being built | build_urltest_pool | caps, empty queues, precedence | sound, spread, in order, complete, terminates |
| **proxy configuration** (`engine/rules.py`, `engine/nodes.py`, rules, overview and node screens) | uci package homeproxy, staged and saved; the running service | add, update, remove rule; defaults; mode; main server and pool; delete servers | staging shared by all; check-then-act over commands; rules named by their position; partial failures | one rule per source; nothing staged is forgotten; rules whole; pool not empty; the service runs what is saved |
| **keychain and saved routers** (`secrets.py`, `profiles.py`) | keychain entries under two service names, process cache, `routers.json` | get with migration, store, forget, reset; save and forget profile | legacy entries that come back; two entries written one after the other; two threads at an entry and its cache; accesses that fail or are denied | the cache is what a fresh reader finds; an entry changes only by whoever stores or forgets it; the identity is a pair |
| **installation and update** (`engine/install_app.py`, `engine/mirror.py`, software and core screens) | packages, files in `/tmp`, mirror latch, rpcd, what the screens offer | run, install_core, update_app, _run_retry, _wget | commands given up that still run; the old package removed first; best-effort parts that raise; jobs of two screens | a screen lets the user on only for a router with the app or its predecessor, a core and the modules; no job by itself withdraws HomeProxy; rpcd knows the app or the user an error |
| **offline preparation** (`engine/preinstall.py`) | as above, and files pushed to RAM | run, snapshot_kernel | gates; one command that installs and removes | as above |
| **uplink and Wi-Fi** (`engine/network.py`, internet and access point screens) | uci network, wireless, firewall | WAN protocols, configure_wifi_sta, configure_ap, the conflict of subnets | three packages staged by separate commands and committed by anybody | a saved Wi-Fi uplink is routed; the LAN moved away from a conflict stays clear of it |
| **LAN, reservations, maintenance** (`engine/lan.py`, `engine/maintenance.py`, advanced screen) | uci dhcp and network, the archive | static leases by position, LAN settings, backup, restore, factory reset | positions that shift while they are used; detached restarts | the reservation that is changed is the one meant |
| **wizard flow** (`app.py`, `ui/settings_shell.py`) | the screen, the mode, the way back, the state given along | the disclaimer, three chains of screens, back | a state as old as the connection; installations that outlive their screen | the chain ends with a main server and an app to use it; a router met for the first time is not handed off open |
| **per-device access** (`engine/access.py`, `ui/access_screen.py`) | lists in homeproxy, the page's copy, the button | set_device_flag, set_global_mode, restart | edits, restarts and their answers overlap; an edit is two commands, and either may fail or answer too late | no edit made on the page shown is left behind a disabled button, unless it was reported as failed |
| **anti-DPI** (`engine/byedpi.py`, `engine/zapret.py`, `ui/antidpi_screen.py`) | packages, the page's list of strategies, the sweep | install in three steps, test, sweep, enable | a chain of callbacks over a list another answer replaces | a running sweep comes to its end |
| **core choice** (`engine/core_health.py`, `ui/core_screen.py`) | the installed cores | active_core, pick | early return on a stale choice | the screen and the router agree |
| **SQM, UPnP, final steps** (`engine/sqm.py`, `engine/upnp.py`, `engine/finalize.py`) | uci sqm, upnpd, system | apply_settings, set_enabled, set_ru_ntp | `exists` read by an earlier screen | - |
| **discovery, state, overview, VPN links** | none | read-only probes and parsers | - | - |
| **orchestrator, executor, security gate** (`engine/orchestrator.py`, `executor.py`, `security.py`) | library code | no screen calls it | - | - |

The hazards of each, at the line where they bite, are listed in `PROJECT.json`.


## 2. Modules

| module | models | runs | proofs |
|---|---|---|---|
| `KeyLease` | the files of the router's dropbear, the PCs that edit them, the prune script | `MCKeyLease`: `_twopcs`, `_onepc`, `_onlykey` | `KeyLeaseProofs` |
| `FirstRun` | connect, first-run setup, change of password and revocation, one router and one PC | `MCFirstRun`: `_workers`, `_vacuous` | `FirstRunProofs` |
| `SerialRouter` | abstract: callers are served one at a time | as `SerialCalls` of Session | |
| `Session` | threads, calls with their waits, the lock, the queue, the screen | `MCSession`: `_workers` | `SessionProofs` |
| `UrltestPool` | build_urltest_pool, one pick a step | `MCUrltestPool`: `_lists` | `ProxyConfigProofs` |
| `ProxyConfig` | package homeproxy, the tasks of the screens, command by command | `MCProxyConfig`: `_tasks` | `ProxyConfigProofs` |
| `Install` | packages, downloads, rpcd, the software, preparation and core screens | `MCInstall`: `_jobs` | `InstallProofs` |
| `Keychain` | the keychain, its cache, the move from the old service name, the list of routers | `MCKeychain`: `_jobs` | `KeychainProofs` |
| `Network` | uplink, access point, LAN, reservations, backup, restore, reset | `MCNetwork`: `_jobs` | `NetworkProofs` |
| `Wizard` | the window: modes, chains of screens, installations, back | with Settings | `WindowProofs` |
| `Settings` | EXTENDS Wizard: the settings and their page of access control | with AntiDpi | `WindowProofs` |
| `AntiDpi` | EXTENDS Settings: the page against packet inspection | `MCSettings`: `Settings_window` | `WindowProofs` |

How they fit: every engine module (KeyLease, FirstRun, ProxyConfig, Install,
Network) takes from Session that commands do not overlap, so one command is one
step, and that a thread goes on when its screen is left. Wizard puts the screens
in order and keeps of the engine modules only what decides the next screen: an
installation is three steps, a first-run setup one. Settings and AntiDpi compose
with it in one next-state relation, since tasks of a page outlive the page and the
window's steps (a reset router, a restart, another screen) reach into the pages.

A definition whose comment begins "Mutant:" is not part of the model: it is a
plausible bug put in the place of the definition after it, to show that the
property named in `PROJECT.json` notices.

### KeyLease

`lines` is `authorized_keys` as a set of lines, each a key and a comment (`"old"`
for the label of an earlier brand, `"new"` for this PC's). `blob`, `lease` and
`cron` are `.rc_blob`, `.rc_lease` and the crontab entry. Every shell statement
that touches a file other processes touch is a step: `install_public_key` is a test, a
filtered copy into `$tmp` and a `mv`; `arm` writes blob, lease and crontab; the prune
script tests, copies, truncates the file (`cat $tmp > $A` truncates before it writes)
and cleans up. The `mv` goes from `/tmp`, a RAM disk, to the overlay, where busybox
removes the old file and then copies: two steps, `MoveUnlink` and `MoveFill`, with
`Gap` between them, in which another PC or the script finds no file. The shell's own
rules are kept: `grep -v` fails when it prints nothing, and a `mv` gives a new inode, so
that a script with the old one open writes into nothing (`NewFile`). `Now` is the router's
clock, `Drift` days behind until `SetClock`. `Abort` ends a PC's sequence between
two SSH commands, `Reboot` ends everything. Two history variables: `torn`, somebody copied
the file, or the power went, in a gap; `undone`, the keys whose revocation another rewrite,
begun before it, will undo.

The security screen's revocation of one key is a check followed by copy and move;
`revoke_all` lists, then empties the file. `disarm` and `revoke_public_key` have
no caller and are left out.

### FirstRun

Router: `rootpw`, `installed`, `hostkey`. PC: `hasId`, `stored`, `pin`. A worker
goes through install, verify, check, passwd, confirm, store as `run_first_run`
does; every step may succeed, fail before its effect, or fail after it.
`Authenticates` is `_authenticate` of the client: a password decides alone, else
key, else `none`, which dropbear grants to a root without password. `Back` leaves
the worker running; `Restart` closes the app; `FactoryReset` gives the router new
host keys and no password (while the user is on the connect screen: elsewhere
the session would break first). `waived` remembers that the user gave up the
app's way in: revoked its key, or unticked "remember this device" or "keep the
password"; a lock-out after that is the user's choice.

`Connect` pins a host key only where none is pinned, as `connect_screen.py:505` does; the setup's
own verifying login (`firstrun.py:161`) compares no pin. No property is about pins.

The delivery of a callback is merged with the end of its task here; Session has
it as a step. `Honoured = FALSE` is a dropbear that does not accept the key file.

### Session and SerialRouter

A thread runs a task, a task makes calls. A call waits for the lock, then for the
channel (`open`), for the request (`exec`), for output, for the exit status; each
wait has the timeout the code gives it (`Timed`) or none. `link` is the TCP
connection: `"silent"` is a peer that has gone without a word. No keepalive is
set, so TCP notices only if something is unacknowledged (`GoDown`).
`Raise` is an exception inside `with self._cmd_lock`. `Deliver` is one turn of
`pump`, `Navigate` a change of screens. Every caller of `run_async` passes its
screen, so `home` is the screen that asked.

The client is shared but never closed by one thread while another uses it, so the
branches for a transport that is `None` are not modelled.

`SerialRouter` is what the session promises: callers ask, one is served, it is
done. Session implements it under `call <- [w |-> CallOf(at[w])]`.

### UrltestPool

A server is an index into the list; its name is what the three regular
expressions say of it (`ru`, `wl`, `best`), its type and transport are its
bucket. `Seed`, `Prioritise`, `Deal` and `Resort` are the four loops of the
function, one pick a step; `order` and `turn` are the round robin. `Bad` is
`active_core`'s answer: the types that core cannot run.

### ProxyConfig

`nodes`, `main`, `pool`, `mode`, `listed`, `rules` are the package as any command
sees it, staged changes included; `saved` is what was last committed; `applied` is
the main server of the running service. `at[w]` is the next router command of
thread `w`. Between two commands of a task any other task may run, as the lock is
held for one command only. `Fail` ends a task at any command, leaving what it
staged (`torn` until the next commit, whoever makes it); `Reboot` forgets what is
staged. Users choose from lists that may be stale: any server, any rule.

A rule is an anonymous section, `cfgNNhhhh` for uci: `NN` is its position among all
sections of the file, `hhhh` a hash of its type. The model's section is that number. The
servers' named sections come first in the file and count too (none is added here).
`AddSection` takes the number after the last one given since the file was written
(`count`), a deletion leaves the other numbers alone, and a commit, which writes the file,
numbers the rules anew (`Renumber`). A task or a screen keeps the number it read: after
another task's deletion and commit it names another rule or none, and `uci set` goes to
that rule or, silently, nowhere (`SetRule`).

The history variables `failed`, `raced` and `shifted` say that the case a property
excludes really happened: a failure, two overlapping additions, and a commit that
renames rules while another task holds a number (`Renames`). Without `~shifted` TLC
refutes both UniqueUnlessRaced and RulesWhole.

### Install

A job is a worker thread of a screen (`flow` says which), a step one command of
it. `installed` is the set of packages that matter, `Requires` what apk or opkg
pulls in or refuses to install without. A command may succeed, fail, or be given
up (`GiveUp`): then it is `pending`, holds the package database, and ends later
with its effect or without (`PendingEnds`), whatever the PC does meanwhile.
`stale` says that the app is one that rpcd was not restarted for. `latch` is the
module variable of `mirror.py`. `ShowSoftware` is the software screen's check: a
directory that the predecessor's package has too, a core and the modules.
`remove_legacy_app` is two commands: the test (`FindLegacy`) and the removal by name
(`DropLegacy`), which with apk also takes a package that provides the old name. A failed
removal goes unnoticed, a given-up one does not. `Publish` lets releases appear, be
withdrawn and change between stable and test, and the click on an offered update resolves
the release again. `alone`, of a job, is a history: has no other job run, and no given-up
command, since it began? The signing key, language packs and LuCI's own packs are steps
with their ways to fail; sizes, checksums and the text of the reports are left out.

### Keychain

One access to the OS keychain, or to the cache, is a step: `store` is the present
service name, `legacy` the one before the rename, `cache` what this process has read
(a refused entry is not asked for again), `access` where each thread is within
`_kr_get`, `_kr_set` or a forget, and the value it holds. A read that is not cached asks
both names (AskNew, AskOld), moves the entry (Copy, Delete) and caches what it found
(Got, Refused); a store writes (Write), then caches (Put); a forget empties the
cache (Pop), then the keychain (Drop). Each access to the keychain may fail, and a
look-up in the cache is one step with what follows it. Nothing in the code locks either,
so that the accesses of two threads interleave; `crossed`, a history variable, is the
entries where one thread changed what another was at. A public key under an
earlier label is a value of its own (`OldPub`), which the program stores again under the
present one. `load_or_create_app_identity` stores the
private and the public half one after the other. A job is a connection, a setup, a
revocation, a new password, the reset of the app's data, or what the Tk thread
does itself (a chosen router, the disclaimer, "forget"). A reset forgets the routers' entries in any
order of the list, the identity last. `Restart` empties the
cache and ends the jobs; `FactoryReset` gives a router a new host key.

### Network

`conf` is uci's view, `saved` what is committed; a commit saves what anybody
staged in that package. A job's step is one command. `Reload`, `Reboot` and
`FirstBoot` are what the router does two seconds after it was told to, or by
itself; a restart forgets what was staged. An address is a subnet and one of eight
last octets; masks are /16, /24, /25, so that networks can be equal, nested or
apart. Radios, cells and wifi-iface sections keep their rules: a section in client
mode occupies its radio, an access point is every section in that mode on the
radio or else the default one. `AddToZone` adds the network to the zone or, when the loop
finds no zone named 'wan' or `uci add_list` fails, silently nothing (`unzoned`, a history).
Reservations are a sequence, deleted by position as `uci delete dhcp.@host[i]` does.
`ListLeases` counts them, `AskLease` then reads one position at a time, in any order that
deletions in between give them: `left` is what is not read yet. `raced` is a history: two
jobs between their reading and their writing of positions. `restore_backup` extracts the archive over what is
saved while uci keeps what is staged.

### Wizard, Settings and AntiDpi

`link` is the client and the state the screens were given, with the `epoch` of the
router they were read from and, a history, the package it `was` found with; `box` is the
router now. A router may start with a configuration and no package: `/etc/config/homeproxy`
is a conffile, which stays when the package is removed, and it is all `state.py:137` tests. `back` is the chain of the
closures the screens thread along. `Swap` is `_swap`: answers to the old screen are
lost, its installation goes on (`job[w].here`). The three chains are those of
`_after_firstrun`, `_after_internet` and `_after_preinstall*`.

In Settings a page's task is command by command: an edit is a look-up, a staged change
(`SetDeviceFlag`, `SetGlobalMode`) and a `Commit`, and each may fail (`Fails`) or run into
its timeout while the router goes on and makes the edit later (`TimesOut`, `LateEdit`). `saved`
is the policy on the router, `policy` the page's copy, `apply` its button. Two histories:
`unapplied`, the configuration changed since the service read it, which no change of page
resets; `strayed`, such a change came of a task that failed or was given up, or the page
was left since. In AntiDpi the sweep of strategies is a chain of tests, each begun by
the answer to the one before, over the list in `section`, which is read again after
an installation.

Abstracted here, and detailed in the module named: ApplyFirstRun (FirstRun), ApplyNodes
and DeleteServers (ProxyConfig), Revoke and ResetAppData (KeyLease, Keychain), the
screens from internet to finalize, which let the user on in any case (Network). One
device stands for the access page's, and `get_policy`, three reads, is one step: the page
draws what it got either way. The internet's availability is nondeterministic.


## 3. Runs

| run | instance | distinct states | shows |
|---|---|---|---|
| `KeyLease_twopcs` | 2 PCs, 1 foreign key, lease of 1 day, 2 days, 4 jobs | 2.0 million | UniqueLines, ForeignKeysKept, ConnectKeepsKey |
| `KeyLease_onepc` | 1 PC, 1 foreign key, lease of 2 days, clock 1 day behind, 4 days, 4 jobs | 63 thousand | TypeOK; LapsedLeasePruned under fairness |
| `KeyLease_onlykey` | 1 PC, no foreign key | violation | AbandonedKeyPruned fails |
| `FirstRun_workers` | 2 workers, 2 generated and 1 own password, 2 host keys | 0.5 million | TypeOK, NeverLockedOut |
| `FirstRun_vacuous` | dropbear does not honour the key | violation | VerifiedKeyWorks fails |
| `Session_workers` | 2 threads, 1 call each, 2 screens | 0.4 million | TypeOK, AnswersStayHome, SerialCalls; TasksEnd under fairness |
| `UrltestPool_lists` | all lists of up to 4 servers of 10 kinds, cap 3 | 0.2 million | PoolSound, Diverse, Precedence, Complete; Terminates |
| `ProxyConfig_tasks` | 2 threads, 3 tasks, 1 server, 2 sources, no rule or 2 at first, numbers up to 3 | 3.1 million | TypeOK, UniqueUnlessRaced, RulesWhole, PoolKept, MainApplied |
| `Install_jobs` | 2 threads, 2 jobs, 2 versions, a release with apk or opkg and a snapshot | 4.3 million | TypeOK, ReportedReady, StaleOnlyAfterFailure; no step breaks ReadyWithApp, NotWithdrawn |
| `Keychain_jobs` | 1 thread and the Tk thread, 2 of: a job, a failing access, a reset of the router; 1 router with 2 host keys, 2 key pairs | 1.9 million | TypeOK, IdentityWhole, CacheCurrent; no step breaks SecretsKept |
| `Network_jobs` | 2 threads, 4 jobs, 2 radios, 2 devices, 3 subnets | 1.8 million | TypeOK, UplinkRouted, FixResolves; no step breaks LeasesKept |
| `Settings_window` | 2 installations, 2 tasks of pages, 1 reset, 5 uses of what is not walking on, 2 strategies, 1 list and 1 mode to edit | 2.1 million | TypeOK, FinishReady, Guarded, Applied, SweepAlive |

### Why these bounds are enough

- **KeyLease.** Every conflict is between two writers of one file: two PCs, or a PC
  and the script. One foreign key stands for all, since every statement treats
  foreign lines alike; the proofs cover the rest. Days: long enough for a lease to
  lapse and one day more (`LeaseLen + 1`), and in the one-PC run to lapse twice as
  seen by a clock that jumps. Four jobs (`MaxJobs`: setups, connections, revocations) are
  two of each PC: one that prepares the file and one that meets the other's.
- **FirstRun.** Two workers are a task and the one left behind; two generated
  passwords are the one set and the one shown; two host keys are before and after
  a reset.
- **Session.** One holder of the lock and one waiter; one call is enough, as a
  task returns to the same place after each; two screens are the one that asked
  and another one.
- **UrltestPool.** The cap of 3 is smaller than the list of 4, so that it bites;
  three preferred buckets of which one cannot run, a weak one, two others and one
  without a type meet every branch. The kinds mix flags in the ways the regular
  expressions treat differently.
- **ProxyConfig.** Three tasks on two threads are two that overlap and one before,
  between or after them; two rules are the fewest that can share a source, and of which
  one is renamed by the deletion of the other. One server and the automatic pool are two
  different main servers, and the server is the section whose deletion renames the rules.
  `MaxNumber` bounds the numbers, so that a third rule is never added.

- **Install.** Two jobs are the one of this screen and the one left behind; every
  hazard is between two jobs, or a job and a command given up. Two versions are the
  installed one and another; the third kind, none, is version 0. `Boards` leaves a versioned
  snapshot and the old firmwares, which have opkg alone, to the proofs.
- **Keychain.** `MaxEvents` counts the jobs, the failing accesses and the router's resets
  together. Two of them, beside the Tk thread and restarts, which are not counted, are two
  jobs, of which one is interrupted and one meets what it left; a job of which an access
  fails; a connection that meets another host key; or two failures of one
  move on the Tk thread. Three together are in the proofs only. Two pairs are the old one and a newly
  made one. Two routers share nothing but the identity, which is global, so one router is
  enough. Two threads that both make an identity are in the proofs only.
- **Network.** Two jobs overlap, two more prepare or follow; two reservations are the
  fewest of which one's position becomes the other's; three subnets are the home's, the provider's
  and a free one.
- **Settings_window.** Five uses: a mode, a page, and three of back, installation, edit,
  restart, sweep, reset. The chain itself is not bounded. Two strategies are a
  first and a last test. One list (`filter`) and one mode to choose (`disabled`) are two different
  edits; all the lists and modes are in the proofs only.

Symmetry is used for interchangeable PCs, foreign keys, passwords, host keys and
workers, devices in runs without liveness properties only. `CHECK_DEADLOCK FALSE` stands
where the model has an end: all tasks made (ProxyConfig), the function returned
(UrltestPool), or a link dead or silent for ever with nothing left to do and no
more screens to open (Session), and all jobs or uses made (Install, Keychain,
Network, Settings).

### Fairness

- **KeyLease** (`FairSpec`): days pass (until `MaxDay`); the steps of the prune
  script are strongly fair, since cron runs it again every night and a reboot may
  interrupt it every time but not for ever. The PCs are not fair: a user may never
  come back, which is the case the lease is for. Beyond `MaxDay` nothing lapses
  any more, which the property allows for by starting from a lapsed lease.
- **Session** (`FairSpec`): threads run; timers fire; the lock starves nobody
  (strong fairness of `Acquire`: `threading.Lock` does not promise it, the
  operating system's scheduler gives it in practice); a reachable router answers
  what needs no command to end; the Tk loop pumps; TCP gives up eventually on
  what is unacknowledged. A command that never ends by itself is *not* excluded for
  `run`, which has its deadline; for the three other methods it is assumed to end.
- **UrltestPool**: the function runs until it returns (`WF_poolVars(PoolNext)`).
- The other modules have safety properties only.


## 4. Findings

| run | what the source says | what the code does |
|---|---|---|
| `KeyLease_onlykey` | `engine/key_lease.py:11-12`: stop using the app and "the key auto-prunes from every router after the window" | with the app's key alone in the file, `grep -vF` exits 1, the file stays as it is, the lease is deleted: the key stays for ever (line 50) |
| `FirstRun_vacuous` | `engine/firstrun.py:8-9`: "VERIFY key auth works ... so the user can never be locked out" | the verifying connection falls back to `none` on a router without a password, which is where the setup runs: it passes whatever the key does (line 160, `router/client.py:193-201`) |

Seen while modelling, without a run of their own:

Access to the router
- `engine/key_lease.py:79`: one `.rc_blob` per router. A second PC's `arm`
  overwrites the first one's, whose key has no lease any more and never leaves,
  against lines 11-12 ("lost laptop").
- `router/client.py:515` calls its way to rewrite a file, the one of `install_public_key` and
  `relabel_public_key` too, "atomic via temp + mv". `mktemp` is in `/tmp`, another file
  system, so that `mv` removes and copies: a power cut in between leaves no `authorized_keys`, and
  a copy that another PC takes in between brings a file without the others' keys (`torn`).
- A key inside its window can be pruned if `arm` writes the lease with a clock
  that is behind by more than the window and NTP sets it afterwards; the setup
  arms before `ensure_clock` runs.
- `app.py:682-685`: the setup runs "so a handed-off staged device isn't left
  password-less"; one that ended after the key was installed is never resumed, since
  the next connection finds the key (686) and skips the setup. Guarded speaks of routers that did not
  know the key when they were dialled.
- `engine/firstrun.py:68-69` says nobody is locked out; with "remember" unticked
  and a generated password that is not kept, nobody but the form has it.
- `engine/firstrun.py:132-149`: when a password is found to exist already, the
  plan's password is stored although it was not set; a password set between the
  test and `passwd` is overwritten.
- `router/client.py:155-158`: the host key is compared after authentication, so a
  mismatch is reported only when the password was right.
- `router/client.py:249-252`: without a deadline "a hung command would block here
  forever"; write_file (442), run_stream (318) and run_bytes (342) have none, and
  hold the lock every `run` waits for. TasksEnd allows for it.

Proxy configuration
- `engine/rules.py:175-180`: "an existing rule for the same source is updated rather
  than duplicated"; looking and adding are two commands, so that two clicks on "+"
  make two rules. UniqueUnlessRaced allows for it.
- The same docstring, and that of the removal: a rule is held by the name of an anonymous section,
  which is its position. After another task's deletion and commit the name is another rule's, or
  nobody's: an update sets that rule's fields or, silently, none, so that half rules and duplicates
  arise, and "remove" on a stale row takes another rule away (`shifted`).
- `engine/rules.py:214`: ensure_mode_defaults "never clobbers an existing mode
  choice", but reads (218) and writes (225) in two commands.
- `engine/nodes.py:302-303` says whitelist servers are added only if the ordinary
  ones did not fill the cap; lines 343-346 add them only if the pool is empty. The
  model has the code.
- `engine/nodes.py:334-335` says the provider's best never crowd out the whole cap;
  they do when there are enough of them.
- `delete_nodes` leaves the rules' own `node` and `urltest_nodes` pointing at the
  deleted server.
- `ui/rules_screen.py:456`: a rule changed while the service restarts is marked as
  applied. The access page, written later, does not do that (Applied).

Keychain
- `profiles.py:132-139` promises to "wipe ALL", every router's password and pin;
  lines 145-147 do so for the routers in the list. A connection pins, and a setup
  stores a password for, routers that are not remembered.
- The functions that forget (`secrets.py:306-342`) delete under the present name only:
  an entry whose move failed comes back from the old one.
- `secrets.py:250` caches "to keep the cache coherent"; without a lock it is not.
  A read that is slower than a store, or that falls between the two steps of a forget (307,
  309), caches a value that is not the keychain's for the rest of the session.
  CacheCurrent says that this needs two threads at one entry.
- `secrets.py:230-238`: a move from the old name in the midst of another thread's store
  overwrites the value just stored, or brings back one just forgotten. The first reads
  after the rename overlap if the Tk thread looks for the identity while a worker connects.
- Two halves of an identity that were mixed up stay so for ever: nothing
  compares them. A half left under the old name by a failed move comes back when the
  new pair is forgotten. IdentityWhole says by what alone they can be.
- A password that is changed with "store" unticked leaves the old one shown.

Installation
- `install_app.py:547-548` calls the mirror latch good for the "whole session"; every
  job resets it, an overlapping one included.
- `_install_luci_i18n` "never aborts", but raises its last timeout.
- "Reinstall" installs the newest release, which is older than a development build
  the router may have.
- `install_app.py:161-165` never offers a downgrade as an update; the click on the offer
  resolves the newest release again, which may have been withdrawn meanwhile, and installs what it
  finds without comparing (837).
- `remove_legacy_app` (467-487) tests for the old name and removes it by that name in another command.
  With apk the new package provides the name: installed by another job in between, it is
  removed itself. NotWithdrawn speaks of jobs that are alone.
- The offline preparation drops all kernel modules on a versioned snapshot, of which
  it checked two.
- A failed push leaves the files pushed before in `/tmp`. A retry of a timed-out
  package command meets the lock of the first one.

Network
- `engine/network.py:286-291`: with an address in CIDR form, and the mask appended,
  no conflict is ever detected.
- `engine/lan.py:304-305` looks a reservation up again, and still deletes by position in
  another command; two overlapping pins of a device leave two entries.
- `engine/network.py:942-948` adds 'wwan' to the zone at every configuration, and nothing at all,
  without a word, when no zone is named 'wan' or `uci add_list` fails: the uplink is then reported
  as done and nothing is forwarded to it (`unzoned`). The commit after it is not checked either.
- `engine/lan.py:295-297` deletes a device's positions one after the other without listing again: a
  device that had two reservations loses the first, and another device the next. The model's routers
  start with one reservation a device.
- `configure_ap` overwrites `default_<radio>` also when that section is a client
  (docstring: 827), and skips only the radio of the section named 'sta'.
- `_pick_free_lan_ip` may suggest an address that `validate_new_lan_ip` refuses;
  `change_lan_ip` sets the mask back to /24 and keeps the DHCP range.
- `engine/lan.py:7-9` says the module "validates hard"; `apply_lan_settings` does not:
  the advanced screen validates when its button is armed (69-76) and sends what
  the fields say at the confirmation (90-92).
- What is committed in the two seconds before the restart of a restored router
  overwrites restored files.

Window and settings
- `app.py:766`: "the chain reconstructs from the live device"; it uses the state of
  the connection, so that software and servers are offered again after going back.
- `app.py:767-769`: the quick setup migrates a legacy app; the software screen
  (`install_app.py:94-119`) takes the legacy app for a complete one and shows "next".
- After a migration that failed half way `/etc/config/homeproxy` is still there, as after
  any removal of the package: it passes for the app (`router/state.py:137`), and the next quick setup
  skips the installation. FinishReady names the case.
- The finalize screen applies its privacy settings at each opening ("applied once").
- Access page: two overlapping toggles of one device, or two choices of the mode,
  may be written in the other order than the page shows; what waits for "apply" is
  forgotten when the page is left. An edit whose commit failed, or whose answer came too late, is on
  the router behind a button that stays disabled (232).
- Core page: `_lock` disables the restart button, `_refresh_all` does not enable it
  again; `_on_pick` returns early for the first choice without writing it (316).
- Anti-DPI page: "applied" may replace the note of an edit made during the restart; a
  list that cannot be read again during a sweep leaves the sweep running for ever
  (`antidpi_screen.py:597`, an IndexError in the callback; SweepAlive's `RowLost`).


## 5. Proofs

`*Proofs.tla`, all checked with no step omitted. Each EXTENDS its model; the only
assumptions are the named ASSUMEs on the constants in the models (disjoint sets,
natural bounds, `None` not a value), which TLC evaluates in every run, and those
stated below.

| module | theorem | property | further assumption |
|---|---|---|---|
| KeyLeaseProofs | TypeCorrect, NoKeyTwice, ForeignKeysSafe | TypeOK, UniqueLines, ForeignKeysKept | |
| | WindowKeepsKey | ConnectKeepsKey, for any `Drift` | |
| FirstRunProofs | TypeCorrect | TypeOK | |
| | LockOutSafe | NeverLockedOut | `Honoured`: without it it is false (`FirstRun_vacuous`) |
| SessionProofs | TypeCorrect, AnswersHome | TypeOK, AnswersStayHome | |
| | LockSafe, QueueSafe | LockHeldInCall, QueuedOnce (in no run: SerialCalls rests on them) | |
| | SessionIsSerial | SerialCalls (refinement of SerialRouter) | |
| ProxyConfigProofs | TypeCorrect, UniqueSafe, RulesSafe, PoolSafe, AppliedSafe | TypeOK, UniqueUnlessRaced, RulesWhole, PoolKept, MainApplied | |
| | StagedSafe | StagedHasAuthor (in no run) | |
| | PoolTypeCorrect, PoolIsSound, PrecedenceSafe, PoolComplete, PoolDiverse (of UrltestPool) | PoolSound, Precedence, Complete, Diverse | |
| InstallProofs | TypeCorrect, ReadyIsReady, ReadyWithPackage, StaleIsReported, NothingWithdrawn | TypeOK, ReportedReady, ReadyWithApp, StaleOnlyAfterFailure, NotWithdrawn | |
| KeychainProofs | TypeCorrect, CacheIsCurrent, SecretsAreKept, IdentityIsWhole | TypeOK, CacheCurrent, SecretsKept, IdentityWhole | |
| NetworkProofs | TypeCorrect, ConflictsStaySolved, UplinkIsWhole, ReservationsStay | TypeOK, FixResolves, UplinkRouted, LeasesKept | |
| WindowProofs | TypeCorrect, FinishIsReady, GuardedSafe, EditsApplied, SweepLives | TypeOK (of AntiDpi, with those of Wizard and Settings), FinishReady, Guarded, Applied, SweepAlive | |

The arguments:

- **NoKeyTwice.** Not inductive alone: a copy in `$tmp` becomes the file. The
  invariant says of every copy (`tmp`, `prune.kept`) that it has no key twice; a
  rewrite drops all lines of the key before it adds one.
- **ForeignKeysSafe.** Every copy about to replace the file, and the file itself unless it is
  between its removal and its refilling (`Gap`), has all the foreign keys that are not revoked, except
  the one the copy is there to revoke (`ForeignKept`); `torn` covers a copy made of, or a restart in,
  that gap. And no such copy has a revoked key, save those in `undone` (`RevokedGone`),
  for which a foreign key needs one label only (`LabelsPlain`): a revocation drops a line, not a key.
- **WindowKeepsKey.** The lease on the router is at least the last use of any PC, its own
  or not, plus the window, less the days the clock may have been behind (`LeaseCovers`): whoever
  writes it does so on or after the day of every earlier use, by a clock at most that late.
- **LockOutSafe.** A generated password is on the router only if the app's key
  opens it or the user waived that: the steps that set one are reached only past the
  installation of the key, and an uninstalled key means no session past the setup.
  Revocation and reset are the steps to watch; the first is a waiver and the second
  clears the password.
- **LockSafe, QueueSafe.** LockHeldInCall needs QueuedOnce: delivering an answer
  moves a thread to idle, and only the queue's invariant knows that it was in no
  call.
- **SessionIsSerial.** Each step of a thread's call maps to a step of SerialRouter
  or to a stutter; `Acquire` needs LockHeldInCall to know that nobody is served.
- **PoolIsSound, PrecedenceSafe, PoolComplete.** A step adds at most one server, which is
  usable and not yet there. By stage: past `priority` all the best are in or the
  cap is met; a server of a bucket that is not preferred means that the preferred
  ones were emptied; at the end all buckets were.
- **PoolDiverse.** Since a bucket's last pick, every other preferred bucket whose
  turn came either gave a server or was empty; the invariant follows the turn.
- **ProxyConfigProofs, the tasks.** One invariant, `IInv`: what each step of a task has to do
  (`Jobs`: a section while a rule is made, servers to add while a pool is filled,
  a restart for a choice of main server), who will commit what is staged
  (`Author`), how far main server, pool and restart are (`MainInv`), which rules
  are whole (`WholeInv`), that a removed section is empty (`CleanInv`), and that
  without a race at most one task adds and its source has no rule but its own
  (`UniqueInv`). That a number is not given twice is `NumbersOK`: the saved rules bear the numbers after
  the servers', the listed ones some up to `count`; a commit numbers them in order and raises none
  (`Renumbered`), so that what a task holds is still its own rule unless `shifted`.
- **ReadyIsReady.** A core, the modules and what they require are never removed
  (`PackagesStay`): what a job has checked, `Reached`, stays true through
  the steps of all others. `WithRequired` says that the database is closed.
- **StaleIsReported.** The job that changed the app is the one to restart rpcd, until
  it fails (`StaleInv`).
- **ReadyWithPackage, NothingWithdrawn.** By place in the sequence, what a job that is alone relies on
  (`Sound`): no other job and no given-up command is there; the files in `/tmp` are those it
  brought; the old package it saw is still installed, so that the removal by name takes that
  one; and the app, once it has installed it or passed its installation (`Equipped`), is there when the
  job reports. A job that is not alone finds none of this certain, and the properties leave it out.

- **CacheIsCurrent, SecretsAreKept.** One invariant, `CacheInv`: at every place of an access,
  what the thread holds fits the entry (`Followed`): who is to copy holds the old name's
  value and finds none, or the same one, under the present name; who is to delete has
  copied it; who is to return holds what a fresh reader would find; who is to erase has
  emptied the cache. A step that spoils this for another thread crosses the entry. Then a
  move does not change what a fresh reader finds, whether it fails or not.
- **IdentityIsWhole.** The old name holds halves of the old pair only, and as long as
  one is left there, or on its way from there, both present halves are of that pair; who
  has stored the private half of a new one finds it there when storing the public one
  (`HalvesInv`). `torn` covers the rest: a pair of which a half failed, two threads at it, a
  pair made next to a half left behind.
- **KeychainProofs, TypeCorrect.** What a job writes depends on its kind and place
  (`Placed`: a connection has a port, who stores the public half holds a private one, and so on),
  what an access holds on the entry its job is at (`Going`); the steps of other threads leave
  both alone (`Alone`).
  The list of a reset needs that the saved routers are finitely many (`Routers`), as it is an
  order of them with two entries each.
- **NetworkProofs, TypeCorrect.** What needs an invariant is the argument of a job: an
  address that was validated, a form that was read, an archive that is there
  (`HasArgs`), and that an answer to the screen in sight was asked for by it (`AtHome`).
- **ConflictsStaySolved.** Nobody leaves a change of the LAN staged, so that no commit,
  restart or restore brings an address but its own; the job has one that was validated
  against the network it is to resolve.
- **UplinkIsWhole.** While no uplink is under way uci's view and the flash agree on its
  parts (`WholeInv`); the job has behind it what it staged, the zone's network or the silence
  (`unzoned`), as nobody takes an interface or a zone's network away and a restart cuts the job's session.
- **ReservationsStay.** A device has one reservation; uci's view has none that the flash
  has not, so a restart loses nothing; a job that reads positions or holds some is right about
  those it has read and has its device's others before it (`Knows`), as long as it is the only one
  between a reading and its deletions: `raced` covers two (`KeptInv`).

- **WindowProofs.** One invariant, `IInv`, in three parts.
  `WizardInv`: the way back holds screens of the quick setup only, which alone has one, and a
  connection is never ahead of the router (`Linked`).
  `RouterInv`: what a connection was told holds of the router as long as it is not reset
  (`Known`): the app and the main server are not taken away in the wizard, so the state the screens
  thread along is old but not wrong, and neither is what it was found with (`Kept`). `Admitted` and `Supplied` say
  what is true behind the first run and behind the screen of the servers.
  `PagesInv`: what each task of a page carries is sound for the page that is shown (`Sound`).
- **FinishIsReady.** Not inductive alone: the finalize screen is reached by going back and on
  again, so the invariant (`Supplied`) speaks of every screen behind the choice of a server that is
  shown or on the way back (`Passed`), and of the app, or what passed for it, with the server (`Provided`).
- **GuardedSafe.** As FinishIsReady, with the first run that is applied and not yet left (`Behind`): the
  router asks for a password, or had the key when it was dialled (`Secured`).
- **EditsApplied.** An edit the service has not read, made on the page shown and not reported as failed
  (`Fresh`), has the button enabled or a task whose answer will enable it (`Waits`): an edit staged or
  committed, or a restart not yet made or failed (`Pending`).
- **SweepLives.** The answer to a test looks its row up in the list, which a reading may have
  replaced. At most one reading is under way (`Reads`): the page's first, before which no sweep
  begins, or the one an installation ends with. Until that one is answered the row is there
  (`Sweeps`); after it a lost row is the one case in which no test is on its way.

Only model-checked: the liveness properties LapsedLeasePruned, TasksEnd and
Terminates (fairness and ENABLED are out of the prover's reach), and the two violations.


## 6. What is not modelled, and why

- Within the modelled parts: the entry of addresses and discovery of routers;
  the wording of errors; host keys that change without a reset; in ProxyConfig the
  DNS settings, subscriptions and imports (scripts on the router), adding servers,
  uci commands that fail for reasons other than a broken session, edits by LuCI or by
  hand; in Install the parsing of indexes and releases; in Network the parsing of scans
  and archives, DNS rebinding, a commit of the uplink that fails (unchecked by the
  code); in the settings staged edits that a reboot drops, and the pages not named above,
  which read, or edit through the engines of the other modules; the switches and
  strategy fields of the anti-DPI page, single options without a reader in the
  program; the choice of a core.
- SQM, UPnP, finalize: forms whose options are written and committed at once.
- Read-only parts (overview, diagnostics, discovery), parsers (VPN links), and look
  and language keep no state.
- The orchestrator, executor and security gate are not called by any screen.


## 7. What could follow

Abstract specifications of the other components, as SerialRouter is one of the session; the fields of the anti-DPI
and core pages within Settings; subscriptions once their scripts, which belong to
another repository, are read.
