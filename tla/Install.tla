------------------------------- MODULE Install ------------------------------
(***************************************************************************)
(* Putting Re:HomeProxy on the router: install_app.run, update_app and     *)
(* install_core (engine/install_app.py), the offline preparation           *)
(* (engine/preinstall.py), the install functions of the two anti-DPI       *)
(* engines, and the screens that start them.                               *)
(*                                                                         *)
(* A job is one worker thread of a screen.  'Back' leaves it running, so   *)
(* jobs of two screens overlap; each step of a job is one command of the   *)
(* session, after which the other job may run one of its own.  A command   *)
(* that is given up for its timeout goes on running on the router, where   *)
(* it holds the package database.                                          *)
(***************************************************************************)
EXTENDS Naturals, FiniteSets

CONSTANTS
  Worker,      \* the threads
  Boards,      \* the firmwares of the routers looked at
  MaxVersion,  \* bound: the versions of the app that are ever published
  MaxJobs      \* bound: the jobs the user starts

VARIABLES
  firmware,   \* "old" (before 23.05), "2305", "release" (24.10 and later),
              \* "versioned" (25.12-SNAPSHOT), "snapshot"
  clock,      \* is the router's clock right (TLS needs it)?
  installed,  \* the packages on the router
  version,    \* the version of the app, 0 when it is not installed
  stale,      \* is the app one that rpcd was not restarted for?
  file,       \* the version in /tmp/luci-app-re-homeproxy, 0 when there is no whole file
  pushed,     \* the version in /tmp/re-preinstall-*, 0 when nothing is pushed
  pending,    \* package commands given up by the PC that still run on the router
  latch,      \* mirror._session_mirror
  failed,     \* history: did a job end in an error since rpcd was last restarted
              \* (or was the command it gave up still running then)?
  releases,   \* what GitHub has: the status of each version
  proceed,    \* does a screen show its button to the next step?
  offer,      \* what the core screen's button offers for the app
  begun,      \* how many jobs were started
  job         \* the job of each thread

vars == <<firmware, clock, installed, version, stale, file, pushed,
          pending, latch, failed, releases, proceed, offer, begun, job>>
outside == <<firmware, releases, begun>>
screens == <<proceed, offer>>
app == <<version, stale, file, pushed>>
router == <<clock, installed, app, pending>>

Package == {"legacy", "app", "core", "kmods", "tool", "queue", "digest", "curl"}
Needed == {"core", "kmods"}  \* besides the app
Command == Package \cup {"packs", "staged"}  \* what may be given up while it runs
Firmware == {"old", "2305", "release", "versioned", "snapshot"}
ASSUME InstallAssumption ==
  /\ Boards \subseteq Firmware
  /\ MaxVersion \in Nat \ {0}
  /\ MaxJobs \in Nat

Flow == {"install", "update", "core", "stage", "tool"}
AppSteps == {"probe", "key", "fetch", "legacy", "drop", "add", "clean", "undo", "packs"}
CoreSteps == {"prepare", "download", "core", "kmods"}
Steps == AppSteps \cup CoreSteps \cup
  {"clock", "resolve", "luci", "rpcd", "tool", "select", "plan", "push", "unpack"}
Offer == {"none", "install", "update", "reinstall"}

\* get_target_info tells a bare snapshot from a versioned one; both have snapshot kernels.
BareSnapshot == firmware = "snapshot"
SnapshotKernel == firmware \in {"versioned", "snapshot"}
TooOld == firmware = "old"
HasDigest == firmware \notin {"old", "2305"}

\* Releases before 25.12 have opkg, "release" is of either kind.
MayHaveApk == firmware \notin {"old", "2305"}

\* The dependencies that are not on every router.
Requires(pkg) == CASE pkg = "app" -> IF HasDigest THEN {"digest"} ELSE {}
                   [] pkg = "core" -> {"queue"}
                   [] pkg = "tool" -> {"curl"}
                   [] OTHER -> {}
Closed(pkgs) == pkgs \cup UNION {Requires(pkg) : pkg \in pkgs}

TypeOK ==
  /\ firmware \in Firmware
  /\ clock \in BOOLEAN
  /\ installed \subseteq Package
  /\ version \in 0..MaxVersion
  /\ stale \in BOOLEAN
  /\ file \in 0..MaxVersion
  /\ pushed \in 0..MaxVersion
  /\ pending \subseteq Command
  /\ latch \in BOOLEAN
  /\ failed \in BOOLEAN
  /\ releases \in [1..MaxVersion -> {"none", "pre", "stable"}]
  /\ proceed \in BOOLEAN
  /\ offer \in Offer
  /\ begun \in 0..MaxJobs
  /\ job \in [Worker -> [flow : Flow, at : Steps \cup {"idle"}, alone : BOOLEAN,
                         ver : 0..MaxVersion]]

Init ==
  /\ firmware \in Boards
  /\ clock \in BOOLEAN
  /\ \E pkgs \in {{}, {"legacy"}, {"legacy"} \cup Closed(Needed),
                  Closed({"app"}), Closed({"app"} \cup Needed)} :
       /\ installed = pkgs
       /\ version \in (IF "app" \in pkgs THEN 1..MaxVersion ELSE {0})
  /\ stale = FALSE
  /\ file = 0
  /\ pushed = 0
  /\ pending = {}
  /\ latch = FALSE
  /\ failed = FALSE
  /\ releases \in [1..MaxVersion -> {"none", "pre", "stable"}]
  /\ proceed = FALSE
  /\ offer = "none"
  /\ begun = 0
  /\ job = [w \in Worker |-> [flow |-> "install", at |-> "idle", alone |-> FALSE, ver |-> 0]]

-----------------------------------------------------------------------------
(* Releases, sources and the package database.                             *)

HighestOf(S) == CHOOSE v \in S : \A u \in S : u <= v
Carrying(status) == {v \in 1..MaxVersion : releases[v] \in status}

\* Mutant: the version after the newest.
ResolveNext == IF Carrying({"stable", "pre"}) = {} THEN 0
               ELSE HighestOf(Carrying({"stable", "pre"})) + 1

\* The newest stable release that has the package, else the newest one, else none.
Resolve == LET stable == Carrying({"stable"})
               any == Carrying({"stable", "pre"})
           IN  IF stable # {} THEN HighestOf(stable) ELSE IF any # {} THEN HighestOf(any) ELSE 0

IsNewer(candidate, current) == candidate # 0 /\ current # 0 /\ candidate > current

\* The sources of a fetch in the order they are tried.
Candidates == IF latch THEN <<"mirror", "github">> ELSE <<"github", "mirror">>

\* A fetch over the candidates ends with the first source that delivers.  Any may fail, and
\* with a wrong clock the router trusts no certificate.
Fetched(source) == source = "none" \/ clock

Locked == pending # {}

\* The kernel modules the router lacks; of a snapshot's none are staged.
KmodFiles == IF SnapshotKernel THEN {} ELSE {"kmods"} \cup ({"queue"} \ installed)

\* The app's dependency, and the tools' (curl's closure, zapret's coreutils).
AppFiles == {"app"} \cup (Requires("app") \ installed)
ToolFiles == {"tool"} \cup (Requires("tool") \ installed)

\* What is pushed, without or with the tools.
Staged == {{"core"} \cup KmodFiles \cup AppFiles \cup more : more \in {{}, ToolFiles}}

\* Local files are installed only when their dependencies are there or among them.
Installable(pkgs) == Closed(pkgs) \subseteq installed \cup pkgs
Active == {w \in Worker : job[w].at \in Steps}

\* Mutant: `apk info -e` also matches the package that provides the old name.
LegacyProvided == {"legacy", "app"} \cap installed

\* An old package is looked up by its real name: the new one 'provides' the old names.
LegacyReal == {"legacy"} \cap installed

\* What `apk del` or `opkg remove` of an old name removes: apk also takes the package that
\* provides the name.
Named == IF "legacy" \in installed THEN {"legacy"}
         ELSE IF MayHaveApk THEN {"app"} \cap installed ELSE {}

DeleteNamed ==
  /\ installed' = installed \ Named
  /\ version' = IF "app" \in Named THEN 0 ELSE version
  /\ stale' = (stale /\ "app" \notin Named)
  /\ UNCHANGED <<file, pushed>>

-----------------------------------------------------------------------------
(* How a step of a job ends.                                               *)

GoTo(w, step) == /\ job' = [job EXCEPT ![w].at = step]
                 /\ UNCHANGED failed

Idle == [flow |-> "install", at |-> "idle", alone |-> FALSE, ver |-> 0]

Succeed(w) == /\ job' = [job EXCEPT ![w] = Idle]
              /\ UNCHANGED failed

\* An error is returned, or an exception reaches the screen.
Fail(w) == /\ job' = [job EXCEPT ![w] = Idle]
           /\ failed' = TRUE

\* The command is given up; on the router it goes on.
GiveUp(w, cmd) == /\ pending' = pending \cup {cmd}
                  /\ Fail(w)

\* Any command may time out or meet a lost connection without having had an effect.
Break(w) == /\ job[w].at \in Steps
            /\ Fail(w)
            /\ UNCHANGED <<outside, latch, router, screens>>

\* The command that was given up ends: it did its work, or it did not.
PendingEnds(cmd) ==
  /\ cmd \in pending
  /\ pending' = pending \ {cmd}
  /\ \/ /\ pushed' = IF cmd = "staged" THEN 0 ELSE pushed
        /\ UNCHANGED <<installed, version, stale, file>>
     \/ /\ cmd = "app" /\ file # 0
        /\ installed' = installed \cup Closed({"app"})
        /\ version' = file
        /\ stale' = TRUE
        /\ UNCHANGED <<file, pushed>>
     \/ /\ cmd = "staged"
        /\ \E pkgs \in Staged : Installable(pkgs) /\ installed' = installed \cup pkgs
        /\ version' = pushed
        /\ stale' = TRUE
        /\ pushed' = 0
        /\ UNCHANGED file
     \/ /\ cmd = "legacy"
        /\ DeleteNamed
     \/ /\ cmd \in {"core", "kmods", "tool"}
        /\ installed' = installed \cup Closed({cmd})
        /\ UNCHANGED app
  /\ UNCHANGED <<outside, latch, clock, failed, screens, job>>

-----------------------------------------------------------------------------
(* The screens.                                                            *)

KmodsInstalled == "kmods" \in installed

Refused(f) == \/ f \in {"install", "stage"} /\ TooOld
              \/ f = "install" /\ BareSnapshot
              \/ f = "stage" /\ SnapshotKernel /\ ~KmodsInstalled

First(f) == CASE f \in {"install", "update", "core"} -> "clock"
              [] f = "stage" -> "plan"
              [] f = "tool" -> "tool"

\* reset_session_mirror, which every job but a tool's begins with.
ResetMirror(f) == latch' = (f = "tool" /\ latch)

\* A screen starts one job at a time; the other screen's may still run.
Begin(w, f) ==
  /\ job[w].at = "idle"
  /\ begun < MaxJobs
  /\ f = "update" => offer # "none"
  /\ begun' = begun + 1
  /\ ResetMirror(f)
  /\ failed' = (failed \/ Refused(f))
  /\ job' = [x \in Worker |->
       IF x # w THEN [job[x] EXCEPT !.alone = FALSE]
       ELSE IF Refused(f) THEN Idle
       ELSE [flow |-> f, at |-> First(f),
             alone |-> Active = {} /\ pending = {}, ver |-> 0]]
  /\ UNCHANGED <<firmware, releases, router, screens>>

\* The core screen reads the installed and the latest version and labels its button.
ShowVersions ==
  /\ offer' = IF installed \cap {"app", "legacy"} = {} THEN "install"
              ELSE IF "app" \notin installed \/ IsNewer(Resolve, version) THEN "update"
              ELSE "reinstall"
  /\ UNCHANGED <<outside, latch, router, failed, proceed, job>>

\* The software screen's check: with the directory of the app, which its predecessor has too,
\* a usable core and the modules it may be left.
ShowSoftware ==
  /\ proceed' = (proceed \/ (installed \cap {"app", "legacy"} # {} /\ Needed \subseteq installed))
  /\ UNCHANGED <<outside, latch, router, failed, offer, job>>

\* remove_legacy_app comes before the package is added, or the pushed files are.
AfterLegacy(w) == IF job[w].flow = "stage" THEN "unpack" ELSE "add"

-----------------------------------------------------------------------------
(* The app: install_app.run and update_app.                                *)

\* ensure_clock compares the clocks and sets the router's; what fails is only reported.
EnsureClock(w) ==
  /\ job[w].at = "clock"
  /\ clock' \in {clock, TRUE}
  /\ GoTo(w, IF job[w].flow = "core" THEN "prepare" ELSE "resolve")
  /\ UNCHANGED <<outside, latch, installed, app, pending, screens>>

ResolveAssets(w) ==
  /\ job[w].at = "resolve"
  /\ Resolve # 0
  /\ job' = [job EXCEPT ![w].at = "probe", ![w].ver = Resolve]
  /\ UNCHANGED <<outside, latch, router, failed, screens>>

\* No release has the package: the error is raised.
NothingReleased(w) ==
  /\ job[w].at = "resolve"
  /\ Resolve = 0
  /\ Fail(w)
  /\ UNCHANGED <<outside, latch, router, screens>>

\* The signing key is fetched from GitHub within 10 s.  On opkg nothing is probed.
Probe(w) ==
  /\ job[w].at = "probe"
  /\ \/ GoTo(w, "fetch") /\ UNCHANGED latch
     \/ GoTo(w, "key") /\ latch' = TRUE
  /\ UNCHANGED <<outside, router, screens>>

\* The key again, now with the mirror first; without it the package is installed untrusted.
FetchKey(w) ==
  /\ job[w].at = "key"
  /\ \E source \in {"github", "mirror", "none"} : Fetched(source)
  /\ GoTo(w, "fetch")
  /\ UNCHANGED <<outside, latch, router, screens>>

FetchApp(w) ==
  /\ job[w].at = "fetch"
  /\ \E source \in {"github", "mirror", "none"} :
       /\ Fetched(source)
       /\ file' = IF source = "none" THEN 0 ELSE job[w].ver
       /\ IF source = "none" THEN Fail(w) ELSE GoTo(w, "legacy")
  /\ UNCHANGED <<outside, latch, clock, installed, version, stale, pushed, pending, screens>>

\* remove_legacy_app, first command: is a real old package there?
FindLegacy(w) ==
  /\ job[w].at = "legacy"
  /\ GoTo(w, IF LegacyReal # {} THEN "drop" ELSE AfterLegacy(w))
  /\ UNCHANGED <<outside, latch, router, screens>>

\* The second: it is removed by its name, whatever that names by now.  A failure is not seen,
\* a timeout is.
DropLegacy(w) ==
  /\ job[w].at = "drop"
  /\ \/ /\ ~Locked
        /\ DeleteNamed
        /\ GoTo(w, AfterLegacy(w))
        /\ UNCHANGED pending
     \/ /\ GoTo(w, AfterLegacy(w))
        /\ UNCHANGED <<installed, app, pending>>
     \/ /\ GiveUp(w, "legacy")
        /\ UNCHANGED <<installed, app>>
  /\ UNCHANGED <<outside, latch, clock, screens>>

\* The package is installed from the local file, or the command fails, or stalls for 180 s.
AddApp(w) ==
  /\ job[w].at = "add"
  /\ \/ /\ ~Locked /\ file # 0
        /\ installed' = installed \cup Closed({"app"})
        /\ version' = file
        /\ stale' = TRUE
        /\ GoTo(w, "clean")
        /\ UNCHANGED <<file, pushed, pending>>
     \/ /\ GoTo(w, "undo")
        /\ UNCHANGED <<installed, app, pending>>
     \/ /\ GiveUp(w, "app")
        /\ UNCHANGED <<installed, app>>
  /\ UNCHANGED <<outside, latch, clock, screens>>

\* The file is removed before the result of the installation is looked at.
RemoveFile(w) ==
  /\ \/ job[w].at = "clean" /\ GoTo(w, "packs")
     \/ job[w].at = "undo" /\ Fail(w)
  /\ file' = 0
  /\ UNCHANGED <<outside, latch, clock, installed, version, stale, pushed, pending, screens>>

\* Mutant: an update without language packs skips the restart of rpcd.
LanguagePacksOrDone(w) ==
  /\ job[w].at = "packs"
  /\ \/ IF job[w].flow = "install" THEN GoTo(w, "luci") ELSE Succeed(w)
     \/ GoTo(w, "rpcd")
  /\ UNCHANGED <<outside, latch, router, screens>>

\* The app's language packs are optional, but a stalled command raises.
LanguagePacks(w) ==
  /\ job[w].at = "packs"
  /\ \/ GoTo(w, IF job[w].flow = "install" THEN "luci" ELSE "rpcd") /\ UNCHANGED pending
     \/ GiveUp(w, "packs")
  /\ UNCHANGED <<outside, latch, clock, installed, app, screens>>

\* LuCI's packs: three attempts each, and the last timeout is raised again.
LuciPacks(w) ==
  /\ job[w].at = "luci"
  /\ \/ GoTo(w, "rpcd") /\ UNCHANGED pending
     \/ GiveUp(w, "packs")
  /\ UNCHANGED <<outside, latch, clock, installed, app, screens>>

RestartRpcd(w) ==
  /\ job[w].at = "rpcd"
  /\ stale' = FALSE
  /\ failed' = (pending # {})
  /\ job' = [job EXCEPT ![w] = IF job[w].flow = "install" THEN [@ EXCEPT !.at = "prepare"]
                              ELSE Idle]
  /\ proceed' = (proceed \/ job[w].flow = "stage")
  /\ UNCHANGED <<outside, latch, clock, installed, version, file, pushed, pending, offer>>

-----------------------------------------------------------------------------
(* The core and the kernel modules: install_app.run and install_core.      *)

\* core_mgmt is a script of the app's package.
PrepareCore(w) ==
  /\ job[w].at = "prepare"
  /\ IF "app" \in installed THEN GoTo(w, "download") ELSE Fail(w)
  /\ UNCHANGED <<outside, latch, router, screens>>

DownloadCore(w) ==
  /\ job[w].at = "download"
  /\ \E source \in {"github", "mirror", "none"} :
       /\ Fetched(source)
       /\ IF source = "none" THEN Fail(w) ELSE GoTo(w, "core")
  /\ UNCHANGED <<outside, latch, router, screens>>

\* Up to three attempts: after a timeout the next one meets the lock of the one before.
InstallPkg(w, pkg, next) ==
  \/ /\ ~Locked
     /\ installed' = installed \cup Closed({pkg})
     /\ IF next = "done" THEN Succeed(w) ELSE GoTo(w, next)
     /\ UNCHANGED pending
  \/ /\ Fail(w)
     /\ UNCHANGED <<installed, pending>>
  \/ /\ GiveUp(w, pkg)
     /\ UNCHANGED installed

InstallCore(w) ==
  /\ job[w].at = "core"
  /\ InstallPkg(w, "core",
       IF job[w].flow = "core" /\ "kmods" \in installed THEN "done" ELSE "kmods")
  /\ UNCHANGED <<outside, latch, clock, app, screens>>

\* The tools are installed if the user ticked them.  A failure is explained by
\* diagnose_kmods, which reads the router only.
InstallKmods(w) ==
  /\ job[w].at = "kmods"
  /\ \E next \in (IF job[w].flow = "core" THEN {"done"} ELSE {"tool", "select"}) :
       InstallPkg(w, "kmods", next)
  /\ UNCHANGED <<outside, latch, clock, app, screens>>

\* ByeDPI or Zapret, which need curl: for install_app.run a failure is a line of the log.
AddTool(w) ==
  /\ job[w].at = "tool" /\ job[w].flow = "install"
  /\ \/ InstallPkg(w, "tool", "select")
     \/ /\ GoTo(w, "select")
        /\ installed' \in {installed, installed \cup {"curl"}}
        /\ UNCHANGED pending
  /\ UNCHANGED <<outside, latch, clock, app, screens>>

\* The engine's own install function: prepare, curl, fetch, install.
InstallEngine(w) ==
  /\ job[w].at = "tool" /\ job[w].flow = "tool"
  /\ \/ InstallPkg(w, "tool", "done")
     \/ /\ Fail(w)
        /\ installed' \in {installed, installed \cup {"curl"}}
        /\ UNCHANGED pending
  /\ UNCHANGED <<outside, latch, clock, app, screens>>

RemoveTool(w) ==
  /\ job[w].at = "tool" /\ job[w].flow = "tool" /\ "tool" \in installed
  /\ \/ /\ ~Locked
        /\ installed' = installed \ {"tool"}
        /\ Succeed(w)
     \/ Fail(w) /\ UNCHANGED installed
  /\ UNCHANGED <<outside, latch, clock, app, pending, screens>>

\* The core is selected, the service enabled and started.
SelectCore(w) ==
  /\ job[w].at = "select"
  /\ Succeed(w)
  /\ proceed' = TRUE
  /\ UNCHANGED <<outside, latch, router, offer>>

-----------------------------------------------------------------------------
(* The offline preparation: preinstall.run.                                *)

\* Every package's URL is resolved on the PC; of a snapshot the kmods are left out.
PlanPackages(w) ==
  /\ job[w].at = "plan"
  /\ IF Resolve = 0 THEN Fail(w)
     ELSE /\ job' = [job EXCEPT ![w].at = "push", ![w].ver = Resolve]
          /\ UNCHANGED failed
  /\ UNCHANGED <<outside, latch, router, screens>>

\* A download by the PC: a success after the first candidate latches the mirror.
HttpGet(source) == latch' = (latch \/ (source # "none" /\ source # Candidates[1]))

\* The PC downloads the packages and pushes them.
PushPackages(w) ==
  /\ job[w].at = "push"
  /\ \E source \in {"github", "mirror", "none"} :
       /\ HttpGet(source)
       /\ IF source = "none"
          THEN Fail(w) /\ UNCHANGED pushed
          ELSE GoTo(w, "legacy") /\ pushed' = job[w].ver
  /\ UNCHANGED <<outside, clock, installed, version, stale, file, pending, screens>>

\* Mutant: what the command says of its failure is not looked at.
UnpackUnseen(w) ==
  /\ job[w].at = "unpack"
  /\ pushed' = 0
  /\ GoTo(w, "rpcd")
  /\ \/ /\ ~Locked /\ pushed # 0
        /\ \E pkgs \in Staged : Installable(pkgs) /\ installed' = installed \cup pkgs
        /\ version' = pushed
        /\ stale' = TRUE
     \/ UNCHANGED <<installed, version, stale>>
  /\ UNCHANGED <<outside, latch, clock, file, pending, screens>>

\* One command installs all the files and removes them, whatever comes of it.
Unpack(w) ==
  /\ job[w].at = "unpack"
  /\ \/ /\ ~Locked /\ pushed # 0
        /\ \E pkgs \in Staged : Installable(pkgs) /\ installed' = installed \cup pkgs
        /\ version' = pushed
        /\ stale' = TRUE
        /\ pushed' = 0
        /\ GoTo(w, "rpcd")
        /\ UNCHANGED <<file, pending>>
     \/ /\ Fail(w)
        /\ pushed' = 0
        /\ UNCHANGED <<installed, version, stale, file, pending>>
     \/ /\ pushed # 0
        /\ GiveUp(w, "staged")
        /\ UNCHANGED <<installed, app>>
  /\ UNCHANGED <<outside, latch, clock, screens>>

-----------------------------------------------------------------------------
\* A release is published, withdrawn, or marked stable or not.
Publish ==
  /\ \E v \in 1..MaxVersion, s \in {"none", "pre", "stable"} :
       releases' = [releases EXCEPT ![v] = s]
  /\ UNCHANGED <<firmware, begun, latch, router, failed, screens, job>>

JobStep(w) ==
  \/ Break(w) \/ EnsureClock(w) \/ ResolveAssets(w) \/ NothingReleased(w) \/ Probe(w)
  \/ FetchKey(w) \/ FetchApp(w) \/ FindLegacy(w) \/ DropLegacy(w) \/ AddApp(w) \/ RemoveFile(w)
  \/ LanguagePacks(w) \/ LuciPacks(w) \/ RestartRpcd(w) \/ PrepareCore(w)
  \/ DownloadCore(w) \/ InstallCore(w) \/ InstallKmods(w) \/ AddTool(w)
  \/ InstallEngine(w) \/ RemoveTool(w) \/ SelectCore(w) \/ PlanPackages(w) \/ PushPackages(w)
  \/ Unpack(w)

Next ==
  \/ \E w \in Worker : JobStep(w) \/ \E f \in Flow : Begin(w, f)
  \/ \E cmd \in Command : PendingEnds(cmd)
  \/ ShowVersions \/ ShowSoftware
  \/ Publish

Spec == Init /\ [][Next]_vars

-----------------------------------------------------------------------------
(* Properties.                                                             *)

\* A screen that lets the user go on does so for a router that has a core, the kernel modules
\* and what they depend on, whatever other jobs and given-up commands did meanwhile
\* (install_app.run:729, preinstall.run:587, SoftwareStatus.ready:87).
ReportedReady == proceed => Closed(Needed) \subseteq installed

\* It begins to let the user go on only when Re:HomeProxy or its predecessor, which passes the
\* check (software_status:101), is there, unless another job ran since the one that reports it
\* began: that job's removal may have taken the package (remove_legacy_app:486).
ReadyWithApp ==
  [][~proceed /\ proceed' =>
       \/ installed' \cap {"app", "legacy"} # {}
       \/ \E w \in Worker : job'[w] # job[w] /\ ~job[w].alone]_vars

\* When the app changed and rpcd does not know it yet, the job that changed it is on its way
\* to the restart, or the user was told of an error (update_app:893, install_app.run:610).
StaleOnlyAfterFailure ==
  stale => \/ failed
           \/ pending # {}
           \/ \E w \in Worker : job[w].at \in {"clean", "packs", "luci", "rpcd"}

\* A router loses Re:HomeProxy only to the removal of an old package that another job's
\* installation overtook, or that was given up: no job takes it away by itself.  Its
\* predecessor is lost only to a job that has the new package on the router
\* (remove_legacy_app:463-487).  Jobs of two screens share the files in /tmp, and a given-up
\* Unpack removes them when it ends: the second is said of a job that is alone with them.
NotWithdrawn ==
  [][/\ "app" \in installed \ installed' =>
          \/ "legacy" \in pending
          \/ \E w \in Worker : job[w].at = "drop" /\ job'[w] # job[w] /\ ~job[w].alone
     /\ "legacy" \in installed \ installed' =>
          \/ "legacy" \in pending
          \/ \E w \in Worker :
               /\ job'[w] # job[w]
               /\ job[w].alone => file = job[w].ver \/ pushed = job[w].ver]_vars
=============================================================================
