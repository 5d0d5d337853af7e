---------------------------- MODULE InstallProofs ---------------------------
(* Proofs about Install, for any threads, any number of versions and jobs.  *)
EXTENDS Install, FiniteSetTheorems, TLAPS

-----------------------------------------------------------------------------
(* The release a job resolves                                              *)

\* A set of versions that is not empty has a highest one.
LEMMA Highest ==
  ASSUME NEW S \in SUBSET (1..MaxVersion), S # {}
  PROVE  HighestOf(S) \in S /\ \A u \in S : u <= HighestOf(S)
<1> DEFINE All == 1..MaxVersion
           Above == {v..MaxVersion : v \in S}
<1>1. IsWellFoundedOn(StrictSubsetOrdering(All), FiniteSubsetsOf(All))
  BY FS_StrictSubsetOrderingWellFounded
<1>2. IsFiniteSet(All)
  BY FS_Interval, InstallAssumption
<1>3. Above \subseteq SUBSET All
  BY InstallAssumption
<1>4. Above \subseteq FiniteSubsetsOf(All)
  BY <1>2, <1>3, FS_Subset DEF FiniteSubsetsOf
<1>5. Above # {}
  OBVIOUS
<1>6. PICK A \in Above : \A B \in Above : <<B, A>> \notin StrictSubsetOrdering(All)
  <2> HIDE DEF Above, All
  <2> QED BY <1>1, <1>4, <1>5, WFMin
<1>7. PICK v \in S : A = v..MaxVersion
  OBVIOUS
<1>8. \A u \in S : u <= v
  <2> SUFFICES ASSUME NEW u \in S, ~(u <= v) PROVE FALSE
    OBVIOUS
  <2>1. u..MaxVersion \subseteq A /\ v \in A /\ v \notin u..MaxVersion
    BY <1>7, InstallAssumption
  <2>2. u..MaxVersion \in Above
    OBVIOUS
  <2>3. <<u..MaxVersion, A>> \in StrictSubsetOrdering(All)
    BY <1>3, <2>1, <2>2 DEF StrictSubsetOrdering
  <2>4. QED
    BY <1>6, <2>2, <2>3
<1>9. QED
  BY <1>8 DEF HighestOf

LEMMA ResolveType == Resolve \in 0..MaxVersion
<1>1. Carrying({"stable"}) \in SUBSET (1..MaxVersion)
      /\ Carrying({"stable", "pre"}) \in SUBSET (1..MaxVersion)
  BY DEF Carrying
<1>2. QED
  BY <1>1, Highest, InstallAssumption DEF Resolve

-----------------------------------------------------------------------------
(* Type correctness                                                        *)

JobRecord == [flow : Flow, at : Steps \cup {"idle"}, alone : BOOLEAN, ver : 0..MaxVersion]

LEMMA IdleType == Idle \in JobRecord
  BY InstallAssumption DEF Idle, JobRecord, Flow

\* A job moves to another step, with another version or the same one.
LEMMA JobMoves ==
  ASSUME TypeOK, NEW w \in Worker, NEW step \in Steps \cup {"idle"}, NEW v \in 0..MaxVersion
  PROVE  /\ [job EXCEPT ![w].at = step] \in [Worker -> JobRecord]
         /\ [job EXCEPT ![w].at = step, ![w].ver = v] \in [Worker -> JobRecord]
         /\ [job EXCEPT ![w] = Idle] \in [Worker -> JobRecord]
  BY IdleType DEF TypeOK, JobRecord

\* What is installed from the files that were pushed.
LEMMA StagedPackages == \A pkgs \in Staged : pkgs \subseteq Package /\ {"app", "core"} \subseteq pkgs
  BY DEF Staged, KmodFiles, AppFiles, ToolFiles, Requires, Package

LEMMA ClosedPackages == \A pkg \in Package : Closed({pkg}) \subseteq Package
  BY DEF Closed, Requires, Package

\* How a step leaves the jobs.
LEMMA GoToFacts ==
  ASSUME TypeOK, NEW w \in Worker, NEW step \in Steps \cup {"idle"}, GoTo(w, step)
  PROVE  /\ failed' = failed
         /\ job' \in [Worker -> JobRecord]
         /\ job'[w].at = step /\ job'[w].flow = job[w].flow /\ job'[w].ver = job[w].ver
         /\ job'[w].alone = job[w].alone
         /\ \A x \in Worker \ {w} : job'[x] = job[x]
<1>1. job' = [job EXCEPT ![w].at = step] /\ failed' = failed
  BY DEF GoTo
<1>2. job[w] \in JobRecord /\ job \in [Worker -> JobRecord]
  BY DEF TypeOK, JobRecord
<1>3. job[w].ver \in 0..MaxVersion
  BY <1>2 DEF JobRecord
<1>4. job' \in [Worker -> JobRecord]
  BY <1>1, <1>3, JobMoves
<1>5. QED
  BY <1>1, <1>2, <1>4 DEF JobRecord

LEMMA EndFacts ==
  ASSUME TypeOK, NEW w \in Worker, Succeed(w) \/ Fail(w)
  PROVE  /\ job' \in [Worker -> JobRecord]
         /\ job'[w] = Idle
         /\ \A x \in Worker \ {w} : job'[x] = job[x]
         /\ failed' \in BOOLEAN
         /\ failed' = failed \/ failed' = TRUE
  BY IdleType DEF Succeed, Fail, TypeOK, JobRecord

LEMMA GiveUpFacts ==
  ASSUME TypeOK, NEW w \in Worker, NEW cmd \in Command, GiveUp(w, cmd)
  PROVE  /\ Fail(w) /\ failed'
         /\ pending' = pending \cup {cmd} /\ pending' \subseteq Command
  BY DEF GiveUp, Fail, TypeOK

\* A job's record after a step of worker w: it is over, or the same job.
Stepped(w) ==
  /\ job' \in [Worker -> JobRecord] /\ failed' \in BOOLEAN
  /\ \A x \in Worker \ {w} : job'[x] = job[x]
  /\ \/ job'[w] = Idle
     \/ job'[w].flow = job[w].flow /\ job'[w].alone = job[w].alone

LEMMA EndStep == ASSUME TypeOK, NEW w \in Worker, Succeed(w) \/ Fail(w) PROVE Stepped(w)
  BY EndFacts DEF Stepped

LEMMA GoToStep ==
  ASSUME TypeOK, NEW w \in Worker, NEW step \in Steps, GoTo(w, step) PROVE Stepped(w)
  BY GoToFacts DEF Stepped, TypeOK

LEMMA GiveUpStep ==
  ASSUME TypeOK, NEW w \in Worker, NEW cmd \in Command, GiveUp(w, cmd) PROVE Stepped(w)
  BY GiveUpFacts, EndStep

LEMMA ResolvedStep ==
  ASSUME TypeOK, NEW w \in Worker, NEW step \in Steps,
         job' = [job EXCEPT ![w].at = step, ![w].ver = Resolve], failed' = failed
  PROVE  /\ Stepped(w)
         /\ job'[w].at = step /\ job'[w].ver = Resolve
<1>1. job' \in [Worker -> JobRecord]
  BY ResolveType, JobMoves
<1>2. QED
  BY <1>1 DEF Stepped, TypeOK, JobRecord

\* An installation succeeds, fails or is given up.
LEMMA PkgFacts ==
  ASSUME TypeOK, NEW w \in Worker, NEW pkg \in {"core", "kmods", "tool"},
         NEW next \in Steps \cup {"done"}, InstallPkg(w, pkg, next)
  PROVE  /\ Stepped(w)
         /\ installed' \subseteq Package /\ installed \subseteq installed'
         /\ pending' \subseteq Command
         /\ \/ Fail(w) /\ installed' = installed
            \/ /\ IF next = "done" THEN Succeed(w) ELSE GoTo(w, next)
               /\ installed' = installed \cup Closed({pkg}) /\ pending' = pending
<1>1. CASE /\ installed' = installed \cup Closed({pkg})
           /\ IF next = "done" THEN Succeed(w) ELSE GoTo(w, next)
           /\ UNCHANGED pending
  <2>1. Stepped(w)
    BY <1>1, EndStep, GoToStep
  <2>2. pkg \in Package
    BY DEF Package
  <2>3. QED
    BY <1>1, <2>1, <2>2, ClosedPackages DEF TypeOK
<1>2. CASE Fail(w) /\ UNCHANGED <<installed, pending>>
  BY <1>2, EndStep DEF TypeOK
<1>3. CASE GiveUp(w, pkg) /\ UNCHANGED installed
  <2>1. pkg \in Command
    BY DEF Command, Package
  <2>2. QED
    BY <1>3, <2>1, GiveUpStep, GiveUpFacts DEF TypeOK
<1>4. QED
  BY <1>1, <1>2, <1>3 DEF InstallPkg

\* What a removal by the old name takes.
LEMMA DeletedFacts ==
  ASSUME TypeOK, DeleteNamed
  PROVE  /\ installed' \subseteq Package /\ installed \ {"legacy", "app"} \subseteq installed'
         /\ \E pkgs \in SUBSET {"legacy", "app", "tool"} : installed' = installed \ pkgs
         /\ "legacy" \in installed /\ "app" \in installed => "app" \in installed'
         /\ version' \in 0..MaxVersion /\ stale' \in BOOLEAN /\ (stale' => stale)
         /\ UNCHANGED <<file, pushed>>
<1>1. Named \in SUBSET {"legacy", "app", "tool"} /\ installed' = installed \ Named
  BY DEF DeleteNamed, Named
<1>2. "legacy" \in installed => Named = {"legacy"}
  BY DEF Named
<1>3. Named \subseteq {"legacy", "app"}
  BY DEF Named
<1>4. version' \in 0..MaxVersion /\ stale' \in BOOLEAN /\ (stale' => stale)
  BY InstallAssumption DEF DeleteNamed, TypeOK
<1>5. UNCHANGED <<file, pushed>>
  BY DEF DeleteNamed
<1>6. QED
  BY <1>1, <1>2, <1>3, <1>4, <1>5 DEF TypeOK

LEMMA AfterLegacyStep == \A w : AfterLegacy(w) \in {"add", "unpack"}
  BY DEF AfterLegacy

\* The removal of the old package.
LEMMA DropFacts ==
  ASSUME TypeOK, NEW w \in Worker, DropLegacy(w)
  PROVE  /\ Stepped(w)
         /\ pending' \subseteq Command
         /\ DeleteNamed \/ UNCHANGED <<installed, app>>
         /\ \/ Fail(w) /\ UNCHANGED <<installed, app>> /\ failed'
            \/ GoTo(w, AfterLegacy(w)) /\ pending' = pending
<1>1. CASE GoTo(w, AfterLegacy(w)) /\ UNCHANGED pending /\ (DeleteNamed \/ UNCHANGED <<installed, app>>)
  <2>1. AfterLegacy(w) \in Steps
    BY AfterLegacyStep DEF Steps, AppSteps
  <2>2. QED
    BY <1>1, <2>1, GoToStep DEF TypeOK
<1>2. CASE GiveUp(w, "legacy") /\ UNCHANGED <<installed, app>>
  <2>1. "legacy" \in Command
    BY DEF Command, Package
  <2>2. QED
    BY <1>2, <2>1, GiveUpStep, GiveUpFacts DEF TypeOK
<1>3. QED
  BY <1>1, <1>2 DEF DropLegacy

\* The installation of the pushed files.
LEMMA UnpackFacts ==
  ASSUME TypeOK, NEW w \in Worker, Unpack(w)
  PROVE  /\ Stepped(w)
         /\ installed' \subseteq Package /\ installed \subseteq installed'
         /\ pending' \subseteq Command /\ pushed' \in 0..MaxVersion
         /\ version' \in 0..MaxVersion /\ stale' \in BOOLEAN
         /\ \/ /\ Fail(w) /\ UNCHANGED <<installed, version, stale>>
               /\ (pushed' = 0 /\ pending' = pending) \/ pushed' = pushed
            \/ /\ GoTo(w, "rpcd") /\ pending' = pending
               /\ \E pkgs \in Staged : Installable(pkgs) /\ installed' = installed \cup pkgs
               /\ version' = pushed /\ stale' = TRUE /\ pushed' = 0
<1>1. CASE /\ \E pkgs \in Staged : Installable(pkgs) /\ installed' = installed \cup pkgs
           /\ version' = pushed /\ stale' = TRUE /\ pushed' = 0
           /\ GoTo(w, "rpcd")
           /\ UNCHANGED <<file, pending>>
  <2>1. Stepped(w)
    BY <1>1, GoToStep DEF Steps
  <2>2. installed' \subseteq Package /\ installed \subseteq installed'
    BY <1>1, StagedPackages DEF TypeOK
  <2>3. pending' = pending /\ version' = pushed /\ stale' = TRUE /\ pushed' = 0
    BY <1>1
  <2>4. /\ pending' \subseteq Command /\ pushed' \in 0..MaxVersion
        /\ version' \in 0..MaxVersion /\ stale' \in BOOLEAN
    BY <2>3, InstallAssumption DEF TypeOK
  <2>5. QED
    BY <1>1, <2>1, <2>2, <2>3, <2>4
<1>2. CASE Fail(w) /\ pushed' = 0 /\ UNCHANGED <<installed, version, stale, file, pending>>
  BY <1>2, EndStep, InstallAssumption DEF TypeOK
<1>3. CASE GiveUp(w, "staged") /\ UNCHANGED <<installed, app>>
  <2>1. "staged" \in Command
    BY DEF Command
  <2>2. QED
    BY <1>3, <2>1, GiveUpStep, GiveUpFacts DEF TypeOK, app
<1>4. QED
  BY <1>1, <1>2, <1>3 DEF Unpack

\* Whatever step of worker w it is.
LEMMA JobStepped == ASSUME TypeOK, NEW w \in Worker, JobStep(w) PROVE Stepped(w)
<1> USE DEF Steps, AppSteps, CoreSteps, Command, Package
<1>1. CASE Break(w)
  BY <1>1, EndStep, GoToStep DEF Break
<1>2. CASE EnsureClock(w)
  BY <1>2, EndStep, GoToStep DEF EnsureClock
<1>3. CASE ResolveAssets(w)
  BY <1>3, ResolvedStep DEF ResolveAssets
<1>4. CASE NothingReleased(w)
  BY <1>4, EndStep, GoToStep DEF NothingReleased
<1>5. CASE Probe(w)
  BY <1>5, EndStep, GoToStep DEF Probe
<1>6. CASE FetchKey(w)
  BY <1>6, EndStep, GoToStep DEF FetchKey
<1>7. CASE FetchApp(w)
  BY <1>7, EndStep, GoToStep DEF FetchApp
<1>8. CASE FindLegacy(w)
  BY <1>8, AfterLegacyStep, GoToStep DEF FindLegacy
<1>9. CASE AddApp(w)
  BY <1>9, EndStep, GoToStep, GiveUpStep DEF AddApp
<1>10. CASE RemoveFile(w)
  BY <1>10, EndStep, GoToStep DEF RemoveFile
<1>11. CASE LanguagePacks(w)
  BY <1>11, EndStep, GoToStep, GiveUpStep DEF LanguagePacks
<1>12. CASE LuciPacks(w)
  BY <1>12, EndStep, GoToStep, GiveUpStep DEF LuciPacks
<1>13. CASE RestartRpcd(w)
  <2>1. job' = [job EXCEPT ![w].at = "prepare"] \/ job' = [job EXCEPT ![w] = Idle]
    BY <1>13 DEF RestartRpcd
  <2>2. job' \in [Worker -> JobRecord]
    <3>1. job[w].ver \in 0..MaxVersion /\ "prepare" \in Steps \cup {"idle"}
      BY DEF TypeOK
    <3>2. [job EXCEPT ![w].at = "prepare"] \in [Worker -> JobRecord]
          /\ [job EXCEPT ![w] = Idle] \in [Worker -> JobRecord]
      BY <3>1, JobMoves
    <3>3. QED
      BY <2>1, <3>2
  <2>3. failed' \in BOOLEAN
    BY <1>13 DEF RestartRpcd
  <2>4. QED
    BY <2>1, <2>2, <2>3 DEF Stepped, TypeOK
<1>14. CASE PrepareCore(w)
  BY <1>14, EndStep, GoToStep DEF PrepareCore
<1>15. CASE DownloadCore(w)
  BY <1>15, EndStep, GoToStep DEF DownloadCore
<1>16. CASE InstallCore(w)
  BY <1>16, PkgFacts DEF InstallCore
<1>17. CASE InstallKmods(w)
  BY <1>17, PkgFacts DEF InstallKmods
<1>18. CASE AddTool(w)
  BY <1>18, PkgFacts, GoToStep DEF AddTool
<1>19. CASE InstallEngine(w)
  BY <1>19, PkgFacts, EndStep DEF InstallEngine
<1>20. CASE RemoveTool(w)
  BY <1>20, EndStep, GoToStep DEF RemoveTool
<1>21. CASE SelectCore(w)
  BY <1>21, EndStep, GoToStep DEF SelectCore
<1>22. CASE PlanPackages(w)
  BY <1>22, ResolvedStep, EndStep DEF PlanPackages
<1>23. CASE PushPackages(w)
  BY <1>23, EndStep, GoToStep DEF PushPackages
<1>24. CASE DropLegacy(w)
  BY <1>24, DropFacts
<1>25. CASE Unpack(w)
  BY <1>25, UnpackFacts DEF Unpack
<1>26. QED
  BY <1>1, <1>2, <1>3, <1>4, <1>5, <1>6, <1>7, <1>8, <1>9, <1>10, <1>11, <1>12, <1>13, <1>14, <1>15, <1>16, <1>17, <1>18, <1>19, <1>20, <1>21, <1>22, <1>23, <1>24, <1>25 DEF JobStep

LEMMA TypeStep == ASSUME TypeOK, Next PROVE TypeOK'
<1> USE DEF outside, screens, app, router
<1> DEFINE Rest == /\ clock' \in BOOLEAN /\ latch' \in BOOLEAN /\ stale' \in BOOLEAN
                   /\ installed' \subseteq Package /\ pending' \subseteq Command
                   /\ version' \in 0..MaxVersion /\ file' \in 0..MaxVersion
                   /\ pushed' \in 0..MaxVersion
                   /\ proceed' \in BOOLEAN /\ offer' = offer
                   /\ UNCHANGED outside
<1>1. ASSUME NEW w \in Worker, JobStep(w) PROVE TypeOK'
  <2> USE DEF TypeOK
  <2>1. Stepped(w)
    BY <1>1, JobStepped
  <2>2. CASE Break(w)
    <3>1. Rest
      BY <2>2 DEF Break
    <3>2. QED
      BY <2>1, <3>1 DEF Stepped, JobRecord
  <2>3. CASE EnsureClock(w)
    <3>1. Rest
      BY <2>3 DEF EnsureClock
    <3>2. QED
      BY <2>1, <3>1 DEF Stepped, JobRecord
  <2>4. CASE ResolveAssets(w)
    <3>1. Rest
      BY <2>4 DEF ResolveAssets
    <3>2. QED
      BY <2>1, <3>1 DEF Stepped, JobRecord
  <2>5. CASE NothingReleased(w)
    <3>1. Rest
      BY <2>5 DEF NothingReleased
    <3>2. QED
      BY <2>1, <3>1 DEF Stepped, JobRecord
  <2>6. CASE Probe(w)
    <3>1. Rest
      BY <2>6 DEF Probe
    <3>2. QED
      BY <2>1, <3>1 DEF Stepped, JobRecord
  <2>7. CASE FetchKey(w)
    <3>1. Rest
      BY <2>7 DEF FetchKey
    <3>2. QED
      BY <2>1, <3>1 DEF Stepped, JobRecord
  <2>8. job[w].ver \in 0..MaxVersion /\ 0 \in 0..MaxVersion
    BY InstallAssumption
  <2>9. CASE FetchApp(w)
    <3>1. Rest
      BY <2>9, <2>8 DEF FetchApp
    <3>2. QED
      BY <2>1, <3>1 DEF Stepped, JobRecord
  <2>10. CASE FindLegacy(w)
    <3>1. Rest
      BY <2>10 DEF FindLegacy
    <3>2. QED
      BY <2>1, <3>1 DEF Stepped, JobRecord
  <2>11. CASE AddApp(w)
    <3>1. Rest
      BY <2>11, GiveUpFacts, ClosedPackages DEF AddApp, Command, Package
    <3>2. QED
      BY <2>1, <3>1 DEF Stepped, JobRecord
  <2>12. CASE RemoveFile(w)
    <3>1. Rest
      BY <2>12, InstallAssumption DEF RemoveFile
    <3>2. QED
      BY <2>1, <3>1 DEF Stepped, JobRecord
  <2>13. CASE LanguagePacks(w)
    <3>1. Rest
      BY <2>13, GiveUpFacts DEF LanguagePacks, Command
    <3>2. QED
      BY <2>1, <3>1 DEF Stepped, JobRecord
  <2>14. CASE LuciPacks(w)
    <3>1. Rest
      BY <2>14, GiveUpFacts DEF LuciPacks, Command
    <3>2. QED
      BY <2>1, <3>1 DEF Stepped, JobRecord
  <2>15. CASE RestartRpcd(w)
    <3>1. Rest
      BY <2>15 DEF RestartRpcd
    <3>2. QED
      BY <2>1, <3>1 DEF Stepped, JobRecord
  <2>16. CASE PrepareCore(w)
    <3>1. Rest
      BY <2>16 DEF PrepareCore
    <3>2. QED
      BY <2>1, <3>1 DEF Stepped, JobRecord
  <2>17. CASE DownloadCore(w)
    <3>1. Rest
      BY <2>17 DEF DownloadCore
    <3>2. QED
      BY <2>1, <3>1 DEF Stepped, JobRecord
  <2>18. CASE InstallCore(w)
    <3>1. Rest
      BY <2>18, PkgFacts DEF InstallCore, Steps, CoreSteps
    <3>2. QED
      BY <2>1, <3>1 DEF Stepped, JobRecord
  <2>19. CASE InstallKmods(w)
    <3>1. Rest
      BY <2>19, PkgFacts DEF InstallKmods, Steps, CoreSteps
    <3>2. QED
      BY <2>1, <3>1 DEF Stepped, JobRecord
  <2>20. CASE AddTool(w)
    <3>1. Rest
      BY <2>20, PkgFacts DEF AddTool, Steps, Package
    <3>2. QED
      BY <2>1, <3>1 DEF Stepped, JobRecord
  <2>21. CASE InstallEngine(w)
    <3>1. Rest
      BY <2>21, PkgFacts DEF InstallEngine, Steps, Package
    <3>2. QED
      BY <2>1, <3>1 DEF Stepped, JobRecord
  <2>22. CASE RemoveTool(w)
    <3>1. Rest
      BY <2>22 DEF RemoveTool
    <3>2. QED
      BY <2>1, <3>1 DEF Stepped, JobRecord
  <2>23. CASE SelectCore(w)
    <3>1. Rest
      BY <2>23 DEF SelectCore
    <3>2. QED
      BY <2>1, <3>1 DEF Stepped, JobRecord
  <2>24. CASE PlanPackages(w)
    <3>1. Rest
      BY <2>24 DEF PlanPackages
    <3>2. QED
      BY <2>1, <3>1 DEF Stepped, JobRecord
  <2>25. CASE PushPackages(w)
    <3>1. Rest
      BY <2>25, <2>8 DEF PushPackages, HttpGet
    <3>2. QED
      BY <2>1, <3>1 DEF Stepped, JobRecord
  <2>26. CASE DropLegacy(w)
    <3>1. Rest
      BY <2>26, DropFacts, DeletedFacts DEF DropLegacy
    <3>2. QED
      BY <2>1, <3>1 DEF Stepped, JobRecord
  <2>27. CASE Unpack(w)
    <3>1. Rest
      BY <2>27, UnpackFacts DEF Unpack
    <3>2. QED
      BY <2>1, <3>1 DEF Stepped, JobRecord
  <2>28. QED
    BY <1>1, <2>2, <2>3, <2>4, <2>5, <2>6, <2>7, <2>8, <2>9, <2>10, <2>11, <2>12, <2>13, <2>14, <2>15, <2>16, <2>17, <2>18, <2>19, <2>20, <2>21, <2>22, <2>23, <2>24, <2>25, <2>26, <2>27 DEF JobStep
<1>2. ASSUME NEW w \in Worker, NEW f \in Flow, Begin(w, f) PROVE TypeOK'
  <2>1. begun' \in 0..MaxJobs
    BY <1>2, InstallAssumption DEF Begin, TypeOK
  <2>2. latch' \in BOOLEAN /\ failed' \in BOOLEAN
    BY <1>2 DEF Begin, ResetMirror, TypeOK
  <2>3. job' \in [Worker -> JobRecord]
    <3>1. First(f) \in Steps
      BY DEF First, Steps, AppSteps, CoreSteps, Flow
    <3>2. \A x \in Worker : [job[x] EXCEPT !.alone = FALSE] \in JobRecord
      BY DEF TypeOK, JobRecord
    <3>3. [flow |-> f, at |-> First(f), alone |-> Active = {} /\ pending = {}, ver |-> 0]
             \in JobRecord
      BY <3>1, InstallAssumption DEF JobRecord
    <3>4. QED
      BY <1>2, <3>2, <3>3, IdleType DEF Begin
  <2>4. QED
    BY <1>2, <2>1, <2>2, <2>3 DEF Begin, TypeOK, JobRecord
<1>3. ASSUME NEW cmd \in Command, PendingEnds(cmd) PROVE TypeOK'
  <2>1. UNCHANGED <<outside, latch, clock, failed, screens, job>> /\ pending' \subseteq Command
    BY <1>3 DEF PendingEnds, TypeOK
  <2>2. CASE DeleteNamed
    BY <2>1, <2>2, DeletedFacts DEF TypeOK
  <2>3. CASE ~DeleteNamed
    <3>1. installed' \subseteq Package
      BY <1>3, <2>3, ClosedPackages, StagedPackages DEF PendingEnds, TypeOK, Package
    <3>2. /\ version' \in 0..MaxVersion /\ file' \in 0..MaxVersion
          /\ pushed' \in 0..MaxVersion
      BY <1>3, <2>3, InstallAssumption DEF PendingEnds, TypeOK
    <3>3. stale' = stale \/ stale' = TRUE
      BY <1>3, <2>3 DEF PendingEnds
    <3>4. QED
      BY <2>1, <3>1, <3>2, <3>3 DEF TypeOK
  <2>4. QED
    BY <2>2, <2>3
<1>4. ASSUME ShowVersions PROVE TypeOK'
  BY <1>4 DEF ShowVersions, Offer, TypeOK
<1>5. ASSUME ShowSoftware PROVE TypeOK'
  BY <1>5 DEF ShowSoftware, TypeOK
<1>6. ASSUME Publish PROVE TypeOK'
  BY <1>6 DEF Publish, TypeOK
<1>7. QED
  BY <1>1, <1>2, <1>3, <1>4, <1>5, <1>6 DEF Next

\* The model's variables keep their types.
THEOREM TypeCorrect == Spec => []TypeOK
<1>1. Init => TypeOK
  <2> SUFFICES ASSUME Init PROVE TypeOK
    OBVIOUS
  <2>1. job \in [Worker -> JobRecord]
    BY IdleType DEF Init, JobRecord, Idle
  <2>2. installed \subseteq Package /\ version \in 0..MaxVersion
    BY InstallAssumption DEF Init, Closed, Requires, Needed, Package
  <2>3. begun \in 0..MaxJobs
    BY InstallAssumption DEF Init
  <2>4. releases \in [1..MaxVersion -> {"none", "pre", "stable"}]
    BY DEF Init
  <2>5. /\ firmware \in Firmware /\ clock \in BOOLEAN
        /\ stale = FALSE /\ file = 0 /\ pushed = 0 /\ pending = {} /\ latch = FALSE
        /\ failed = FALSE /\ proceed = FALSE /\ offer = "none"
    BY InstallAssumption DEF Init
  <2>6. 0 \in 0..MaxVersion
    BY InstallAssumption
  <2>7. QED
    BY <2>1, <2>2, <2>3, <2>4, <2>5, <2>6 DEF TypeOK, JobRecord, Offer
<1>2. TypeOK /\ UNCHANGED vars => TypeOK'
  BY DEF TypeOK, vars, app
<1>3. QED
  BY <1>1, <1>2, TypeStep, PTL DEF Spec

-----------------------------------------------------------------------------
(* A router that is reported ready                                         *)

\* What a step may do to the packages: nothing, remove what an old name names or a tool, install
\* a package with what it requires, or the pushed files.
LEMMA Installs ==
  ASSUME TypeOK, Next
  PROVE  /\ \/ \E pkgs \in SUBSET {"legacy", "app", "tool"} : installed' = installed \ pkgs
            \/ \E pkg \in Package : installed' = installed \cup Closed({pkg})
            \/ \E pkgs \in Staged : Installable(pkgs) /\ installed' = installed \cup pkgs
         /\ firmware' = firmware
<1> USE DEF outside, router, app
<1> DEFINE Change == \/ \E pkgs \in SUBSET {"legacy", "app", "tool"} : installed' = installed \ pkgs
                     \/ \E pkg \in Package : installed' = installed \cup Closed({pkg})
                     \/ \E pkgs \in Staged : Installable(pkgs) /\ installed' = installed \cup pkgs
<1>1. installed' = installed => Change
  <2>1. installed' = installed => installed' = installed \ {}
    OBVIOUS
  <2>2. {} \in SUBSET {"legacy", "app", "tool"}
    OBVIOUS
  <2>3. QED
    BY <2>1, <2>2
<1>2. Closed({"curl"}) = {"curl"} /\ "curl" \in Package
  BY DEF Closed, Requires, Package
<1>3. ASSUME NEW w \in Worker, JobStep(w) PROVE Change /\ firmware' = firmware
  <2>1. CASE DropLegacy(w) \/ RemoveTool(w)
    <3>1. CASE DropLegacy(w)
      <4>1. DeleteNamed \/ installed' = installed
        BY <3>1, DropFacts
      <4>2. QED
        BY <1>1, <3>1, <4>1, DeletedFacts DEF DropLegacy
    <3>2. CASE RemoveTool(w)
      <4>1. installed' = installed \ {"tool"} \/ installed' = installed
        BY <3>2 DEF RemoveTool
      <4>2. {"tool"} \in SUBSET {"legacy", "app", "tool"} /\ firmware' = firmware
        BY <3>2 DEF RemoveTool
      <4>3. QED
        BY <1>1, <4>1, <4>2
    <3>3. QED
      BY <2>1, <3>1, <3>2
  <2>2. CASE \/ AddApp(w) \/ InstallCore(w) \/ InstallKmods(w)
             \/ AddTool(w) \/ InstallEngine(w)
    <3>1. \/ installed' = installed \/ installed' = installed \cup {"curl"}
          \/ installed' = installed \cup Closed({"app"})
          \/ installed' = installed \cup Closed({"core"})
          \/ installed' = installed \cup Closed({"kmods"})
          \/ installed' = installed \cup Closed({"tool"})
      BY <2>2 DEF AddApp, InstallCore, InstallKmods, AddTool, InstallEngine, InstallPkg
    <3>2. firmware' = firmware
      BY <2>2 DEF AddApp, InstallCore, InstallKmods, AddTool, InstallEngine
    <3>3. {"app", "core", "kmods", "tool", "curl"} \subseteq Package
      BY DEF Package
    <3>4. QED
      BY <1>1, <1>2, <3>1, <3>2, <3>3
  <2>3. CASE Unpack(w)
    <3>1. Change
      BY <1>1, <2>3, UnpackFacts
    <3>2. QED
      BY <2>3, <3>1 DEF Unpack
  <2>4. CASE \/ Break(w) \/ EnsureClock(w) \/ ResolveAssets(w) \/ NothingReleased(w) \/ Probe(w)
             \/ FetchKey(w) \/ FetchApp(w) \/ FindLegacy(w) \/ RemoveFile(w)
             \/ LanguagePacks(w) \/ LuciPacks(w) \/ RestartRpcd(w) \/ PrepareCore(w)
             \/ DownloadCore(w) \/ SelectCore(w) \/ PlanPackages(w) \/ PushPackages(w)
    <3>1. UNCHANGED <<installed, firmware>>
      BY <2>4 DEF Break, EnsureClock, ResolveAssets, NothingReleased, Probe, FetchKey, FetchApp,
                  FindLegacy, RemoveFile, LanguagePacks, LuciPacks, RestartRpcd, PrepareCore, DownloadCore,
                  SelectCore, PlanPackages, PushPackages
    <3>2. QED
      BY <1>1, <3>1
  <2>5. QED
    BY <1>3, <2>1, <2>2, <2>3, <2>4 DEF JobStep
<1>4. ASSUME NEW cmd \in Command, PendingEnds(cmd) PROVE Change /\ firmware' = firmware
  <2>1. \/ installed' = installed
        \/ installed' = installed \cup Closed({"app"})
        \/ \E pkgs \in Staged : Installable(pkgs) /\ installed' = installed \cup pkgs
        \/ DeleteNamed
        \/ cmd \in {"core", "kmods", "tool"} /\ installed' = installed \cup Closed({cmd})
    BY <1>4 DEF PendingEnds
  <2>2. {"app", "core", "kmods", "tool"} \subseteq Package
    BY DEF Package
  <2>3. QED
    BY <1>1, <1>4, <2>1, <2>2, DeletedFacts DEF PendingEnds
<1>5. ASSUME \/ \E w \in Worker, f \in Flow : Begin(w, f)
             \/ ShowVersions \/ ShowSoftware \/ Publish
      PROVE  Change /\ firmware' = firmware
  <2>1. UNCHANGED <<installed, firmware>>
    BY <1>5 DEF Begin, ShowVersions, ShowSoftware, Publish
  <2>2. QED
    BY <1>1, <2>1
<1>6. QED
  BY <1>3, <1>4, <1>5 DEF Next

\* Every package is there with what it requires.
WithRequired == \A pkg \in installed : Requires(pkg) \subseteq installed

\* A core and the kernel modules stay, and so does what a package requires.
LEMMA PackagesStay ==
  ASSUME TypeOK, WithRequired, Next
  PROVE  /\ WithRequired'
         /\ installed \ {"legacy", "app", "tool"} \subseteq installed'
         /\ SnapshotKernel' = SnapshotKernel
         /\ Closed(Needed)' = Closed(Needed)
<1> DEFINE Roots == {"digest", "queue", "curl"}
<1>1. \A pkg : Requires(pkg) \subseteq Roots
  BY DEF Requires
<1>2. \A pkg \in Roots : Requires(pkg) = {}
  BY DEF Requires
<1>3. firmware' = firmware
  BY Installs
<1>4. \A pkg : Requires(pkg)' = Requires(pkg)
  BY <1>3 DEF Requires, HasDigest
<1>5. SnapshotKernel' = SnapshotKernel
  BY <1>3 DEF SnapshotKernel
<1>6. Closed(Needed)' = Closed(Needed)
  BY <1>3 DEF Closed, Needed, Requires, HasDigest
<1> DEFINE Good == /\ \A pkg \in installed' : Requires(pkg) \subseteq installed'
                   /\ installed \ {"legacy", "app", "tool"} \subseteq installed'
<1>7. CASE \E pkgs \in SUBSET {"legacy", "app", "tool"} : installed' = installed \ pkgs
  <2>1. PICK pkgs \in SUBSET {"legacy", "app", "tool"} : installed' = installed \ pkgs
    BY <1>7
  <2>2. Good
    BY <1>1, <2>1 DEF WithRequired
  <2>3. QED
    BY <1>4, <1>5, <1>6, <2>2 DEF WithRequired
<1>8. CASE \E pkg \in Package : installed' = installed \cup Closed({pkg})
  <2>1. PICK pkg \in Package : installed' = installed \cup Closed({pkg})
    BY <1>8
  <2>2. Closed({pkg}) = {pkg} \cup Requires(pkg)
    BY DEF Closed
  <2>3. Good
    BY <1>1, <1>2, <2>1, <2>2 DEF WithRequired
  <2>4. QED
    BY <1>4, <1>5, <1>6, <2>3 DEF WithRequired
<1>9. CASE \E pkgs \in Staged : Installable(pkgs) /\ installed' = installed \cup pkgs
  <2>1. PICK pkgs \in Staged : Installable(pkgs) /\ installed' = installed \cup pkgs
    BY <1>9
  <2>2. \A pkg \in pkgs : Requires(pkg) \subseteq installed'
    BY <2>1 DEF Installable, Closed
  <2>3. Good
    BY <2>1, <2>2 DEF WithRequired
  <2>4. QED
    BY <1>4, <1>5, <1>6, <2>3 DEF WithRequired
<1>10. QED
  BY <1>7, <1>8, <1>9, Installs

\* What a job that has come so far has seen installed.
Reached(j, pkgs, snapshot) ==
  /\ j.at = "kmods" => "core" \in pkgs
  /\ j.at = "select" \/ (j.at = "tool" /\ j.flow = "install") => Needed \subseteq pkgs
  /\ j.flow = "stage" => j.at \in {"idle", "plan", "push", "legacy", "drop", "unpack", "rpcd"}
  /\ j.at \in {"plan", "push", "unpack"} => j.flow = "stage"
  /\ j.flow = "stage" /\ j.at \in {"plan", "push", "legacy", "drop", "unpack"} =>
       (snapshot => "kmods" \in pkgs)
  /\ j.flow = "stage" /\ j.at = "rpcd" => Needed \subseteq pkgs

ReadyInv ==
  /\ WithRequired
  /\ \A w \in Worker : Reached(job[w], installed, SnapshotKernel)
  /\ ReportedReady

LEMMA ReachedStays ==
  ASSUME NEW j, NEW P, NEW Q, NEW snapshot, P \ {"legacy", "app", "tool"} \subseteq Q,
         Reached(j, P, snapshot)
  PROVE  Reached(j, Q, snapshot)
  BY DEF Reached, Needed

LEMMA IdleReached == \A P, snapshot : Reached(Idle, P, snapshot)
  BY DEF Reached, Idle

LEMMA NeededRequired == WithRequired /\ Needed \subseteq installed => Closed(Needed) \subseteq installed
  BY DEF WithRequired, Closed

\* The step of a job leaves what the job has seen.
LEMMA ReachedStep ==
  ASSUME TypeOK, ReadyInv, NEW w \in Worker, JobStep(w),
         installed \ {"legacy", "app", "tool"} \subseteq installed',
         firmware' = firmware
  PROVE  Reached(job'[w], installed', SnapshotKernel)
<1> USE DEF Steps, AppSteps, CoreSteps, Command, Package
<1> DEFINE Goal == Reached(job'[w], installed', SnapshotKernel)
<1>1. Reached(job[w], installed, SnapshotKernel) /\ job[w].at \in Steps
  BY DEF ReadyInv, JobStep, Break, EnsureClock, ResolveAssets, NothingReleased, Probe, FetchKey,
         FetchApp, FindLegacy, DropLegacy, AddApp, RemoveFile, LanguagePacks, LuciPacks, RestartRpcd,
         PrepareCore, DownloadCore, InstallCore, InstallKmods, AddTool, InstallEngine,
         RemoveTool, SelectCore, PlanPackages, PushPackages, Unpack
<1>2. Reached(job[w], installed', SnapshotKernel)
  BY <1>1, ReachedStays
<1>3. Succeed(w) \/ Fail(w) => Goal
  BY EndFacts, IdleReached
<1>4. CASE Break(w)
  BY <1>4, <1>3 DEF Break
<1>5. CASE EnsureClock(w)
  BY <1>5, <1>2, <1>3, GoToFacts DEF EnsureClock, Reached
<1>6. CASE ResolveAssets(w)
  <2>1. job'[w].at = "probe" /\ job'[w].flow = job[w].flow
    BY <1>6 DEF ResolveAssets, TypeOK
  <2>2. QED
    BY <1>6, <1>2, <2>1 DEF ResolveAssets, Reached
<1>7. CASE NothingReleased(w)
  BY <1>7, <1>3 DEF NothingReleased
<1>8. CASE Probe(w)
  BY <1>8, <1>2, <1>3, GoToFacts DEF Probe, Reached
<1>9. CASE FetchKey(w)
  BY <1>9, <1>2, <1>3, GoToFacts DEF FetchKey, Reached
<1>10. CASE FetchApp(w)
  BY <1>10, <1>2, <1>3, GoToFacts DEF FetchApp, Reached
<1>11. CASE FindLegacy(w)
  <2>1. /\ job'[w].at \in {"drop", AfterLegacy(w)} /\ job'[w].flow = job[w].flow
        /\ job[w].at = "legacy"
    BY <1>11, AfterLegacyStep, GoToFacts DEF FindLegacy
  <2>2. QED
    BY <1>2, <2>1 DEF Reached, AfterLegacy
<1>12. CASE AddApp(w)
  BY <1>12, <1>2, <1>3, GoToFacts, GiveUpFacts DEF AddApp, Reached
<1>13. CASE RemoveFile(w)
  BY <1>13, <1>2, <1>3, GoToFacts DEF RemoveFile, Reached
<1>14. CASE LanguagePacks(w)
  BY <1>14, <1>2, <1>3, GoToFacts, GiveUpFacts DEF LanguagePacks, Reached
<1>15. CASE LuciPacks(w)
  BY <1>15, <1>2, <1>3, GoToFacts, GiveUpFacts DEF LuciPacks, Reached
<1>16. CASE RestartRpcd(w)
  <2>1. job'[w] = Idle \/ (job'[w].at = "prepare" /\ job'[w].flow = "install")
    BY <1>16 DEF RestartRpcd, TypeOK
  <2>2. QED
    BY <2>1, IdleReached DEF Reached
<1>17. CASE PrepareCore(w)
  BY <1>17, <1>2, <1>3, GoToFacts DEF PrepareCore, Reached
<1>18. CASE DownloadCore(w)
  BY <1>18, <1>2, <1>3, GoToFacts DEF DownloadCore, Reached
<1>19. CASE InstallCore(w)
  <2>1. PICK next \in {"done", "kmods"} : InstallPkg(w, "core", next)
    BY <1>19 DEF InstallCore
  <2>2. \/ Fail(w) \/ Succeed(w)
        \/ GoTo(w, "kmods") /\ installed' = installed \cup Closed({"core"})
    BY <2>1, PkgFacts
  <2>3. CASE GoTo(w, "kmods") /\ installed' = installed \cup Closed({"core"})
    <3>1. job'[w].at = "kmods" /\ job'[w].flow = job[w].flow
      BY <2>3, GoToFacts
    <3>2. "core" \in installed'
      BY <1>19, <1>1, <2>3 DEF InstallCore, Closed, Reached
    <3>3. job[w].flow # "stage"
      BY <1>19, <1>1 DEF InstallCore, Reached
    <3>4. QED
      BY <3>1, <3>2, <3>3 DEF Reached
  <2>4. QED
    BY <1>3, <2>2, <2>3
<1>20. CASE InstallKmods(w)
  <2>1. PICK next \in {"done", "tool", "select"} : InstallPkg(w, "kmods", next)
    BY <1>20 DEF InstallKmods
  <2>2. \/ Fail(w) \/ Succeed(w)
        \/ /\ GoTo(w, "tool") \/ GoTo(w, "select")
           /\ installed' = installed \cup Closed({"kmods"})
    BY <2>1, PkgFacts
  <2>3. CASE /\ GoTo(w, "tool") \/ GoTo(w, "select")
             /\ installed' = installed \cup Closed({"kmods"})
    <3>1. job'[w].at \in {"tool", "select"} /\ job'[w].flow = job[w].flow
      BY <2>3, GoToFacts
    <3>2. Needed \subseteq installed'
      BY <1>20, <1>1, <2>3 DEF InstallKmods, Closed, Reached, Needed
    <3>3. job[w].flow # "stage"
      BY <1>20, <1>1 DEF InstallKmods, Reached
    <3>4. QED
      BY <3>1, <3>2, <3>3 DEF Reached
  <2>4. QED
    BY <1>3, <2>2, <2>3
<1>21. CASE AddTool(w)
  BY <1>21, <1>2, <1>3, GoToFacts, PkgFacts DEF AddTool, Reached
<1>22. CASE InstallEngine(w)
  BY <1>22, <1>2, <1>3, GoToFacts, PkgFacts DEF InstallEngine, Reached
<1>23. CASE RemoveTool(w)
  BY <1>23, <1>3 DEF RemoveTool
<1>24. CASE SelectCore(w)
  BY <1>24, <1>3 DEF SelectCore
<1>25. CASE PlanPackages(w)
  <2>1. Fail(w) \/ (job'[w].at = "push" /\ job'[w].flow = job[w].flow)
    BY <1>25 DEF PlanPackages, TypeOK
  <2>2. QED
    BY <1>25, <1>2, <1>3, <2>1 DEF PlanPackages, Reached
<1>26. CASE PushPackages(w)
  BY <1>26, <1>2, <1>3, GoToFacts DEF PushPackages, Reached
<1>27. CASE DropLegacy(w)
  <2>1. CASE GoTo(w, AfterLegacy(w))
    <3>1. /\ job'[w].at = AfterLegacy(w) /\ job'[w].flow = job[w].flow
          /\ job[w].at = "drop"
      BY <1>27, <2>1, AfterLegacyStep, GoToFacts DEF DropLegacy
    <3>2. QED
      BY <1>2, <3>1 DEF Reached, AfterLegacy
  <2>2. QED
    BY <1>27, <1>3, <2>1, DropFacts
<1>28. CASE Unpack(w)
  <2>1. CASE /\ GoTo(w, "rpcd")
             /\ \E pkgs \in Staged : Installable(pkgs) /\ installed' = installed \cup pkgs
    <3>1. job'[w].at = "rpcd" /\ job'[w].flow = job[w].flow
      BY <2>1, GoToFacts
    <3>2. "core" \in installed'
      BY <2>1, StagedPackages
    <3>3. "kmods" \in installed'
      BY <1>28, <1>2, <2>1 DEF Unpack, Reached, Staged, KmodFiles
    <3>4. QED
      BY <3>1, <3>2, <3>3 DEF Reached, Needed
  <2>2. QED
    BY <1>28, <1>3, <2>1, UnpackFacts
<1>29. QED
  BY <1>4, <1>5, <1>6, <1>7, <1>8, <1>9, <1>10, <1>11, <1>12, <1>13, <1>14, <1>15, <1>16, <1>17, <1>18, <1>19, <1>20, <1>21, <1>22, <1>23, <1>24, <1>25, <1>26, <1>27, <1>28 DEF JobStep

LEMMA ReadyStep == ASSUME TypeOK, ReadyInv, Next PROVE ReadyInv'
<1> USE DEF outside, screens, app, router
<1>1. /\ WithRequired'
      /\ installed \ {"legacy", "app", "tool"} \subseteq installed'
      /\ SnapshotKernel' = SnapshotKernel
      /\ Closed(Needed)' = Closed(Needed)
      /\ firmware' = firmware
  BY PackagesStay, Installs DEF ReadyInv
<1>2. \A x \in Worker : Reached(job[x], installed', SnapshotKernel)
  BY <1>1, ReachedStays DEF ReadyInv
<1>3. proceed => Closed(Needed)' \subseteq installed'
  <2>1. Closed(Needed) \cap {"legacy", "app", "tool"} = {}
    BY DEF Closed, Needed, Requires
  <2>2. QED
    BY <1>1, <2>1 DEF ReadyInv, ReportedReady
<1>4. ASSUME NEW w \in Worker, JobStep(w) PROVE ReadyInv'
  <2>1. \A x \in Worker : Reached(job'[x], installed', SnapshotKernel)
    <3>1. Reached(job'[w], installed', SnapshotKernel)
      BY <1>1, <1>4, ReachedStep
    <3>2. \A x \in Worker \ {w} : job'[x] = job[x]
      BY <1>4, JobStepped DEF Stepped
    <3>3. QED
      BY <1>2, <3>1, <3>2
  <2>2. proceed' => proceed \/ Needed \subseteq installed'
    <3>1. CASE RestartRpcd(w)
      BY <3>1 DEF RestartRpcd, ReadyInv, Reached, TypeOK
    <3>2. CASE SelectCore(w)
      BY <3>2 DEF SelectCore, ReadyInv, Reached
    <3>3. CASE ~RestartRpcd(w) /\ ~SelectCore(w)
      <4>1. proceed' = proceed
        BY <1>4, <3>3 DEF JobStep, Break, EnsureClock, ResolveAssets, NothingReleased, Probe,
           FetchKey, FetchApp, FindLegacy, DropLegacy, AddApp, RemoveFile, LanguagePacks, LuciPacks,
           PrepareCore, DownloadCore, InstallCore, InstallKmods, AddTool, InstallEngine,
           RemoveTool, PlanPackages, PushPackages, Unpack
      <4>2. QED
        BY <4>1
    <3>4. QED
      BY <3>1, <3>2, <3>3
  <2>3. Needed \subseteq installed' => Closed(Needed)' \subseteq installed'
    BY <1>1 DEF WithRequired, Closed, Needed
  <2>4. QED
    BY <1>1, <1>3, <2>1, <2>2, <2>3 DEF ReadyInv, ReportedReady
<1>5. ASSUME NEW w \in Worker, NEW f \in Flow, Begin(w, f) PROVE ReadyInv'
  <2>1. UNCHANGED <<installed, proceed>>
    BY <1>5 DEF Begin
  <2>2. \A x \in Worker : Reached(job'[x], installed, SnapshotKernel)
    <3>1. \A x \in Worker \ {w} : /\ job'[x].at = job[x].at
                                  /\ job'[x].flow = job[x].flow
      BY <1>5 DEF Begin, TypeOK
    <3>2. CASE Refused(f)
      <4>1. job'[w] = Idle
        BY <1>5, <3>2 DEF Begin
      <4>2. QED
        BY <3>1, <4>1, IdleReached DEF ReadyInv, Reached
    <3>3. CASE ~Refused(f)
      <4>1. job'[w].at = First(f) /\ job'[w].flow = f
        BY <1>5, <3>3 DEF Begin
      <4>2. Reached(job'[w], installed, SnapshotKernel)
        BY <3>3, <4>1 DEF First, Flow, Reached, Refused, KmodsInstalled
      <4>3. QED
        BY <3>1, <4>2 DEF ReadyInv, Reached
    <3>4. QED
      BY <3>2, <3>3
  <2>3. QED
    BY <1>1, <1>3, <2>1, <2>2 DEF ReadyInv, ReportedReady
<1>6. ASSUME \/ \E cmd \in Command : PendingEnds(cmd)
             \/ ShowVersions \/ Publish
      PROVE  ReadyInv'
  <2>1. UNCHANGED <<job, proceed>>
    BY <1>6 DEF PendingEnds, ShowVersions, Publish
  <2>2. QED
    BY <1>1, <1>2, <1>3, <2>1 DEF ReadyInv, ReportedReady
<1>7. ASSUME ShowSoftware PROVE ReadyInv'
  <2>1. UNCHANGED <<job, installed>> /\ (proceed' => proceed \/ Needed \subseteq installed)
    BY <1>7 DEF ShowSoftware
  <2>2. QED
    BY <1>1, <1>2, <1>3, <2>1, NeededRequired DEF ReadyInv, ReportedReady
<1>8. QED
  BY <1>4, <1>5, <1>6, <1>7 DEF Next

LEMMA ReadyInit == Init => ReadyInv
<1> SUFFICES ASSUME Init PROVE ReadyInv
  OBVIOUS
<1>1. WithRequired
  <2>1. PICK pkgs \in {{}, {"legacy"}, {"legacy"} \cup Closed(Needed),
                       Closed({"app"}), Closed({"app"} \cup Needed)} : installed = pkgs
    BY DEF Init
  <2>2. QED
    BY <2>1 DEF WithRequired, Closed, Needed, Requires
<1>2. \A w \in Worker : job[w] = Idle
  BY DEF Init, Idle
<1>3. ~proceed
  BY DEF Init
<1>4. QED
  BY <1>1, <1>2, <1>3, IdleReached DEF ReadyInv, ReportedReady

\* Whatever jobs of other screens and given-up commands do meanwhile, a screen lets the user
\* go on only for a router with a core, the kernel modules and what these require.
THEOREM ReadyIsReady == Spec => []ReportedReady
<1>1. TypeOK /\ ReadyInv /\ UNCHANGED vars => ReadyInv'
  BY DEF ReadyInv, WithRequired, Reached, ReportedReady, SnapshotKernel, Requires, HasDigest,
         Closed, Needed, vars, app
<1>2. ReadyInv => ReportedReady
  BY DEF ReadyInv
<1>3. QED
  BY <1>1, <1>2, ReadyInit, ReadyStep, TypeCorrect, PTL DEF Spec

-----------------------------------------------------------------------------
(* An app rpcd does not know                                               *)

Finishing == {"clean", "packs", "luci", "rpcd"}

\* A given-up command implies a failed job, because restarting rpcd does not forget it.
StaleInv ==
  /\ pending # {} => failed
  /\ stale => failed \/ \E w \in Worker : job[w].at \in Finishing

\* A failed job is remembered until rpcd is restarted, and so is a command that is given up.
LEMMA FailedStays ==
  ASSUME TypeOK, NEW w \in Worker, JobStep(w), ~RestartRpcd(w)
  PROVE  /\ failed => failed'
         /\ pending' = pending \/ failed'
<1> USE DEF router, app
<1>1. failed' = failed \/ failed' = TRUE
  BY DEF JobStep, GoTo, Succeed, Fail, GiveUp, InstallPkg, Break, EnsureClock, ResolveAssets, NothingReleased, Probe, FetchKey, FetchApp, FindLegacy,
         DropLegacy, AddApp, RemoveFile, LanguagePacks, LuciPacks, PrepareCore, DownloadCore, InstallCore,
         InstallKmods, AddTool, InstallEngine, RemoveTool, SelectCore, PlanPackages, PushPackages,
         Unpack
<1>2. pending' = pending \/ failed' = TRUE
  BY DEF JobStep, GoTo, Succeed, Fail, GiveUp, InstallPkg, Break, EnsureClock, ResolveAssets, NothingReleased, Probe, FetchKey, FetchApp, FindLegacy,
         DropLegacy, AddApp, RemoveFile, LanguagePacks, LuciPacks, PrepareCore, DownloadCore, InstallCore,
         InstallKmods, AddTool, InstallEngine, RemoveTool, SelectCore, PlanPackages, PushPackages,
         Unpack
<1>3. QED
  BY <1>1, <1>2

\* A job between the change of the app and the restart goes on to it, or fails.
LEMMA FinishingStays ==
  ASSUME TypeOK, NEW w \in Worker, JobStep(w), ~RestartRpcd(w), job[w].at \in Finishing
  PROVE  job'[w].at \in Finishing \/ failed'
<1> USE DEF Finishing, Steps, AppSteps, CoreSteps
<1>1. Fail(w) => failed'
  BY DEF Fail
<1>2. CASE Break(w)
  BY <1>1, <1>2 DEF Break
<1>3. CASE RemoveFile(w)
  BY <1>1, <1>3, GoToFacts DEF RemoveFile
<1>4. CASE LanguagePacks(w)
  BY <1>1, <1>4, GoToFacts DEF LanguagePacks, GiveUp
<1>5. CASE LuciPacks(w)
  BY <1>1, <1>5, GoToFacts DEF LuciPacks, GiveUp
<1>6. QED
  BY <1>2, <1>3, <1>4, <1>5
     DEF JobStep, EnsureClock, ResolveAssets, NothingReleased, Probe, FetchKey, FetchApp, FindLegacy,
         DropLegacy, AddApp, PrepareCore, DownloadCore, InstallCore, InstallKmods, AddTool, InstallEngine,
         RemoveTool, SelectCore, PlanPackages, PushPackages, Unpack

\* Only a job that goes on to the restart changes the app.
LEMMA StaleChange ==
  ASSUME TypeOK, NEW w \in Worker, JobStep(w), stale', ~stale, ~RestartRpcd(w)
  PROVE  job'[w].at \in Finishing
<1> USE DEF Finishing, Steps, AppSteps
<1>1. CASE AddApp(w)
  BY <1>1, GoToFacts DEF AddApp, app
<1>2. CASE Unpack(w)
  BY <1>2, GoToFacts, UnpackFacts
<1>3. CASE DropLegacy(w)
  BY <1>3, DropFacts, DeletedFacts DEF app
<1>4. QED
  BY <1>1, <1>2, <1>3
     DEF JobStep, Break, EnsureClock, ResolveAssets, NothingReleased, Probe, FetchKey, FetchApp,
         FindLegacy, RemoveFile, LanguagePacks, LuciPacks, PrepareCore, DownloadCore, InstallCore,
         InstallKmods, AddTool, InstallEngine, RemoveTool, SelectCore, PlanPackages, PushPackages,
         router, app

LEMMA StaleStep == ASSUME TypeOK, StaleInv, Next PROVE StaleInv'
<1> USE DEF outside, router, app
<1>1. ASSUME NEW w \in Worker, JobStep(w) PROVE StaleInv'
  <2>1. CASE RestartRpcd(w)
    BY <2>1 DEF RestartRpcd, StaleInv
  <2>2. CASE ~RestartRpcd(w)
    <3>1. /\ failed => failed'
          /\ pending' = pending \/ failed'
      BY <1>1, <2>2, FailedStays
    <3>2. stale' => stale \/ job'[w].at \in Finishing
      BY <1>1, <2>2, StaleChange DEF TypeOK
    <3>3. \A x \in Worker : job[x].at \in Finishing => job'[x].at \in Finishing \/ failed'
      <4>1. \A x \in Worker \ {w} : job'[x] = job[x]
        BY <1>1, JobStepped DEF Stepped
      <4>2. QED
        BY <1>1, <2>2, <4>1, FinishingStays
    <3>4. QED
      BY <3>1, <3>2, <3>3 DEF StaleInv
  <2>3. QED
    BY <2>1, <2>2
<1>2. ASSUME NEW w \in Worker, NEW f \in Flow, Begin(w, f) PROVE StaleInv'
  <2>1. UNCHANGED <<stale, pending>> /\ (failed => failed')
    BY <1>2 DEF Begin
  <2>2. \A x \in Worker \ {w} : job'[x].at = job[x].at
    BY <1>2 DEF Begin, TypeOK
  <2>3. job[w].at \notin Finishing
    BY <1>2 DEF Begin, Finishing
  <2>4. QED
    BY <2>1, <2>2, <2>3 DEF StaleInv
<1>3. ASSUME NEW cmd \in Command, PendingEnds(cmd) PROVE StaleInv'
  BY <1>3 DEF PendingEnds, StaleInv
<1>4. ASSUME ShowVersions \/ ShowSoftware \/ Publish PROVE StaleInv'
  BY <1>4 DEF ShowVersions, ShowSoftware, Publish, StaleInv
<1>5. QED
  BY <1>1, <1>2, <1>3, <1>4 DEF Next

\* When rpcd does not know the app yet, a job is on its way to the restart, or the user was
\* told of an error.
THEOREM StaleIsReported == Spec => []StaleOnlyAfterFailure
<1>1. Init => StaleInv
  BY DEF Init, StaleInv
<1>2. StaleInv /\ UNCHANGED vars => StaleInv'
  BY DEF StaleInv, vars, app
<1>3. StaleInv => StaleOnlyAfterFailure
  BY DEF StaleInv, StaleOnlyAfterFailure, Finishing
<1>4. QED
  BY <1>1, <1>2, <1>3, StaleStep, TypeCorrect, PTL DEF Spec

-----------------------------------------------------------------------------
(* A job that is alone                                                     *)

\* A job has the app installed once it has seen it installed itself.
Equipped(j) == \/ j.at \in Finishing \cup {"download", "core", "kmods", "select"}
               \/ j.at = "tool" /\ j.flow = "install"

\* A job that is alone finds the files it brought, the old package it saw, and the app.
Sound(w) ==
  job[w].at # "idle" /\ job[w].alone =>
    /\ \A x \in Worker \ {w} : job[x].at = "idle"
    /\ pending = {}
    /\ job[w].flow # "stage" /\ job[w].at \in {"legacy", "drop", "add"} => file = job[w].ver
    /\ job[w].flow = "stage" /\ job[w].at \in {"legacy", "drop", "unpack"} => pushed = job[w].ver
    /\ job[w].at = "drop" => "legacy" \in installed
    /\ Equipped(job[w]) => "app" \in installed

AloneInv == \A w \in Worker : Sound(w)

\* Where the files a job needs come from.
Brought(w) ==
  job'[w].at \in {"legacy", "drop", "add", "unpack"} =>
    /\ job'[w].ver = job[w].ver
    /\ \/ job[w].at = "fetch" /\ job'[w].at = "legacy" /\ file' = job[w].ver
       \/ job[w].at = "push" /\ job'[w].at = "legacy" /\ pushed' = job[w].ver
       \/ /\ job[w].at \in {"legacy", "drop"} /\ UNCHANGED <<file, pushed>>
          /\ job'[w].at \in {"drop", AfterLegacy(w)}

\* What a step of a job that goes on leaves for its next one.
GoesOn(w) ==
  /\ pending' = pending
  /\ Brought(w)
  /\ job'[w].at = "drop" => "legacy" \in installed'
  /\ Equipped(job'[w]) => \/ "app" \in installed'
                          \/ Equipped(job[w]) /\ installed \subseteq installed'

\* The last disjunct of a step: the job is over.
LEMMA Over ==
  ASSUME TypeOK, NEW w \in Worker, Succeed(w) \/ Fail(w)
  PROVE  job'[w].at = "idle"
<1>1. job'[w] = Idle
  BY EndFacts
<1>2. QED
  BY <1>1 DEF Idle

\* A step of a job ends it, or leaves what the next one needs.
LEMMA StepGoesOn ==
  ASSUME TypeOK, NEW w \in Worker, JobStep(w)
  PROVE  job[w].at # "idle" /\ (job'[w].at = "idle" \/ GoesOn(w))
<1> USE DEF screens, app, router, Steps, AppSteps, CoreSteps, Command, Package, Finishing
<1> DEFINE Goal == job[w].at # "idle" /\ (job'[w].at = "idle" \/ GoesOn(w))
\* A step that installs nothing or more, and enters neither the removal nor the installation.
<1>1. ASSUME NEW from \in Steps, NEW step \in Steps, job[w].at = from, GoTo(w, step),
             pending' = pending, installed \subseteq installed',
             step \notin {"legacy", "drop", "add", "unpack"},
             \/ step \notin Finishing \cup {"download", "core", "kmods", "select", "tool"}
             \/ from \in Finishing \cup {"core", "kmods", "download"}
             \/ from = "tool" /\ job[w].flow = "install"
             \/ "app" \in installed'
      PROVE  Goal
  <2>1. job'[w].at = step /\ job'[w].flow = job[w].flow
    BY <1>1, GoToFacts
  <2>2. Brought(w) /\ job'[w].at # "drop"
    BY <1>1, <2>1 DEF Brought
  <2>3. Equipped(job'[w]) => "app" \in installed' \/ Equipped(job[w])
    BY <1>1, <2>1 DEF Equipped
  <2>4. QED
    BY <1>1, <2>2, <2>3 DEF GoesOn
<1>2. CASE Break(w)
  BY <1>2, Over DEF Break
<1>3. CASE EnsureClock(w)
  BY <1>3, <1>1 DEF EnsureClock
<1>4. CASE ResolveAssets(w)
  <2>1. job'[w].at = "probe" /\ job[w].at = "resolve" /\ pending' = pending
    BY <1>4, ResolvedStep DEF ResolveAssets
  <2>2. QED
    BY <2>1 DEF GoesOn, Brought, Equipped
<1>5. CASE NothingReleased(w)
  BY <1>5, Over DEF NothingReleased
<1>6. CASE Probe(w)
  BY <1>6, <1>1 DEF Probe
<1>7. CASE FetchKey(w)
  BY <1>7, <1>1 DEF FetchKey
<1>8. CASE FetchApp(w)
  <2>1. CASE GoTo(w, "legacy") /\ file' = job[w].ver
    <3>1. job'[w].at = "legacy" /\ job'[w].ver = job[w].ver
      BY <2>1, GoToFacts
    <3>2. job[w].at = "fetch" /\ pending' = pending
      BY <1>8 DEF FetchApp
    <3>3. QED
      BY <2>1, <3>1, <3>2 DEF GoesOn, Brought, Equipped
  <2>2. QED
    BY <1>8, <2>1, Over DEF FetchApp
<1>9. CASE FindLegacy(w)
  <2>1. /\ job'[w].at = IF LegacyReal # {} THEN "drop" ELSE AfterLegacy(w)
        /\ job'[w].ver = job[w].ver
    BY <1>9, AfterLegacyStep, GoToFacts DEF FindLegacy
  <2>2. job[w].at = "legacy" /\ UNCHANGED <<installed, pending, file, pushed>>
    BY <1>9 DEF FindLegacy
  <2>3. job'[w].at = "drop" => "legacy" \in installed'
    BY <2>1, <2>2, AfterLegacyStep DEF LegacyReal
  <2>4. ~Equipped(job'[w])
    BY <2>1, AfterLegacyStep DEF Equipped
  <2>5. QED
    BY <2>1, <2>2, <2>3, <2>4 DEF GoesOn, Brought
<1>10. CASE DropLegacy(w)
  <2>1. CASE GoTo(w, AfterLegacy(w)) /\ pending' = pending
    <3>1. job'[w].at = AfterLegacy(w) /\ job'[w].ver = job[w].ver
      BY <2>1, AfterLegacyStep, GoToFacts
    <3>2. job[w].at = "drop" /\ UNCHANGED <<file, pushed>>
      BY <1>10, DropFacts, DeletedFacts DEF DropLegacy
    <3>3. ~Equipped(job'[w]) /\ job'[w].at # "drop"
      BY <3>1, AfterLegacyStep DEF Equipped
    <3>4. QED
      BY <2>1, <3>1, <3>2, <3>3 DEF GoesOn, Brought
  <2>2. QED
    BY <1>10, <2>1, DropFacts, Over DEF DropLegacy
<1>11. CASE AddApp(w)
  <2>1. CASE GoTo(w, "clean") /\ installed' = installed \cup Closed({"app"}) /\ pending' = pending
    <3>1. "app" \in installed'
      BY <2>1 DEF Closed
    <3>2. QED
      BY <1>11, <2>1, <3>1, <1>1 DEF AddApp
  <2>2. CASE GoTo(w, "undo") /\ UNCHANGED <<installed, pending>>
    BY <1>11, <2>2, <1>1 DEF AddApp
  <2>3. QED
    BY <1>11, <2>1, <2>2, Over DEF AddApp, GiveUp
<1>12. CASE RemoveFile(w)
  BY <1>12, <1>1, Over DEF RemoveFile
<1>13. CASE LanguagePacks(w)
  BY <1>13, <1>1, Over DEF LanguagePacks, GiveUp
<1>14. CASE LuciPacks(w)
  BY <1>14, <1>1, Over DEF LuciPacks, GiveUp
<1>15. CASE RestartRpcd(w)
  <2>1. job'[w].at \in {"idle", "prepare"} /\ job[w].at = "rpcd" /\ pending' = pending
    BY <1>15 DEF RestartRpcd, Idle, TypeOK
  <2>2. QED
    BY <2>1 DEF GoesOn, Brought, Equipped
<1>16. CASE PrepareCore(w)
  BY <1>16, <1>1, Over DEF PrepareCore
<1>17. CASE DownloadCore(w)
  BY <1>17, <1>1, Over DEF DownloadCore
<1>18. CASE InstallCore(w)
  <2>1. PICK next \in {"done", "kmods"} : InstallPkg(w, "core", next)
    BY <1>18 DEF InstallCore
  <2>2. \/ Fail(w) \/ Succeed(w)
        \/ GoTo(w, "kmods") /\ installed \subseteq installed' /\ pending' = pending
    BY <2>1, PkgFacts
  <2>3. QED
    BY <1>18, <2>2, <1>1, Over DEF InstallCore
<1>19. CASE InstallKmods(w)
  <2>1. PICK next \in {"done", "tool", "select"} : InstallPkg(w, "kmods", next)
    BY <1>19 DEF InstallKmods
  <2>2. \/ Fail(w) \/ Succeed(w)
        \/ /\ GoTo(w, "tool") \/ GoTo(w, "select")
           /\ installed \subseteq installed' /\ pending' = pending
    BY <2>1, PkgFacts
  <2>3. QED
    BY <1>19, <2>2, <1>1, Over DEF InstallKmods
<1>20. CASE AddTool(w)
  <2>1. \/ Fail(w)
        \/ GoTo(w, "select") /\ installed \subseteq installed' /\ pending' = pending
    BY <1>20, PkgFacts DEF AddTool
  <2>2. QED
    BY <1>20, <2>1, <1>1, Over DEF AddTool
<1>21. CASE InstallEngine(w)
  <2>1. Fail(w) \/ Succeed(w)
    BY <1>21, PkgFacts DEF InstallEngine
  <2>2. QED
    BY <1>21, <2>1, Over DEF InstallEngine
<1>22. CASE RemoveTool(w)
  BY <1>22, Over DEF RemoveTool
<1>23. CASE SelectCore(w)
  BY <1>23, Over DEF SelectCore
<1>24. CASE PlanPackages(w)
  <2>1. Fail(w) \/ job'[w].at = "push"
    BY <1>24, ResolvedStep DEF PlanPackages
  <2>2. job[w].at = "plan" /\ pending' = pending
    BY <1>24 DEF PlanPackages
  <2>3. QED
    BY <2>1, <2>2, Over DEF GoesOn, Brought, Equipped
<1>25. CASE PushPackages(w)
  <2>1. CASE GoTo(w, "legacy") /\ pushed' = job[w].ver
    <3>1. job'[w].at = "legacy" /\ job'[w].ver = job[w].ver
      BY <2>1, GoToFacts
    <3>2. job[w].at = "push" /\ pending' = pending
      BY <1>25 DEF PushPackages
    <3>3. QED
      BY <2>1, <3>1, <3>2 DEF GoesOn, Brought, Equipped
  <2>2. QED
    BY <1>25, <2>1, Over DEF PushPackages
<1>26. CASE Unpack(w)
  <2>1. CASE /\ GoTo(w, "rpcd") /\ pending' = pending
             /\ \E pkgs \in Staged : Installable(pkgs) /\ installed' = installed \cup pkgs
    <3>1. "app" \in installed' /\ installed \subseteq installed'
      BY <2>1, StagedPackages
    <3>2. QED
      BY <1>26, <2>1, <3>1, <1>1 DEF Unpack
  <2>2. QED
    BY <1>26, <2>1, UnpackFacts, Over DEF Unpack
<1>27. QED
  BY <1>2, <1>3, <1>4, <1>5, <1>6, <1>7, <1>8, <1>9, <1>10, <1>11, <1>12, <1>13, <1>14, <1>15, <1>16, <1>17, <1>18, <1>19, <1>20, <1>21, <1>22, <1>23, <1>24, <1>25, <1>26 DEF JobStep

LEMMA AloneStep == ASSUME TypeOK, ReadyInv, AloneInv, Next PROVE AloneInv'
<1> USE DEF outside, screens, app, router
<1>1. ASSUME NEW w \in Worker, JobStep(w) PROVE AloneInv'
  <2>1. Stepped(w) /\ Sound(w) /\ job[w].at # "idle"
    BY <1>1, JobStepped, StepGoesOn DEF AloneInv
  <2>2. ASSUME NEW x \in Worker \ {w} PROVE Sound(x)'
    <3>1. job'[x] = job[x] /\ Sound(x)
      BY <2>1 DEF Stepped, AloneInv
    <3>2. ~(job[x].at # "idle" /\ job[x].alone)
      BY <2>1, <3>1 DEF Sound
    <3>3. QED
      BY <3>1, <3>2 DEF Sound
  <2>3. ASSUME job'[w].at # "idle", job'[w].alone PROVE Sound(w)'
    <3>1. job'[w].flow = job[w].flow /\ job'[w].alone = job[w].alone
      <4>1. job'[w] # Idle
        BY <2>3 DEF Idle
      <4>2. QED
        BY <2>1, <4>1 DEF Stepped
    <3>2. GoesOn(w)
      BY <1>1, <2>3, StepGoesOn
    <3>3. /\ \A x \in Worker \ {w} : job'[x].at = "idle"
          /\ pending' = {}
      BY <2>1, <2>3, <3>1, <3>2 DEF Sound, Stepped, GoesOn
    <3>4. job'[w].at = "drop" => "legacy" \in installed'
      BY <3>2 DEF GoesOn
    <3>5. Equipped(job'[w]) => "app" \in installed'
      BY <2>1, <2>3, <3>1, <3>2 DEF Sound, GoesOn
    <3>6. /\ job[w].at = "fetch" => job[w].flow # "stage"
          /\ job[w].at = "push" => job[w].flow = "stage"
      BY DEF ReadyInv, Reached
    <3>7. /\ (job'[w].flow # "stage" /\ job'[w].at \in {"legacy", "drop", "add"}) =>
                file' = job'[w].ver
          /\ (job'[w].flow = "stage" /\ job'[w].at \in {"legacy", "drop", "unpack"}) =>
                pushed' = job'[w].ver
      <4>1. Brought(w)
        BY <3>2 DEF GoesOn
      <4>2. QED
        BY <2>1, <2>3, <3>1, <3>6, <4>1 DEF Sound, Brought, AfterLegacy
    <3>8. QED
      BY <3>3, <3>4, <3>5, <3>7 DEF Sound
  <2>4. Sound(w)'
    BY <2>3 DEF Sound
  <2>5. QED
    BY <2>2, <2>4 DEF AloneInv
<1>2. ASSUME NEW w \in Worker, NEW f \in Flow, Begin(w, f) PROVE AloneInv'
  <2>1. UNCHANGED <<installed, file, pushed, pending>>
    BY <1>2 DEF Begin
  <2>2. ASSUME NEW x \in Worker \ {w} PROVE Sound(x)'
    <3>1. job'[x].alone = FALSE
      BY <1>2 DEF Begin, TypeOK
    <3>2. QED
      BY <3>1 DEF Sound
  <2>3. CASE Refused(f)
    <3>1. job'[w].at = "idle"
      BY <1>2, <2>3 DEF Begin, Idle
    <3>2. QED
      BY <2>2, <3>1 DEF AloneInv, Sound
  <2>4. CASE ~Refused(f)
    <3>1. /\ job'[w].at = First(f) /\ job'[w].flow = f
          /\ job'[w].alone = (Active = {} /\ pending = {})
      BY <1>2, <2>4 DEF Begin
    <3>2. First(f) \in {"clock", "plan"} \/ (First(f) = "tool" /\ f = "tool")
      BY DEF First, Flow
    <3>3. Active = {} => \A x \in Worker \ {w} : job'[x].at = "idle"
      <4>1. \A x \in Worker \ {w} : job'[x].at = job[x].at
        BY <1>2 DEF Begin, TypeOK
      <4>2. Active = {} => \A x \in Worker : job[x].at = "idle"
        BY DEF Active, TypeOK
      <4>3. QED
        BY <4>1, <4>2
    <3>4. ~Equipped(job'[w]) /\ job'[w].at \notin {"legacy", "drop", "add", "unpack"}
      BY <3>1, <3>2 DEF Equipped, Finishing
    <3>5. Sound(w)'
      BY <2>1, <3>1, <3>3, <3>4 DEF Sound
    <3>6. QED
      BY <2>2, <3>5 DEF AloneInv
  <2>5. QED
    BY <2>3, <2>4
<1>3. ASSUME NEW cmd \in Command, PendingEnds(cmd) PROVE AloneInv'
  <2>1. job' = job /\ pending # {}
    BY <1>3 DEF PendingEnds
  <2>2. \A w \in Worker : ~(job[w].at # "idle" /\ job[w].alone)
    BY <2>1 DEF AloneInv, Sound
  <2>3. QED
    BY <2>1, <2>2 DEF AloneInv, Sound
<1>4. ASSUME ShowVersions \/ ShowSoftware \/ Publish PROVE AloneInv'
  <2>1. UNCHANGED <<installed, file, pushed, pending, job>>
    BY <1>4 DEF ShowVersions, ShowSoftware, Publish
  <2>2. QED
    BY <2>1 DEF AloneInv, Sound
<1>5. QED
  BY <1>1, <1>2, <1>3, <1>4 DEF Next

\* A job that is alone finds what it relies on, in every state.
LEMMA AloneIsSound == Spec => [](TypeOK /\ ReadyInv /\ AloneInv)
<1>1. Init => AloneInv
  <2>1. Init => \A w \in Worker : job[w].at = "idle"
    BY DEF Init
  <2>2. QED
    BY <2>1 DEF AloneInv, Sound
<1>2. AloneInv /\ UNCHANGED vars => AloneInv'
  BY DEF AloneInv, Sound, vars, app
<1>3. TypeOK /\ ReadyInv /\ UNCHANGED vars => ReadyInv'
  BY DEF ReadyInv, WithRequired, Reached, ReportedReady, SnapshotKernel, Requires, HasDigest,
         Closed, Needed, vars, app
<1>4. QED
  BY <1>1, <1>2, <1>3, ReadyInit, ReadyStep, AloneStep, TypeCorrect, PTL DEF Spec

\* A screen begins to let the user go on only when Re:HomeProxy or its predecessor is there,
\* unless another job ran since the one that reports it began.
THEOREM ReadyWithPackage == Spec => ReadyWithApp
<1> DEFINE A == ~proceed /\ proceed' =>
                  \/ installed' \cap {"app", "legacy"} # {}
                  \/ \E w \in Worker : job'[w] # job[w] /\ ~job[w].alone
<1>1. ASSUME TypeOK, AloneInv, Next PROVE A
  <2>1. SUFFICES ASSUME ~proceed, proceed' PROVE A
    OBVIOUS
  <2>2. ASSUME NEW w \in Worker, RestartRpcd(w) \/ SelectCore(w) PROVE A
    <3>1. Equipped(job[w]) /\ job[w].at # "idle" /\ installed' = installed
      BY <2>2 DEF RestartRpcd, SelectCore, Equipped, Finishing, router
    <3>2. job[w].alone => "app" \in installed'
      BY <1>1, <3>1 DEF AloneInv, Sound
    <3>3. job'[w] # job[w]
      <4>1. job'[w].at # job[w].at
        BY <1>1, <2>2 DEF RestartRpcd, SelectCore, Succeed, Idle, TypeOK
      <4>2. QED
        BY <4>1
    <3>4. QED
      BY <3>2, <3>3
  <2>3. ASSUME NEW w \in Worker, JobStep(w), ~RestartRpcd(w), ~SelectCore(w) PROVE FALSE
    <3>1. proceed' = proceed
      BY <2>3 DEF JobStep, Break, EnsureClock, ResolveAssets, NothingReleased, Probe,
         FetchKey, FetchApp, FindLegacy, DropLegacy, AddApp, RemoveFile, LanguagePacks, LuciPacks,
         PrepareCore, DownloadCore, InstallCore, InstallKmods, AddTool, InstallEngine,
         RemoveTool, PlanPackages, PushPackages, Unpack, screens
    <3>2. QED
      BY <2>1, <3>1
  <2>4. CASE ShowSoftware
    BY <2>1, <2>4 DEF ShowSoftware, router
  <2>5. CASE \/ \E w \in Worker, f \in Flow : Begin(w, f)
             \/ \E cmd \in Command : PendingEnds(cmd)
             \/ ShowVersions \/ Publish
    BY <2>1, <2>5 DEF Begin, PendingEnds, ShowVersions, Publish, screens
  <2>6. QED
    BY <1>1, <2>2, <2>3, <2>4, <2>5 DEF Next
<1>2. TypeOK /\ AloneInv /\ [Next]_vars => [A]_vars
  BY <1>1
<1>3. ReadyWithApp <=> [][A]_vars
  BY DEF ReadyWithApp
<1> HIDE DEF A
<1>4. QED
  BY <1>2, <1>3, AloneIsSound, PTL DEF Spec

\* No job by itself takes Re:HomeProxy away; its predecessor is lost only to a job that has the
\* new package on the router or to a removal that was given up.
THEOREM NothingWithdrawn == Spec => NotWithdrawn
<1> DEFINE A == /\ "app" \in installed \ installed' =>
                     \/ "legacy" \in pending
                     \/ \E w \in Worker : job[w].at = "drop" /\ job'[w] # job[w] /\ ~job[w].alone
                /\ "legacy" \in installed \ installed' =>
                     \/ "legacy" \in pending
                     \/ \E w \in Worker :
                          /\ job'[w] # job[w]
                          /\ job[w].alone => file = job[w].ver \/ pushed = job[w].ver
<1>1. ASSUME TypeOK, AloneInv, Next PROVE A
  <2>1. ASSUME NEW cmd \in Command, PendingEnds(cmd) PROVE A
    <3>1. "legacy" \in pending \/ installed \subseteq installed'
      BY <2>1 DEF PendingEnds
    <3>2. QED
      BY <3>1
  <2>2. ASSUME NEW w \in Worker, DropLegacy(w) PROVE A
    <3>1. job[w].at = "drop" /\ Sound(w)
      BY <1>1, <2>2 DEF DropLegacy, AloneInv
    <3>2. job'[w] # job[w]
      <4>1. job'[w].at \in {"idle", AfterLegacy(w)}
        BY <1>1, <2>2, DropFacts, Over, AfterLegacyStep, GoToFacts DEF Steps, AppSteps
      <4>2. QED
        BY <3>1, <4>1, AfterLegacyStep
    <3>3. job[w].alone => "app" \notin installed \ installed'
      BY <1>1, <2>2, <3>1, DropFacts, DeletedFacts DEF Sound
    <3>4. job[w].alone => file = job[w].ver \/ pushed = job[w].ver
      BY <3>1 DEF Sound
    <3>5. QED
      BY <3>1, <3>2, <3>3, <3>4
  <2>3. ASSUME NEW w \in Worker, JobStep(w), ~DropLegacy(w) PROVE A
    <3>1. installed \ {"tool"} \subseteq installed'
      BY <1>1, <2>3, UnpackFacts
         DEF JobStep, Break, EnsureClock, ResolveAssets, NothingReleased, Probe, FetchKey,
             FetchApp, FindLegacy, AddApp, RemoveFile, LanguagePacks, LuciPacks, RestartRpcd,
             PrepareCore, DownloadCore, InstallCore, InstallKmods, AddTool, InstallEngine,
             RemoveTool, SelectCore, PlanPackages, PushPackages, InstallPkg, router
    <3>2. QED
      BY <3>1
  <2>4. CASE \/ \E w \in Worker, f \in Flow : Begin(w, f)
             \/ ShowVersions \/ ShowSoftware \/ Publish
    <3>1. installed' = installed
      BY <2>4 DEF Begin, ShowVersions, ShowSoftware, Publish, router
    <3>2. QED
      BY <3>1
  <2>5. QED
    BY <1>1, <2>1, <2>2, <2>3, <2>4 DEF Next
<1>2. TypeOK /\ AloneInv /\ [Next]_vars => [A]_vars
  BY <1>1
<1>3. NotWithdrawn <=> [][A]_vars
  BY DEF NotWithdrawn
<1> HIDE DEF A
<1>4. QED
  BY <1>2, <1>3, AloneIsSound, PTL DEF Spec

=============================================================================
