--------------------------- MODULE KeyLeaseProofs ---------------------------
(* Proofs about KeyLease, for every set of PCs and foreign keys, lease      *)
(* length and number of days.                                               *)
EXTENDS KeyLease, TLAPS

Actions(p) == Begin(p) \/ Setup(p) \/ Reconnect(p) \/ Revoke(p) \/ Abort(p)

-----------------------------------------------------------------------------
(* Type correctness                                                         *)

LEMMA NowType == TypeOK => Now \in Int /\ Now + LeaseLen \in Int
  BY KeyLeaseAssumption DEF TypeOK, Now

LEMMA CopyType ==
  ASSUME TypeOK, NEW p \in PC, NEW content \in SUBSET Line, NEW next \in PcSteps,
         Copy(p, content, next), jobs' \in 0..MaxJobs
  PROVE  TypeOK'
  BY DEF TypeOK, Copy, Goto, files

LEMMA NewFileType ==
  ASSUME TypeOK, NEW content \in SUBSET Line, NewFile(content)
  PROVE  lines' \in SUBSET Line /\ prune' \in [at : PruneSteps, key : PC \cup {None}, kept : SUBSET Line]
  BY DEF TypeOK, NewFile, PruneSteps

LEMMA UnlinkType ==
  ASSUME TypeOK, NEW p \in PC, NEW next \in PcSteps, MoveUnlink(p, next), jobs' \in 0..MaxJobs
  PROVE  TypeOK'
<1>1. lines' \in SUBSET Line /\ prune' \in [at : PruneSteps, key : PC \cup {None}, kept : SUBSET Line]
  BY NewFileType DEF MoveUnlink
<1>2. QED
  BY <1>1 DEF TypeOK, MoveUnlink, Goto

LEMMA FillType ==
  ASSUME TypeOK, NEW p \in PC, NEW next \in PcSteps, MoveFill(p, next), revoked' \in SUBSET Other,
         undone' \in SUBSET Other, jobs' \in 0..MaxJobs
  PROVE  TypeOK'
<1>1. lines' \in SUBSET Line /\ prune' \in [at : PruneSteps, key : PC \cup {None}, kept : SUBSET Line]
  BY NewFileType DEF MoveFill, TypeOK
<1>2. QED
  BY <1>1 DEF TypeOK, MoveFill, Goto

LEMMA RevokedType ==
  ASSUME TypeOK, NEW p \in PC, NEW gone \in SUBSET Other, Revoked(p, gone)
  PROVE  revoked' \in SUBSET Other /\ undone' \in SUBSET Other
  BY DEF TypeOK, Revoked

LEMMA SkipType ==
  ASSUME TypeOK, NEW p \in PC, NEW next \in PcSteps, Skip(p, next), jobs' \in 0..MaxJobs
  PROVE  TypeOK'
  BY DEF TypeOK, Skip, Goto, files

LEMMA WriteLeaseType ==
  ASSUME TypeOK, NEW p \in PC, NEW next \in PcSteps, WriteLease(p), Goto(p, next), jobs' \in 0..MaxJobs
  PROVE  TypeOK'
  BY NowType DEF TypeOK, WriteLease, Goto

LEMMA OwnLineType == ASSUME TypeOK, NEW p \in PC PROVE OwnLineRewritten(p) \in SUBSET Line
  BY DEF TypeOK, OwnLineRewritten, Without, AppLine, Line, Key, Label

LEMMA InitType == Init => TypeOK
<1> SUFFICES ASSUME Init PROVE TypeOK
  OBVIOUS
<1>1. lines \in SUBSET Line
  BY DEF Init, Line, Key, Label
<1>2. NoPrune \in [at : PruneSteps, key : PC \cup {None}, kept : SUBSET Line]
  BY DEF NoPrune, PruneSteps
<1>3. today \in 0..MaxDay /\ jobs \in 0..MaxJobs
  BY KeyLeaseAssumption DEF Init
<1>4. QED
  BY <1>1, <1>2, <1>3 DEF Init, TypeOK, PcSteps

LEMMA BeginType == ASSUME TypeOK, NEW p \in PC, Begin(p), jobs' \in 0..MaxJobs PROVE TypeOK'
<1>1. CASE InstallCheck(p) \/ Connect(p) \/ RevokeAllList(p)
  BY <1>1, SkipType DEF InstallCheck, Connect, RevokeAllList, PcSteps
<1>2. ASSUME NEW l \in Line, RevokeCheck(p, l) PROVE TypeOK'
  BY <1>2 DEF RevokeCheck, TypeOK, Goto, files, PcSteps
<1>3. QED
  BY <1>1, <1>2 DEF Begin

LEMMA SetupType == ASSUME TypeOK, NEW p \in PC, Setup(p), jobs' \in 0..MaxJobs PROVE TypeOK'
<1>1. CASE InstallCopy(p)
  BY <1>1, CopyType, OwnLineType DEF InstallCopy, PcSteps
<1>2. CASE InstallMove(p)
  BY <1>2, UnlinkType DEF InstallMove, PcSteps
<1>3. CASE InstallFill(p)
  BY <1>3, FillType DEF InstallFill, PcSteps, TypeOK
<1>4. CASE VerifyKey(p)
  BY <1>4, SkipType DEF VerifyKey, PcSteps
<1>5. CASE ArmBlob(p)
  BY <1>5 DEF ArmBlob, TypeOK, Goto, PcSteps
<1>6. CASE ArmLease(p)
  BY <1>6, WriteLeaseType DEF ArmLease, PcSteps
<1>7. CASE ArmCron(p)
  BY <1>7 DEF ArmCron, TypeOK, Goto, PcSteps
<1>8. QED
  BY <1>1, <1>2, <1>3, <1>4, <1>5, <1>6, <1>7 DEF Setup

LEMMA ReconnectType == ASSUME TypeOK, NEW p \in PC, Reconnect(p), jobs' \in 0..MaxJobs PROVE TypeOK'
<1>1. CASE RelabelSeek(p) \/ RenewTest(p)
  BY <1>1, SkipType DEF RelabelSeek, RenewTest, PcSteps
<1>2. CASE RelabelCopy(p)
  BY <1>2, CopyType, OwnLineType DEF RelabelCopy, PcSteps
<1>3. CASE RelabelMove(p)
  BY <1>3, UnlinkType DEF RelabelMove, PcSteps
<1>4. CASE RelabelFill(p)
  BY <1>4, FillType DEF RelabelFill, PcSteps, TypeOK
<1>5. CASE RenewWrite(p)
  BY <1>5, WriteLeaseType DEF RenewWrite, PcSteps
<1>6. QED
  BY <1>1, <1>2, <1>3, <1>4, <1>5 DEF Reconnect

LEMMA RevokeType == ASSUME TypeOK, NEW p \in PC, Revoke(p), jobs' \in 0..MaxJobs PROVE TypeOK'
<1>1. CASE RevokeCopy(p)
  <2>1. lines \ {target[p]} \in SUBSET Line
    BY DEF TypeOK
  <2>2. QED
    BY <1>1, <2>1, CopyType DEF RevokeCopy, PcSteps
<1>2. CASE RevokeMove(p)
  BY <1>2, UnlinkType DEF RevokeMove, PcSteps
<1>3. CASE RevokeFill(p)
  BY <1>3, FillType, RevokedType DEF RevokeFill, PcSteps
<1>4. CASE RevokeAllWipe(p)
  BY <1>4, RevokedType DEF RevokeAllWipe, TypeOK, Goto, PcSteps
<1>5. QED
  BY <1>1, <1>2, <1>3, <1>4 DEF Revoke

LEMMA AbortType == ASSUME TypeOK, NEW p \in PC, Abort(p), jobs' \in 0..MaxJobs PROVE TypeOK'
  BY DEF Abort, TypeOK, Goto, files, PcSteps

LEMMA PruneType == ASSUME TypeOK, Prune PROVE TypeOK'
<1> DEFINE R == [at : PruneSteps, key : PC \cup {None}, kept : SUBSET Line]
<1>1. CASE PruneCheck
  <2>1. prune' \in R
    BY <1>1, KeyLeaseAssumption DEF PruneCheck, TypeOK, PruneSteps
  <2>2. QED
    BY <1>1, <2>1 DEF PruneCheck, TypeOK, files
<1>2. CASE PruneCopy
  <2>1. Without(prune.key, lines) \in SUBSET Line
    BY DEF TypeOK, Without
  <2>2. prune' \in R
    BY <1>2, <2>1 DEF PruneCopy, TypeOK, PruneSteps
  <2>3. QED
    BY <1>2, <2>2 DEF PruneCopy, TypeOK, files
<1>3. CASE PruneTruncate
  <2>1. prune' \in R
    BY <1>3 DEF PruneTruncate, TypeOK, PruneSteps
  <2>2. QED
    BY <1>3, <2>1 DEF PruneTruncate, TypeOK
<1>4. CASE PruneWrite
  <2>1. prune' \in R
    BY <1>4 DEF PruneWrite, TypeOK, PruneSteps
  <2>2. QED
    BY <1>4, <2>1 DEF PruneWrite, TypeOK
<1>5. CASE PruneClean
  <2>1. prune' \in R
    BY <1>5 DEF PruneClean, NoPrune, PruneSteps
  <2>2. QED
    BY <1>5, <2>1 DEF PruneClean, TypeOK
<1>6. QED
  BY <1>1, <1>2, <1>3, <1>4, <1>5 DEF Prune

LEMMA EnvironmentType == ASSUME TypeOK, Tick \/ SetClock \/ Reboot PROVE TypeOK'
<1>1. CASE Tick
  BY <1>1, KeyLeaseAssumption DEF Tick, TypeOK, files
<1>2. CASE SetClock
  BY <1>2 DEF SetClock, TypeOK, files
<1>3. CASE Reboot
  <2>1. prune' \in [at : PruneSteps, key : PC \cup {None}, kept : SUBSET Line]
    BY <1>3 DEF Reboot, NoPrune, PruneSteps
  <2>2. QED
    BY <1>3, <2>1 DEF Reboot, TypeOK, files, PcSteps
<1>4. QED
  BY <1>1, <1>2, <1>3

LEMMA NextJobs == TypeOK /\ [Next]_vars => jobs' \in 0..MaxJobs
<1> SUFFICES ASSUME TypeOK, [Next]_vars PROVE jobs' \in 0..MaxJobs
  OBVIOUS
<1>1. jobs' = jobs \/ (jobs < MaxJobs /\ jobs' = jobs + 1)
  BY DEF Next, Prune, PruneCheck, PruneCopy, PruneTruncate, PruneWrite, PruneClean, Tick, SetClock, Reboot, vars
<1>2. QED
  BY <1>1, KeyLeaseAssumption DEF TypeOK

LEMMA NextType == TypeOK /\ [Next]_vars => TypeOK'
<1> SUFFICES ASSUME TypeOK, [Next]_vars PROVE TypeOK'
  OBVIOUS
<1>1. CASE UNCHANGED vars
  BY <1>1 DEF vars, files, TypeOK
<1>2. CASE Next
  BY <1>2, NextJobs, BeginType, SetupType, ReconnectType, RevokeType, AbortType, PruneType, EnvironmentType DEF Next
<1>3. QED
  BY <1>1, <1>2

\* Every variable keeps its type, whatever the PCs, the pruner and the power
\* supply do.
THEOREM TypeCorrect == Spec => []TypeOK
  BY InitType, NextType, PTL DEF Spec

-----------------------------------------------------------------------------
(* No key twice.  Every copy that may become authorized_keys holds no key   *)
(* twice either: the copies are what makes the invariant inductive.         *)

CopiesSingle ==
  /\ Single(lines)
  /\ \A p \in PC : Single(tmp[p])
  /\ Single(prune.kept)

\* Rewriting one's own line drops every line of the key before it adds one.
LEMMA RewriteSingle ==
  ASSUME NEW S, Single(S), NEW k
  PROVE  Single(Without(k, S)) /\ Single(Without(k, S) \cup {AppLine(k)})
  BY DEF Single, Without, AppLine

LEMMA SubsetSingle == ASSUME NEW S, Single(S), NEW T \in SUBSET S PROVE Single(T)
  BY DEF Single

LEMMA CopySingle ==
  ASSUME TypeOK, CopiesSingle, NEW p \in PC, NEW content, Single(content), NEW next,
         Copy(p, content, next)
  PROVE  CopiesSingle'
  BY DEF TypeOK, CopiesSingle, Copy, files

LEMMA NoneSingle == Single({})
  BY DEF Single

LEMMA UnlinkSingle ==
  ASSUME TypeOK, CopiesSingle, NEW p \in PC, NEW next, MoveUnlink(p, next)
  PROVE  CopiesSingle'
<1>1. prune'.kept = prune.kept
  BY DEF MoveUnlink, NewFile, TypeOK
<1>2. QED
  BY <1>1, NoneSingle DEF CopiesSingle, MoveUnlink, NewFile

LEMMA FillSingle ==
  ASSUME TypeOK, CopiesSingle, NEW p \in PC, NEW next, MoveFill(p, next)
  PROVE  CopiesSingle'
<1>1. prune'.kept = prune.kept
  BY DEF MoveFill, NewFile, TypeOK
<1>2. QED
  BY <1>1, NoneSingle DEF TypeOK, CopiesSingle, MoveFill, NewFile

LEMMA InitSingle == Init => CopiesSingle
<1> SUFFICES ASSUME Init PROVE CopiesSingle
  OBVIOUS
<1>1. Single(lines)
  BY KeyLeaseAssumption DEF Init, Single
<1>2. QED
  BY <1>1 DEF Init, CopiesSingle, Single, NoPrune

LEMMA NextSingle == TypeOK /\ CopiesSingle /\ [Next]_vars => CopiesSingle'
<1> SUFFICES ASSUME TypeOK, CopiesSingle, [Next]_vars PROVE CopiesSingle'
  OBVIOUS
<1>1. ASSUME NEW p \in PC, Setup(p) \/ Reconnect(p) PROVE CopiesSingle'
  <2>1. CASE InstallCopy(p) \/ RelabelCopy(p)
    BY <2>1, CopySingle, RewriteSingle DEF InstallCopy, RelabelCopy, OwnLineRewritten, CopiesSingle
  <2>2. CASE InstallMove(p) \/ RelabelMove(p)
    BY <2>2, UnlinkSingle DEF InstallMove, RelabelMove
  <2>3. CASE InstallFill(p) \/ RelabelFill(p)
    BY <2>3, FillSingle DEF InstallFill, RelabelFill
  <2>4. CASE VerifyKey(p) \/ ArmBlob(p) \/ ArmLease(p) \/ ArmCron(p) \/ RelabelSeek(p) \/ RenewTest(p) \/ RenewWrite(p)
    BY <2>4 DEF VerifyKey, ArmBlob, ArmLease, ArmCron, RelabelSeek, RenewTest, RenewWrite, WriteLease, Skip, files,
                CopiesSingle
  <2>5. QED
    BY <1>1, <2>1, <2>2, <2>3, <2>4 DEF Setup, Reconnect
<1>2. ASSUME NEW p \in PC, Begin(p) PROVE CopiesSingle'
  BY <1>2 DEF Begin, InstallCheck, Connect, RevokeCheck, RevokeAllList, Skip, files, CopiesSingle
<1>3. ASSUME NEW p \in PC, Revoke(p) PROVE CopiesSingle'
  <2>1. CASE RevokeCopy(p)
    BY <2>1, CopySingle, SubsetSingle DEF RevokeCopy, CopiesSingle
  <2>2. CASE RevokeMove(p)
    BY <2>2, UnlinkSingle DEF RevokeMove
  <2>3. CASE RevokeFill(p)
    BY <2>3, FillSingle DEF RevokeFill
  <2>4. CASE RevokeAllWipe(p)
    BY <2>4, NoneSingle DEF RevokeAllWipe, CopiesSingle
  <2>5. QED
    BY <1>3, <2>1, <2>2, <2>3, <2>4 DEF Revoke
<1>4. CASE Prune
  <2>1. CASE PruneCheck
    BY <2>1 DEF PruneCheck, files, CopiesSingle, Single
  <2>2. CASE PruneCopy
    <3>1. prune'.kept = Without(prune.key, lines)
      BY <2>2 DEF PruneCopy, TypeOK
    <3>2. QED
      BY <2>2, <3>1, RewriteSingle DEF PruneCopy, files, CopiesSingle
  <2>3. CASE PruneTruncate
    <3>1. prune'.kept = prune.kept
      BY <2>3 DEF PruneTruncate, TypeOK
    <3>2. QED
      BY <2>3, <3>1 DEF PruneTruncate, CopiesSingle, Single
  <2>4. CASE PruneWrite
    <3>1. prune'.kept = prune.kept
      BY <2>4 DEF PruneWrite, TypeOK
    <3>2. QED
      BY <2>4, <3>1 DEF PruneWrite, CopiesSingle
  <2>5. CASE PruneClean
    BY <2>5 DEF PruneClean, NoPrune, CopiesSingle, Single
  <2>6. QED
    BY <1>4, <2>1, <2>2, <2>3, <2>4, <2>5 DEF Prune
<1>5. CASE Reboot
  BY <1>5 DEF Reboot, NoPrune, files, CopiesSingle, Single
<1>6. CASE (\E p \in PC : Abort(p)) \/ Tick \/ SetClock \/ UNCHANGED vars
  BY <1>6 DEF Abort, Tick, SetClock, vars, files, CopiesSingle
<1>7. QED
  BY <1>1, <1>2, <1>3, <1>4, <1>5, <1>6 DEF Next

\* authorized_keys never holds a key twice.
THEOREM NoKeyTwice == Spec => []UniqueLines
<1>1. CopiesSingle => UniqueLines
  BY DEF CopiesSingle, UniqueLines
<1>2. QED
  BY <1>1, TypeCorrect, InitSingle, NextSingle, PTL DEF Spec

-----------------------------------------------------------------------------
(* Foreign keys.  While no copy was made from, and no restart cut off, a    *)
(* file in a gap, authorized_keys is empty or it and every copy about to    *)
(* replace it hold each foreign key that is not revoked; the copy of a      *)
(* revocation may lack the key that the revocation is about.                *)

Rewriting(p) == Moving(p) \/ Filling(p)

\* What p's pending mv revokes.
Revoking(p) == IF pc[p] \in {"revokeMove", "revokeFill"} THEN {target[p].key} ELSE {}

Whole(S) == Other \ revoked \subseteq KeysOf(S)

ForeignKept ==
  torn \/
    /\ Gap \/ Whole(lines)
    /\ lines = {} \/ Whole(lines)
    /\ \A p \in PC : Rewriting(p) => Other \ (revoked \cup Revoking(p)) \subseteq KeysOf(tmp[p])
    /\ prune.at \in {"truncate", "write"} => Whole(prune.kept)

Still == PcSteps \ {"instMove", "relabelMove", "revokeMove", "instFill", "relabelFill", "revokeFill"}

\* Taking an app key's lines out, or putting one in, leaves the others' keys.
LEMMA ForeignUntouched ==
  ASSUME NEW S \in SUBSET Line, NEW k \in PC \cup {None}
  PROVE  /\ Other \cap KeysOf(S) \subseteq KeysOf(Without(k, S))
         /\ Other \cap KeysOf(S) \subseteq KeysOf(Without(k, S) \cup {AppLine(k)})
  BY KeyLeaseAssumption DEF KeysOf, Without

LEMMA InitForeign == Init => ForeignKept
<1> SUFFICES ASSUME Init PROVE ForeignKept
  OBVIOUS
<1>1. Other \subseteq KeysOf(lines)
  <2> SUFFICES ASSUME NEW o \in Other PROVE o \in KeysOf(lines)
    OBVIOUS
  <2>1. [key |-> o, label |-> "new"] \in lines
    BY DEF Init
  <2>2. QED
    BY <2>1 DEF KeysOf
<1>2. QED
  BY <1>1 DEF Init, ForeignKept, Whole, Rewriting, Moving, Filling, NoPrune

\* A step of p that leaves the other PCs' places, copies and targets alone.
Only(p, next) ==
  /\ pc'[p] = next
  /\ \A q \in PC \ {p} : pc'[q] = pc[q] /\ tmp'[q] = tmp[q] /\ target'[q] = target[q]

LEMMA OthersRewriting ==
  ASSUME NEW p \in PC, NEW next, Only(p, next)
  PROVE  \A q \in PC \ {p} : /\ Moving(q)' = Moving(q) /\ Filling(q)' = Filling(q)
                             /\ Rewriting(q)' = Rewriting(q) /\ Revoking(q)' = Revoking(q)
  BY DEF Only, Moving, Filling, Rewriting, Revoking

LEMMA OthersKept ==
  ASSUME ForeignKept, ~torn, NEW p \in PC, NEW next, Only(p, next), revoked \subseteq revoked'
  PROVE  \A q \in PC \ {p} :
           Rewriting(q)' => Other \ (revoked' \cup Revoking(q)') \subseteq KeysOf(tmp'[q])
<1> SUFFICES ASSUME NEW q \in PC \ {p}, Rewriting(q)'
             PROVE  Other \ (revoked' \cup Revoking(q)') \subseteq KeysOf(tmp'[q])
  OBVIOUS
<1>1. Rewriting(q) /\ Revoking(q)' = Revoking(q) /\ tmp'[q] = tmp[q]
  BY OthersRewriting DEF Only
<1>2. Other \ (revoked \cup Revoking(q)) \subseteq KeysOf(tmp[q])
  BY <1>1 DEF ForeignKept
<1>3. QED
  BY <1>1, <1>2

LEMMA PruneStays ==
  ASSUME TypeOK, NEW content, NewFile(content)
  PROVE  prune'.kept = prune.kept /\ prune'.at = IF prune.at = "write" THEN "clean" ELSE prune.at
  BY DEF NewFile, TypeOK

LEMMA UnlinkForeign ==
  ASSUME TypeOK, ForeignKept, NEW p \in PC, NEW next \in {"instFill", "relabelFill", "revokeFill"},
         Moving(p), MoveUnlink(p, next), Revoking(p) = IF next = "revokeFill" THEN {target[p].key} ELSE {}
  PROVE  ForeignKept'
<1> SUFFICES ASSUME ~torn' PROVE ForeignKept'
  BY DEF ForeignKept
<1>1. ~torn /\ lines' = {} /\ revoked' = revoked /\ tmp' = tmp /\ target' = target
  BY DEF MoveUnlink, NewFile
<1>2. Only(p, next)
  BY DEF Only, MoveUnlink, Goto, TypeOK
<1>3. Filling(p)' /\ Revoking(p)' = Revoking(p)
  BY <1>1, <1>2 DEF Only, Filling, Revoking
<1>4. Rewriting(p) => Other \ (revoked \cup Revoking(p)) \subseteq KeysOf(tmp[p])
  BY <1>1 DEF ForeignKept
<1>5. Other \ (revoked' \cup Revoking(p)') \subseteq KeysOf(tmp'[p])
  BY <1>1, <1>3, <1>4 DEF Rewriting
<1>6. prune'.at \in {"truncate", "write"} => Whole(prune.kept)' /\ prune'.kept = prune.kept
  BY <1>1, PruneStays DEF MoveUnlink, ForeignKept, Whole, KeysOf
<1>7. Gap'
  BY <1>3 DEF Gap
<1>8. \A q \in PC : Rewriting(q)' => Other \ (revoked' \cup Revoking(q)') \subseteq KeysOf(tmp'[q])
  BY <1>1, <1>2, <1>5, OthersKept
<1>9. QED
  BY <1>1, <1>6, <1>7, <1>8 DEF ForeignKept, Whole, KeysOf

LEMMA FillForeign ==
  ASSUME TypeOK, ForeignKept, NEW p \in PC, NEW next \in Still, Filling(p), MoveFill(p, next),
         revoked' = revoked \cup (Revoking(p) \cap Other)
  PROVE  ForeignKept'
<1> SUFFICES ASSUME ~torn' PROVE ForeignKept'
  BY DEF ForeignKept
<1>1. ~torn /\ lines' = tmp[p] /\ revoked \subseteq revoked'
  BY DEF MoveFill, NewFile
<1>2. Only(p, next)
  BY DEF Only, MoveFill, Goto, TypeOK
<1>3. Whole(lines)'
  BY <1>1 DEF ForeignKept, Rewriting, Whole, KeysOf
<1>4. ~Rewriting(p)'
  BY <1>2 DEF Only, Rewriting, Moving, Filling, Still
<1>5. prune'.at \in {"truncate", "write"} => Whole(prune.kept)'
  BY <1>1, PruneStays DEF MoveFill, ForeignKept, Whole, KeysOf
<1>6. \A q \in PC : Rewriting(q)' => Other \ (revoked' \cup Revoking(q)') \subseteq KeysOf(tmp'[q])
  BY <1>1, <1>2, <1>4, OthersKept
<1>7. QED
  BY <1>3, <1>5, <1>6 DEF ForeignKept, KeysOf

LEMMA CopyForeign ==
  ASSUME TypeOK, ForeignKept, NEW p \in PC, NEW content \in SUBSET Line,
         NEW next \in {"instMove", "relabelMove", "revokeMove"}, Copy(p, content, next), ~Rewriting(p),
         Other \cap KeysOf(lines)
           \subseteq KeysOf(content) \cup (IF next = "revokeMove" THEN {target[p].key} ELSE {})
  PROVE  ForeignKept'
<1> SUFFICES ASSUME ~torn' PROVE ForeignKept'
  BY DEF ForeignKept
<1>1. ~torn /\ ~Gap
  BY DEF Copy
<1>2. lines' = lines /\ prune' = prune /\ revoked' = revoked /\ target' = target
  BY DEF Copy, files
<1>3. Whole(lines)
  BY <1>1 DEF ForeignKept
<1>4. Only(p, next) /\ tmp'[p] = content
  BY DEF Only, Copy, Goto, TypeOK
<1>5. Revoking(p)' = IF next = "revokeMove" THEN {target[p].key} ELSE {}
  BY <1>2, <1>4 DEF Only, Revoking
<1>6. Other \ (revoked' \cup Revoking(p)') \subseteq KeysOf(tmp'[p])
  BY <1>2, <1>3, <1>4, <1>5 DEF Whole
<1>7. \A q \in PC : Rewriting(q)' => Other \ (revoked' \cup Revoking(q)') \subseteq KeysOf(tmp'[q])
  BY <1>1, <1>2, <1>4, <1>6, OthersKept
<1>8. QED
  BY <1>1, <1>2, <1>3, <1>7 DEF ForeignKept, Whole, KeysOf

\* A step that leaves files, copies and prune alone and starts no rewrite.
LEMMA OtherForeign ==
  ASSUME TypeOK, ForeignKept, UNCHANGED <<lines, tmp, prune, revoked, torn>>, NEW p \in PC,
         NEW next \in Still, Goto(p, next), ~Rewriting(p), \A q \in PC \ {p} : target'[q] = target[q]
  PROVE  ForeignKept'
<1>1. Only(p, next)
  BY DEF Only, Goto, TypeOK
<1>2. ~Rewriting(p)'
  BY <1>1 DEF Only, Rewriting, Moving, Filling, Still
<1>3. Gap => Gap'
  BY <1>1, OthersRewriting DEF Gap, Rewriting
<1>4. ASSUME ~torn
      PROVE  \A q \in PC : Rewriting(q)' => Other \ (revoked' \cup Revoking(q)') \subseteq KeysOf(tmp'[q])
  BY <1>1, <1>2, <1>4, OthersKept
<1>5. QED
  BY <1>3, <1>4 DEF ForeignKept, Whole, KeysOf

LEMMA PruneForeign == ASSUME TypeOK, ForeignKept, Prune PROVE ForeignKept'
<1>1. UNCHANGED <<pc, tmp, target, revoked, undone, torn>>
  BY DEF Prune, PruneCheck, PruneCopy, PruneTruncate, PruneWrite, PruneClean
<1>2. \A p \in PC : /\ Filling(p)' = Filling(p) /\ Rewriting(p)' = Rewriting(p)
                     /\ Revoking(p)' = Revoking(p)
  BY <1>1 DEF Moving, Filling, Rewriting, Revoking
<1> SUFFICES ASSUME ~torn' PROVE ForeignKept'
  BY DEF ForeignKept
<1>3. ~torn /\ \A p \in PC : Rewriting(p)' => Other \ (revoked' \cup Revoking(p)') \subseteq KeysOf(tmp'[p])
  BY <1>1, <1>2 DEF ForeignKept
<1>4. (\E p \in PC : Filling(p)) => Gap'
  BY <1>2 DEF Gap
<1>5. CASE PruneCheck
  BY <1>1, <1>3, <1>4, <1>5 DEF PruneCheck, files, ForeignKept, Gap, Whole, KeysOf
<1>6. CASE PruneCopy
  <2>1. prune'.kept = Without(prune.key, lines) /\ prune'.at \in {"clean", "truncate"}
    BY <1>6 DEF PruneCopy, TypeOK
  <2>2. Other \cap KeysOf(lines) \subseteq KeysOf(Without(prune.key, lines))
    BY ForeignUntouched DEF TypeOK
  <2>3. prune'.at = "truncate" => lines # {}
    BY <1>6 DEF PruneCopy, TypeOK, Without
  <2>4. prune'.at = "truncate" => Whole(prune.kept)'
    BY <1>1, <1>3, <2>1, <2>2, <2>3 DEF ForeignKept, Whole, KeysOf
  <2>5. lines' = lines /\ prune.at # "write"
    BY <1>6 DEF PruneCopy, files
  <2>6. QED
    BY <1>1, <1>3, <1>4, <2>1, <2>4, <2>5 DEF ForeignKept, Gap, Whole, KeysOf
<1>7. CASE PruneTruncate
  <2>1. prune'.kept = prune.kept /\ prune'.at = "write" /\ lines' = {}
    BY <1>7 DEF PruneTruncate, TypeOK
  <2>2. QED
    BY <1>1, <1>3, <1>7, <2>1 DEF PruneTruncate, ForeignKept, Gap, Whole, KeysOf
<1>8. CASE PruneWrite
  <2>1. prune'.kept = prune.kept /\ prune'.at = "clean" /\ lines' = prune.kept
    BY <1>8 DEF PruneWrite, TypeOK
  <2>2. QED
    BY <1>1, <1>3, <1>8, <2>1 DEF PruneWrite, ForeignKept, Whole, KeysOf
<1>9. CASE PruneClean
  BY <1>1, <1>3, <1>4, <1>9 DEF PruneClean, NoPrune, ForeignKept, Gap, Whole, KeysOf
<1>10. QED
  BY <1>5, <1>6, <1>7, <1>8, <1>9 DEF Prune

LEMMA NextForeign == TypeOK /\ ForeignKept /\ [Next]_vars => ForeignKept'
<1> SUFFICES ASSUME TypeOK, ForeignKept, [Next]_vars PROVE ForeignKept'
  OBVIOUS
<1>1. ASSUME NEW p \in PC, Setup(p) \/ Reconnect(p) PROVE ForeignKept'
  <2>1. CASE InstallCopy(p) \/ RelabelCopy(p)
    <3>1. Other \cap KeysOf(lines) \subseteq KeysOf(OwnLineRewritten(p))
      BY ForeignUntouched DEF TypeOK, OwnLineRewritten
    <3>2. ~Rewriting(p)
      BY <2>1 DEF InstallCopy, RelabelCopy, Rewriting, Moving, Filling
    <3>3. QED
      BY <2>1, <3>1, <3>2, CopyForeign, OwnLineType DEF InstallCopy, RelabelCopy
  <2>2. CASE InstallMove(p) \/ RelabelMove(p)
    <3>1. Moving(p) /\ Revoking(p) = {}
      BY <2>2 DEF InstallMove, RelabelMove, Moving, Revoking
    <3>2. QED
      BY <2>2, <3>1, UnlinkForeign DEF InstallMove, RelabelMove
  <2>3. CASE InstallFill(p) \/ RelabelFill(p)
    <3>1. Filling(p) /\ Revoking(p) = {} /\ revoked' = revoked
      BY <2>3 DEF InstallFill, RelabelFill, Filling, Revoking
    <3>2. QED
      BY <2>3, <3>1, FillForeign DEF InstallFill, RelabelFill, Still, PcSteps
  <2>4. CASE VerifyKey(p) \/ RelabelSeek(p) \/ RenewTest(p)
    <3>1. PICK next \in Still : Skip(p, next)
      BY <2>4 DEF VerifyKey, RelabelSeek, RenewTest, Still, PcSteps
    <3>2. ~Rewriting(p)
      BY <2>4 DEF VerifyKey, RelabelSeek, RenewTest, Rewriting, Moving, Filling
    <3>3. QED
      BY <3>1, <3>2, OtherForeign DEF Skip, files
  <2>5. CASE ArmBlob(p) \/ ArmLease(p) \/ ArmCron(p) \/ RenewWrite(p)
    <3>1. PICK next \in Still : Goto(p, next)
      BY <2>5 DEF ArmBlob, ArmLease, ArmCron, RenewWrite, Still, PcSteps
    <3>2. UNCHANGED <<lines, tmp, target, prune, revoked, torn>>
      BY <2>5 DEF ArmBlob, ArmLease, ArmCron, RenewWrite, WriteLease
    <3>3. ~Rewriting(p)
      BY <2>5 DEF ArmBlob, ArmLease, ArmCron, RenewWrite, Rewriting, Moving, Filling
    <3>4. QED
      BY <3>1, <3>2, <3>3, OtherForeign
  <2>6. QED
    BY <1>1, <2>1, <2>2, <2>3, <2>4, <2>5 DEF Setup, Reconnect
<1>2. ASSUME NEW p \in PC, Begin(p) PROVE ForeignKept'
  <2>1. ~Rewriting(p)
    BY <1>2 DEF Begin, InstallCheck, Connect, RevokeCheck, RevokeAllList, Rewriting, Moving, Filling
  <2>2. PICK next \in Still : Goto(p, next)
    BY <1>2 DEF Begin, InstallCheck, Connect, RevokeCheck, RevokeAllList, Skip, Still, PcSteps
  <2>3. UNCHANGED <<lines, tmp, prune, revoked, torn>> /\ \A q \in PC \ {p} : target'[q] = target[q]
    BY <1>2 DEF Begin, InstallCheck, Connect, RevokeCheck, RevokeAllList, Skip, files, TypeOK
  <2>4. QED
    BY <2>1, <2>2, <2>3, OtherForeign
<1>3. ASSUME NEW p \in PC, Revoke(p) PROVE ForeignKept'
  <2>1. CASE RevokeCopy(p)
    <3>1. Other \cap KeysOf(lines) \subseteq KeysOf(lines \ {target[p]}) \cup {target[p].key}
      BY DEF KeysOf
    <3>2. lines \ {target[p]} \in SUBSET Line
      BY DEF TypeOK
    <3>3. ~Rewriting(p)
      BY <2>1 DEF RevokeCopy, Rewriting, Moving, Filling
    <3>4. QED
      BY <2>1, <3>1, <3>2, <3>3, CopyForeign DEF RevokeCopy
  <2>2. CASE RevokeMove(p)
    <3>1. Moving(p) /\ Revoking(p) = {target[p].key}
      BY <2>2 DEF RevokeMove, Moving, Revoking
    <3>2. QED
      BY <2>2, <3>1, UnlinkForeign DEF RevokeMove
  <2>3. CASE RevokeFill(p)
    <3>1. Filling(p) /\ Revoking(p) = {target[p].key}
      BY <2>3 DEF RevokeFill, Filling, Revoking
    <3>2. revoked' = revoked \cup (Revoking(p) \cap Other)
      BY <2>3, <3>1 DEF RevokeFill, Revoked
    <3>3. QED
      BY <2>3, <3>1, <3>2, FillForeign DEF RevokeFill, Still, PcSteps
  <2>4. CASE RevokeAllWipe(p)
    <3>1. Other \ revoked' = {} /\ lines' = {}
      BY <2>4 DEF RevokeAllWipe, Revoked
    <3>2. QED
      BY <3>1 DEF ForeignKept, Whole
  <2>5. QED
    BY <1>3, <2>1, <2>2, <2>3, <2>4 DEF Revoke
<1>4. ASSUME NEW p \in PC, Abort(p) PROVE ForeignKept'
  <2>1. \A q \in PC \ {p} : target'[q] = target[q]
    BY <1>4 DEF Abort, TypeOK
  <2>2. ~Rewriting(p)
    BY <1>4 DEF Abort, Rewriting, Moving, Filling
  <2>3. QED
    BY <1>4, <2>1, <2>2, OtherForeign DEF Abort, files, Still, PcSteps
<1>5. CASE Reboot
  BY <1>5 DEF Reboot, NoPrune, files, ForeignKept, Rewriting, Moving, Filling, Whole, KeysOf
<1>6. CASE Tick \/ SetClock \/ UNCHANGED vars
  BY <1>6 DEF Tick, SetClock, vars, files, ForeignKept, Gap, Rewriting, Moving, Filling, Revoking, Whole, KeysOf
<1>7. QED
  BY <1>1, <1>2, <1>3, <1>4, <1>5, <1>6, PruneForeign DEF Next


-----------------------------------------------------------------------------
(* Revoked keys.  A key that was revoked while no rewrite under way held it *)
(* is in no file and in no copy that may become one.  Foreign keys have one *)
(* label only, so what a revocation takes out is every line of the key.     *)

Clear(S) == KeysOf(S) \cap (revoked \ undone) = {}
Plain(S) == \A l \in S : l.key \in Other => l.label = "new"

AtRevoking(p) == pc[p] \in {"revokeCopy", "revokeMove", "revokeFill"}

LabelsPlain ==
  /\ Plain(lines) /\ Plain(prune.kept)
  /\ \A p \in PC : Plain(tmp[p])
  /\ \A p \in PC : AtRevoking(p) => target[p] \in Line /\ Plain({target[p]})

RevokedGone ==
  /\ Clear(lines)
  /\ \A p \in PC : Rewriting(p) => Clear(tmp[p]) /\ Other \cap Revoking(p) \cap KeysOf(tmp[p]) = {}
  /\ prune.at \in {"truncate", "write"} => Clear(prune.kept)

LEMMA InitGone == Init => LabelsPlain /\ RevokedGone
<1> SUFFICES ASSUME Init PROVE LabelsPlain /\ RevokedGone
  OBVIOUS
<1>1. Plain(lines)
  BY KeyLeaseAssumption DEF Init, Plain
<1>2. LabelsPlain
  BY <1>1 DEF Init, LabelsPlain, Plain, NoPrune, AtRevoking
<1>3. RevokedGone
  BY DEF Init, RevokedGone, Clear, KeysOf, Rewriting, Moving, Filling, NoPrune
<1>4. QED
  BY <1>2, <1>3

LEMMA OwnLinePlain ==
  ASSUME NEW S, Plain(S), NEW k
  PROVE  Plain(Without(k, S)) /\ Plain(Without(k, S) \cup {AppLine(k)})
  BY DEF Plain, Without, AppLine

\* The labels of the foreign lines, step by step.
LEMMA NextPlain == TypeOK /\ LabelsPlain /\ [Next]_vars => LabelsPlain'
<1> SUFFICES ASSUME TypeOK, LabelsPlain, [Next]_vars PROVE LabelsPlain'
  OBVIOUS
<1>1. ASSUME NEW p \in PC, NEW content, Plain(content), NEW next \in {"instMove", "relabelMove", "revokeMove"},
             Copy(p, content, next), next = "revokeMove" => pc[p] = "revokeCopy"
      PROVE  LabelsPlain'
  <2>1. UNCHANGED <<lines, prune, target>> /\ \A q \in PC : tmp'[q] \in {tmp[q], content}
    BY <1>1 DEF Copy, files, TypeOK
  <2>2. \A q \in PC : AtRevoking(q)' => AtRevoking(q)
    BY <1>1 DEF Copy, Goto, TypeOK, AtRevoking
  <2>3. QED
    BY <1>1, <2>1, <2>2 DEF LabelsPlain, Plain
<1>2. ASSUME NEW p \in PC, NEW next, MoveUnlink(p, next), next = "revokeFill" => pc[p] = "revokeMove",
             next \notin {"revokeCopy", "revokeMove"}
      PROVE  LabelsPlain'
  <2>1. prune'.kept = prune.kept /\ lines' = {} /\ tmp' = tmp /\ target' = target
    BY <1>2, PruneStays DEF MoveUnlink, NewFile
  <2>2. \A q \in PC : AtRevoking(q)' => AtRevoking(q)
    BY <1>2 DEF MoveUnlink, Goto, TypeOK, AtRevoking
  <2>3. QED
    BY <2>1, <2>2 DEF LabelsPlain, Plain
<1>3. ASSUME NEW p \in PC, NEW next \in {"idle", "verify", "renewTest"}, MoveFill(p, next) PROVE LabelsPlain'
  <2>1. prune'.kept = prune.kept /\ lines' = tmp[p]
    BY <1>3, PruneStays DEF MoveFill, NewFile
  <2>2. \A q \in PC : tmp'[q] \in {tmp[q], {}}
    BY <1>3 DEF MoveFill, TypeOK
  <2>3. \A q \in PC : AtRevoking(q)' => AtRevoking(q) /\ target'[q] = target[q]
    BY <1>3 DEF MoveFill, Goto, TypeOK, AtRevoking
  <2>4. QED
    BY <2>1, <2>2, <2>3 DEF LabelsPlain, Plain
<1>4. ASSUME NEW p \in PC, NEW next \in PcSteps \ {"revokeCopy", "revokeMove", "revokeFill"}, Goto(p, next),
             UNCHANGED <<tmp, prune>>, lines' \in {lines, {}}, \A q \in PC \ {p} : target'[q] = target[q]
      PROVE  LabelsPlain'
  <2>1. \A q \in PC : AtRevoking(q)' => AtRevoking(q) /\ target'[q] = target[q]
    BY <1>4 DEF Goto, TypeOK, AtRevoking
  <2>2. QED
    BY <1>4, <2>1 DEF LabelsPlain, Plain
<1>5. ASSUME NEW p \in PC, Setup(p) \/ Reconnect(p) PROVE LabelsPlain'
  <2>1. CASE InstallCopy(p) \/ RelabelCopy(p)
    BY <2>1, <1>1, OwnLinePlain DEF InstallCopy, RelabelCopy, OwnLineRewritten, LabelsPlain
  <2>2. CASE InstallMove(p) \/ RelabelMove(p)
    BY <2>2, <1>2 DEF InstallMove, RelabelMove
  <2>3. CASE InstallFill(p) \/ RelabelFill(p)
    BY <2>3, <1>3 DEF InstallFill, RelabelFill
  <2>4. CASE VerifyKey(p) \/ RelabelSeek(p) \/ RenewTest(p)
    BY <2>4, <1>4 DEF VerifyKey, RelabelSeek, RenewTest, Skip, files, PcSteps
  <2>5. CASE ArmBlob(p) \/ ArmLease(p) \/ ArmCron(p) \/ RenewWrite(p)
    BY <2>5, <1>4 DEF ArmBlob, ArmLease, ArmCron, RenewWrite, WriteLease, PcSteps
  <2>6. QED
    BY <1>5, <2>1, <2>2, <2>3, <2>4, <2>5 DEF Setup, Reconnect
<1>6. ASSUME NEW p \in PC, Begin(p) PROVE LabelsPlain'
  <2>1. CASE InstallCheck(p) \/ Connect(p) \/ RevokeAllList(p)
    BY <2>1, <1>4 DEF InstallCheck, Connect, RevokeAllList, Skip, files, PcSteps
  <2>2. ASSUME NEW l \in Line, RevokeCheck(p, l) PROVE LabelsPlain'
    <3>1. Plain({l}) /\ target'[p] = l /\ \A q \in PC \ {p} : target'[q] = target[q] /\ pc'[q] = pc[q]
      BY <2>2 DEF RevokeCheck, LabelsPlain, Plain, Goto, TypeOK
    <3>2. QED
      BY <2>2, <3>1 DEF RevokeCheck, files, LabelsPlain, AtRevoking
  <2>3. QED
    BY <1>6, <2>1, <2>2 DEF Begin
<1>7. ASSUME NEW p \in PC, Revoke(p) PROVE LabelsPlain'
  <2>1. CASE RevokeCopy(p)
    <3>1. Plain(lines \ {target[p]})
      BY DEF LabelsPlain, Plain
    <3>2. QED
      BY <2>1, <3>1, <1>1 DEF RevokeCopy
  <2>2. CASE RevokeMove(p)
    BY <2>2, <1>2 DEF RevokeMove
  <2>3. CASE RevokeFill(p)
    BY <2>3, <1>3 DEF RevokeFill
  <2>4. CASE RevokeAllWipe(p)
    BY <2>4, <1>4 DEF RevokeAllWipe, PcSteps
  <2>5. QED
    BY <1>7, <2>1, <2>2, <2>3, <2>4 DEF Revoke
<1>8. ASSUME NEW p \in PC, Abort(p) PROVE LabelsPlain'
  BY <1>8, <1>4 DEF Abort, files, TypeOK, PcSteps
<1>9. CASE Prune
  <2>1. UNCHANGED <<pc, tmp, target>>
    BY <1>9 DEF Prune, PruneCheck, PruneCopy, PruneTruncate, PruneWrite, PruneClean
  <2>2. lines' \in {lines, {}, prune.kept} /\ prune'.kept \in {{}, prune.kept, Without(prune.key, lines)}
    <3>1. CASE PruneCheck \/ PruneClean
      BY <3>1 DEF PruneCheck, PruneClean, NoPrune, files
    <3>2. CASE PruneCopy
      BY <3>2 DEF PruneCopy, files, TypeOK
    <3>3. CASE PruneTruncate \/ PruneWrite
      BY <3>3 DEF PruneTruncate, PruneWrite, TypeOK
    <3>4. QED
      BY <1>9, <3>1, <3>2, <3>3 DEF Prune
  <2>3. QED
    BY <2>1, <2>2, OwnLinePlain DEF LabelsPlain, Plain, AtRevoking
<1>10. CASE Reboot
  BY <1>10 DEF Reboot, NoPrune, files, LabelsPlain, Plain, AtRevoking
<1>11. CASE Tick \/ SetClock \/ UNCHANGED vars
  BY <1>11 DEF Tick, SetClock, vars, files, LabelsPlain, AtRevoking
<1>12. QED
  BY <1>5, <1>6, <1>7, <1>8, <1>9, <1>10, <1>11 DEF Next

LEMMA ClearParts ==
  ASSUME NEW S, NEW T, NEW k, Clear(S), revoked \in SUBSET Other, k \in PC \cup {None}
  PROVE  Clear(S \ T) /\ Clear(Without(k, S)) /\ Clear(Without(k, S) \cup {AppLine(k)})
  BY KeyLeaseAssumption DEF Clear, KeysOf, Without, AppLine

\* A rewrite of another PC that goes on through a step of p keeps its copy clear of what p revokes.
LEMMA OthersGone ==
  ASSUME RevokedGone, NEW p \in PC, NEW next, Only(p, next), NEW gone \in SUBSET Other, Revoked(p, gone)
  PROVE  /\ \A q \in PC \ {p} : Rewriting(q)' =>
              Clear(tmp[q])' /\ Other \cap Revoking(q)' \cap KeysOf(tmp'[q]) = {}
         /\ prune.at \in {"truncate", "write"} =>
              KeysOf(prune.kept) \cap (revoked' \ undone') = {}
<1>1. ASSUME NEW q \in PC \ {p}, Rewriting(q)'
      PROVE  Clear(tmp[q])' /\ Other \cap Revoking(q)' \cap KeysOf(tmp'[q]) = {}
  <2>1. Rewriting(q) /\ Revoking(q)' = Revoking(q) /\ tmp'[q] = tmp[q]
    BY <1>1, OthersRewriting DEF Only
  <2>2. \A k \in KeysOf(tmp[q]) : Held(p, k)
    BY <2>1 DEF Held, Rewriting
  <2>3. Clear(tmp[q]) /\ Other \cap Revoking(q) \cap KeysOf(tmp[q]) = {}
    BY <2>1 DEF RevokedGone
  <2>4. KeysOf(tmp'[q]) \cap (revoked' \ undone') = {}
    BY <2>1, <2>2, <2>3 DEF Revoked, Clear
  <2>5. QED
    BY <2>1, <2>3, <2>4 DEF Clear, KeysOf
<1>2. ASSUME prune.at \in {"truncate", "write"}
      PROVE  KeysOf(prune.kept) \cap (revoked' \ undone') = {}
  <2>1. \A k \in KeysOf(prune.kept) : Held(p, k)
    BY <1>2 DEF Held
  <2>2. Clear(prune.kept)
    BY <1>2 DEF RevokedGone
  <2>3. QED
    BY <2>1, <2>2 DEF Revoked, Clear
<1>3. QED
  BY <1>1, <1>2

\* The same for a step that revokes nothing.
LEMMA OthersGoneStill ==
  ASSUME RevokedGone, NEW p \in PC, NEW next, Only(p, next), UNCHANGED <<revoked, undone>>
  PROVE  \A q \in PC \ {p} : Rewriting(q)' =>
           Clear(tmp[q])' /\ Other \cap Revoking(q)' \cap KeysOf(tmp'[q]) = {}
<1> SUFFICES ASSUME NEW q \in PC \ {p}, Rewriting(q)'
             PROVE  Clear(tmp[q])' /\ Other \cap Revoking(q)' \cap KeysOf(tmp'[q]) = {}
  OBVIOUS
<1>1. Rewriting(q) /\ Revoking(q)' = Revoking(q) /\ tmp'[q] = tmp[q]
  BY OthersRewriting DEF Only
<1>2. QED
  BY <1>1 DEF RevokedGone, Clear, KeysOf

LEMMA CopyGone ==
  ASSUME TypeOK, RevokedGone, NEW p \in PC, NEW content, Clear(content), NEW next, Copy(p, content, next),
         next = "revokeMove" => Other \cap {target[p].key} \cap KeysOf(content) = {}, next # "revokeFill"
  PROVE  RevokedGone'
<1>1. UNCHANGED <<lines, prune, target, revoked, undone>> /\ tmp'[p] = content
  BY DEF Copy, files, TypeOK
<1>2. Only(p, next)
  BY DEF Only, Copy, Goto, TypeOK
<1>3. Clear(tmp[p])' /\ Other \cap Revoking(p)' \cap KeysOf(tmp'[p]) = {}
  BY <1>1, <1>2 DEF Only, Revoking, Clear, KeysOf
<1>4. QED
  BY <1>1, <1>2, <1>3, OthersGoneStill DEF RevokedGone, Clear, KeysOf

LEMMA UnlinkGone ==
  ASSUME TypeOK, RevokedGone, NEW p \in PC, NEW next, MoveUnlink(p, next), Moving(p),
         next = "revokeFill" <=> pc[p] = "revokeMove", next # "revokeMove"
  PROVE  RevokedGone'
<1>1. UNCHANGED <<tmp, target, revoked, undone>> /\ lines' = {}
  BY DEF MoveUnlink, NewFile
<1>2. Only(p, next)
  BY <1>1 DEF Only, MoveUnlink, Goto, TypeOK
<1>3. prune'.at \in {"truncate", "write"} => Clear(prune.kept)'
  BY <1>1, PruneStays DEF MoveUnlink, RevokedGone, Clear, KeysOf
<1>4. Clear(tmp[p])' /\ Other \cap Revoking(p)' \cap KeysOf(tmp'[p]) = {}
  <2>1. Revoking(p)' = Revoking(p)
    BY <1>1, <1>2 DEF Only, Revoking, Moving
  <2>2. QED
    BY <1>1, <2>1 DEF RevokedGone, Rewriting, Clear, KeysOf
<1>5. Clear(lines)'
  BY <1>1 DEF Clear, KeysOf
<1>6. QED
  BY <1>2, <1>1, <1>3, <1>4, <1>5, OthersGoneStill DEF RevokedGone

LEMMA FillGone ==
  ASSUME TypeOK, RevokedGone, NEW p \in PC, NEW next \in Still, MoveFill(p, next), Filling(p),
         Revoked(p, Revoking(p) \cap Other)
  PROVE  RevokedGone'
<1>1. Only(p, next) /\ ~Rewriting(p)'
  BY DEF Only, MoveFill, Goto, TypeOK, Rewriting, Moving, Filling, Still
<1>2. Clear(tmp[p]) /\ Other \cap Revoking(p) \cap KeysOf(tmp[p]) = {}
  BY DEF RevokedGone, Rewriting
<1>3. Clear(lines)'
  <2>1. lines' = tmp[p]
    BY DEF MoveFill, NewFile
  <2>2. KeysOf(tmp[p]) \cap (revoked' \ undone') = {}
    BY <1>2 DEF Revoked, Clear
  <2>3. QED
    BY <2>1, <2>2 DEF Clear, KeysOf
<1>4. prune'.at \in {"truncate", "write"} => Clear(prune.kept)'
  <2>1. prune'.at \in {"truncate", "write"} => prune.at = prune'.at /\ prune'.kept = prune.kept
    BY PruneStays DEF MoveFill
  <2>2. QED
    BY <1>1, <2>1, OthersGone DEF Clear, KeysOf
<1>5. QED
  BY <1>1, <1>3, <1>4, OthersGone DEF RevokedGone

\* A step that starts no rewrite and revokes nothing.
LEMMA OtherGone ==
  ASSUME TypeOK, RevokedGone, UNCHANGED <<lines, tmp, prune, revoked, undone>>, NEW p \in PC,
         NEW next \in Still, Goto(p, next), \A q \in PC \ {p} : target'[q] = target[q]
  PROVE  RevokedGone'
<1>1. Only(p, next) /\ ~Rewriting(p)'
  BY DEF Only, Goto, TypeOK, Rewriting, Moving, Filling, Still
<1>2. QED
  BY <1>1, OthersGoneStill DEF RevokedGone, Clear, KeysOf

LEMMA PruneGone == ASSUME TypeOK, RevokedGone, Prune PROVE RevokedGone'
<1>1. UNCHANGED <<pc, tmp, target, revoked, undone>>
  BY DEF Prune, PruneCheck, PruneCopy, PruneTruncate, PruneWrite, PruneClean
<1>2. \A p \in PC : Rewriting(p)' =>
        Clear(tmp[p])' /\ Other \cap Revoking(p)' \cap KeysOf(tmp'[p]) = {}
  BY <1>1 DEF RevokedGone, Rewriting, Moving, Filling, Revoking, Clear, KeysOf
<1>3. CASE PruneCheck
  BY <1>1, <1>2, <1>3 DEF PruneCheck, files, RevokedGone, Clear, KeysOf
<1>4. CASE PruneCopy
  <2>1. prune'.kept = Without(prune.key, lines) /\ lines' = lines
    BY <1>4 DEF PruneCopy, TypeOK, files
  <2>2. Clear(Without(prune.key, lines))
    BY ClearParts DEF RevokedGone, TypeOK
  <2>3. QED
    BY <1>1, <1>2, <2>1, <2>2 DEF RevokedGone, Clear, KeysOf
<1>5. CASE PruneTruncate
  <2>1. prune'.kept = prune.kept /\ lines' = {} /\ prune.at = "truncate"
    BY <1>5 DEF PruneTruncate, TypeOK
  <2>2. QED
    BY <1>1, <1>2, <2>1 DEF RevokedGone, Clear, KeysOf
<1>6. CASE PruneWrite
  <2>1. prune'.at = "clean" /\ lines' = prune.kept /\ prune.at = "write"
    BY <1>6 DEF PruneWrite, TypeOK
  <2>2. QED
    BY <1>1, <1>2, <2>1 DEF RevokedGone, Clear, KeysOf
<1>7. CASE PruneClean
  BY <1>1, <1>2, <1>7 DEF PruneClean, NoPrune, RevokedGone, Clear, KeysOf
<1>8. QED
  BY <1>3, <1>4, <1>5, <1>6, <1>7 DEF Prune

LEMMA NextGone == TypeOK /\ LabelsPlain /\ RevokedGone /\ [Next]_vars => RevokedGone'
<1> SUFFICES ASSUME TypeOK, LabelsPlain, RevokedGone, [Next]_vars PROVE RevokedGone'
  OBVIOUS
<1>1. ASSUME NEW p \in PC, Setup(p) \/ Reconnect(p) PROVE RevokedGone'
  <2>1. CASE InstallCopy(p) \/ RelabelCopy(p)
    <3>1. Clear(OwnLineRewritten(p))
      BY ClearParts DEF OwnLineRewritten, RevokedGone, TypeOK
    <3>2. QED
      BY <2>1, <3>1, CopyGone DEF InstallCopy, RelabelCopy
  <2>2. CASE InstallMove(p) \/ RelabelMove(p)
    BY <2>2, UnlinkGone DEF InstallMove, RelabelMove, Moving
  <2>3. CASE InstallFill(p) \/ RelabelFill(p)
    <3>1. Revoked(p, Revoking(p) \cap Other) /\ Filling(p)
      BY <2>3 DEF InstallFill, RelabelFill, Revoked, Revoking, Filling
    <3>2. QED
      BY <2>3, <3>1, FillGone DEF InstallFill, RelabelFill, Still, PcSteps
  <2>4. CASE VerifyKey(p) \/ RelabelSeek(p) \/ RenewTest(p)
    BY <2>4, OtherGone DEF VerifyKey, RelabelSeek, RenewTest, Skip, files, Still, PcSteps
  <2>5. CASE ArmBlob(p) \/ ArmLease(p) \/ ArmCron(p) \/ RenewWrite(p)
    BY <2>5, OtherGone DEF ArmBlob, ArmLease, ArmCron, RenewWrite, WriteLease, Still, PcSteps
  <2>6. QED
    BY <1>1, <2>1, <2>2, <2>3, <2>4, <2>5 DEF Setup, Reconnect
<1>2. ASSUME NEW p \in PC, Begin(p) PROVE RevokedGone'
  <2>1. PICK next \in Still : Goto(p, next)
    BY <1>2 DEF Begin, InstallCheck, Connect, RevokeCheck, RevokeAllList, Skip, Still, PcSteps
  <2>2. UNCHANGED <<lines, tmp, prune, revoked, undone>> /\ \A q \in PC \ {p} : target'[q] = target[q]
    BY <1>2 DEF Begin, InstallCheck, Connect, RevokeCheck, RevokeAllList, Skip, files, TypeOK
  <2>3. QED
    BY <2>1, <2>2, OtherGone
<1>3. ASSUME NEW p \in PC, Revoke(p) PROVE RevokedGone'
  <2>1. CASE RevokeCopy(p)
    <3>1. Clear(lines \ {target[p]})
      BY ClearParts DEF RevokedGone, TypeOK
    <3>2. Other \cap {target[p].key} \cap KeysOf(lines \ {target[p]}) = {}
      <4> SUFFICES ASSUME NEW l \in lines \ {target[p]}, l.key = target[p].key, l.key \in Other PROVE FALSE
        BY DEF KeysOf
      <4>1. target[p] \in Line /\ target[p].label = "new" /\ l \in Line /\ l.label = "new"
        BY <2>1 DEF RevokeCopy, LabelsPlain, Plain, AtRevoking, TypeOK
      <4>2. QED
        BY <4>1 DEF Line
    <3>3. QED
      BY <2>1, <3>1, <3>2, CopyGone DEF RevokeCopy
  <2>2. CASE RevokeMove(p)
    BY <2>2, UnlinkGone DEF RevokeMove, Moving
  <2>3. CASE RevokeFill(p)
    <3>1. Revoked(p, Revoking(p) \cap Other) /\ Filling(p)
      BY <2>3 DEF RevokeFill, Revoking, Filling
    <3>2. QED
      BY <2>3, <3>1, FillGone DEF RevokeFill, Still, PcSteps
  <2>4. CASE RevokeAllWipe(p)
    <3>1. Only(p, "idle") /\ ~Rewriting(p)'
      BY <2>4 DEF RevokeAllWipe, Only, Goto, TypeOK, Rewriting, Moving, Filling
    <3>2. lines' = {} /\ prune' = prune /\ Revoked(p, Other)
      BY <2>4 DEF RevokeAllWipe
    <3>3. QED
      BY <3>1, <3>2, OthersGone DEF RevokedGone, Clear, KeysOf
  <2>5. QED
    BY <1>3, <2>1, <2>2, <2>3, <2>4 DEF Revoke
<1>4. ASSUME NEW p \in PC, Abort(p) PROVE RevokedGone'
  BY <1>4, OtherGone DEF Abort, files, TypeOK, Still, PcSteps
<1>5. CASE Reboot
  BY <1>5 DEF Reboot, NoPrune, files, RevokedGone, Rewriting, Moving, Filling, Clear, KeysOf
<1>6. CASE Tick \/ SetClock \/ UNCHANGED vars
  BY <1>6 DEF Tick, SetClock, vars, files, RevokedGone, Rewriting, Moving, Filling, Revoking, Clear, KeysOf
<1>7. QED
  BY <1>1, <1>2, <1>3, <1>4, <1>5, <1>6, PruneGone DEF Next

\* Neither the app nor the pruner loses somebody else's key or brings a revoked one back, but in the
\* ways the property names.
THEOREM ForeignKeysSafe == Spec => []ForeignKeysKept
<1>1. ForeignKept /\ RevokedGone => ForeignKeysKept
  BY DEF ForeignKept, RevokedGone, ForeignKeysKept, Whole, Clear
<1>2. QED
  BY <1>1, TypeCorrect, InitForeign, NextForeign, InitGone, NextPlain, NextGone, PTL DEF Spec

-----------------------------------------------------------------------------
(* The lease window, however late the router's clock is set.                *)

\* The lease is at most Drift days short of LeaseLen days after any PC's last use.
LeaseCovers ==
  \A p \in PC : lastUse[p] # None =>
    /\ lastUse[p] <= today
    /\ lease # None => lease >= lastUse[p] + LeaseLen - Drift

LEMMA NowBehind == TypeOK => Now <= today /\ Now >= today - Drift /\ Now \in Int
  BY KeyLeaseAssumption DEF TypeOK, Now

LEMMA InitCovers == Init => LeaseCovers
  BY DEF Init, LeaseCovers

LEMMA WriteCovers ==
  ASSUME TypeOK, LeaseCovers, NEW p \in PC, WriteLease(p)
  PROVE  LeaseCovers'
<1> SUFFICES ASSUME NEW q \in PC, lastUse'[q] # None
             PROVE  lastUse'[q] <= today' /\ (lease' # None => lease' >= lastUse'[q] + LeaseLen - Drift)
  BY DEF LeaseCovers
<1>1. lease' = Now + LeaseLen /\ today' = today /\ lastUse'[q] \in {lastUse[q], today}
  BY DEF WriteLease, TypeOK
<1>2. lastUse'[q] \in Int /\ lastUse'[q] <= today
  BY <1>1, KeyLeaseAssumption DEF TypeOK, LeaseCovers
<1>3. QED
  BY <1>1, <1>2, NowBehind, KeyLeaseAssumption DEF TypeOK

LEMMA NextCovers == TypeOK /\ LeaseCovers /\ [Next]_vars => LeaseCovers'
<1> SUFFICES ASSUME TypeOK, LeaseCovers, [Next]_vars PROVE LeaseCovers'
  OBVIOUS
<1>1. ASSUME NEW p \in PC, ArmLease(p) \/ RenewWrite(p) PROVE LeaseCovers'
  BY <1>1, WriteCovers DEF ArmLease, RenewWrite
<1>2. ASSUME NEW p \in PC, Begin(p) \/ Revoke(p) \/ Abort(p) PROVE LeaseCovers'
  BY <1>2 DEF Begin, InstallCheck, Connect, RevokeCheck, RevokeAllList, Revoke, RevokeCopy, RevokeMove,
              RevokeFill, RevokeAllWipe, Abort, Skip, Copy, MoveUnlink, MoveFill, files, LeaseCovers
<1>3. ASSUME NEW p \in PC, Setup(p) \/ Reconnect(p), ~ArmLease(p), ~RenewWrite(p) PROVE LeaseCovers'
  BY <1>3 DEF Setup, Reconnect, InstallCopy, InstallMove, InstallFill, VerifyKey, ArmBlob, ArmCron,
              RelabelSeek, RelabelCopy, RelabelMove, RelabelFill, RenewTest, Skip, Copy, MoveUnlink,
              MoveFill, files, LeaseCovers
<1>4. CASE Prune
  BY <1>4 DEF Prune, PruneCheck, PruneCopy, PruneTruncate, PruneWrite, PruneClean, files, LeaseCovers
<1>5. CASE Tick
  <2>1. today' = today + 1 /\ UNCHANGED <<lease, lastUse>> /\ today \in Int
    BY <1>5, KeyLeaseAssumption DEF Tick, files, TypeOK
  <2>2. \A p \in PC : lastUse[p] # None => lastUse[p] \in Int
    BY DEF TypeOK
  <2>3. QED
    BY <2>1, <2>2 DEF LeaseCovers
<1>6. CASE SetClock \/ Reboot \/ UNCHANGED vars
  BY <1>6 DEF SetClock, Reboot, vars, files, LeaseCovers
<1>7. QED
  BY <1>1, <1>2, <1>3, <1>4, <1>5, <1>6 DEF Next

\* Only the nightly check starts the script.
LEMMA OnlyCheckStarts ==
  ASSUME TypeOK, [Next]_vars, prune.at = "idle", prune'.at # "idle"
  PROVE  PruneCheck
<1>1. ASSUME NEW content, NewFile(content) PROVE FALSE
  BY <1>1 DEF NewFile, TypeOK
<1>2. ASSUME NEW p \in PC, Begin(p) \/ Setup(p) \/ Reconnect(p) \/ Revoke(p) \/ Abort(p) PROVE FALSE
  <2>1. prune' = prune \/ \E content : NewFile(content)
    BY <1>2 DEF Begin, InstallCheck, Connect, RevokeCheck, RevokeAllList, Setup, Reconnect, InstallCopy,
                InstallMove, InstallFill, VerifyKey, ArmBlob, ArmLease, ArmCron, RelabelSeek, RelabelCopy,
                RelabelMove, RelabelFill, RenewTest, RenewWrite, WriteLease, Revoke, RevokeCopy, RevokeMove,
                RevokeFill, RevokeAllWipe, Abort, Skip, Copy, MoveUnlink, MoveFill
  <2>2. QED
    BY <2>1, <1>1
<1>3. ~(PruneCopy \/ PruneTruncate \/ PruneWrite \/ PruneClean)
  BY DEF PruneCopy, PruneTruncate, PruneWrite, PruneClean
<1>4. ~(Tick \/ SetClock \/ Reboot \/ UNCHANGED vars)
  BY DEF Tick, SetClock, Reboot, NoPrune, vars
<1>5. QED
  BY <1>2, <1>3, <1>4 DEF Next, Prune

\* The script never starts on a key whose PC wrote the lease within the last LeaseLen days, less the
\* days by which the router's clock may have been behind.
THEOREM WindowKeepsKey == Spec => ConnectKeepsKey
<1> DEFINE Due == prune.at = "idle" /\ prune'.at # "idle" /\ lastUse[blob] # None
                    => today + Drift > lastUse[blob] + LeaseLen
<1>1. TypeOK /\ LeaseCovers /\ [Next]_vars => [Due]_vars
  <2> SUFFICES ASSUME TypeOK, LeaseCovers, [Next]_vars, prune.at = "idle", prune'.at # "idle", lastUse[blob] # None
               PROVE  today + Drift > lastUse[blob] + LeaseLen
    OBVIOUS
  <2>1. PruneCheck
    BY OnlyCheckStarts
  <2>2. blob \in PC /\ lease # None /\ lease \in Int /\ Now > lease
    BY <2>1 DEF PruneCheck, Lapsed, TypeOK
  <2>3. lastUse[blob] \in Int /\ lease >= lastUse[blob] + LeaseLen - Drift
    BY <2>2 DEF LeaseCovers, TypeOK
  <2>4. QED
    BY <2>2, <2>3, NowBehind, KeyLeaseAssumption DEF TypeOK
<1>2. QED
  BY <1>1, TypeCorrect, InitCovers, NextCovers, PTL DEF Spec, ConnectKeepsKey
=============================================================================
