------------------------------ MODULE KeyLease ------------------------------
(***************************************************************************)
(* The router's /etc/dropbear/authorized_keys, the app installations (PCs) *)
(* that edit it over SSH, and the daily cron script that prunes the app's  *)
(* key once its lease lapsed (engine/key_lease.py, the *_public_key        *)
(* methods of router/client.py, engine/router_security.py).                *)
(*                                                                         *)
(* Every shell statement that reads or writes a shared file is one step,   *)
(* so the commands of two PCs and the cron script interleave as they do on *)
(* the router.  The commands of one PC run one after the other.            *)
(***************************************************************************)
EXTENDS Integers, FiniteSets

CONSTANTS
  PC,        \* the app installations; each has one identity, named like it
  Other,     \* keys somebody else put on the router
  LeaseLen,  \* LEASE_DAYS
  Drift,     \* how many days the router's clock is behind until it is set
  MaxDay,    \* bound: the day after which time stops
  MaxJobs,   \* bound: setups, connections and revocations begun
  None       \* "no such file" / "never"

ASSUME KeyLeaseAssumption ==
  /\ PC \cap Other = {}
  /\ LeaseLen \in Nat \ {0}
  /\ Drift \in Nat
  /\ MaxDay \in Nat
  /\ MaxJobs \in Nat
  /\ None \notin Int \cup PC \cup Other

VARIABLES
  today,    \* real time in days
  synced,   \* has the router's clock been set?
  lines,    \* the lines of authorized_keys
  blob,     \* .rc_blob: the key the lease is about
  lease,    \* .rc_lease: the day after which that key is pruned
  cron,     \* is the prune job in root's crontab?
  pc,       \* what each PC does next
  tmp,      \* each PC's $tmp copy of authorized_keys
  target,   \* the line each PC is revoking
  prune,    \* the running prune script
  lastUse,  \* history: the day of a PC's last lease write
  revoked,  \* history: the others' keys somebody revoked
  undone,   \* history: those of them that another's rewrite under way still holds
  torn,     \* history: did anyone meet authorized_keys half written?
  jobs      \* how many setups, connections and revocations began

files == <<lines, blob, lease, cron>>
vars == <<today, synced, files, pc, tmp, target, prune, lastUse, revoked, undone, torn, jobs>>

Key == PC \cup Other
Label == {"old", "new"}                \* the comment of an older brand, or of this PC
Line == [key : Key, label : Label]
AppLine(p) == [key |-> p, label |-> "new"]
KeysOf(S) == {l.key : l \in S}

\* `date +%s` on the router
Now == IF synced THEN today ELSE today - Drift

PcSteps == {"idle", "instCopy", "instMove", "instFill", "verify", "armBlob", "armLease", "armCron",
            "seek", "relabelCopy", "relabelMove", "relabelFill", "renewTest", "renewWrite",
            "revokeCopy", "revokeMove", "revokeFill", "wipe"}
PruneSteps == {"idle", "copy", "truncate", "write", "clean"}
NoPrune == [at |-> "idle", key |-> None, kept |-> {}]

TypeOK ==
  /\ today \in 0..MaxDay
  /\ synced \in BOOLEAN
  /\ lines \in SUBSET Line
  /\ blob \in PC \cup {None}
  /\ lease \in Int \cup {None}
  /\ cron \in BOOLEAN
  /\ pc \in [PC -> PcSteps]
  /\ tmp \in [PC -> SUBSET Line]
  /\ target \in [PC -> Line \cup {None}]
  /\ prune \in [at : PruneSteps, key : PC \cup {None}, kept : SUBSET Line]
  /\ lastUse \in [PC -> Int \cup {None}]
  /\ revoked \in SUBSET Other
  /\ undone \in SUBSET Other
  /\ torn \in BOOLEAN
  /\ jobs \in 0..MaxJobs

\* A router with the others' keys and any of the app keys of older versions.
Init ==
  /\ today = 0
  /\ synced = (Drift = 0)
  /\ \E S \in SUBSET PC : lines = [key : S, label : {"old"}] \cup [key : Other, label : {"new"}]
  /\ blob = None
  /\ lease = None
  /\ cron = FALSE
  /\ pc = [p \in PC |-> "idle"]
  /\ tmp = [p \in PC |-> {}]
  /\ target = [p \in PC |-> None]
  /\ prune = NoPrune
  /\ lastUse = [p \in PC |-> None]
  /\ revoked = {}
  /\ undone = {}
  /\ torn = FALSE
  /\ jobs = 0

-----------------------------------------------------------------------------
(* Rewriting authorized_keys: a filtered copy in $tmp, then mv.             *)

Goto(p, step) == pc' = [pc EXCEPT ![p] = step]

\* Mutant: the lines are matched by the app's label instead of the key.
WithoutLabel(k, S) == {l \in S : l.label # AppLine(k).label}

\* grep -vF blob: every line of key k goes, whatever its label.
Without(k, S) == {l \in S : l.key # k}

\* Mutant: the line is appended, an older line of the key stays.
OwnLineAppended(p) == lines \cup {AppLine(p)}

\* grep -vF blob authorized_keys > $tmp; printf key_line >> $tmp
OwnLineRewritten(p) == Without(p, lines) \cup {AppLine(p)}

\* authorized_keys is not whole: the pruner has truncated it, or an mv has removed it.
Moving(p) == pc[p] \in {"instMove", "relabelMove", "revokeMove"}
Filling(p) == pc[p] \in {"instFill", "relabelFill", "revokeFill"}
Gap == prune.at = "write" \/ \E p \in PC : Filling(p)

\* p's copy is made; in a gap from a file without lines, or from none.
Copy(p, content, next) ==
  /\ tmp' = [tmp EXCEPT ![p] = content]
  /\ torn' = (torn \/ Gap)
  /\ Goto(p, next)
  /\ UNCHANGED <<today, synced, files, target, prune, lastUse, revoked, undone>>

\* A new file, or none, takes the place of the old one: a prune script that has the old one open
\* writes where nobody reads any more.
NewFile(content) ==
  /\ lines' = content
  /\ prune' = [prune EXCEPT !.at = IF @ = "write" THEN "clean" ELSE @]

\* mv $tmp authorized_keys, from the RAM disk to the flash: busybox removes the old file, ...
MoveUnlink(p, next) ==
  /\ NewFile({})
  /\ Goto(p, next)
  /\ UNCHANGED <<today, synced, blob, lease, cron, tmp, target, lastUse, revoked, undone, torn>>

\* ... then creates the new one, without whatever is there by now, and copies the content.
MoveFill(p, next) ==
  /\ NewFile(tmp[p])
  /\ tmp' = [tmp EXCEPT ![p] = {}]
  /\ target' = [target EXCEPT ![p] = None]
  /\ Goto(p, next)
  /\ UNCHANGED <<today, synced, blob, lease, cron, lastUse, torn>>

\* p revokes gone.  Another rewrite that has made its copy before will put what is in it back.
Held(p, k) ==
  \/ \E q \in PC \ {p} : (Moving(q) \/ Filling(q)) /\ k \in KeysOf(tmp[q])
  \/ prune.at \in {"truncate", "write"} /\ k \in KeysOf(prune.kept)
Revoked(p, gone) ==
  /\ revoked' = revoked \cup gone
  /\ undone' = undone \cup {k \in gone : Held(p, k)}

Skip(p, next) ==
  /\ Goto(p, next)
  /\ UNCHANGED <<today, synced, files, tmp, target, prune, lastUse, revoked, undone, torn>>

-----------------------------------------------------------------------------
(* First run: install_public_key, verify, key_lease.arm.                    *)

InstallCheck(p) ==
  /\ pc[p] = "idle"
  /\ Skip(p, IF AppLine(p) \in lines THEN "verify" ELSE "instCopy")

InstallCopy(p) == pc[p] = "instCopy" /\ Copy(p, OwnLineRewritten(p), "instMove")

InstallMove(p) == pc[p] = "instMove" /\ MoveUnlink(p, "instFill")
InstallFill(p) == pc[p] = "instFill" /\ MoveFill(p, "verify") /\ UNCHANGED <<revoked, undone>>

\* A fresh connection with the key only: it fails when the key is not there,
\* unless the router has no password and lets anybody in.
VerifyKey(p) ==
  /\ pc[p] = "verify"
  /\ \/ Skip(p, "armBlob")
     \/ p \notin KeysOf(lines) /\ Skip(p, "idle")

\* Mutant: the whole public-key line is stored, not its blob.
ArmWholeLine(p) ==
  /\ pc[p] = "armBlob"
  /\ blob' = AppLine(p)
  /\ Goto(p, "armLease")
  /\ UNCHANGED <<today, synced, lines, lease, cron, tmp, target, prune, lastUse, revoked, undone, torn>>

ArmBlob(p) ==
  /\ pc[p] = "armBlob"
  /\ blob' = p
  /\ Goto(p, "armLease")
  /\ UNCHANGED <<today, synced, lines, lease, cron, tmp, target, prune, lastUse, revoked, undone, torn>>

\* Mutant: the window is not added to the router's clock.
WriteLeaseNow(p) ==
  /\ lease' = Now
  /\ lastUse' = [lastUse EXCEPT ![p] = today]
  /\ UNCHANGED <<today, synced, lines, blob, cron, tmp, target, prune, revoked, undone, torn>>

\* printf $(( $(date +%s) + secs )) > .rc_lease
WriteLease(p) ==
  /\ lease' = Now + LeaseLen
  /\ lastUse' = [lastUse EXCEPT ![p] = today]
  /\ UNCHANGED <<today, synced, lines, blob, cron, tmp, target, prune, revoked, undone, torn>>

ArmLease(p) == pc[p] = "armLease" /\ WriteLease(p) /\ Goto(p, "armCron")

ArmCron(p) ==
  /\ pc[p] = "armCron"
  /\ cron' = TRUE
  /\ Goto(p, "idle")
  /\ UNCHANGED <<today, synced, lines, blob, lease, tmp, target, prune, lastUse, revoked, undone, torn>>

-----------------------------------------------------------------------------
(* Every connect: relabel_public_key, then key_lease.renew.                 *)

Connect(p) ==
  /\ pc[p] = "idle"
  /\ Skip(p, IF AppLine(p) \in lines THEN "renewTest" ELSE "seek")

RelabelSeek(p) ==
  /\ pc[p] = "seek"
  /\ Skip(p, IF p \in KeysOf(lines) THEN "relabelCopy" ELSE "renewTest")

RelabelCopy(p) == pc[p] = "relabelCopy" /\ Copy(p, OwnLineRewritten(p), "relabelMove")

RelabelMove(p) == pc[p] = "relabelMove" /\ MoveUnlink(p, "relabelFill")
RelabelFill(p) == pc[p] = "relabelFill" /\ MoveFill(p, "renewTest") /\ UNCHANGED <<revoked, undone>>

RenewTest(p) ==
  /\ pc[p] = "renewTest"
  /\ Skip(p, IF blob # None THEN "renewWrite" ELSE "idle")

RenewWrite(p) == pc[p] = "renewWrite" /\ WriteLease(p) /\ Goto(p, "idle")

-----------------------------------------------------------------------------
(* The security screen: revoke one line, or all of them.                    *)

RevokeCheck(p, l) ==
  /\ pc[p] = "idle"
  /\ l \in lines
  /\ target' = [target EXCEPT ![p] = l]
  /\ Goto(p, "revokeCopy")
  /\ UNCHANGED <<today, synced, files, tmp, prune, lastUse, revoked, undone, torn>>

\* grep -vxF line
RevokeCopy(p) == pc[p] = "revokeCopy" /\ Copy(p, lines \ {target[p]}, "revokeMove")

RevokeMove(p) == pc[p] = "revokeMove" /\ MoveUnlink(p, "revokeFill")
RevokeFill(p) ==
  /\ pc[p] = "revokeFill"
  /\ MoveFill(p, "idle")
  /\ Revoked(p, {target[p].key} \cap Other)

RevokeAllList(p) ==
  /\ pc[p] = "idle"
  /\ lines # {}
  /\ Skip(p, "wipe")

RevokeAllWipe(p) ==
  /\ pc[p] = "wipe"
  /\ lines' = {}
  /\ Revoked(p, Other)
  /\ Goto(p, "idle")
  /\ UNCHANGED <<today, synced, blob, lease, cron, tmp, target, prune, lastUse, torn>>

\* The session drops or the app is closed between two SSH commands.
Abort(p) ==
  /\ pc[p] \in {"instCopy", "verify", "armBlob", "seek", "relabelCopy", "renewTest",
                "revokeCopy", "wipe"}
  /\ target' = [target EXCEPT ![p] = None]
  /\ Goto(p, "idle")
  /\ UNCHANGED <<today, synced, files, tmp, prune, lastUse, revoked, undone, torn>>

-----------------------------------------------------------------------------
(* rc-key-prune.sh                                                          *)

Lapsed == lease # None /\ Now > lease

PruneCheck ==
  /\ cron
  /\ prune.at = "idle"
  /\ blob # None
  /\ Lapsed
  /\ prune' = [at |-> "copy", key |-> blob, kept |-> {}]
  /\ UNCHANGED <<today, synced, files, pc, tmp, target, lastUse, revoked, undone, torn, jobs>>

\* Mutant: grep -vxF for grep -vF, and no whole line is the blob.
PruneCopyExact ==
  /\ prune.at = "copy"
  /\ prune' = [prune EXCEPT !.at = IF lines = {} THEN "clean" ELSE "truncate", !.kept = lines]
  /\ UNCHANGED <<today, synced, files, pc, tmp, target, lastUse, revoked, undone, torn, jobs>>

\* grep -vF "$blob" "$A" > "$tmp" fails when it leaves no line; the file is
\* then left as it is, and only the lease is cleaned up.
PruneCopy ==
  /\ prune.at = "copy"
  /\ LET kept == Without(prune.key, lines)
     IN  prune' = [prune EXCEPT !.at = IF kept = {} THEN "clean" ELSE "truncate",
                                !.kept = kept]
  /\ UNCHANGED <<today, synced, files, pc, tmp, target, lastUse, revoked, undone, torn, jobs>>

\* cat "$tmp" > "$A": the shell truncates the file, cat fills it.
PruneTruncate ==
  /\ prune.at = "truncate"
  /\ lines' = {}
  /\ prune' = [prune EXCEPT !.at = "write"]
  /\ UNCHANGED <<today, synced, blob, lease, cron, pc, tmp, target, lastUse, revoked, undone, torn, jobs>>

PruneWrite ==
  /\ prune.at = "write"
  /\ lines' = prune.kept
  /\ prune' = [prune EXCEPT !.at = "clean"]
  /\ UNCHANGED <<today, synced, blob, lease, cron, pc, tmp, target, lastUse, revoked, undone, torn, jobs>>

PruneClean ==
  /\ prune.at = "clean"
  /\ blob' = None
  /\ lease' = None
  /\ prune' = NoPrune
  /\ UNCHANGED <<today, synced, lines, cron, pc, tmp, target, lastUse, revoked, undone, torn, jobs>>

Prune == PruneCheck \/ PruneCopy \/ PruneTruncate \/ PruneWrite \/ PruneClean

-----------------------------------------------------------------------------
(* Time, the clock and the power supply.                                    *)

Tick ==
  /\ today < MaxDay
  /\ today' = today + 1
  /\ UNCHANGED <<synced, files, pc, tmp, target, prune, lastUse, revoked, undone, torn, jobs>>

\* ensure_clock (or NTP) sets the router's clock.
SetClock ==
  /\ ~synced
  /\ synced' = TRUE
  /\ UNCHANGED <<today, files, pc, tmp, target, prune, lastUse, revoked, undone, torn, jobs>>

\* The router restarts: every running script and session ends where it is.
Reboot ==
  /\ pc' = [p \in PC |-> "idle"]
  /\ tmp' = [p \in PC |-> {}]
  /\ target' = [p \in PC |-> None]
  /\ torn' = (torn \/ Gap)
  /\ prune' = NoPrune
  /\ UNCHANGED <<today, synced, files, lastUse, revoked, undone, jobs>>

Begin(p) == InstallCheck(p) \/ Connect(p) \/ (\E l \in Line : RevokeCheck(p, l)) \/ RevokeAllList(p)

Setup(p) ==
  InstallCopy(p) \/ InstallMove(p) \/ InstallFill(p) \/ VerifyKey(p) \/ ArmBlob(p) \/ ArmLease(p) \/ ArmCron(p)

Reconnect(p) ==
  RelabelSeek(p) \/ RelabelCopy(p) \/ RelabelMove(p) \/ RelabelFill(p) \/ RenewTest(p) \/ RenewWrite(p)

Revoke(p) == RevokeCopy(p) \/ RevokeMove(p) \/ RevokeFill(p) \/ RevokeAllWipe(p)

Next ==
  \/ jobs < MaxJobs /\ jobs' = jobs + 1 /\ \E p \in PC : Begin(p)
  \/ (\E p \in PC : Setup(p) \/ Reconnect(p) \/ Revoke(p) \/ Abort(p)) /\ UNCHANGED jobs
  \/ Prune
  \/ Tick
  \/ SetClock
  \/ Reboot

Spec == Init /\ [][Next]_vars

(* The cron daemon runs the script every night and the router does not lose *)
(* power in the middle of it every time; time goes on until MaxDay.         *)
Fairness ==
  /\ WF_vars(Tick)
  /\ SF_vars(PruneCheck)
  /\ SF_vars(PruneCopy)
  /\ SF_vars(PruneTruncate)
  /\ SF_vars(PruneWrite)
  /\ SF_vars(PruneClean)

FairSpec == Spec /\ Fairness

-----------------------------------------------------------------------------
(* Properties *)

Single(S) == \A l, m \in S : l.key = m.key => l = m

\* However the installs, relabels, revocations and prunes of several PCs
\* interleave, authorized_keys never holds the same key twice (a key that is
\* there under two labels survives the revocation of one of them).
UniqueLines == Single(lines)

\* Nobody else's key is lost, and none that was revoked comes back: a key the app does not own is
\* missing only if somebody revoked it, or while authorized_keys is being refilled, or after it was
\* copied or cut off in such a gap; a revoked one is there only if another rewrite had copied it before.
ForeignKeysKept ==
  /\ Gap \/ torn \/ Other \ revoked \subseteq KeysOf(lines)
  /\ revoked \cap KeysOf(lines) \subseteq undone

\* "Connect at least once within the lease window -> the key stays": when the
\* script goes for a key, its PC wrote no lease for more than LeaseLen days, less
\* the days the router's clock may have been behind when it did.
ConnectKeepsKey ==
  [][prune.at = "idle" /\ prune'.at # "idle" /\ lastUse[blob] # None
       => today + Drift > lastUse[blob] + LeaseLen]_vars

\* p's key is there, the lease is its own and cron looks after it.
Armed(p) == cron /\ blob = p /\ p \in KeysOf(lines)

\* A lapsed lease is acted upon: between two runs of the script the key is gone,
\* unless its PC is at work on the router meanwhile or the key is the only line.
LapsedLeasePruned ==
  \A p \in PC :
    (Armed(p) /\ Lapsed /\ prune.at = "idle")
      ~> \/ prune.at = "idle" /\ p \notin KeysOf(lines)
         \/ pc[p] # "idle"
         \/ KeysOf(lines) = {p}

\* "Stop using the app -> the key auto-prunes from every router after the
\* window": the key of a PC that stays away is not in the file for ever.
AbandonedKeyPruned ==
  \A p \in PC :
    (Armed(p) /\ Lapsed /\ prune.at = "idle")
      ~> ((prune.at = "idle" /\ p \notin KeysOf(lines)) \/ pc[p] # "idle")
=============================================================================
