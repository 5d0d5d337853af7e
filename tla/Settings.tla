------------------------------ MODULE Settings ------------------------------
(***************************************************************************)
(* The settings (ui/settings_shell.py) within the window of module Wizard, *)
(* and their page of access control (ui/access_screen.py,                  *)
(* engine/access.py): a global mode and, per device, three flags.  An edit *)
(* is written at once and takes effect when the service restarts, which is *)
(* what the page's button is for.  Each command of a task is a step.  One  *)
(* device is modelled: the tasks of another touch the same lists.  The     *)
(* page against inspection of packets is in module AntiDpi.                *)
(***************************************************************************)
EXTENDS Wizard

CONSTANTS
  Task,     \* the threads of the pages' tasks
  Policies, \* the policies the router may have when the program finds it
  Modes,    \* of GLOBAL_MODES, the ones the user picks
  Flags     \* of the three flags, the ones the user ticks

VARIABLES
  page,     \* the page shown, or "none" outside the settings
  saved,    \* the router's configuration: lan_proxy_mode and the lists the device is in
  policy,   \* the page's copy of it (_policy), or Unread
  apply,    \* can the page's button be pressed?
  task,     \* the pages' tasks in flight
  unapplied, \* history: has the configuration changed since the service read it?
  strayed    \* history: did such a change come of a task that failed or was given up, or has
             \* the page been left since?

access == <<page, saved, policy, apply, task, unapplied, strayed>>
settings == <<wizard, access>>

Page == {"overview", "access", "antidpi"}
Policy == [mode : {"disabled", "listed_only", "except_listed"}, lists : SUBSET {"direct", "proxy", "gaming", "global"}]
Unread == [mode |-> "unread", lists |-> {}]
Default == [mode |-> "disabled", lists |-> {}]
NoTask == [kind |-> "none", at |-> "idle", list |-> "none", on |-> FALSE, mode |-> "none", got |-> Unread, here |-> FALSE]

ASSUME SettingsAssumption ==
  /\ Policies \subseteq Policy
  /\ Modes \subseteq {"disabled", "listed_only", "except_listed"}
  /\ Flags \subseteq {"filter", "gaming", "global"}

\* Everything is of its type, and the pages exist in the settings only.
SettingsTypeOK ==
  /\ WizardTypeOK
  /\ page \in Page \cup {"none"}
  /\ page = "none" <=> screen # "settings"
  /\ saved \in Policy
  /\ policy \in Policy \cup {Unread}
  /\ apply \in BOOLEAN
  /\ \A t \in Task :
       /\ task[t].at \in {"idle", "sent", "found", "staged", "late", "done", "undone", "failed"}
       /\ task[t].kind \in {"none", "flag", "mode", "restart", "read", "status", "install", "probe"}
       /\ task[t].here => page \in {"access", "antidpi"}
  /\ unapplied \in BOOLEAN /\ strayed \in BOOLEAN

SettingsInit ==
  /\ WizardInit
  /\ page = "none"
  /\ saved \in Policies
  /\ policy = Unread
  /\ apply = FALSE
  /\ task = [t \in Task |-> NoTask]
  /\ unapplied = FALSE /\ strayed = FALSE

-----------------------------------------------------------------------------
(* The shell.                                                              *)

\* Mutant: the answers to a page that is gone are delivered all the same.
OrphansHeard == task

\* The page is destroyed: its tasks go on as long as their session does, their answers are dropped.
Orphans == [t \in Task |-> IF ~Live \/ task[t].at \in {"done", "undone", "failed"} THEN NoTask
                           ELSE [task[t] EXCEPT !.here = FALSE]]

\* The router is reset: the tasks' commands fail.
Severed == [t \in Task |-> IF ~task[t].here THEN NoTask
                           ELSE IF task[t].at \in {"sent", "found", "staged"} THEN [task[t] EXCEPT !.at = "failed"]
                           ELSE task[t]]

\* A new page knows nothing, its button is disabled, and it starts reading; the edits are still
\* on the router.
NewPage == policy' = Unread /\ apply' = FALSE
Opened(to) ==
  /\ page' = to
  /\ NewPage
  /\ strayed' = unapplied
  /\ \E t \in Task :
       IF to = "overview" THEN task' = Orphans
       ELSE /\ Orphans[t] = NoTask
            /\ task' = [Orphans EXCEPT ![t] = [NoTask EXCEPT !.kind = IF to = "access" THEN "read" ELSE "status",
                                                          !.at = "sent", !.here = TRUE]]
  /\ UNCHANGED <<saved, unapplied>>

\* show_section.
ShowSection ==
  /\ screen = "settings"
  /\ \E to \in Page : (to # page \/ to = "access") /\ Opened(to)
  /\ Counted
  /\ UNCHANGED <<window, box, job, accepted>>

\* What a step of the window does to the pages: the settings open with the overview; a reset
\* router has the policy of the package; the tasks end with the program.
Follow ==
  LET cleared == box'.epoch # box.epoch IN
  /\ saved' = IF cleared THEN Default ELSE saved
  /\ unapplied' = (unapplied /\ ~cleared)
  /\ IF screen' = screen
     THEN /\ task' = IF cleared THEN Severed ELSE task
          /\ strayed' = (strayed /\ ~cleared)
          /\ UNCHANGED <<page, policy, apply>>
     ELSE /\ page' = IF screen' = "settings" THEN "overview" ELSE "none"
          /\ NewPage
          /\ strayed' = unapplied'
          /\ task' = IF screen' = "starting" THEN [t \in Task |-> NoTask] ELSE Orphans

-----------------------------------------------------------------------------
(* The page of access control.                                             *)

Start(t, new) ==
  /\ Counted
  /\ task[t] = NoTask
  /\ task' = [task EXCEPT ![t] = [new EXCEPT !.at = "sent", !.here = TRUE]]
  /\ UNCHANGED <<window, box, job, accepted>>

Becomes(t, at) == task' = [task EXCEPT ![t].at = at]
\* The answer to a page that is gone is dropped.
Over(t, at) == task' = [task EXCEPT ![t] = IF task[t].here THEN [task[t] EXCEPT !.at = at] ELSE NoTask]
Is(t, kind, at) == task[t].kind = kind /\ task[t].at = at

\* FILTER_LIST_FOR_MODE, _flag_list_name.
ListOf(flag, m) ==
  IF flag = "filter" THEN CASE m = "listed_only" -> "proxy" [] m = "except_listed" -> "direct" [] OTHER -> "none"
  ELSE flag

\* _on_flag: a box the page shows is ticked or unticked.
OnFlag(t) ==
  /\ page = "access" /\ policy # Unread
  /\ \E flag \in Flags, on \in BOOLEAN :
       LET list == ListOf(flag, policy.mode) IN
       /\ list # "none"
       /\ Start(t, [NoTask EXCEPT !.kind = "flag", !.list = list, !.on = on])
  /\ UNCHANGED <<page, saved, policy, apply, unapplied, strayed>>

\* _on_global.
OnGlobal(t) ==
  /\ page = "access" /\ policy # Unread
  /\ \E m \in Modes : Start(t, [NoTask EXCEPT !.kind = "mode", !.mode = m])
  /\ UNCHANGED <<page, saved, policy, apply, unapplied, strayed>>

\* _restart: the button is disabled until the answer, or the next edit.
PressApply(t) ==
  /\ page = "access" /\ apply
  /\ Start(t, [NoTask EXCEPT !.kind = "restart"])
  /\ apply' = FALSE
  /\ UNCHANGED <<page, saved, policy, unapplied, strayed>>

\* get_policy.
Read(t) ==
  /\ Is(t, "read", "sent") /\ Live
  /\ task' = [task EXCEPT ![t] = IF @.here THEN [@ EXCEPT !.at = "done", !.got = saved] ELSE NoTask]
  /\ UNCHANGED <<page, saved, policy, apply, unapplied, strayed>>

\* A command that changes the configuration; the service reads it, committed or not.
Write(t, new) ==
  /\ saved' = new
  /\ unapplied' = (unapplied \/ new # saved)
  /\ strayed' = (strayed \/ (~task[t].here /\ new # saved))

\* set_device_flag: is the device in the list?  Nothing is written when the list is as wanted.
Look(t) ==
  /\ Is(t, "flag", "sent") /\ Live
  /\ IF (task[t].list \in saved.lists) = task[t].on THEN Over(t, "done") ELSE Becomes(t, "found")
  /\ UNCHANGED <<page, saved, policy, apply, unapplied, strayed>>

\* The edits: `uci add_list' or `uci del_list', `uci set'.
Flagged(t) == [saved EXCEPT !.lists = IF task[t].on THEN @ \cup {task[t].list} ELSE @ \ {task[t].list}]
SetDeviceFlag(t) ==
  /\ Is(t, "flag", "found") /\ Live
  /\ Write(t, Flagged(t))
  /\ Becomes(t, "staged")
  /\ UNCHANGED <<page, policy, apply>>
SetGlobalMode(t) ==
  /\ Is(t, "mode", "sent") /\ Live
  /\ Write(t, [saved EXCEPT !.mode = task[t].mode])
  /\ Becomes(t, "staged")
  /\ UNCHANGED <<page, policy, apply>>

\* `uci commit'.
Commit(t) ==
  /\ task[t].at = "staged" /\ Live
  /\ Over(t, "done")
  /\ UNCHANGED <<page, saved, policy, apply, unapplied, strayed>>

\* The service reads the configuration, or says it could not.
ServiceRestarts(t) ==
  /\ Is(t, "restart", "sent") /\ Live
  /\ \/ Over(t, "done") /\ unapplied' = FALSE /\ strayed' = FALSE
     \/ Over(t, "undone") /\ UNCHANGED <<unapplied, strayed>>
  /\ UNCHANGED <<page, saved, policy, apply>>

\* A command that fails: what the task did before stays, and a restart without an answer may
\* have been one.
Fails(t) ==
  /\ task[t].at \in {"sent", "found", "staged"}
  /\ Over(t, "failed")
  /\ unapplied' \in {unapplied, unapplied /\ ~Is(t, "restart", "sent")}
  /\ strayed' = (unapplied' /\ (strayed \/ task[t].at = "staged"))
  /\ UNCHANGED <<page, saved, policy, apply>>

\* CommandTimeout: the page is told that an edit failed, and the router is still at it, ...
TimesOut(t) ==
  /\ Is(t, "flag", "found") \/ Is(t, "mode", "sent")
  /\ Live
  /\ task' = [task EXCEPT ![t].at = "late", ![t].here = FALSE]
  /\ UNCHANGED <<page, saved, policy, apply, unapplied, strayed>>

\* ... and makes the edit after all, or not.
LateEdit(t) ==
  /\ task[t].at = "late" /\ Live
  /\ \/ Write(t, IF task[t].kind = "mode" THEN [saved EXCEPT !.mode = task[t].mode] ELSE Flagged(t))
     \/ UNCHANGED <<saved, unapplied, strayed>>
  /\ task' = [task EXCEPT ![t] = NoTask]
  /\ UNCHANGED <<page, policy, apply>>

\* _mark_dirty, after the page's copy has taken the edit.
Edited(t) ==
  /\ task[t].at = "done" /\ task[t].kind \in {"flag", "mode"}
  /\ policy' = IF task[t].kind = "mode" THEN [policy EXCEPT !.mode = task[t].mode]
               ELSE [policy EXCEPT !.lists = IF task[t].on THEN @ \cup {task[t].list} ELSE @ \ {task[t].list}]
  /\ apply' = TRUE
  /\ task' = [task EXCEPT ![t] = NoTask]
  /\ UNCHANGED <<page, saved, unapplied, strayed>>

\* Mutant: a restart that went through disables the button.
AfterRestartClears(t) ==
  /\ task[t].kind = "restart" /\ task[t].at \in {"done", "undone", "failed"}
  /\ apply' = (task[t].at # "done")
  /\ task' = [task EXCEPT ![t] = NoTask]
  /\ UNCHANGED <<page, saved, policy, unapplied, strayed>>

\* _after_restart, _restart_err: success leaves the button as it is.
AfterRestart(t) ==
  /\ task[t].kind = "restart" /\ task[t].at \in {"done", "undone", "failed"}
  /\ apply' = (apply \/ task[t].at # "done")
  /\ task' = [task EXCEPT ![t] = NoTask]
  /\ UNCHANGED <<page, saved, policy, unapplied, strayed>>

\* _render.
Rendered(t) ==
  /\ Is(t, "read", "done")
  /\ policy' = task[t].got
  /\ task' = [task EXCEPT ![t] = NoTask]
  /\ UNCHANGED <<page, saved, apply, unapplied, strayed>>

\* _err: only the line of the status changes.
Err(t) ==
  /\ task[t].kind \in {"read", "flag", "mode", "status"} /\ task[t].at = "failed"
  /\ task' = [task EXCEPT ![t] = NoTask]
  /\ UNCHANGED <<page, saved, policy, apply, unapplied, strayed>>

TaskStep(t) ==
  \/ Read(t) \/ Look(t) \/ SetDeviceFlag(t) \/ SetGlobalMode(t) \/ Commit(t) \/ ServiceRestarts(t)
  \/ Fails(t) \/ TimesOut(t) \/ LateEdit(t)
  \/ Edited(t) \/ AfterRestart(t) \/ Rendered(t) \/ Err(t)

SettingsNext ==
  \/ WizardNext /\ Follow
  \/ ShowSection
  \/ \E t \in Task : OnFlag(t) \/ OnGlobal(t) \/ PressApply(t) \/ (TaskStep(t) /\ UNCHANGED wizard)

-----------------------------------------------------------------------------
(* Properties.                                                             *)

\* Once its tasks are answered, a page whose button is disabled has no edit waiting for the
\* restart, however edits, restarts and their answers overlapped, but one it was told had failed
\* or one from before it was opened (access_screen.py:81-94, 185-255).
Applied ==
  page = "access" /\ ~apply /\ (\A t \in Task : ~task[t].here) /\ unapplied => strayed
=============================================================================
