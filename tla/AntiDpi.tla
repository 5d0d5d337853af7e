------------------------------ MODULE AntiDpi -------------------------------
(***************************************************************************)
(* The page against inspection of packets (ui/antidpi_screen.py,           *)
(* engine/zapret.py) within the settings of module Settings: the state it  *)
(* reads, the installation of zapret and the sweep, which tests one        *)
(* strategy after the other, each test begun by the answer of the one      *)
(* before.  Tests change nothing on the router.                            *)
(***************************************************************************)
EXTENDS Settings

CONSTANT Strategies  \* how many there are in the router's list of candidates

ASSUME AntiDpiAssumption == Strategies \in Nat

VARIABLES
  zapret,   \* is zapret installed on the router?
  section   \* what the page knows of it, and its sweep

vars == <<settings, zapret, section>>

\* A page that has not been answered.
Blank == [status |-> "unread", cands |-> 0, installing |-> FALSE,
          sweeping |-> FALSE, stop |-> FALSE, stoppable |-> FALSE, i |-> 0]

TypeOK ==
  /\ SettingsTypeOK
  /\ zapret \in BOOLEAN
  /\ section \in [status : {"unread", "error", "absent", "installed"}, cands : {0, Strategies}, installing : BOOLEAN,
                  sweeping : BOOLEAN, stop : BOOLEAN, stoppable : BOOLEAN, i : 0..Strategies]
  /\ page # "antidpi" => section = Blank

Init == SettingsInit /\ zapret \in BOOLEAN /\ section = Blank

-----------------------------------------------------------------------------
(* Reading.                                                                *)

\* get_status, load_candidates: an unreadable list is an empty one.
GetStatus(t) ==
  /\ Is(t, "status", "sent") /\ Live
  /\ \E answer \in [status : {IF zapret THEN "installed" ELSE "absent", "error"}, cands : {0, Strategies}] :
       task' = [task EXCEPT ![t] = IF @.here THEN [@ EXCEPT !.at = "done", !.got = answer] ELSE NoTask]
  /\ UNCHANGED <<zapret, section>>

\* _render: the cards are made anew, without the stop button; a sweep goes on behind them.
Render(t) ==
  /\ Is(t, "status", "done")
  /\ section' = [section EXCEPT !.status = task[t].got.status, !.cands = task[t].got.cands,
                                !.installing = FALSE, !.stoppable = FALSE]
  /\ task' = [task EXCEPT ![t] = NoTask]
  /\ UNCHANGED zapret

-----------------------------------------------------------------------------
(* The installation.                                                       *)

\* _do_install.
DoInstall(t) ==
  /\ section.status = "absent" /\ ~section.installing
  /\ Start(t, [NoTask EXCEPT !.kind = "install"])
  /\ section' = [section EXCEPT !.installing = TRUE]
  /\ UNCHANGED zapret

\* zapret.install: prepared and downloaded, ...
PrepareInstall(t) ==
  /\ Is(t, "install", "sent") /\ Live
  /\ Becomes(t, "found") \/ Over(t, "undone")
  /\ UNCHANGED <<zapret, section>>

\* ... and installed; or its answer says it was not.
InstallPkg(t) ==
  /\ Is(t, "install", "found") /\ Live
  /\ \/ Over(t, "done") /\ zapret' = TRUE
     \/ Over(t, "undone") /\ zapret' \in {zapret, TRUE}
  /\ UNCHANGED section

\* _installed_cb, _install_err: the page is read again after a success.
Installed(t) ==
  /\ task[t].kind = "install" /\ task[t].at \in {"done", "undone", "failed"}
  /\ IF task[t].at = "done"
     THEN /\ task' = [task EXCEPT ![t] = [NoTask EXCEPT !.kind = "status", !.at = "sent", !.here = TRUE]]
          /\ UNCHANGED section
     ELSE /\ task' = [task EXCEPT ![t] = NoTask]
          /\ section' = [section EXCEPT !.installing = FALSE]
  /\ UNCHANGED zapret

-----------------------------------------------------------------------------
(* The sweep.                                                              *)

\* _full_start, which begins the first test.
FullStart(t) ==
  /\ section.status \in {"absent", "installed"}
  /\ ~section.sweeping /\ section.cands > 0
  /\ Start(t, [NoTask EXCEPT !.kind = "probe"])
  /\ section' = [section EXCEPT !.sweeping = TRUE, !.stop = FALSE, !.stoppable = TRUE, !.i = 0]
  /\ UNCHANGED zapret

\* _full_stop_click: heeded when the test is answered.
FullStopClick ==
  /\ section.stoppable /\ ~section.stop
  /\ section' = [section EXCEPT !.stop = TRUE]
  /\ UNCHANGED <<task, zapret>>

\* run_test.
RunTest(t) ==
  /\ Is(t, "probe", "sent") /\ Live
  /\ Over(t, "done")
  /\ UNCHANGED <<zapret, section>>

\* _full_row fails: the list has no such entry any more, or the frame for its row is gone.
RowLost == section.i >= section.cands \/ section.status = "error"

\* _full_finish.
FullFinish == [section EXCEPT !.sweeping = FALSE, !.stop = FALSE, !.stoppable = FALSE, !.i = 0]

\* _full_next.
FullNext(t) ==
  IF section.stop \/ section.i + 1 >= section.cands
  THEN section' = FullFinish /\ task' = [task EXCEPT ![t] = NoTask]
  ELSE /\ section' = [section EXCEPT !.i = @ + 1]
       /\ task' = [task EXCEPT ![t].at = "sent"]

\* Mutant: a test that fails is reported like any other error of the page.
FullRowErr(t) ==
  /\ task[t].kind = "probe" /\ task[t].at \in {"done", "failed"}
  /\ IF RowLost \/ task[t].at = "failed" THEN task' = [task EXCEPT ![t] = NoTask] /\ UNCHANGED section ELSE FullNext(t)
  /\ UNCHANGED zapret

\* _full_row: the row of the test, whether it was answered or failed, and the next one.
FullRow(t) ==
  /\ task[t].kind = "probe" /\ task[t].at \in {"done", "failed"}
  /\ IF RowLost THEN task' = [task EXCEPT ![t] = NoTask] /\ UNCHANGED section ELSE FullNext(t)
  /\ UNCHANGED zapret

PageStep(t) ==
  \/ GetStatus(t) \/ Render(t) \/ PrepareInstall(t) \/ InstallPkg(t) \/ Installed(t)
  \/ RunTest(t) \/ FullRow(t)

\* What the rest of the program does to the page: it is gone with its answers, and a reset
\* router has no zapret.
Aside ==
  /\ zapret' = (zapret /\ box'.epoch = box.epoch)
  /\ section' = IF page' = page THEN section ELSE Blank

Next ==
  \/ SettingsNext /\ Aside
  \/ \E t \in Task : (DoInstall(t) \/ FullStart(t)) /\ UNCHANGED <<page, saved, policy, apply, unapplied, strayed>>
  \/ \E t \in Task : PageStep(t) /\ UNCHANGED <<wizard, page, saved, policy, apply, unapplied, strayed>>
  \/ FullStopClick /\ UNCHANGED <<wizard, page, saved, policy, apply, unapplied, strayed>>

Spec == Init /\ [][Next]_vars

-----------------------------------------------------------------------------
(* Properties.                                                             *)

\* A sweep that shows as running has a test on its way, so that it comes to its end or to the
\* next strategy, whatever tests fail, the user stops or an installation has the page read anew
\* meanwhile; only a list or a state that could not be read again leaves it behind
\* (antidpi_screen.py:564-634).
SweepAlive ==
  page = "antidpi" /\ section.sweeping =>
    RowLost \/ \E t \in Task : task[t].kind = "probe" /\ task[t].here
=============================================================================
