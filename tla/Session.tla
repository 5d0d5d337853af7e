------------------------------ MODULE Session -------------------------------
(***************************************************************************)
(* One SSH session shared by the worker threads of the UI: RouterClient's  *)
(* run, run_stream, run_bytes and write_file (router/client.py), and       *)
(* run_async with its queue and the Tk pump (ui/worker.py).                *)
(*                                                                         *)
(* A thread runs a task: some calls, one after the other, then its answer  *)
(* goes to the queue.  Every wait of a call is a step of its own, with the *)
(* timeout the code gives it, or none.                                     *)
(***************************************************************************)
EXTENDS Naturals, Sequences

CONSTANTS
  Worker,      \* the threads
  None,        \* nobody
  MaxCalls,    \* bound: the calls of one task
  MaxScreen    \* bound: the screens the user opens

ASSUME SessionAssumption ==
  /\ None \notin Worker
  /\ MaxCalls \in Nat \ {0}
  /\ MaxScreen \in Nat

VARIABLES
  link,    \* the TCP connection: "up", "silent" (nobody answers), "down" (known dead)
  unacked, \* are there packets the router's TCP did not acknowledge?
  lock,    \* _cmd_lock: its holder
  at,      \* where each thread is
  kind,    \* the method each thread's call is of
  left,    \* how many calls each thread's task may still make
  home,    \* the screen that started each thread's task
  answer,  \* how each thread's task ended
  queue,   \* worker._queue: the threads whose answers wait for the Tk thread
  screen,  \* the screen on display
  shown    \* the answer it shows: which screen asked, and what

vars == <<link, unacked, lock, at, kind, left, home, answer, queue, screen, shown>>
callVars == <<link, unacked, lock, at, kind>>
taskVars == <<left, home, answer>>
uiVars == <<queue, screen, shown>>

Kind == {"run", "stream", "bytes", "file"}
OnWire == {"exec", "output", "status"}     \* the channel is open
InCall == {"open"} \cup OnWire
Steps == {"idle", "task", "lock", "report", "queued"} \cup InCall

TypeOK ==
  /\ link \in {"up", "silent", "down"}
  /\ unacked \in BOOLEAN
  /\ lock \in Worker \cup {None}
  /\ at \in [Worker -> Steps]
  /\ kind \in [Worker -> Kind]
  /\ left \in [Worker -> 0..MaxCalls]
  /\ home \in [Worker -> 0..MaxScreen]
  /\ answer \in [Worker -> {"done", "error"}]
  /\ queue \in Seq(Worker)
  /\ screen \in 0..MaxScreen
  /\ shown \in [from : 0..MaxScreen, what : {"nothing", "done", "error"}]

Init ==
  /\ link = "up"
  /\ unacked = FALSE
  /\ lock = None
  /\ at = [w \in Worker |-> "idle"]
  /\ kind = [w \in Worker |-> "run"]
  /\ left = [w \in Worker |-> 0]
  /\ home = [w \in Worker |-> 0]
  /\ answer = [w \in Worker |-> "done"]
  /\ queue = <<>>
  /\ screen = 0
  /\ shown = [from |-> 0, what |-> "nothing"]

Goto(w, step) == at' = [at EXCEPT ![w] = step]

-----------------------------------------------------------------------------
(* A task and its calls.                                                    *)

\* Mutant: the call site passes no widget.
StartDetached(w) ==
  /\ at[w] = "idle"
  /\ Goto(w, "task")
  /\ left' = [left EXCEPT ![w] = MaxCalls]
  /\ home' = [home EXCEPT ![w] = None]
  /\ answer' = [answer EXCEPT ![w] = "done"]
  /\ UNCHANGED <<link, unacked, lock, kind, uiVars>>

\* run_async: the screen on display starts a thread.
Start(w) ==
  /\ at[w] = "idle"
  /\ Goto(w, "task")
  /\ left' = [left EXCEPT ![w] = MaxCalls]
  /\ home' = [home EXCEPT ![w] = screen]
  /\ answer' = [answer EXCEPT ![w] = "done"]
  /\ UNCHANGED <<link, unacked, lock, kind, uiVars>>

\* The task's function makes its next call: it waits for the lock.
Call(w, k) ==
  /\ at[w] = "task"
  /\ left[w] > 0
  /\ left' = [left EXCEPT ![w] = @ - 1]
  /\ kind' = [kind EXCEPT ![w] = k]
  /\ Goto(w, "lock")
  /\ UNCHANGED <<link, unacked, lock, home, answer, uiVars>>

\* Mutant: no lock, the channel is opened at once.
AcquireUnlocked(w) ==
  /\ at[w] = "lock"
  /\ lock' = w
  /\ unacked' = TRUE
  /\ Goto(w, "open")
  /\ UNCHANGED <<link, kind, taskVars, uiVars>>

\* with self._cmd_lock: there is no timeout.  open_session sends a request.
Acquire(w) ==
  /\ at[w] = "lock"
  /\ lock = None
  /\ lock' = w
  /\ unacked' = TRUE
  /\ Goto(w, "open")
  /\ UNCHANGED <<link, kind, taskVars, uiVars>>

\* The router confirms the channel; exec_command sends a request.
Opened(w) ==
  /\ at[w] = "open"
  /\ link = "up"
  /\ unacked' = TRUE
  /\ Goto(w, "exec")
  /\ UNCHANGED <<link, lock, kind, taskVars, uiVars>>

\* It accepts the command; a file is sent, and only its exit status awaited, as
\* run does, which polls exit_status_ready.
Started(w) ==
  /\ at[w] = "exec"
  /\ link = "up"
  /\ unacked' = (kind[w] = "file")
  /\ Goto(w, IF kind[w] \in {"run", "file"} THEN "status" ELSE "output")
  /\ UNCHANGED <<link, lock, kind, taskVars, uiVars>>

\* The output ended (run_stream, run_bytes); recv_exit_status follows.
OutputEnds(w) ==
  /\ at[w] = "output"
  /\ link = "up"
  /\ Goto(w, "status")
  /\ UNCHANGED <<link, unacked, lock, kind, taskVars, uiVars>>

\* The call returns its result; the lock is released.
Finished(w) ==
  /\ at[w] = "status"
  /\ link = "up"
  /\ lock' = None
  /\ Goto(w, "task")
  /\ UNCHANGED <<link, unacked, kind, taskVars, uiVars>>

\* Mutant: the lock is taken and released by hand, an exception skips the release.
RaiseLocked(w) ==
  /\ \/ Goto(w, "task") /\ UNCHANGED answer
     \/ Goto(w, "report") /\ answer' = [answer EXCEPT ![w] = "error"]
  /\ UNCHANGED <<link, unacked, lock, kind, left, home, uiVars>>

\* An exception leaves the with block: the lock is released.  The task catches
\* it and goes on, or ends with it.
Raise(w) ==
  /\ lock' = None
  /\ \/ Goto(w, "task") /\ UNCHANGED answer
     \/ Goto(w, "report") /\ answer' = [answer EXCEPT ![w] = "error"]
  /\ UNCHANGED <<link, unacked, kind, left, home, uiVars>>

\* Mutant: run calls recv_exit_status, as before its deadline was added.
TimedOpen(w) == at[w] \in {"open", "output"}

\* The waits that have an end: open_session (connect_timeout; an hour, paramiko's
\* default, for write_file), reading output (settimeout), run's deadline.
Timed(w) ==
  \/ at[w] \in {"open", "output"}
  \/ at[w] = "status" /\ kind[w] = "run"

TimesOut(w) == Timed(w) /\ Raise(w)

\* paramiko fails every call once the transport is dead.
Breaks(w) == at[w] \in InCall /\ link = "down" /\ Raise(w)

\* The task's function returns, or raises for a reason of its own.
Return(w) ==
  /\ at[w] = "task"
  /\ Goto(w, "report")
  /\ \E a \in {"done", "error"} : answer' = [answer EXCEPT ![w] = a]
  /\ UNCHANGED <<link, unacked, lock, kind, left, home, uiVars>>

\* Mutant: no return after on_error, on_done is put as well.
ReportBoth(w) ==
  /\ at[w] = "report"
  /\ queue' = IF answer[w] = "error" THEN queue \o <<w, w>> ELSE Append(queue, w)
  /\ Goto(w, "queued")
  /\ UNCHANGED <<link, unacked, lock, kind, taskVars, screen, shown>>

\* _queue.put of on_done, or of on_error; a task without one just ends.
Report(w) ==
  /\ at[w] = "report"
  /\ \/ queue' = Append(queue, w) /\ Goto(w, "queued")
     \/ answer[w] = "error" /\ Goto(w, "idle") /\ UNCHANGED queue
  /\ UNCHANGED <<link, unacked, lock, kind, taskVars, screen, shown>>

-----------------------------------------------------------------------------
(* The Tk thread.                                                           *)

\* Mutant: the callback runs whatever became of its widget.
DeliverAlways ==
  /\ queue # <<>>
  /\ LET w == Head(queue)
     IN  /\ Goto(w, "idle")
         /\ shown' = [from |-> home[w], what |-> answer[w]]
  /\ queue' = Tail(queue)
  /\ UNCHANGED <<link, unacked, lock, kind, taskVars, screen>>

\* pump: the oldest callback runs if its widget is alive.
Deliver ==
  /\ queue # <<>>
  /\ LET w == Head(queue)
     IN  /\ Goto(w, "idle")
         /\ shown' = IF home[w] = screen THEN [from |-> home[w], what |-> answer[w]] ELSE shown
  /\ queue' = Tail(queue)
  /\ UNCHANGED <<link, unacked, lock, kind, taskVars, screen>>

\* The user opens another screen; the old one is destroyed.
Navigate ==
  /\ screen < MaxScreen
  /\ screen' = screen + 1
  /\ shown' = [from |-> screen + 1, what |-> "nothing"]
  /\ UNCHANGED <<callVars, taskVars, queue>>

-----------------------------------------------------------------------------
(* The connection.                                                          *)

\* The router's TCP acknowledges what was sent.
Acknowledge ==
  /\ link = "up"
  /\ unacked
  /\ unacked' = FALSE
  /\ UNCHANGED <<link, lock, at, kind, taskVars, uiVars>>

\* The router loses power, or the cable or the Wi-Fi goes.
GoSilent ==
  /\ link = "up"
  /\ link' = "silent"
  /\ UNCHANGED <<unacked, lock, at, kind, taskVars, uiVars>>

\* The router closes the connection, or TCP gives up: it does so only while
\* something is unacknowledged (no keepalive is set).
GoDown ==
  /\ link = "up" \/ (link = "silent" /\ unacked)
  /\ link' = "down"
  /\ UNCHANGED <<unacked, lock, at, kind, taskVars, uiVars>>

Step(w) ==
  \/ Start(w)
  \/ \E k \in Kind : Call(w, k)
  \/ Acquire(w)
  \/ Opened(w)
  \/ Started(w)
  \/ OutputEnds(w)
  \/ Finished(w)
  \/ TimesOut(w)
  \/ Breaks(w)
  \/ Return(w)
  \/ Report(w)

Next ==
  \/ \E w \in Worker : Step(w)
  \/ Deliver
  \/ Navigate
  \/ Acknowledge
  \/ GoSilent
  \/ GoDown

Spec == Init /\ [][Next]_vars

(* Threads run and timeouts expire (no command prints for ever); the        *)
(* operating system's lock starves nobody; the router answers what needs no *)
(* command to end (a request, a `cat` whose input ended) while it is        *)
(* reachable; the Tk loop keeps pumping; TCP gives up in the end.           *)
Fairness ==
  /\ \A w \in Worker :
       /\ SF_vars(Acquire(w))
       /\ WF_vars(Opened(w) \/ Started(w) \/ TimesOut(w) \/ Breaks(w))
       /\ WF_vars(kind[w] # "run" /\ Finished(w))
       /\ WF_vars(Return(w))
       /\ WF_vars(Report(w))
  /\ WF_vars(Deliver)
  /\ WF_vars(link = "silent" /\ GoDown)

FairSpec == Spec /\ Fairness

-----------------------------------------------------------------------------
(* Properties *)

CallOf(step) ==
  CASE step = "lock" -> "asked" [] step \in InCall -> "served" [] OTHER -> "none"

Serial == INSTANCE SerialRouter WITH call <- [w \in Worker |-> CallOf(at[w])]

\* "Exactly one command on the wire at a time": with timeouts, dead connections
\* and exceptions in every place, the session serves its threads one by one.
SerialCalls == Serial!Spec

\* The lock is held by the thread whose call is in progress, and by no other:
\* no exception path leaves it taken.
LockHeldInCall ==
  /\ lock # None => at[lock] \in InCall
  /\ \A w \in Worker : at[w] \in InCall => lock = w

\* Every answer waits once in the queue, and only while its thread waits.
QueuedOnce ==
  /\ \A i, j \in 1..Len(queue) : queue[i] = queue[j] => i = j
  /\ \A w \in Worker : at[w] = "queued" <=> \E i \in 1..Len(queue) : queue[i] = w

\* A late answer is never shown on another screen than the one that asked.
AnswersStayHome == shown.from = screen

\* Unless the connection falls silent, every task ends and its thread is gone,
\* whatever hangs on the router.
TasksEnd == \A w \in Worker : (at[w] # "idle") ~> (at[w] = "idle" \/ link = "silent")
=============================================================================
