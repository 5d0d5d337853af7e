--------------------------- MODULE SessionProofs ----------------------------
(* Proofs about Session, for every set of threads and every bound.          *)
EXTENDS Session, TLAPS

-----------------------------------------------------------------------------
(* Type correctness                                                         *)

LEMMA InitType == Init => TypeOK
<1> SUFFICES ASSUME Init PROVE TypeOK
  OBVIOUS
<1>1. 0 \in 0..MaxCalls /\ 0 \in 0..MaxScreen
  BY SessionAssumption
<1>2. /\ at \in [Worker -> Steps]
      /\ kind \in [Worker -> Kind]
      /\ left \in [Worker -> 0..MaxCalls]
      /\ home \in [Worker -> 0..MaxScreen]
      /\ answer \in [Worker -> {"done", "error"}]
  BY <1>1 DEF Init, Steps, Kind
<1>3. queue \in Seq(Worker)
  BY DEF Init
<1>4. QED
  BY <1>1, <1>2, <1>3 DEF Init, TypeOK

\* A thread moves, and its answer stays or becomes an error.
LEMMA MoveType ==
  ASSUME TypeOK, NEW w \in Worker, NEW s \in Steps, Goto(w, s)
  PROVE  at' \in [Worker -> Steps]
  BY DEF TypeOK, Goto

LEMMA RaiseType == ASSUME TypeOK, NEW w \in Worker, Raise(w) PROVE TypeOK'
<1>1. at' \in [Worker -> Steps]
  BY MoveType DEF Raise, Steps
<1>2. answer' \in [Worker -> {"done", "error"}]
  BY DEF Raise, TypeOK
<1>3. QED
  BY <1>1, <1>2 DEF Raise, TypeOK, uiVars

LEMMA StepType == ASSUME TypeOK, NEW w \in Worker, Step(w) PROVE TypeOK'
<1> USE DEF Steps, InCall, OnWire, taskVars, uiVars
<1>1. CASE Start(w)
  <2>1. left' \in [Worker -> 0..MaxCalls]
    BY <1>1, SessionAssumption DEF Start, TypeOK
  <2>2. QED
    BY <1>1, <2>1, MoveType DEF Start, TypeOK
<1>2. ASSUME NEW k \in Kind, Call(w, k) PROVE TypeOK'
  <2>1. left[w] \in 0..MaxCalls /\ left[w] > 0
    BY <1>2 DEF Call, TypeOK
  <2>2. left[w] - 1 \in 0..MaxCalls
    BY <2>1, SessionAssumption
  <2>3. left' \in [Worker -> 0..MaxCalls]
    BY <1>2, <2>2 DEF Call, TypeOK
  <2>4. QED
    BY <1>2, <2>3, MoveType DEF Call, TypeOK
<1>3. CASE Acquire(w)
  BY <1>3, MoveType DEF Acquire, TypeOK
<1>4. CASE Opened(w)
  BY <1>4, MoveType DEF Opened, TypeOK
<1>5. CASE Started(w)
  <2>1. (IF kind[w] \in {"run", "file"} THEN "status" ELSE "output") \in Steps
    OBVIOUS
  <2>2. at' \in [Worker -> Steps]
    BY <1>5, <2>1, MoveType DEF Started
  <2>3. QED
    BY <1>5, <2>2 DEF Started, TypeOK
<1>6. CASE OutputEnds(w)
  BY <1>6, MoveType DEF OutputEnds, TypeOK
<1>7. CASE Finished(w)
  BY <1>7, MoveType DEF Finished, TypeOK
<1>8. CASE TimesOut(w) \/ Breaks(w)
  BY <1>8, RaiseType DEF TimesOut, Breaks
<1>9. CASE Return(w)
  BY <1>9, MoveType DEF Return, TypeOK
<1>10. CASE Report(w)
  <2>1. queue' \in Seq(Worker)
    <3>1. queue \in Seq(Worker) /\ queue' \in {queue, Append(queue, w)}
      BY <1>10 DEF Report, TypeOK
    <3>2. QED
      BY <3>1
  <2>2. at' \in [Worker -> Steps]
    BY <1>10, MoveType DEF Report
  <2>3. QED
    BY <1>10, <2>1, <2>2 DEF Report, TypeOK
<1>11. QED
  BY <1>1, <1>2, <1>3, <1>4, <1>5, <1>6, <1>7, <1>8, <1>9, <1>10 DEF Step

LEMMA DeliverType == ASSUME TypeOK, Deliver PROVE TypeOK'
<1>1. Head(queue) \in Worker /\ Tail(queue) \in Seq(Worker)
  BY DEF Deliver, TypeOK
<1>2. at' \in [Worker -> Steps]
  BY <1>1, MoveType DEF Deliver, Steps
<1>3. shown' \in [from : 0..MaxScreen, what : {"nothing", "done", "error"}]
  BY <1>1 DEF Deliver, TypeOK
<1>4. QED
  BY <1>1, <1>2, <1>3 DEF Deliver, TypeOK, taskVars

LEMMA NextType == TypeOK /\ [Next]_vars => TypeOK'
<1> SUFFICES ASSUME TypeOK, [Next]_vars PROVE TypeOK'
  OBVIOUS
<1>1. CASE Navigate
  <2>1. screen + 1 \in 0..MaxScreen
    BY <1>1, SessionAssumption DEF Navigate, TypeOK
  <2>2. QED
    BY <1>1, <2>1 DEF Navigate, TypeOK, callVars, taskVars
<1>2. CASE Acknowledge \/ GoSilent \/ GoDown
  BY <1>2 DEF Acknowledge, GoSilent, GoDown, TypeOK, taskVars, uiVars
<1>3. CASE UNCHANGED vars
  BY <1>3 DEF vars, TypeOK
<1>4. QED
  BY <1>1, <1>2, <1>3, StepType, DeliverType DEF Next

\* Every reachable state is well-typed, whatever the number of threads,
\* calls and screens.
THEOREM TypeCorrect == Spec => []TypeOK
  BY InitType, NextType, PTL DEF Spec

-----------------------------------------------------------------------------
(* The lock                                                                 *)

\* A step that moves one thread, w, and leaves the lock right for it and the
\* others: it was free or w's, and it is w's if and only if w is in a call.
LEMMA LockKept ==
  ASSUME TypeOK, LockHeldInCall, NEW w \in Worker, NEW s \in Steps, Goto(w, s),
         lock \in {None, w},
         \/ s \in InCall /\ lock' = w
         \/ s \notin InCall /\ lock' = None
  PROVE  LockHeldInCall'
<1>1. \A v \in Worker \ {w} : at'[v] = at[v] /\ at[v] \notin InCall
  BY SessionAssumption DEF LockHeldInCall, Goto, TypeOK
<1>2. at'[w] = s
  BY DEF Goto, TypeOK
<1>3. QED
  BY <1>1, <1>2 DEF LockHeldInCall

\* A step that moves a thread between two places outside of its calls.
LEMMA LockAlone ==
  ASSUME TypeOK, LockHeldInCall, NEW w \in Worker, NEW s \in Steps, Goto(w, s),
         at[w] \notin InCall, s \notin InCall, lock' = lock
  PROVE  LockHeldInCall'
<1>1. \A v \in Worker : (at'[v] \in InCall <=> at[v] \in InCall)
  BY DEF Goto, TypeOK
<1>2. lock # None => lock \in Worker
  BY DEF TypeOK
<1>3. QED
  BY <1>1, <1>2 DEF LockHeldInCall

LEMMA StepLock ==
  ASSUME TypeOK, LockHeldInCall, NEW w \in Worker, Step(w) PROVE LockHeldInCall'
<1> USE DEF Steps, InCall, OnWire
<1>1. at[w] \in InCall => lock = w
  BY DEF LockHeldInCall
<1>2. CASE Start(w)
  BY <1>2, LockAlone DEF Start
<1>3. ASSUME NEW k \in Kind, Call(w, k) PROVE LockHeldInCall'
  BY <1>3, LockAlone DEF Call
<1>4. CASE Acquire(w)
  BY <1>4, LockKept DEF Acquire
<1>5. CASE Opened(w)
  BY <1>1, <1>5, LockKept DEF Opened
<1>6. CASE Started(w)
  <2> DEFINE s == IF kind[w] \in {"run", "file"} THEN "status" ELSE "output"
  <2>1. s \in InCall /\ Goto(w, s) /\ lock' = w /\ lock = w
    BY <1>1, <1>6 DEF Started
  <2>2. QED
    BY <2>1, LockKept
<1>7. CASE OutputEnds(w)
  BY <1>1, <1>7, LockKept DEF OutputEnds
<1>8. CASE Finished(w)
  BY <1>1, <1>8, LockKept DEF Finished
<1>9. CASE TimesOut(w) \/ Breaks(w)
  <2>1. at[w] \in InCall /\ Raise(w)
    BY <1>9 DEF TimesOut, Timed, Breaks
  <2>2. QED
    BY <1>1, <2>1, LockKept DEF Raise
<1>10. CASE Return(w)
  BY <1>10, LockAlone DEF Return
<1>11. CASE Report(w)
  BY <1>11, LockAlone DEF Report
<1>12. QED
  BY <1>2, <1>3, <1>4, <1>5, <1>6, <1>7, <1>8, <1>9, <1>10, <1>11 DEF Step

\* Queued threads are outside of their calls: what Deliver needs.
LEMMA QueuedOutside ==
  ASSUME TypeOK, QueuedOnce, queue # <<>>
  PROVE  Head(queue) \in Worker /\ at[Head(queue)] = "queued"
<1>1. Len(queue) \in Nat /\ 1 \in 1..Len(queue) /\ queue[1] = Head(queue) /\ queue[1] \in Worker
  BY DEF TypeOK
<1>2. QED
  BY <1>1 DEF QueuedOnce

LEMMA NextLock == TypeOK /\ QueuedOnce /\ LockHeldInCall /\ [Next]_vars => LockHeldInCall'
<1> SUFFICES ASSUME TypeOK, QueuedOnce, LockHeldInCall, [Next]_vars PROVE LockHeldInCall'
  OBVIOUS
<1>1. CASE Deliver
  <2>1. Head(queue) \in Worker /\ at[Head(queue)] = "queued"
    BY <1>1, QueuedOutside DEF Deliver
  <2>2. Goto(Head(queue), "idle") /\ lock' = lock
    BY <1>1 DEF Deliver
  <2>3. QED
    BY <2>1, <2>2, LockAlone DEF Steps, InCall, OnWire
<1>2. CASE Navigate \/ Acknowledge \/ GoSilent \/ GoDown \/ UNCHANGED vars
  BY <1>2 DEF Navigate, Acknowledge, GoSilent, GoDown, callVars, vars, LockHeldInCall
<1>3. QED
  BY <1>1, <1>2, StepLock DEF Next

-----------------------------------------------------------------------------
(* The queue                                                                *)

\* A step that moves one thread between two places outside of the queue.
LEMMA QueueKept ==
  ASSUME TypeOK, QueuedOnce, NEW w \in Worker, NEW s \in Steps, Goto(w, s),
         at[w] # "queued", s # "queued", queue' = queue
  PROVE  QueuedOnce'
<1>1. \A v \in Worker : (at'[v] = "queued" <=> at[v] = "queued")
  BY DEF Goto, TypeOK
<1>2. QED
  BY <1>1 DEF QueuedOnce

LEMMA ReportQueue ==
  ASSUME TypeOK, QueuedOnce, NEW w \in Worker, at[w] # "queued",
         queue' = Append(queue, w), Goto(w, "queued")
  PROVE  QueuedOnce'
<1>1. Len(queue) \in Nat /\ Len(queue') = Len(queue) + 1
  BY DEF TypeOK
<1>2. \A i \in 1..Len(queue) : queue'[i] = queue[i] /\ queue[i] # w
  <2>1. \A i \in 1..Len(queue) : queue[i] # w
    BY DEF QueuedOnce
  <2>2. QED
    BY <2>1 DEF TypeOK
<1>3. queue'[Len(queue) + 1] = w
  BY DEF TypeOK
<1>4. \A i, j \in 1..Len(queue') : queue'[i] = queue'[j] => i = j
  BY <1>1, <1>2, <1>3 DEF QueuedOnce
<1>5. ASSUME NEW v \in Worker
      PROVE  at'[v] = "queued" <=> \E i \in 1..Len(queue') : queue'[i] = v
  <2>1. CASE v = w
    <3>1. at'[w] = "queued"
      BY DEF Goto, TypeOK
    <3>2. QED
      BY <1>1, <1>3, <2>1, <3>1
  <2>2. CASE v # w
    <3>1. at'[v] = at[v]
      BY <2>2 DEF Goto, TypeOK
    <3>2. (\E i \in 1..Len(queue') : queue'[i] = v) <=> \E i \in 1..Len(queue) : queue[i] = v
      BY <1>1, <1>2, <1>3, <2>2
    <3>3. QED
      BY <3>1, <3>2 DEF QueuedOnce
  <2>3. QED
    BY <2>1, <2>2
<1>6. QED
  BY <1>4, <1>5 DEF QueuedOnce

LEMMA DeliverQueue == ASSUME TypeOK, QueuedOnce, Deliver PROVE QueuedOnce'
<1> DEFINE h == Head(queue)
<1>1. h \in Worker /\ at[h] = "queued"
  BY QueuedOutside DEF Deliver
<1>2. /\ Len(queue) \in Nat
      /\ Len(queue) > 0
      /\ h = queue[1]
      /\ Len(queue') = Len(queue) - 1
      /\ \A i \in 1..Len(queue') : queue'[i] = queue[i + 1]
  BY DEF Deliver, TypeOK
<1>3. \A i, j \in 1..Len(queue') : queue'[i] = queue'[j] => i = j
  <2>1. \A i \in 1..Len(queue') : i + 1 \in 1..Len(queue)
    BY <1>2
  <2> SUFFICES ASSUME NEW i \in 1..Len(queue'), NEW j \in 1..Len(queue'), queue'[i] = queue'[j]
               PROVE  i = j
    OBVIOUS
  <2>2. queue[i + 1] = queue[j + 1]
    BY <1>2
  <2>3. i + 1 = j + 1
    BY <2>1, <2>2 DEF QueuedOnce
  <2>4. QED
    BY <1>2, <2>3
<1>4. ASSUME NEW v \in Worker
      PROVE  at'[v] = "queued" <=> \E i \in 1..Len(queue') : queue'[i] = v
  <2>0. at' = [at EXCEPT ![h] = "idle"]
    BY DEF Deliver, Goto
  <2>1. CASE v = h
    <3>1. at'[v] = "idle"
      BY <1>1, <2>0, <2>1 DEF TypeOK
    <3>2. \A i \in 1..Len(queue') : queue'[i] # h
      <4> SUFFICES ASSUME NEW i \in 1..Len(queue'), queue'[i] = h PROVE FALSE
        OBVIOUS
      <4>1. queue[i + 1] = queue[1] /\ i + 1 \in 1..Len(queue) /\ 1 \in 1..Len(queue)
        BY <1>2
      <4>2. i + 1 = 1
        BY <4>1 DEF QueuedOnce
      <4>3. QED
        BY <1>2, <4>2
    <3>3. QED
      BY <2>1, <3>1, <3>2
  <2>2. CASE v # h
    <3>1. at'[v] = at[v]
      BY <2>0, <2>2 DEF TypeOK
    <3>2. ASSUME NEW i \in 1..Len(queue), queue[i] = v
          PROVE  \E j \in 1..Len(queue') : queue'[j] = v
      <4>1. i # 1
        BY <1>2, <2>2, <3>2
      <4>2. i - 1 \in 1..Len(queue') /\ (i - 1) + 1 = i
        BY <1>2, <4>1
      <4>3. queue'[i - 1] = v
        BY <1>2, <3>2, <4>2
      <4>4. QED
        BY <4>2, <4>3
    <3>3. ASSUME NEW i \in 1..Len(queue'), queue'[i] = v
          PROVE  \E j \in 1..Len(queue) : queue[j] = v
      <4>1. i + 1 \in 1..Len(queue) /\ queue[i + 1] = v
        BY <1>2, <3>3
      <4>2. QED
        BY <4>1
    <3>4. QED
      BY <3>1, <3>2, <3>3 DEF QueuedOnce
  <2>3. QED
    BY <2>1, <2>2
<1>5. QED
  BY <1>3, <1>4 DEF QueuedOnce

LEMMA StepQueue ==
  ASSUME TypeOK, QueuedOnce, NEW w \in Worker, Step(w) PROVE QueuedOnce'
<1> USE DEF Steps, InCall, OnWire, uiVars
<1>1. CASE Start(w)
  BY <1>1, QueueKept DEF Start
<1>2. ASSUME NEW k \in Kind, Call(w, k) PROVE QueuedOnce'
  BY <1>2, QueueKept DEF Call
<1>3. CASE Acquire(w) \/ Opened(w)
  BY <1>3, QueueKept DEF Acquire, Opened
<1>4. CASE Started(w)
  <2> DEFINE s == IF kind[w] \in {"run", "file"} THEN "status" ELSE "output"
  <2>1. s \in Steps /\ s # "queued" /\ at[w] # "queued" /\ Goto(w, s) /\ queue' = queue
    BY <1>4 DEF Started
  <2>2. QED
    BY <2>1, QueueKept
<1>5. CASE OutputEnds(w) \/ Finished(w)
  BY <1>5, QueueKept DEF OutputEnds, Finished
<1>6. CASE TimesOut(w) \/ Breaks(w)
  <2>1. at[w] \in InCall /\ Raise(w)
    BY <1>6 DEF TimesOut, Timed, Breaks
  <2>2. QED
    BY <2>1, QueueKept DEF Raise
<1>7. CASE Return(w)
  BY <1>7, QueueKept DEF Return
<1>8. CASE Report(w)
  <2>1. at[w] # "queued"
    BY <1>8 DEF Report
  <2>2. CASE queue' = Append(queue, w) /\ Goto(w, "queued")
    BY <2>1, <2>2, ReportQueue
  <2>3. CASE Goto(w, "idle") /\ UNCHANGED queue
    BY <2>1, <2>3, QueueKept
  <2>4. QED
    BY <1>8, <2>2, <2>3 DEF Report
<1>9. QED
  BY <1>1, <1>2, <1>3, <1>4, <1>5, <1>6, <1>7, <1>8 DEF Step

LEMMA NextQueue == TypeOK /\ QueuedOnce /\ [Next]_vars => QueuedOnce'
<1> SUFFICES ASSUME TypeOK, QueuedOnce, [Next]_vars PROVE QueuedOnce'
  OBVIOUS
<1>1. CASE Navigate \/ Acknowledge \/ GoSilent \/ GoDown \/ UNCHANGED vars
  BY <1>1 DEF Navigate, Acknowledge, GoSilent, GoDown, callVars, uiVars, vars, QueuedOnce
<1>2. QED
  BY <1>1, StepQueue, DeliverQueue DEF Next

-----------------------------------------------------------------------------
(* The theorems.  LockHeldInCall is inductive with TypeOK and QueuedOnce:    *)
(* a delivery moves a thread, and only QueuedOnce knows it is in no call.    *)

LEMMA InitSafe == Init => QueuedOnce /\ LockHeldInCall /\ AnswersStayHome
  BY DEF Init, QueuedOnce, LockHeldInCall, AnswersStayHome, InCall, OnWire

\* Every answer waits at most once in the queue, and its thread waits with it.
THEOREM QueueSafe == Spec => []QueuedOnce
  BY InitSafe, NextQueue, TypeCorrect, PTL DEF Spec

\* No timeout, dead connection or exception leaves the lock taken, and no
\* thread is in a call without it, for any number of threads.
THEOREM LockSafe == Spec => []LockHeldInCall
  BY InitSafe, NextLock, TypeCorrect, QueueSafe, PTL DEF Spec

\* However late an answer comes, only the screen that asked shows it.
THEOREM AnswersHome == Spec => []AnswersStayHome
<1>1. AnswersStayHome /\ [Next]_vars => AnswersStayHome'
  <2> SUFFICES ASSUME AnswersStayHome, [Next]_vars PROVE AnswersStayHome'
    OBVIOUS
  <2>1. CASE Deliver
    BY <2>1 DEF Deliver, AnswersStayHome
  <2>2. CASE Navigate
    BY <2>2 DEF Navigate, AnswersStayHome
  <2>3. CASE UNCHANGED <<screen, shown>>
    BY <2>3 DEF AnswersStayHome
  <2>4. CASE UNCHANGED vars
    BY <2>3, <2>4 DEF vars
  <2>5. ASSUME NEW w \in Worker, Step(w) PROVE UNCHANGED <<screen, shown>>
    BY <2>5 DEF Step, Start, Call, Acquire, Opened, Started, OutputEnds, Finished, TimesOut, Breaks,
                Raise, Return, Report, uiVars
  <2>6. CASE Acknowledge \/ GoSilent \/ GoDown
    BY <2>3, <2>6 DEF Acknowledge, GoSilent, GoDown, uiVars
  <2>7. QED
    BY <2>1, <2>2, <2>3, <2>4, <2>5, <2>6 DEF Next
<1>2. QED
  BY <1>1, InitSafe, PTL DEF Spec

-----------------------------------------------------------------------------
(* Session implements SerialRouter                                          *)

\* What the threads do, as SerialRouter sees it.
calls == [w \in Worker |-> CallOf(at[w])]

\* One thread moves; the others' calls are as they were.
LEMMA MoveCalls ==
  ASSUME TypeOK, NEW w \in Worker, NEW s \in Steps, Goto(w, s)
  PROVE  calls' = [calls EXCEPT ![w] = CallOf(s)]
<1>1. at' = [at EXCEPT ![w] = s] /\ at \in [Worker -> Steps]
  BY DEF Goto, TypeOK
<1>2. QED
  BY <1>1 DEF calls

\* One thread moves without a change of its call: a stutter.
LEMMA StutterCalls ==
  ASSUME TypeOK, NEW w \in Worker, NEW s \in Steps, Goto(w, s), CallOf(s) = CallOf(at[w])
  PROVE  UNCHANGED calls
<1>1. calls' = [calls EXCEPT ![w] = calls[w]]
  BY MoveCalls DEF calls
<1>2. QED
  BY <1>1 DEF calls

LEMMA StepSerial ==
  ASSUME TypeOK, LockHeldInCall, NEW w \in Worker, Step(w)
  PROVE  Serial!Next \/ UNCHANGED calls
<1> USE DEF Steps, InCall, OnWire, CallOf
<1>0. calls[w] = CallOf(at[w])
  BY DEF calls
<1>1. CASE Start(w)
  BY <1>1, StutterCalls DEF Start
<1>2. ASSUME NEW k \in Kind, Call(w, k) PROVE Serial!Ask(w)
  BY <1>0, <1>2, MoveCalls DEF Call, calls, Serial!Ask
<1>3. CASE Acquire(w)
  <2>1. \A v \in Worker : at[v] \notin InCall
    BY <1>3, SessionAssumption DEF Acquire, LockHeldInCall
  <2>2. \A v \in Worker : calls[v] # "served"
    BY <2>1 DEF calls
  <2>3. calls' = [calls EXCEPT ![w] = "served"] /\ calls[w] = "asked"
    BY <1>0, <1>3, MoveCalls DEF Acquire
  <2>4. Serial!Serve(w)
    BY <2>2, <2>3 DEF calls, Serial!Serve
  <2>5. QED
    BY <2>4 DEF Serial!Next
<1>4. CASE Opened(w) \/ OutputEnds(w)
  BY <1>4, StutterCalls DEF Opened, OutputEnds
<1>5. CASE Started(w)
  <2> DEFINE s == IF kind[w] \in {"run", "file"} THEN "status" ELSE "output"
  <2>1. s \in Steps /\ CallOf(s) = CallOf(at[w]) /\ Goto(w, s)
    BY <1>5 DEF Started
  <2>2. QED
    BY <2>1, StutterCalls
<1>6. CASE Finished(w) \/ TimesOut(w) \/ Breaks(w)
  <2>1. at[w] \in InCall /\ (Goto(w, "task") \/ Goto(w, "report"))
    BY <1>6 DEF Finished, TimesOut, Timed, Breaks, Raise
  <2>2. calls[w] = "served" /\ calls' = [calls EXCEPT ![w] = "none"]
    BY <1>0, <2>1, MoveCalls
  <2>3. Serial!End(w)
    BY <2>2 DEF calls, Serial!End
  <2>4. QED
    BY <2>3 DEF Serial!Next
<1>7. CASE Return(w)
  BY <1>7, StutterCalls DEF Return
<1>8. CASE Report(w)
  BY <1>8, StutterCalls DEF Report
<1>9. QED
  BY <1>1, <1>2, <1>3, <1>4, <1>5, <1>6, <1>7, <1>8 DEF Step, Serial!Next

\* The session implements the abstract serial router: with timeouts, dead
\* connections and exceptions anywhere, one thread at a time is served, and
\* only one that asked.
THEOREM SessionIsSerial == Spec => SerialCalls
<1>1. Init => Serial!Init
  BY DEF Init, Serial!Init, CallOf, InCall, OnWire
<1>2. TypeOK /\ QueuedOnce /\ LockHeldInCall /\ [Next]_vars => [Serial!Next]_calls
  <2> SUFFICES ASSUME TypeOK, QueuedOnce, LockHeldInCall, [Next]_vars
               PROVE  Serial!Next \/ UNCHANGED calls
    OBVIOUS
  <2>1. CASE Deliver
    <3>1. Head(queue) \in Worker /\ at[Head(queue)] = "queued" /\ Goto(Head(queue), "idle")
      BY <2>1, QueuedOutside DEF Deliver
    <3>2. QED
      BY <3>1, StutterCalls DEF Steps, CallOf, InCall, OnWire
  <2>2. CASE Navigate \/ Acknowledge \/ GoSilent \/ GoDown \/ UNCHANGED vars
    <3>1. UNCHANGED at
      BY <2>2 DEF Navigate, Acknowledge, GoSilent, GoDown, callVars, vars
    <3>2. QED
      BY <3>1 DEF calls
  <2>3. QED
    BY <2>1, <2>2, StepSerial DEF Next
<1>3. Spec => [][Serial!Next]_calls
  BY <1>2, TypeCorrect, QueueSafe, LockSafe, PTL DEF Spec
<1>4. QED
  BY <1>1, <1>3, PTL DEF Spec, SerialCalls, Serial!Spec, calls
=============================================================================
