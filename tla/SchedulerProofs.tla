--------------------------- MODULE SchedulerProofs ---------------------------
(***************************************************************************)
(* Theorems about Scheduler.tla, for windows, poll intervals and runs of    *)
(* any length.                                                              *)
(***************************************************************************)
EXTENDS Scheduler, TLAPS

\* The type of every variable, without the bound on the clock.
Typed ==
  /\ now \in Nat
  /\ pc \in {"while", "start", "run_once", "after_run", "leave", "finished",
             "stuck"} \cup Waits \cup Locked
  /\ until \in Nat /\ began \in Nat /\ late \in Nat
  /\ stop \in BOOLEAN
  /\ ended \in Nat \cup {-1} /\ stopped \in Nat \cup {-1}

Polls == {"poll_locked", "poll"}
Rests == {"rest_locked", "rest"}

\* What the clock shows at each step.  Outside a run it is at the end of the
\* last one or has not passed the active window; the waits have their end.
OnTime ==
  /\ ended <= now
  /\ now <= ACTIVE_WINDOW + Latest(LongestRun, REST_WINDOW)
  /\ pc = "start" => now < ACTIVE_WINDOW
  /\ pc = "run_once" => /\ began < ACTIVE_WINDOW
                        /\ began <= now /\ now <= began + LongestRun
  /\ pc = "after_run" => now = ended
  /\ pc \in {"while", "after_run", "leave"} =>
       /\ now = ended \/ now <= ACTIVE_WINDOW
       /\ now <= ACTIVE_WINDOW + LongestRun
  /\ pc = "leave" => stop \/ now >= ACTIVE_WINDOW
  /\ pc \in Polls => /\ ended # -1
                     /\ now <= until
                     /\ until = Earliest(ended + POLL, ACTIVE_WINDOW)
  /\ pc \in Rests => /\ now <= until
                     /\ until = Latest(shutdown_deadline, ended)
  /\ ended <= ACTIVE_WINDOW + LongestRun

\* A run that is about to begin begins a poll interval after the last one.
NextRunInTime ==
  \/ pc = "start"
  \/ pc = "while" /\ ~stop /\ now < ACTIVE_WINDOW
  => now = IF ended = -1 THEN 0 ELSE ended + POLL

\* Once the signal has come, time passes in the run in hand only.
StopInTime ==
  /\ stop => stopped \in Nat
  /\ stop /\ pc # "run_once" => now <= Latest(stopped, ended)
  /\ late = 0 \/ /\ late = 1 /\ stop
                 /\ pc \in {"run_once", "after_run", "leave", "finished"}

Inv == Typed /\ OnTime /\ NextRunInTime /\ StopInTime /\ EndsOnTime

LEMMA SchedulerInit == Init => Inv
<1> SUFFICES ASSUME Init PROVE Inv
  OBVIOUS
<1> USE SchedulerAssumption DEF Init
<1>1. Typed
  BY DEF Typed
<1>2. OnTime
  BY DEF OnTime, Polls, Rests, Latest
<1>3. NextRunInTime
  BY DEF NextRunInTime
<1>4. StopInTime /\ EndsOnTime
  BY DEF StopInTime, EndsOnTime
<1> QED
  BY <1>1, <1>2, <1>3, <1>4 DEF Inv

LEMMA SchedulerStep == Inv /\ [Next]_vars => Inv'
<1> SUFFICES ASSUME Inv, [Next]_vars PROVE Inv'
  OBVIOUS
<1> USE SchedulerAssumption
    DEF Inv, Typed, OnTime, NextRunInTime, StopInTime, EndsOnTime, Waits,
        Locked, Polls, Rests, Latest, Earliest, active_deadline,
        shutdown_deadline
<1>1. CASE While
  BY <1>1 DEF While, Goto
<1>2. CASE RunOnce
  BY <1>2 DEF RunOnce, Goto
<1>3. CASE RunEnds
  BY <1>3 DEF RunEnds, Goto
<1>4. CASE AfterRun
  BY <1>4 DEF AfterRun, Goto
<1>5. CASE Leave
  <2>1. CASE stop
    BY <1>5, <2>1 DEF Leave, Goto, RestUntil
  <2>2. CASE ~stop
    <3>1. /\ now >= ACTIVE_WINDOW /\ ended \in Int
          /\ now = ended \/ now = ACTIVE_WINDOW
      BY <1>5, <2>2 DEF Leave
    <3>2. /\ pc' = "rest_locked" /\ until' = RestUntil
          /\ UNCHANGED <<now, stop, stopped, began, ended, late>>
      BY <1>5, <2>2 DEF Leave, Goto
    <3>3. now <= until' /\ until' = Latest(shutdown_deadline, ended)
      BY <3>1, <3>2 DEF RestUntil
    <3> QED
      BY <2>2, <3>1, <3>2, <3>3
  <2> QED
    BY <2>1, <2>2
<1>6. CASE Sleep
  BY <1>6 DEF Sleep, Goto
<1>7. CASE Wake
  BY <1>7 DEF Wake, WaitOver, Goto
<1>8. CASE Tick
  <2>1. CASE pc = "run_once" /\ now - began < LongestRun
    BY <1>8, <2>1 DEF Tick
  <2>2. CASE pc \in Waits /\ ~WaitOver
    BY <1>8, <2>2 DEF Tick, WaitOver
  <2> QED
    BY <1>8, <2>1, <2>2 DEF Tick
<1>9. CASE StopSignal
  <2>1. CASE pc \notin Locked
    <3>1. /\ stop' = TRUE /\ stopped' = now /\ late = 0 /\ ~stop
          /\ UNCHANGED <<now, pc, until, began, ended, late>>
      BY <1>9, <2>1 DEF StopSignal
    <3> QED
      BY <3>1
  <2>2. CASE pc \in Locked
    BY <1>9, <2>2 DEF StopSignal
  <2> QED
    BY <2>1, <2>2
<1>10. CASE UNCHANGED vars
  BY <1>10 DEF vars
<1> QED
  BY <1>1, <1>2, <1>3, <1>4, <1>5, <1>6, <1>7, <1>8, <1>9, <1>10
     DEF Next, Step

THEOREM SchedulerInv == Spec => []Inv
<1> QED
  BY SchedulerInit, SchedulerStep, PTL DEF Spec

\* Every variable keeps its type, and the clock of a process never passes the
\* two windows by more than its longest run exceeds the rest.
THEOREM SchedulerType == Spec => []TypeOK
<1>1. Inv => TypeOK
  BY SchedulerAssumption
     DEF Inv, Typed, OnTime, TypeOK, Latest
<1> QED
  BY <1>1, SchedulerInv, PTL

\* A process that is not stopped ends at the shutdown deadline (main): the
\* rest makes up for a last run that outlasted the active window.
THEOREM SchedulerEndsOnTime == Spec => []EndsOnTime
<1>1. Inv => EndsOnTime
  BY DEF Inv
<1> QED
  BY <1>1, SchedulerInv, PTL

\* A stop signal (_handle_stop_signal) ends every wait, and at most one more
\* run begins after it.
THEOREM SchedulerStopsPromptly == Spec => []StopsPromptly
<1>1. Inv => StopsPromptly
  BY DEF Inv, StopInTime, Typed, StopsPromptly
<1> QED
  BY <1>1, SchedulerInv, PTL

\* The first run begins at once, every other one a poll interval after the one
\* before, and none outside the active window.
THEOREM SchedulerPolls == Spec => PollsInWindow
<1>1. Inv /\ [Next]_vars =>
        [pc' = "run_once" /\ pc # "run_once" =>
           /\ now < active_deadline
           /\ began' = (IF ended = -1 THEN 0 ELSE ended + POLL)]_vars
  <2> SUFFICES ASSUME Inv, Next, pc' = "run_once", pc # "run_once"
               PROVE  /\ now < active_deadline
                      /\ began' = (IF ended = -1 THEN 0 ELSE ended + POLL)
    OBVIOUS
  <2>1. RunOnce
    BY DEF Next, Step, While, RunEnds, AfterRun, Leave, Sleep, Wake, Tick,
           StopSignal, Goto, Waits, Locked
  <2> QED
    BY <2>1 DEF RunOnce, Inv, OnTime, NextRunInTime, active_deadline
<1> QED
  BY <1>1, SchedulerInv, PTL DEF Spec, PollsInWindow
==============================================================================
