------------------------------ MODULE Scheduler ------------------------------
(***************************************************************************)
(* main of run_pipeline.py: one process of the hourly schedule.  It starts  *)
(* run after run in the active window, waits between them, rests until the  *)
(* shutdown deadline and ends; a stop signal ends it earlier.               *)
(*                                                                          *)
(* Time is counted in ticks since started_at.  Tests and assignments take   *)
(* no time; time passes in a run and in a wait.                             *)
(***************************************************************************)
EXTENDS Integers

CONSTANTS
  ACTIVE_WINDOW,   \* PIPELINE_ACTIVE_WINDOW_SECONDS, in ticks
  REST_WINDOW,     \* PIPELINE_REST_WINDOW_SECONDS
  POLL,            \* PIPELINE_POLL_SECONDS
  LongestRun,      \* bound: the longest a run may take
  SignalComes,     \* whether a stop signal may come
  SignalInLock     \* whether it may come while wait() holds its lock

\* _validate_timing.
ASSUME SchedulerAssumption ==
  /\ ACTIVE_WINDOW \in Nat \ {0} /\ REST_WINDOW \in Nat /\ POLL \in Nat \ {0}
  /\ LongestRun \in Nat
  /\ SignalComes \in BOOLEAN /\ SignalInLock \in BOOLEAN

VARIABLES
  now,      \* time.monotonic() - started_at
  pc,       \* where main is
  until,    \* when the current wait times out
  stop,     \* stop_event
  began,    \* when the last run began
  ended,    \* when the last run ended, -1 before the first
  stopped,  \* when the stop signal came, -1 if it has not
  late      \* runs begun after the stop signal

vars == <<now, pc, until, stop, began, ended, stopped, late>>

active_deadline   == ACTIVE_WINDOW
shutdown_deadline == ACTIVE_WINDOW + REST_WINDOW

Waits  == {"poll", "rest"}
\* threading.Event.wait takes the event's lock, then lets it go and sleeps.
Locked == {"poll_locked", "rest_locked"}

Init == /\ now = 0 /\ pc = "while" /\ until = 0 /\ stop = FALSE
        /\ began = 0 /\ ended = -1 /\ stopped = -1 /\ late = 0

Latest(a, b)   == IF a > b THEN a ELSE b
Earliest(a, b) == IF a < b THEN a ELSE b

----------------------------------------------------------------------------
Goto(step) == pc' = step /\ UNCHANGED <<now, stop, stopped>>

\* The head of the loop: an iteration, or out of it.
While ==
  /\ pc = "while"
  /\ Goto(IF stop \/ active_deadline - now <= 0 THEN "leave" ELSE "start")
  /\ UNCHANGED <<until, began, ended, late>>

RunOnce == /\ pc = "start" /\ Goto("run_once")
           /\ began' = now
           /\ late' = IF stop THEN late + 1 ELSE late
           /\ UNCHANGED <<until, ended>>

\* The run returns, or raises an exception that is only logged.
RunEnds == /\ pc = "run_once" /\ Goto("after_run")
           /\ ended' = now
           /\ UNCHANGED <<until, began, late>>

\* Slip: the next run begins at once.
AfterRunAtOnce ==
  /\ pc = "after_run" /\ Goto("while")
  /\ UNCHANGED <<until, began, ended, late>>

AfterRun ==
  /\ pc = "after_run"
  /\ IF active_deadline - now <= 0 \/ stop
     THEN Goto("leave") /\ UNCHANGED until
     ELSE /\ Goto("poll_locked")
          /\ until' = now + Earliest(POLL, active_deadline - now)
  /\ UNCHANGED <<began, ended, late>>

\* Slip: the whole rest window, however long the last run took.
RestAlways == now + REST_WINDOW

RestUntil == now + Latest(0, shutdown_deadline - now)

Leave ==
  /\ pc = "leave"
  /\ IF stop THEN Goto("finished") /\ UNCHANGED until
             ELSE Goto("rest_locked") /\ until' = RestUntil
  /\ UNCHANGED <<began, ended, late>>

Sleep ==
  /\ pc \in Locked
  /\ Goto(IF pc = "poll_locked" THEN "poll" ELSE "rest")
  /\ UNCHANGED <<until, began, ended, late>>

\* Slip: time.sleep in place of the event.
OverOnTime == now >= until

\* stop_event.wait(seconds) returns.
WaitOver == now >= until \/ stop

\* Slip: wait() without its timeout.
WakeOnStop ==
  /\ pc \in Waits /\ stop
  /\ Goto(IF pc = "poll" THEN "while" ELSE "finished")
  /\ UNCHANGED <<until, began, ended, late>>

Wake ==
  /\ pc \in Waits /\ WaitOver
  /\ Goto(IF pc = "poll" THEN "while" ELSE "finished")
  /\ UNCHANGED <<until, began, ended, late>>

Step == While \/ RunOnce \/ RunEnds \/ AfterRun \/ Leave \/ Sleep \/ Wake

\* Time passes over a run, no longer than the bound, and over a wait that
\* nothing has ended.
Tick ==
  /\ \/ pc = "run_once" /\ now - began < LongestRun
     \/ pc \in Waits /\ ~WaitOver
  /\ now' = now + 1
  /\ UNCHANGED <<pc, until, stop, began, ended, stopped, late>>

\* The handler runs in the main thread, between two of its steps, and sets
\* the event.  set() takes the event's lock, which is not reentrant: called
\* within the part of wait() that holds it, it never returns.
StopSignal ==
  /\ SignalComes /\ ~stop /\ pc \notin {"finished", "stuck"}
  /\ \/ /\ pc \notin Locked
        /\ stop' = TRUE /\ stopped' = now /\ UNCHANGED pc
     \/ /\ pc \in Locked /\ SignalInLock
        /\ pc' = "stuck" /\ UNCHANGED <<stop, stopped>>
  /\ UNCHANGED <<now, until, began, ended, late>>

Next == Step \/ Tick \/ StopSignal

Spec == Init /\ [][Next]_vars

\* The process is not suspended for ever, and a run ends (its calls have
\* timeouts and its queue is finite; the bound is LongestRun).
FairSpec == Spec /\ WF_vars(Step) /\ WF_vars(Tick)

----------------------------------------------------------------------------
(* Properties.                                                              *)

\* The type of every variable.
TypeOK ==
  /\ now \in 0..(ACTIVE_WINDOW + Latest(LongestRun, REST_WINDOW))
  /\ pc \in {"while", "start", "run_once", "after_run", "leave", "finished",
             "stuck"} \cup Waits \cup Locked
  /\ until \in Nat /\ began \in Nat /\ late \in Nat
  /\ stop \in BOOLEAN
  /\ ended \in Nat \cup {-1} /\ stopped \in Nat \cup {-1}

\* README, "실행" 4 and 5: a process that is not stopped ends at the shutdown
\* deadline, neither sooner nor later, and at once after a last run that took
\* even longer.
EndsOnTime ==
  pc = "finished" /\ ~stop => now = Latest(shutdown_deadline, ended)

\* A stop signal is obeyed as soon as the run in hand is over: no wait and no
\* rest is sat out, and at most one run, the one about to begin, still starts.
StopsPromptly ==
  /\ late <= 1
  /\ pc = "finished" /\ stop => now <= Latest(stopped, ended)

\* README, "실행" 1 to 3: runs begin in the active window only, the first at
\* once and each one a poll interval after the end of the one before.
PollsInWindow ==
  [][pc' = "run_once" /\ pc # "run_once" =>
       /\ now < active_deadline
       /\ began' = (IF ended = -1 THEN 0 ELSE ended + POLL)]_vars

\* README, "실행": the process ends, whatever the runs took and whenever a
\* signal comes.
ProcessEnds == <>(pc = "finished")

\* Comment at run_pipeline.py:93: the rest is shortened so that the whole
\* process finishes within the two windows.
FinishesWithinWindows == pc = "finished" => now <= shutdown_deadline
==============================================================================
