----------------------------- MODULE MCScheduler -----------------------------
(***************************************************************************)
(* Scheduler.tla with windows of a few ticks.                               *)
(***************************************************************************)
EXTENDS Scheduler

MCActive == 7
MCRest   == 3
MCPoll   == 2
==============================================================================
