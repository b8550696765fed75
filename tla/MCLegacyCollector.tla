-------------------------- MODULE MCLegacyCollector --------------------------
(***************************************************************************)
(* Small instances of LegacyCollector.tla for TLC.                          *)
(***************************************************************************)
EXTENDS LegacyCollector

CONSTANTS w1, w2

MCWorkers  == {w1, w2}
MCWorker   == {w1}

\* UIDLs the column tells apart; and two that differ in case only.
MCDistinct == [m \in Mails |-> m]
MCSameCase == [m \in Mails |-> 0]

MCFaults   == FaultKinds
MCNoFaults == {}
==============================================================================
