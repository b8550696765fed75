-------------------------- MODULE MCRequestPipeline --------------------------
(***************************************************************************)
(* Small instances of RequestPipeline.tla, with RequestRefinement.tla, for  *)
(* TLC.                                                                     *)
(***************************************************************************)
EXTENDS RequestRefinement

CONSTANTS w1, w2

MCBothWorkers == {w1, w2}
MCWorker      == {w1}

\* Two workers with the same settings are interchangeable (safety runs only).
MCSymmetry == Permutations(MCBothWorkers)

MCRequests    == {ReceivedRow}
MCAllArrivals == {ReceivedRow, ArchiveRow, UnclassifiedRow(TRUE),
                  UnclassifiedRow(FALSE)}
MCNoLegacy    == {}

\* What the analysis API may answer.
MCTextOrWhite == {"text", "white"}
MCBlank       == {"blank"}

\* Failures of the database: every call, before or after its commit.
MCDatabaseFaults == DbCalls \ {"mark_completed", "mark_sent"}

\* What the environment may do besides, under the lock.
MCSafeFaults == MCDatabaseFaults \cup
  {"collect_legacy_pop3_mail", "analyze_request", "rejected", "lost_request",
   "lost_reply", "crash", "slow"}

\* The lock may be lost under a run, as long as no run is slower than the
\* stale thresholds.
MCLocklessFaults == {"lock_drop", "crash", "lost_reply", "rejected",
                     "analyze_request", "mark_retry", "claim_send",
                     "claim_api_request", "mark_send_failed"}

\* A row that an older release has left.
MCLegacyReceived == {"RECEIVED"}

\* One failure on its own.
MCMarkSentFails == {"mark_sent"}
MCBrokenReply   == {"broken_reply"}
MCLockDrop      == {"lock_drop"}
MCCrash         == {"crash"}
MCNoFaults      == {}
=============================================================================
