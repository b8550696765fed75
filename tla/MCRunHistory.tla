---------------------------- MODULE MCRunHistory ----------------------------
(***************************************************************************)
(* Small instances of RunHistory.tla for TLC.                               *)
(***************************************************************************)
EXTENDS RunHistory

CONSTANTS w1, w2

MCBothWorkers == {w1, w2}
MCWorker      == {w1}
MCRequests    == {ReceivedRow}
MCNoLegacy    == {}
MCLegacyBlocked == {"COMPLETED"}
MCTextOrBlank == {"text", "blank"}
MCTextOrWhite == {"text", "white"}
MCLegacyOpen  == {"RETRY", "PROCESSING"}

MCRunFaults == {"crash", "lost_reply", "mark_retry"}
MCNoFaults  == {}
=============================================================================
