----------------------------- MODULE MailTable -----------------------------
(***************************************************************************)
(* The table ae_llm_agent_mail, one row per request: which rows a           *)
(* statement selects (its WHERE clause) and what it leaves in a row it      *)
(* updates (its SET clause).  The module has no variables; the statements   *)
(* of db.py and mail_queue.py become operators from a row to a row, and     *)
(* RequestPipeline.tla applies them in the order of run.py.                 *)
(*                                                                          *)
(* A row keeps the columns the statements test or that decide what a later  *)
(* statement does:                                                          *)
(*   route, titled   route_type, and whether request_title is NOT NULL      *)
(*   status, retries status and retry_count                                 *)
(*   answer          answer_text: NULL; spaces or nothing ("blank"); other  *)
(*                   white space only ("white"); or text                    *)
(*   send            send_status                                            *)
(*   old             updated_at is further back than the stale thresholds   *)
(*                   (STALE_PROCESSING_MINUTES, MAIL_SEND_STALE_MINUTES,    *)
(*                   15 minutes both); every UPDATE resets it, because the  *)
(*                   column is ON UPDATE CURRENT_TIMESTAMP                  *)
(*                                                                          *)
(* A definition marked "Slip" is not the code: it is the operator that      *)
(* follows it as a plausible mistake would have it, kept here to show that  *)
(* a property of the runs would notice the mistake.                         *)
(***************************************************************************)
EXTENDS Integers

CONSTANT MaxRetryCount      \* MAX_RETRY_COUNT

ASSUME RetryAssumption == MaxRetryCount \in Nat \ {0}

RouteTypes    == {"UNCLASSIFIED", "API_ANALYSIS", "FILE_ARCHIVE"}
\* ABSENT: no row with this id (yet).
Statuses      == {"ABSENT", "RECEIVED", "ROUTED", "RETRY", "PROCESSING",
                  "COMPLETED", "FAILED", "IGNORED", "DUPLICATE"}
SendStatuses  == {"NOT_READY", "SEND_PENDING", "SEND_BLOCKED", "SENDING",
                  "SENT", "SEND_UNKNOWN", "SEND_DROPPED"}
Answers       == {"null", "blank", "white", "text"}

\* answer_text IS NOT NULL AND TRIM(answer_text)<>'': TRIM strips spaces only.
NonblankAnswers == {"white", "text"}

Row == [route : RouteTypes, titled : BOOLEAN, status : Statuses,
        retries : Nat, answer : Answers, send : SendStatuses, old : BOOLEAN]

\* The columns' defaults in schema.sql.
DefaultRow == [route |-> "UNCLASSIFIED", titled |-> FALSE,
               status |-> "RECEIVED", retries |-> 0, answer |-> "null",
               send |-> "NOT_READY", old |-> FALSE]

NoRow == [DefaultRow EXCEPT !.status = "ABSENT"]

----------------------------------------------------------------------------
(* Rows as they enter the table.                                            *)

\* insert_received: the classification is part of the INSERT.
ReceivedRow == [DefaultRow EXCEPT !.route = "API_ANALYSIS", !.titled = TRUE,
                                  !.status = "ROUTED"]

\* What the central collector adds besides: mail for the file archive, and
\* mail it has stored and not classified, with or without a request title.
ArchiveRow         == [DefaultRow EXCEPT !.route = "FILE_ARCHIVE",
                                         !.status = "ROUTED"]
UnclassifiedRow(t) == [DefaultRow EXCEPT !.titled = t]

\* Rows a release before routing left behind: unclassified, in any status
\* that release used, and blocked from sending once completed.
LegacyRow(s) ==
  [DefaultRow EXCEPT
     !.titled  = TRUE,
     !.status  = s,
     !.retries = IF s = "FAILED" THEN MaxRetryCount ELSE 0,
     !.answer  = IF s = "COMPLETED" THEN "text" ELSE "null",
     !.send    = IF s = "COMPLETED" THEN "SEND_BLOCKED" ELSE "NOT_READY"]

LegacyStatuses == {"RECEIVED", "RETRY", "PROCESSING", "COMPLETED", "FAILED",
                   "IGNORED", "DUPLICATE"}

----------------------------------------------------------------------------
(* The analysis queue (db.py).                                              *)

\* Slip: the route is not tested.
ApiClaimableAnyRoute(row) == row.status \in {"ROUTED", "RETRY"}

\* WHERE of claim_api_request.
ApiClaimable(row) == /\ row.route = "API_ANALYSIS"
                     /\ row.status \in {"ROUTED", "RETRY"}

\* WHERE of list_api_ready.
ApiReady(row) == /\ ApiClaimable(row)
                 /\ row.retries < MaxRetryCount

Claimed(row) == [row EXCEPT !.status = "PROCESSING", !.old = FALSE]

\* mark_completed goes through _update, whose only condition is the id.
Completed(row, answer, sendEnabled) ==
  [row EXCEPT !.status = "COMPLETED",
              !.answer = answer,
              !.send   = IF sendEnabled THEN "SEND_PENDING" ELSE "SEND_BLOCKED",
              !.old    = FALSE]

\* Slip: one attempt too many.
RetriedOneTooMany(row) ==
  [row EXCEPT !.status  = IF row.retries + 1 > MaxRetryCount
                          THEN "FAILED" ELSE "RETRY",
              !.retries = @ + 1]

\* mark_retry tests the route but not the status.
Retried(row) ==
  IF row.route = "API_ANALYSIS"
  THEN [row EXCEPT !.status  = IF row.retries + 1 >= MaxRetryCount
                               THEN "FAILED" ELSE "RETRY",
                   !.retries = @ + 1,
                   !.old     = FALSE]
  ELSE row

\* Slips: the status of the row is not tested; no recovery.
RecoveredAnyStatus(row) ==
  IF row.route = "API_ANALYSIS" /\ row.old
  THEN [row EXCEPT !.status = "RETRY", !.old = FALSE] ELSE row

RecoveredNever(row) == row

\* recover_incomplete_requests, for one row: no retry is counted.
Recovered(row) ==
  IF /\ row.route = "API_ANALYSIS"
     /\ row.status = "PROCESSING"
     /\ row.old
     /\ row.retries < MaxRetryCount
  THEN [row EXCEPT !.status = "RETRY", !.old = FALSE]
  ELSE row

\* _backfill_legacy_api_routes, for one row: status is left as it was.
Backfilled(row) ==
  IF row.status # "ABSENT" /\ row.route = "UNCLASSIFIED" /\ row.titled
  THEN [row EXCEPT !.route = "API_ANALYSIS", !.old = FALSE]
  ELSE row

----------------------------------------------------------------------------
(* The mail queue (mail_queue.py).                                          *)

\* Slip: the statuses to leave out instead of those to take.
SendReadyUnlessHeld == SendStatuses \ {"NOT_READY", "SEND_DROPPED", "SEND_UNKNOWN"}

SEND_READY_STATUSES == {"SEND_BLOCKED", "SEND_PENDING"}

\* WHERE of list_send_ready and of claim_send.
SendReady(row) == /\ row.route = "API_ANALYSIS"
                  /\ row.status = "COMPLETED"
                  /\ row.send \in SEND_READY_STATUSES
                  /\ row.answer \in NonblankAnswers

SendClaimed(row) == [row EXCEPT !.send = "SENDING", !.old = FALSE]

\* Slip: the row is updated by its id alone.
SendMarkedBlindly(row, outcome) == [row EXCEPT !.send = outcome, !.old = FALSE]

\* mark_sent, mark_send_failed and mark_send_unknown share their WHERE.
SendMarked(row, outcome) ==
  IF row.send = "SENDING"
  THEN [row EXCEPT !.send = outcome, !.old = FALSE]
  ELSE row

\* Slips: no recovery; a status the queue does not know; back into the queue.
SendRecoveredNever(row) == row

SendRecoveredAsFailed(row) ==
  IF row.send = "SENDING" /\ row.old
  THEN [row EXCEPT !.send = "SEND_FAILED", !.old = FALSE] ELSE row

SendRecoveredToQueue(row) ==
  IF row.send = "SENDING" /\ row.old
  THEN [row EXCEPT !.send = "SEND_BLOCKED", !.old = FALSE] ELSE row

\* recover_stale_sending, for one row.
SendRecovered(row) ==
  IF row.send = "SENDING" /\ row.old
  THEN [row EXCEPT !.send = "SEND_UNKNOWN", !.old = FALSE]
  ELSE row

=============================================================================
