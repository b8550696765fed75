-------------------------- MODULE RequestRefinement --------------------------
(***************************************************************************)
(* RequestPipeline.tla implements RequestLifecycle.tla: what a requester    *)
(* can tell from a row and from the mails delivered for it.                 *)
(***************************************************************************)
EXTENDS RequestPipeline

\* The rows of other routes are nobody's request, nor are rows in statuses
\* that no listing and no recovery looks at.
StageOf(row) ==
  IF Backfilled(row).route # "API_ANALYSIS" THEN "none"
  ELSE CASE row.status \in {"ROUTED", "RETRY"} -> "queued"
         [] row.status = "PROCESSING"          -> "running"
         [] row.status = "FAILED"              -> "failed"
         [] row.status = "COMPLETED" ->
              CASE row.send \in SEND_READY_STATUSES -> "ready"
                [] row.send = "SENDING"             -> "sending"
                [] row.send = "SENT"                -> "sent"
                [] row.send = "SEND_UNKNOWN"        -> "in_doubt"
                [] row.send = "SEND_DROPPED"        -> "dropped"
                [] OTHER                            -> "none"
         [] OTHER                              -> "none"

LifeOf(row, delivered, permitted) ==
  [stage   |-> StageOf(row),
   tries   |-> row.retries,
   mails   |-> delivered,
   permits |-> permitted]

Lifecycle == INSTANCE RequestLifecycle
  WITH Requests <- Ids,
       life <- [r \in Ids |-> LifeOf(rows[r], mails[r], reopened[r])]

\* The run keeps the promise of the lifecycle, step by step: whatever process
\* dies, whatever call fails and whatever the operator does meanwhile, every
\* step of a run is a move of the lifecycle for each request, or none.
KeepsPromise == Lifecycle!Spec

==============================================================================
