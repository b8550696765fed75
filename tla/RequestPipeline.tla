--------------------------- MODULE RequestPipeline ---------------------------
(***************************************************************************)
(* The run of request_pipeline/run.py: one or more processes ("workers")    *)
(* take the MySQL advisory lock, recover what an interrupted run left,      *)
(* collect mail, send the mail that is still queued, and take requests      *)
(* through analysis and delivery one row at a time.  Every step of a        *)
(* worker is one call that leaves the process: a database statement with    *)
(* its commit, the analysis, or the Knox mail request; pc holds the name    *)
(* of the function the worker is about to call.                             *)
(*                                                                          *)
(* Around the workers stand the clock (rows grow old), crashes, the loss    *)
(* of the idle connection that holds the lock, calls that fail before or    *)
(* after they took effect, the central collector and the operator.          *)
(*                                                                          *)
(* As in MailTable.tla, a definition marked "Slip" is the one after it with *)
(* a plausible mistake, for a property to notice.                           *)
(***************************************************************************)
EXTENDS MailTable, FiniteSets, SequencesExt

CONSTANTS
  RowCount,           \* bound: ids the table may give out
  Workers,            \* processes that may run the pipeline
  NoWorker,           \* the lock's holder when nobody holds it
  MailSendEnabled,    \* workers whose settings say MAIL_SEND_ENABLED=true
  MaxAnalysisPerRun,  \* MAX_ANALYSIS_PER_RUN, the batch of list_api_ready
  MailSendBatchSize,  \* MAIL_SEND_BATCH_SIZE, the batch of list_send_ready
  Legacy,             \* statuses of the rows an older release may have left
  Arrivals,           \* rows the central collector may add
  Unanswerable,       \* requests whose analysis always fails
  ApiAnswers,         \* answers the analysis API may give
  Undeliverable,      \* requests whose recipient is always refused
  Faults,             \* kinds of failure that may happen
  MaxFaults,          \* bound: failures in one behaviour
  MaxReopens          \* bound: manual resets to SEND_PENDING or SEND_BLOCKED

Ids == 1..RowCount

\* A failing call of a database function carries that function's name.
DbCalls == {"ensure_schema", "recover_incomplete_requests", "insert_received",
            "recover_stale_sending", "list_send_ready", "claim_send",
            "mark_sent", "mark_send_failed", "mark_send_unknown",
            "list_api_ready", "claim_api_request", "mark_completed",
            "mark_retry"}

FaultKinds == DbCalls \cup
  {"collect_legacy_pop3_mail",   \* POP3 unreachable, or a mail not parsed
   "analyze_request",            \* the analysis call, or its profile, fails
   "rejected",                   \* Knox refuses the mail
   "lost_request",               \* no connection: nothing reaches Knox
   "lost_reply",                 \* Knox delivers, the reply times out
   "broken_reply",               \* Knox delivers, the reply is not readable
   "crash", "lock_drop", "slow"}

ASSUME PipelineAssumption ==
  /\ RowCount \in Nat
  /\ IsFiniteSet(Workers) /\ NoWorker \notin Workers
  /\ MailSendEnabled \subseteq Workers
  /\ MaxAnalysisPerRun \in Nat \ {0} /\ MailSendBatchSize \in Nat \ {0}
  /\ Legacy \subseteq LegacyStatuses
  /\ Arrivals \subseteq {ReceivedRow, ArchiveRow, UnclassifiedRow(TRUE),
                         UnclassifiedRow(FALSE)}
  /\ ApiAnswers \subseteq Answers
  /\ Unanswerable \subseteq Ids /\ Undeliverable \subseteq Ids
  /\ Faults \subseteq FaultKinds /\ MaxFaults \in Nat
  /\ MaxReopens \in Nat

VARIABLES
  rows,      \* the table: Ids -> Row
  lock,      \* the worker that holds the advisory lock
  pc,        \* the function each worker is about to call
  job,       \* the request_id each worker has in hand, 0 for none
  local,     \* the other local variables of the loops of each worker
  mails,     \* how many times Knox has delivered the mail of a request
  reopened,  \* how many times the operator has put a request's mail back
  faults     \* failures so far

vars == <<rows, lock, pc, job, local, mails, reopened, faults>>

Steps == DbCalls \cup {"idle", "collect_legacy_pop3_mail", "analyze_request",
                       "send_analysis_mail", "send_completed_request",
                       "release_lock"}

\* phase: inside process_pending_send or process_api_queue; batch: the
\* listed rows still to do; full: the listing filled the batch; cursor:
\* after_id; answer: the analysis result on its way to mark_completed.
Local == [phase : {"backlog", "queue"}, batch : Seq(Ids), full : BOOLEAN,
          cursor : Nat, answer : Answers]

FreshLocal(phase) == [phase |-> phase, batch |-> <<>>, full |-> FALSE,
                      cursor |-> 0, answer |-> "null"]

Init ==
  /\ rows \in [Ids -> {NoRow} \cup {LegacyRow(s) : s \in Legacy}]
  /\ lock = NoWorker
  /\ pc = [w \in Workers |-> "idle"]
  /\ job = [w \in Workers |-> 0]
  /\ local = [w \in Workers |-> FreshLocal("backlog")]
  /\ mails = [r \in Ids |-> 0]
  /\ reopened = [r \in Ids |-> 0]
  /\ faults = 0

----------------------------------------------------------------------------
(* Failures, and where a worker goes next.                                  *)

Fault(kind) == /\ kind \in Faults
               /\ faults < MaxFaults
               /\ faults' = faults + 1

NoFault == UNCHANGED faults

\* One statement and its commit: it takes effect and the caller goes on, or
\* the caller gets an exception, and then the statement may or may not have
\* taken effect (the acknowledgement of the commit can be what was lost).
Statement(name, table, goOn, raise) ==
  \/ rows' = table /\ NoFault /\ goOn
  \/ rows' \in {table, rows} /\ Fault(name) /\ raise

Query(name, goOn, raise) ==
  /\ UNCHANGED rows
  /\ \/ NoFault /\ goOn
     \/ Fault(name) /\ raise

Goto(w, step) == /\ pc' = [pc EXCEPT ![w] = step]
                 /\ UNCHANGED <<job, local>>

EnterPhase(w, phase, step) ==
  /\ pc' = [pc EXCEPT ![w] = step]
  /\ job' = [job EXCEPT ![w] = 0]
  /\ local' = [local EXCEPT ![w] = FreshLocal(phase)]

\* The run is over: main leaves the with-block of pipeline_lock.
EndRun(w) == EnterPhase(w, "backlog", "release_lock")

ListStep(phase)  == IF phase = "backlog" THEN "list_send_ready"
                                         ELSE "list_api_ready"
ClaimStep(phase) == IF phase = "backlog" THEN "claim_send"
                                         ELSE "claim_api_request"

\* Slip: the cursor stays where it is.
NextRowNoCursor(w, l) ==
  /\ l.batch # <<>>
  /\ pc' = [pc EXCEPT ![w] = ClaimStep(l.phase)]
  /\ job' = [job EXCEPT ![w] = Head(l.batch)]
  /\ local' = [local EXCEPT ![w] = [l EXCEPT !.batch = Tail(l.batch)]]

\* The loops of process_pending_send and process_api_queue, with l the
\* locals: take the next row of the batch,
NextRow(w, l) ==
  /\ l.batch # <<>>
  /\ pc' = [pc EXCEPT ![w] = ClaimStep(l.phase)]
  /\ job' = [job EXCEPT ![w] = Head(l.batch)]
  /\ local' = [local EXCEPT ![w] =
       [l EXCEPT !.batch = Tail(l.batch),
                 !.cursor = IF l.phase = "backlog" /\ Head(l.batch) > l.cursor
                            THEN Head(l.batch) ELSE l.cursor]]

\* or list another batch after one that was full,
NextBatch(w, l) ==
  /\ l.batch = <<>> /\ l.full
  /\ pc' = [pc EXCEPT ![w] = ListStep(l.phase)]
  /\ job' = [job EXCEPT ![w] = 0]
  /\ local' = [local EXCEPT ![w] = [l EXCEPT !.full = FALSE]]

\* or leave the loop.
LoopDone(w, l) ==
  /\ l.batch = <<>> /\ ~l.full
  /\ \/ l.phase = "backlog" /\ EnterPhase(w, "queue", "list_api_ready")
     \/ l.phase = "queue" /\ EndRun(w)

Continue(w, l) == NextRow(w, l) \/ NextBatch(w, l) \/ LoopDone(w, l)

\* SELECT ... ORDER BY key LIMIT limit over the ids in S: in order, without
\* repetition, and what is left out comes after all of a full batch.
FirstRows(S, limit, key) ==
  {b \in SeqOf(S, limit) :
     /\ \A i, j \in 1..Len(b) : i < j => key[b[i]] < key[b[j]]
     /\ \A r \in S \ {b[i] : i \in 1..Len(b)} :
          Len(b) = limit /\ \A i \in 1..Len(b) : key[b[i]] < key[r]}

ById == [r \in Ids |-> r]

RetryFirst == [r \in Ids |-> IF rows[r].status = "RETRY" THEN r
                                                         ELSE r + RowCount]

----------------------------------------------------------------------------
(* One worker's run, in the order of main and _run_once.                    *)

\* Slip: the result of GET_LOCK is not looked at.
AcquireLockAnyway(w) ==
  /\ pc[w] = "idle"
  /\ lock' = w
  /\ Goto(w, "ensure_schema")
  /\ UNCHANGED <<rows, mails, reopened, faults>>

\* An attempt that finds the lock taken ends the run at once and changes
\* nothing: it is a stuttering step.
AcquireLock(w) ==
  /\ pc[w] = "idle"
  /\ lock = NoWorker
  /\ lock' = w
  /\ Goto(w, "ensure_schema")
  /\ UNCHANGED <<rows, mails, reopened, faults>>

EnsureSchema(w) ==
  /\ pc[w] = "ensure_schema"
  /\ Statement("ensure_schema", [r \in Ids |-> Backfilled(rows[r])],
               Goto(w, "recover_incomplete_requests"), EndRun(w))
  /\ UNCHANGED <<lock, mails, reopened>>

RecoverIncompleteRequests(w) ==
  /\ pc[w] = "recover_incomplete_requests"
  /\ Statement("recover_incomplete_requests",
               [r \in Ids |-> Recovered(rows[r])],
               Goto(w, "collect_legacy_pop3_mail"), EndRun(w))
  /\ UNCHANGED <<lock, mails, reopened>>

\* Collection is switched off, or it has seen the whole mailbox, or it fails;
\* process_pending_send returns at once when sending is switched off.
CollectLegacyMail(w) ==
  /\ pc[w] = "collect_legacy_pop3_mail"
  /\ Query("collect_legacy_pop3_mail",
           IF w \in MailSendEnabled
           THEN Goto(w, "recover_stale_sending")
           ELSE EnterPhase(w, "queue", "list_api_ready"),
           EndRun(w))
  /\ UNCHANGED <<lock, mails, reopened>>

\* One new mail.  An id is given out at the INSERT and seen at its commit,
\* and a failed INSERT leaves a gap, so any absent id may be the next.
InsertReceived(w) ==
  /\ pc[w] = "collect_legacy_pop3_mail"
  /\ \E r \in Ids :
       /\ rows[r] = NoRow
       /\ Statement("insert_received", [rows EXCEPT ![r] = ReceivedRow],
                    UNCHANGED <<pc, job, local>>, EndRun(w))
  /\ UNCHANGED <<lock, mails, reopened>>

RecoverStaleSending(w) ==
  /\ pc[w] = "recover_stale_sending"
  /\ Statement("recover_stale_sending",
               [r \in Ids |-> SendRecovered(rows[r])],
               Goto(w, "list_send_ready"), EndRun(w))
  /\ UNCHANGED <<lock, mails, reopened>>

----------------------------------------------------------------------------
(* The mail queue: process_pending_send and _send_row.                      *)

SendQueueAfter(id) == {r \in Ids : SendReady(rows[r]) /\ r > id}

ListSendReady(w) ==
  /\ pc[w] = "list_send_ready"
  /\ \E b \in FirstRows(SendQueueAfter(local[w].cursor), MailSendBatchSize,
                        ById) :
       Query("list_send_ready",
             Continue(w, [local[w] EXCEPT !.batch = b,
                                          !.full = Len(b) = MailSendBatchSize]),
             EndRun(w))
  /\ UNCHANGED <<lock, mails, reopened>>

\* Slip: the claim trusts the listing.
ClaimSendBlindly(w) ==
  /\ pc[w] = "claim_send"
  /\ Statement("claim_send",
               [rows EXCEPT ![job[w]] = SendClaimed(rows[job[w]])],
               Goto(w, "send_analysis_mail"), EndRun(w))
  /\ UNCHANGED <<lock, mails, reopened>>

ClaimSend(w) ==
  /\ pc[w] = "claim_send"
  /\ \/ /\ SendReady(rows[job[w]])
        /\ Statement("claim_send",
                     [rows EXCEPT ![job[w]] = SendClaimed(rows[job[w]])],
                     Goto(w, "send_analysis_mail"), EndRun(w))
     \/ /\ ~SendReady(rows[job[w]])
        /\ Query("claim_send", Continue(w, local[w]), EndRun(w))
  /\ UNCHANGED <<lock, mails, reopened>>

\* Slip: the answer is sent as it is.
CannotComposeForRecipient(w) == job[w] \in Undeliverable

\* The mail cannot be made, whatever Knox would say of it: the recipient is
\* refused, or _answer_text finds nothing in an answer that SQL let through
\* (strip takes every kind of white space).  The mail is composed from the copy
\* that was listed; its answer differs from the row's only if the request was
\* analysed anew between listing and claim, which takes another run beside this
\* one, and where runs may overlap (LostLock.cfg, AnyFault.cfg) every answer is
\* "text".
CannotCompose(w) == \/ job[w] \in Undeliverable
                    \/ rows[job[w]].answer # "text"

\* Slip: a timeout is taken for a failure.
DeliveredTimeoutFails(w) ==
  /\ ~CannotCompose(w)
  /\ mails' = [mails EXCEPT ![job[w]] = @ + 1]
  /\ \/ NoFault /\ Goto(w, "mark_sent")
     \/ Fault("lost_reply") /\ Goto(w, "mark_send_failed")

\* Knox gets the mail, or it does not; the worker learns of it from the
\* reply, if it can read one.
Delivered(w) ==
  /\ ~CannotCompose(w)
  /\ mails' = [mails EXCEPT ![job[w]] = @ + 1]
  /\ \/ NoFault /\ Goto(w, "mark_sent")
     \/ Fault("lost_reply") /\ Goto(w, "mark_send_unknown")
     \/ Fault("broken_reply") /\ Goto(w, "mark_send_failed")

NotDelivered(w) ==
  /\ UNCHANGED mails
  /\ \/ /\ CannotCompose(w)
        /\ NoFault
        /\ Goto(w, "mark_send_failed")
     \/ /\ ~CannotCompose(w)
        /\ \/ Fault("rejected") /\ Goto(w, "mark_send_failed")
           \/ Fault("lost_request") /\ Goto(w, "mark_send_unknown")

SendAnalysisMail(w) ==
  /\ pc[w] = "send_analysis_mail"
  /\ Delivered(w) \/ NotDelivered(w)
  /\ UNCHANGED <<rows, lock, reopened>>

\* mark_sent is called inside the try block of _send_row, so that its own
\* failure is handled like a failed preparation of the mail.
MarkSent(w) ==
  /\ pc[w] = "mark_sent"
  /\ Statement("mark_sent",
               [rows EXCEPT ![job[w]] = SendMarked(rows[job[w]], "SENT")],
               Continue(w, local[w]), Goto(w, "mark_send_failed"))
  /\ UNCHANGED <<lock, mails, reopened>>

MarkSendFailed(w) ==
  /\ pc[w] = "mark_send_failed"
  /\ Statement("mark_send_failed",
               [rows EXCEPT ![job[w]] = SendMarked(rows[job[w]],
                                                   "SEND_BLOCKED")],
               Continue(w, local[w]), EndRun(w))
  /\ UNCHANGED <<lock, mails, reopened>>

MarkSendUnknown(w) ==
  /\ pc[w] = "mark_send_unknown"
  /\ Statement("mark_send_unknown",
               [rows EXCEPT ![job[w]] = SendMarked(rows[job[w]],
                                                   "SEND_UNKNOWN")],
               Continue(w, local[w]), EndRun(w))
  /\ UNCHANGED <<lock, mails, reopened>>

----------------------------------------------------------------------------
(* The analysis queue: process_api_queue, _analyze_row and                  *)
(* _send_completed_request.                                                 *)

\* Slip: one batch is all a run takes.
ListApiReadyOnce(w) ==
  /\ pc[w] = "list_api_ready"
  /\ \E b \in FirstRows({r \in Ids : ApiReady(rows[r])}, MaxAnalysisPerRun,
                        RetryFirst) :
       Query("list_api_ready",
             Continue(w, [local[w] EXCEPT !.batch = b]), EndRun(w))
  /\ UNCHANGED <<lock, mails, reopened>>

ListApiReady(w) ==
  /\ pc[w] = "list_api_ready"
  /\ \E b \in FirstRows({r \in Ids : ApiReady(rows[r])}, MaxAnalysisPerRun,
                        RetryFirst) :
       Query("list_api_ready",
             Continue(w, [local[w] EXCEPT !.batch = b,
                                          !.full = Len(b) = MaxAnalysisPerRun]),
             EndRun(w))
  /\ UNCHANGED <<lock, mails, reopened>>

\* Slip: the claim trusts the listing.
ClaimApiRequestBlindly(w) ==
  /\ pc[w] = "claim_api_request"
  /\ Statement("claim_api_request",
               [rows EXCEPT ![job[w]] = Claimed(rows[job[w]])],
               Goto(w, "analyze_request"), EndRun(w))
  /\ UNCHANGED <<lock, mails, reopened>>

\* A row that is no longer claimable counts as processed.
ClaimApiRequest(w) ==
  /\ pc[w] = "claim_api_request"
  /\ \/ /\ ApiClaimable(rows[job[w]])
        /\ Statement("claim_api_request",
                     [rows EXCEPT ![job[w]] = Claimed(rows[job[w]])],
                     Goto(w, "analyze_request"), EndRun(w))
     \/ /\ ~ApiClaimable(rows[job[w]])
        /\ Query("claim_api_request", Goto(w, "send_completed_request"),
                 EndRun(w))
  /\ UNCHANGED <<lock, mails, reopened>>

AnalyzeRequest(w) ==
  /\ pc[w] = "analyze_request"
  /\ \/ /\ job[w] \notin Unanswerable
        /\ NoFault
        /\ \E a \in ApiAnswers :
             local' = [local EXCEPT ![w] = [local[w] EXCEPT !.answer = a]]
        /\ pc' = [pc EXCEPT ![w] = "mark_completed"]
        /\ UNCHANGED job
     \/ /\ IF job[w] \in Unanswerable THEN NoFault
                                       ELSE Fault("analyze_request")
        /\ Goto(w, "mark_retry")
  /\ UNCHANGED <<rows, lock, mails, reopened>>

\* mark_completed too is inside the try block, that of _analyze_row.
MarkCompleted(w) ==
  /\ pc[w] = "mark_completed"
  /\ Statement("mark_completed",
               [rows EXCEPT ![job[w]] = Completed(rows[job[w]],
                                                  local[w].answer,
                                                  w \in MailSendEnabled)],
               Goto(w, "send_completed_request"), Goto(w, "mark_retry"))
  /\ UNCHANGED <<lock, mails, reopened>>

\* Slip: the run goes on after a failed analysis.
MarkRetryGoesOn(w) ==
  /\ pc[w] = "mark_retry"
  /\ Statement("mark_retry",
               [rows EXCEPT ![job[w]] = Retried(rows[job[w]])],
               Continue(w, local[w]), EndRun(w))
  /\ UNCHANGED <<lock, mails, reopened>>

\* The first failed analysis ends the run, the rest of the batch with it.
MarkRetry(w) ==
  /\ pc[w] = "mark_retry"
  /\ Statement("mark_retry",
               [rows EXCEPT ![job[w]] = Retried(rows[job[w]])],
               EndRun(w), EndRun(w))
  /\ UNCHANGED <<lock, mails, reopened>>

\* Slip: MAIL_SEND_ENABLED is tested for the backlog only.
SendCompletedRequestAlways(w) ==
  /\ pc[w] = "send_completed_request"
  /\ \E b \in FirstRows(SendQueueAfter(job[w] - 1), 1, ById) :
       Query("list_send_ready",
             IF b = <<job[w]>> THEN Goto(w, "claim_send")
                               ELSE Continue(w, local[w]),
             EndRun(w))
  /\ UNCHANGED <<lock, mails, reopened>>

\* The row just processed goes out at once if the listing that starts at its
\* id begins with it.
SendCompletedRequest(w) ==
  /\ pc[w] = "send_completed_request"
  /\ \/ /\ w \notin MailSendEnabled
        /\ NoFault
        /\ Continue(w, local[w])
        /\ UNCHANGED rows
     \/ /\ w \in MailSendEnabled
        /\ \E b \in FirstRows(SendQueueAfter(job[w] - 1), 1, ById) :
             Query("list_send_ready",
                   IF b = <<job[w]>> THEN Goto(w, "claim_send")
                                     ELSE Continue(w, local[w]),
                   EndRun(w))
  /\ UNCHANGED <<lock, mails, reopened>>

\* RELEASE_LOCK, or the end of the connection if that fails.
ReleaseLock(w) ==
  /\ pc[w] = "release_lock"
  /\ lock' = IF lock = w THEN NoWorker ELSE lock
  /\ Goto(w, "idle")
  /\ UNCHANGED <<rows, mails, reopened, faults>>

Step(w) ==
  \/ AcquireLock(w) \/ EnsureSchema(w) \/ RecoverIncompleteRequests(w)
  \/ CollectLegacyMail(w) \/ InsertReceived(w) \/ RecoverStaleSending(w)
  \/ ListSendReady(w) \/ ClaimSend(w) \/ SendAnalysisMail(w) \/ MarkSent(w)
  \/ MarkSendFailed(w) \/ MarkSendUnknown(w)
  \/ ListApiReady(w) \/ ClaimApiRequest(w) \/ AnalyzeRequest(w)
  \/ MarkCompleted(w) \/ MarkRetry(w) \/ SendCompletedRequest(w)
  \/ ReleaseLock(w)

----------------------------------------------------------------------------
(* What happens around the workers.                                         *)

\* The steps between a claim and the statement that records its outcome.
AnalysisSteps == {"analyze_request", "mark_completed", "mark_retry"}
MailSteps     == {"send_analysis_mail", "mark_sent", "mark_send_failed",
                  "mark_send_unknown"}

\* The steps that work on the row in hand.
RowSteps == AnalysisSteps \cup MailSteps \cup
            {"claim_send", "claim_api_request", "send_completed_request"}

Holding(r) == {w \in Workers : job[w] = r /\ pc[w] \in AnalysisSteps \cup MailSteps}

\* The process is killed.  Its statements are atomic, so the table is as the
\* last one left it; MySQL frees the lock with the connection.
Crash(w) ==
  /\ pc[w] # "idle"
  /\ Fault("crash")
  /\ EnterPhase(w, "backlog", "idle")
  /\ lock' = IF lock = w THEN NoWorker ELSE lock
  /\ UNCHANGED <<rows, mails, reopened>>

\* The lock is held by a connection that stays idle for the whole run while
\* every statement opens another.  If it is closed on the way, the lock is
\* free and the run goes on.
LockDrop(w) ==
  /\ lock = w
  /\ Fault("lock_drop")
  /\ lock' = NoWorker
  /\ UNCHANGED <<rows, pc, job, local, mails, reopened>>

\* 15 minutes pass over a claimed row: nobody works on it any more,
Abandoned(r) ==
  /\ rows[r].status = "PROCESSING" \/ rows[r].send = "SENDING"
  /\ ~rows[r].old
  /\ Holding(r) = {}
  /\ rows' = [rows EXCEPT ![r].old = TRUE]
  /\ UNCHANGED <<lock, pc, job, local, mails, reopened, faults>>

\* or the worker that claimed it is that slow.
Overdue(r) ==
  /\ rows[r].status = "PROCESSING" \/ rows[r].send = "SENDING"
  /\ ~rows[r].old
  /\ Holding(r) # {}
  /\ Fault("slow")
  /\ rows' = [rows EXCEPT ![r].old = TRUE]
  /\ UNCHANGED <<lock, pc, job, local, mails, reopened>>

\* The central collector (email-ingestion) adds a row.
Arrive(r) ==
  /\ rows[r] = NoRow
  /\ \E new \in Arrivals : rows' = [rows EXCEPT ![r] = new]
  /\ UNCHANGED <<lock, pc, job, local, mails, reopened, faults>>

\* The operator takes a mail out of the queue by hand, at any moment before
\* it is recorded as sent,
OperatorDrop(r) ==
  /\ rows[r].send \in {"SEND_PENDING", "SEND_BLOCKED", "SENDING", "SEND_UNKNOWN"}
  /\ rows' = [rows EXCEPT ![r].send = "SEND_DROPPED", ![r].old = FALSE]
  /\ UNCHANGED <<lock, pc, job, local, mails, reopened, faults>>

\* or puts one back that the program leaves to a human.
OperatorReopen(r) ==
  /\ rows[r].send \in {"SEND_UNKNOWN", "SEND_DROPPED"}
  /\ reopened[r] < MaxReopens
  /\ \E s \in SEND_READY_STATUSES :
       rows' = [rows EXCEPT ![r].send = s, ![r].old = FALSE]
  /\ reopened' = [reopened EXCEPT ![r] = @ + 1]
  /\ UNCHANGED <<lock, pc, job, local, mails, faults>>

Next ==
  \/ \E w \in Workers : Step(w) \/ Crash(w) \/ LockDrop(w)
  \/ \E r \in Ids : \/ Abandoned(r) \/ Overdue(r) \/ Arrive(r)
                    \/ OperatorDrop(r) \/ OperatorReopen(r)

Spec == Init /\ [][Next]_vars

\* The scheduler starts run after run and a run is one sequence of calls, all
\* of which return or raise (the HTTP calls have timeouts); the clock does
\* not stop.  Nothing else has to happen.
Fairness == /\ \A w \in Workers : WF_vars(Step(w))
            /\ \A r \in Ids : WF_vars(Abandoned(r))

FairSpec == Spec /\ Fairness

----------------------------------------------------------------------------
(* Properties.                                                              *)

\* The type of every variable; a worker that is on a row has that row's id.
TypeOK ==
  /\ rows \in [Ids -> Row]
  /\ lock \in Workers \cup {NoWorker}
  /\ pc \in [Workers -> Steps]
  /\ job \in [Workers -> Ids \cup {0}]
  /\ \A w \in Workers : pc[w] \in RowSteps => job[w] \in Ids
  /\ local \in [Workers -> Local]
  /\ mails \in [Ids -> Nat]
  /\ reopened \in [Ids -> Nat]
  /\ faults \in 0..MaxFaults

\* The requester gets the answer once, and once more only for each time the
\* operator has put the mail back (mail_queue.py: SENDING is claimed before
\* the Knox call and what is in doubt becomes SEND_UNKNOWN).
MailedAtMostOnce == \A r \in Ids : mails[r] <= 1 + reopened[r]

\* mark_send_failed returns the mail to the queue, so it is reached only with
\* a mail that was not delivered ("명확한 실패", mail_queue.py:122).
OnlyDefiniteFailuresRetried ==
  \A w \in Workers :
    pc[w] = "mark_send_failed" => mails[job[w]] <= reopened[job[w]]

\* Whatever fails, in whatever combination, a single failure costs at most
\* one duplicate mail: there is no failure after which a mail is sent again
\* and again.
DuplicatePerFault == \A r \in Ids : mails[r] <= 1 + reopened[r] + faults

\* mark_completed and mark_retry update the row by id alone, whatever its
\* status; they are right only because the row is still the one this worker
\* claimed: nobody has recovered it, failed it or completed it meanwhile.
WriteBackOwnsRow ==
  \A w \in Workers :
    pc[w] \in AnalysisSteps =>
      /\ rows[job[w]].status = "PROCESSING"
      /\ \A v \in Workers \ {w} : ~(pc[v] \in AnalysisSteps /\ job[v] = job[w])

\* The advisory lock of pipeline_lock: two runs never overlap.
OneRunAtATime ==
  \A v, w \in Workers : pc[v] # "idle" /\ pc[w] # "idle" => v = w

\* MAX_RETRY_COUNT: a request the queue may still serve has attempts left, a
\* failed one has used exactly as many as it had, whatever crashes,
\* recoveries and lost acknowledgements lie between.
QueueBudget ==
  \A r \in Ids :
    /\ rows[r].status \in {"ROUTED", "RETRY", "PROCESSING"}
         => rows[r].retries < MaxRetryCount
    /\ rows[r].status = "FAILED" => rows[r].retries = MaxRetryCount

\* send_status leaves NOT_READY only for a finished analysis: no mail is in
\* any stage of delivery for a request that is queued, running or failed; and
\* none is claimed, in doubt or sent for an answer with nothing in it.
MailOnlyAfterAnswer ==
  \A r \in Ids :
    /\ rows[r].send # "NOT_READY" => rows[r].status = "COMPLETED"
    /\ rows[r].send \in {"SENDING", "SEND_UNKNOWN"}
         => rows[r].answer \in NonblankAnswers
    /\ rows[r].send = "SENT" => rows[r].answer = "text"

\* COMPLETED and FAILED are final: no recovery, retry or backfill puts such a
\* request back in the analysis queue.
OutcomeIsFinal ==
  [][\A r \in Ids : rows[r].status \in {"COMPLETED", "FAILED"}
       => rows'[r].status = rows[r].status]_vars

\* A mail that is sent, in doubt or dropped is for a human: only the operator
\* returns it to the send queue (mail_queue.py, SEND_READY_STATUSES).
OnlyOperatorReopens ==
  [][\A r \in Ids :
       rows[r].send \in {"SENT", "SEND_UNKNOWN", "SEND_DROPPED"}
       /\ rows'[r].send \in SEND_READY_STATUSES \cup {"SENDING"}
       => reopened'[r] = reopened[r] + 1]_vars

\* Rows routed elsewhere share the table: no statement touches them, though
\* mark_completed and the recoveries do not all test the route.
OtherRoutesUntouched ==
  [][\A r \in Ids : rows[r].route = "FILE_ARCHIVE" => rows'[r] = rows[r]]_vars

\* MAIL_SEND_ENABLED=false: the process calls Knox neither for the backlog nor
\* for a request it has just completed, and what it completes waits as
\* SEND_BLOCKED (docs/MAIL_DELIVERY.md).
SendingSwitch ==
  [][\A w \in Workers \ MailSendEnabled :
       /\ pc'[w] \notin MailSteps
       /\ pc[w] = "mark_completed" /\ pc'[w] = "send_completed_request"
            => rows'[job[w]].send = "SEND_BLOCKED"]_vars

\* README, "무누락 처리 보장 방식" 2: a row left in RECEIVED is recovered by
\* the next run.
ReceivedIsRecovered ==
  \A r \in Ids :
    (rows[r].route = "API_ANALYSIS" /\ rows[r].status = "RECEIVED")
    ~> rows[r].status # "RECEIVED"

\* No request is left behind: one the queue serves, or will serve after the
\* backfill of ensure_schema, reaches an outcome, also behind requests that
\* fail every time and end the run every time (RETRY goes first, and the first
\* failure ends the run).
EveryRequestSettles ==
  \A r \in Ids :
    (/\ Backfilled(rows[r]).route = "API_ANALYSIS"
     /\ rows[r].status \in {"ROUTED", "RETRY", "PROCESSING"})
    ~> rows[r].status \in {"COMPLETED", "FAILED"}

\* Every answer that can be mailed leaves the send queue, also behind mails
\* that are refused every time and answers that cannot be made a mail; what a
\* crash left in SENDING becomes SEND_UNKNOWN.
EveryAnswerLeavesQueue ==
  \A r \in Ids \ Undeliverable :
    /\ rows[r].answer = "text"
    /\ SendReady(rows[r]) \/ rows[r].send = "SENDING"
    ~> rows[r].send \in {"SENT", "SEND_UNKNOWN", "SEND_DROPPED"}

\* docs/EMAIL_INGESTION_INTEGRATION.md of SEND_BLOCKED: tried again in the next
\* run with MAIL_SEND_ENABLED=true, as long as there are such runs.
BlockedIsRetried ==
  []<>(\E w \in MailSendEnabled : pc[w] = "list_send_ready")
  => \A r \in Ids :
       (rows[r].route = "API_ANALYSIS" /\ rows[r].send = "SEND_BLOCKED")
       ~> rows[r].send # "SEND_BLOCKED"

\* Docstring of recover_stale_sending: an interrupted SENDING is recovered as
\* SEND_UNKNOWN.
SendingIsRecovered ==
  \A r \in Ids : rows[r].send = "SENDING" ~> rows[r].send # "SENDING"

=============================================================================
