------------------------ MODULE RequestPipelineProofs ------------------------
(***************************************************************************)
(* What RequestPipeline.tla guarantees for every table size, every set of   *)
(* workers, every batch size and every budget of failures and reopenings.   *)
(***************************************************************************)
EXTENDS RequestPipeline, FiniteSetTheorems, TLAPS

----------------------------------------------------------------------------
(* Rows: every operator of MailTable keeps a row a row.                     *)

LEMMA RowsAtStart ==
  /\ NoRow \in Row
  /\ ReceivedRow \in Row
  /\ \A s \in LegacyStatuses : LegacyRow(s) \in Row
  /\ Arrivals \subseteq Row
  <1> USE DEF Row, RouteTypes, Statuses, SendStatuses, Answers
  <1>1. DefaultRow \in Row
    BY DEF DefaultRow
  <1>2. NoRow \in Row /\ ReceivedRow \in Row /\ ArchiveRow \in Row
    BY <1>1 DEF NoRow, ReceivedRow, ArchiveRow
  <1>3. UnclassifiedRow(TRUE) \in Row /\ UnclassifiedRow(FALSE) \in Row
    BY <1>1 DEF UnclassifiedRow
  <1>4. ASSUME NEW s \in LegacyStatuses PROVE LegacyRow(s) \in Row
    <2>1. s \in Statuses
      BY DEF LegacyStatuses
    <2>2. CASE s = "COMPLETED"
      BY <1>1, <2>2 DEF LegacyRow
    <2>3. CASE s = "FAILED"
      BY <1>1, <2>3, RetryAssumption DEF LegacyRow
    <2>4. CASE s \notin {"COMPLETED", "FAILED"}
      BY <1>1, <2>1, <2>4 DEF LegacyRow
    <2> QED  BY <2>2, <2>3, <2>4
  <1>5. Arrivals \subseteq Row
    <2> HIDE DEF Row, RouteTypes, Statuses, SendStatuses, Answers
    <2> QED  BY <1>2, <1>3, PipelineAssumption
  <1> QED  BY <1>2, <1>4, <1>5

LEMMA RowOperators ==
  ASSUME NEW row \in Row
  PROVE  /\ Claimed(row) \in Row
         /\ \A a \in Answers, b \in BOOLEAN : Completed(row, a, b) \in Row
         /\ Retried(row) \in Row
         /\ Recovered(row) \in Row
         /\ Backfilled(row) \in Row
         /\ SendClaimed(row) \in Row
         /\ \A s \in SendStatuses : SendMarked(row, s) \in Row
         /\ SendRecovered(row) \in Row
  <1> USE DEF Row, RouteTypes, Statuses, SendStatuses, Answers
  <1>1. Claimed(row) \in Row /\ SendClaimed(row) \in Row
    BY DEF Claimed, SendClaimed
  <1>2. ASSUME NEW a \in Answers, NEW b \in BOOLEAN
        PROVE  Completed(row, a, b) \in Row
    <2>1. CASE b  BY <2>1 DEF Completed
    <2>2. CASE ~b  BY <2>2 DEF Completed
    <2> QED  BY <2>1, <2>2
  <1>3. Retried(row) \in Row
    <2>1. row.retries \in Nat /\ row.retries + 1 \in Nat
      OBVIOUS
    <2>2. CASE row.retries + 1 >= MaxRetryCount
      BY <2>1, <2>2, RetryAssumption DEF Retried
    <2>3. CASE ~(row.retries + 1 >= MaxRetryCount)
      BY <2>1, <2>3, RetryAssumption DEF Retried
    <2> QED  BY <2>2, <2>3
  <1>4. Recovered(row) \in Row
    BY DEF Recovered
  <1>7. Backfilled(row) \in Row
    BY DEF Backfilled
  <1>5. SendRecovered(row) \in Row
    BY DEF SendRecovered
  <1>6. \A s \in SendStatuses : SendMarked(row, s) \in Row
    BY DEF SendMarked
  <1> QED  BY <1>1, <1>2, <1>3, <1>4, <1>5, <1>6, <1>7

----------------------------------------------------------------------------
(* Control: where the loops of a worker can go.                             *)

\* A listing is a sequence of ids.
LEMMA ListingType ==
  ASSUME NEW S \in SUBSET Ids, NEW limit \in Nat, NEW key,
         NEW b \in FirstRows(S, limit, key)
  PROVE  b \in Seq(Ids)
  <1>1. PICK m \in 0..limit : b \in [1..m -> S]
    BY DEF FirstRows, SeqOf
  <1> QED  BY <1>1

\* The control state of the workers is well typed.
ControlOK ==
  /\ pc \in [Workers -> Steps]
  /\ job \in [Workers -> Ids \cup {0}]
  /\ \A w \in Workers : pc[w] \in RowSteps => job[w] \in Ids
  /\ local \in [Workers -> Local]

\* Where a worker is when it has finished with a row or a listing.
OpenSteps == {"list_send_ready", "list_api_ready", "claim_send",
              "claim_api_request", "release_lock"}

LEMMA GotoControl ==
  ASSUME ControlOK, NEW w \in Workers, NEW s \in Steps, Goto(w, s),
         s \in RowSteps => job[w] \in Ids
  PROVE  ControlOK' /\ pc'[w] = s /\ job' = job
  BY DEF ControlOK, Goto

LEMMA FreshLocalType ==
  \A phase \in {"backlog", "queue"} : FreshLocal(phase) \in Local
  BY DEF FreshLocal, Local, Answers

LEMMA EnterPhaseControl ==
  ASSUME ControlOK, NEW w \in Workers, NEW s \in Steps \ RowSteps,
         NEW phase \in {"backlog", "queue"}, EnterPhase(w, phase, s)
  PROVE  ControlOK' /\ pc'[w] = s
  BY FreshLocalType DEF ControlOK, EnterPhase

LEMMA EndRunControl ==
  ASSUME ControlOK, NEW w \in Workers, EndRun(w)
  PROVE  ControlOK' /\ pc'[w] = "release_lock"
  <1>1. "release_lock" \in Steps \ RowSteps
    BY DEF Steps, RowSteps, AnalysisSteps, MailSteps
  <1> QED  BY <1>1, EnterPhaseControl DEF EndRun

LEMMA ContinueControl ==
  ASSUME ControlOK, NEW w \in Workers, NEW l \in Local, Continue(w, l)
  PROVE  ControlOK' /\ pc'[w] \in OpenSteps
  <1>1. OpenSteps \subseteq Steps
    BY DEF OpenSteps, Steps, DbCalls
  <1>2. CASE NextRow(w, l)
    <2>1. Head(l.batch) \in Ids /\ Tail(l.batch) \in Seq(Ids)
      BY <1>2 DEF NextRow, Local
    <2>2. local' \in [Workers -> Local]
      <3> DEFINE c == IF l.phase = "backlog" /\ Head(l.batch) > l.cursor
                      THEN Head(l.batch) ELSE l.cursor
                 m == [l EXCEPT !.batch = Tail(l.batch), !.cursor = c]
      <3>1. c \in Nat
        BY <2>1, PipelineAssumption DEF Local, Ids
      <3>2. m \in Local
        <4> HIDE DEF c
        <4> QED  BY <2>1, <3>1 DEF Local
      <3>3. local' = [local EXCEPT ![w] = m]
        BY <1>2 DEF NextRow
      <3> QED  BY <3>2, <3>3 DEF ControlOK
    <2>3. pc' = [pc EXCEPT ![w] = ClaimStep(l.phase)]
          /\ job' = [job EXCEPT ![w] = Head(l.batch)]
      BY <1>2 DEF NextRow
    <2>4. ClaimStep(l.phase) \in OpenSteps
      BY DEF ClaimStep, OpenSteps
    <2> QED  BY <1>1, <2>1, <2>2, <2>3, <2>4 DEF ControlOK
  <1>3. CASE NextBatch(w, l)
    <2>1. ListStep(l.phase) \in OpenSteps \ RowSteps
      BY DEF ListStep, OpenSteps, RowSteps, AnalysisSteps, MailSteps
    <2>2. local' \in [Workers -> Local]
      BY <1>3 DEF NextBatch, Local, ControlOK
    <2> QED  BY <1>1, <1>3, <2>1, <2>2 DEF NextBatch, ControlOK
  <1>4. CASE LoopDone(w, l)
    <2>1. "list_api_ready" \in Steps \ RowSteps
      BY DEF Steps, DbCalls, RowSteps, AnalysisSteps, MailSteps
    <2> QED  BY <1>4, <2>1, EnterPhaseControl, EndRunControl
             DEF LoopDone, OpenSteps
  <1> QED  BY <1>2, <1>3, <1>4 DEF Continue

----------------------------------------------------------------------------
(* Type correctness, one lemma per kind of step.                            *)

DataOK ==
  /\ rows \in [Ids -> Row]
  /\ lock \in Workers \cup {NoWorker}
  /\ mails \in [Ids -> Nat]
  /\ reopened \in [Ids -> Nat]
  /\ faults \in 0..MaxFaults

LEMMA FaultCount ==
  ASSUME faults \in 0..MaxFaults, NEW kind, Fault(kind) \/ NoFault
  PROVE  faults' \in 0..MaxFaults
  BY PipelineAssumption DEF Fault, NoFault

LEMMA AcquireLockType ==
  ASSUME TypeOK, NEW w \in Workers, AcquireLock(w)
  PROVE  TypeOK'
  <1>1. ControlOK /\ DataOK
    BY DEF TypeOK, ControlOK, DataOK, AcquireLock
  <1>3. rows' \in [Ids -> Row]
    BY <1>1 DEF DataOK, AcquireLock
  <1>4. faults' \in 0..MaxFaults
    BY <1>1 DEF DataOK, AcquireLock
  <1>5. DataOK'
    BY <1>1, <1>3, <1>4 DEF DataOK, AcquireLock
  <1>6. Goto(w, "ensure_schema")
    BY DEF AcquireLock
  <1>7. ControlOK'
    BY <1>1, <1>6, GotoControl
       DEF ControlOK, Steps, DbCalls, RowSteps, AnalysisSteps,
           MailSteps
  <1> QED  BY <1>5, <1>7 DEF TypeOK, ControlOK, DataOK

LEMMA EnsureSchemaType ==
  ASSUME TypeOK, NEW w \in Workers, EnsureSchema(w)
  PROVE  TypeOK'
  <1>1. ControlOK /\ DataOK
    BY DEF TypeOK, ControlOK, DataOK, EnsureSchema
  <1>2. \A r \in Ids : Backfilled(rows[r]) \in Row
    BY <1>1, RowOperators DEF DataOK
  <1>3. rows' \in [Ids -> Row]
    BY <1>1, <1>2 DEF DataOK, EnsureSchema, Statement
  <1>4. faults' \in 0..MaxFaults
    BY <1>1, FaultCount DEF DataOK, EnsureSchema, Statement
  <1>5. DataOK'
    BY <1>1, <1>3, <1>4 DEF DataOK, EnsureSchema
  <1>6. \/ Goto(w, "recover_incomplete_requests")
        \/ EndRun(w)
    BY DEF EnsureSchema, Statement
  <1>7. ControlOK'
    BY <1>1, <1>6, GotoControl, EndRunControl
       DEF ControlOK, Steps, DbCalls, RowSteps, AnalysisSteps,
           MailSteps
  <1> QED  BY <1>5, <1>7 DEF TypeOK, ControlOK, DataOK

LEMMA RecoverIncompleteRequestsType ==
  ASSUME TypeOK, NEW w \in Workers, RecoverIncompleteRequests(w)
  PROVE  TypeOK'
  <1>1. ControlOK /\ DataOK
    BY DEF TypeOK, ControlOK, DataOK, RecoverIncompleteRequests
  <1>2. \A r \in Ids : Recovered(rows[r]) \in Row
    BY <1>1, RowOperators DEF DataOK
  <1>3. rows' \in [Ids -> Row]
    BY <1>1, <1>2 DEF DataOK, RecoverIncompleteRequests, Statement
  <1>4. faults' \in 0..MaxFaults
    BY <1>1, FaultCount DEF DataOK, RecoverIncompleteRequests, Statement
  <1>5. DataOK'
    BY <1>1, <1>3, <1>4 DEF DataOK, RecoverIncompleteRequests
  <1>6. \/ Goto(w, "collect_legacy_pop3_mail")
        \/ EndRun(w)
    BY DEF RecoverIncompleteRequests, Statement
  <1>7. ControlOK'
    BY <1>1, <1>6, GotoControl, EndRunControl
       DEF ControlOK, Steps, DbCalls, RowSteps, AnalysisSteps,
           MailSteps
  <1> QED  BY <1>5, <1>7 DEF TypeOK, ControlOK, DataOK

LEMMA CollectLegacyMailType ==
  ASSUME TypeOK, NEW w \in Workers, CollectLegacyMail(w)
  PROVE  TypeOK'
  <1>1. ControlOK /\ DataOK
    BY DEF TypeOK, ControlOK, DataOK, CollectLegacyMail
  <1>3. rows' \in [Ids -> Row]
    BY <1>1 DEF DataOK, CollectLegacyMail, Query
  <1>4. faults' \in 0..MaxFaults
    BY <1>1, FaultCount DEF DataOK, CollectLegacyMail, Query
  <1>5. DataOK'
    BY <1>1, <1>3, <1>4 DEF DataOK, CollectLegacyMail
  <1>6. \/ Goto(w, "recover_stale_sending")
        \/ EnterPhase(w, "queue", "list_api_ready")
        \/ EndRun(w)
    BY DEF CollectLegacyMail, Query
  <1>7. ControlOK'
    BY <1>1, <1>6, GotoControl, EnterPhaseControl, EndRunControl
       DEF ControlOK, Steps, DbCalls, RowSteps, AnalysisSteps,
           MailSteps
  <1> QED  BY <1>5, <1>7 DEF TypeOK, ControlOK, DataOK

LEMMA InsertReceivedType ==
  ASSUME TypeOK, NEW w \in Workers, InsertReceived(w)
  PROVE  TypeOK'
  <1>1. ControlOK /\ DataOK
    BY DEF TypeOK, ControlOK, DataOK, InsertReceived
  <1>2. ReceivedRow \in Row
    BY <1>1, RowsAtStart DEF DataOK
  <1>3. rows' \in [Ids -> Row]
    BY <1>1, <1>2 DEF DataOK, InsertReceived, Statement
  <1>4. faults' \in 0..MaxFaults
    BY <1>1, FaultCount DEF DataOK, InsertReceived, Statement
  <1>5. DataOK'
    BY <1>1, <1>3, <1>4 DEF DataOK, InsertReceived
  <1>6. \/ UNCHANGED <<pc, job, local>>
        \/ EndRun(w)
    BY DEF InsertReceived, Statement
  <1>7. ControlOK'
    BY <1>1, <1>6, EndRunControl
       DEF ControlOK, Steps, DbCalls, RowSteps, AnalysisSteps,
           MailSteps
  <1> QED  BY <1>5, <1>7 DEF TypeOK, ControlOK, DataOK

LEMMA RecoverStaleSendingType ==
  ASSUME TypeOK, NEW w \in Workers, RecoverStaleSending(w)
  PROVE  TypeOK'
  <1>1. ControlOK /\ DataOK
    BY DEF TypeOK, ControlOK, DataOK, RecoverStaleSending
  <1>2. \A r \in Ids : SendRecovered(rows[r]) \in Row
    BY <1>1, RowOperators DEF DataOK
  <1>3. rows' \in [Ids -> Row]
    BY <1>1, <1>2 DEF DataOK, RecoverStaleSending, Statement
  <1>4. faults' \in 0..MaxFaults
    BY <1>1, FaultCount DEF DataOK, RecoverStaleSending, Statement
  <1>5. DataOK'
    BY <1>1, <1>3, <1>4 DEF DataOK, RecoverStaleSending
  <1>6. \/ Goto(w, "list_send_ready")
        \/ EndRun(w)
    BY DEF RecoverStaleSending, Statement
  <1>7. ControlOK'
    BY <1>1, <1>6, GotoControl, EndRunControl
       DEF ControlOK, Steps, DbCalls, RowSteps, AnalysisSteps,
           MailSteps
  <1> QED  BY <1>5, <1>7 DEF TypeOK, ControlOK, DataOK

LEMMA ListSendReadyType ==
  ASSUME TypeOK, NEW w \in Workers, ListSendReady(w)
  PROVE  TypeOK'
  <1>1. ControlOK /\ DataOK
    BY DEF TypeOK, ControlOK, DataOK, ListSendReady
  <1>3. rows' \in [Ids -> Row]
    BY <1>1 DEF DataOK, ListSendReady, Query
  <1>4. faults' \in 0..MaxFaults
    BY <1>1, FaultCount DEF DataOK, ListSendReady, Query
  <1>5. DataOK'
    BY <1>1, <1>3, <1>4 DEF DataOK, ListSendReady
  <1>6. PICK b \in FirstRows(SendQueueAfter(local[w].cursor), MailSendBatchSize, ById) :
          \/ Continue(w, [local[w] EXCEPT !.batch = b,
                                          !.full = Len(b) = MailSendBatchSize])
          \/ EndRun(w)
    BY DEF ListSendReady, Query
  <1>7. b \in Seq(Ids)
    BY <1>6, ListingType, PipelineAssumption DEF SendQueueAfter
  <1>8. [local[w] EXCEPT !.batch = b, !.full = Len(b) = MailSendBatchSize] \in Local
    BY <1>1, <1>7 DEF ControlOK, Local
  <1>9. ControlOK'
    BY <1>1, <1>6, <1>8, ContinueControl, EndRunControl
  <1> QED  BY <1>5, <1>9 DEF TypeOK, ControlOK, DataOK

LEMMA ClaimSendType ==
  ASSUME TypeOK, NEW w \in Workers, ClaimSend(w)
  PROVE  TypeOK'
  <1>1. ControlOK /\ DataOK /\ job[w] \in Ids
    BY DEF TypeOK, ControlOK, DataOK, ClaimSend, RowSteps, AnalysisSteps, MailSteps
  <1>2. SendClaimed(rows[job[w]]) \in Row
    BY <1>1, RowOperators DEF DataOK
  <1>3. rows' \in [Ids -> Row]
    BY <1>1, <1>2 DEF DataOK, ClaimSend, Statement, Query
  <1>4. faults' \in 0..MaxFaults
    BY <1>1, FaultCount DEF DataOK, ClaimSend, Statement, Query
  <1>5. DataOK'
    BY <1>1, <1>3, <1>4 DEF DataOK, ClaimSend
  <1>6. \/ Goto(w, "send_analysis_mail")
        \/ Continue(w, local[w])
        \/ EndRun(w)
    BY DEF ClaimSend, Statement, Query
  <1>7. ControlOK'
    BY <1>1, <1>6, GotoControl, ContinueControl, EndRunControl
       DEF ControlOK, Steps, DbCalls
  <1> QED  BY <1>5, <1>7 DEF TypeOK, ControlOK, DataOK

LEMMA SendAnalysisMailType ==
  ASSUME TypeOK, NEW w \in Workers, SendAnalysisMail(w)
  PROVE  TypeOK'
  <1>1. ControlOK /\ DataOK /\ job[w] \in Ids
    BY DEF TypeOK, ControlOK, DataOK, SendAnalysisMail, RowSteps, AnalysisSteps, MailSteps
  <1>3. faults' \in 0..MaxFaults
    BY <1>1, FaultCount DEF DataOK, SendAnalysisMail, Delivered, NotDelivered
  <1>4. mails' \in [Ids -> Nat]
    BY <1>1 DEF DataOK, SendAnalysisMail, Delivered, NotDelivered
  <1>5. DataOK'
    BY <1>1, <1>3, <1>4 DEF DataOK, SendAnalysisMail
  <1>6. \/ Goto(w, "mark_sent")
        \/ Goto(w, "mark_send_unknown")
        \/ Goto(w, "mark_send_failed")
    BY DEF SendAnalysisMail, Delivered, NotDelivered
  <1>7. ControlOK'
    BY <1>1, <1>6, GotoControl
       DEF ControlOK, Steps, DbCalls
  <1> QED  BY <1>5, <1>7 DEF TypeOK, ControlOK, DataOK

LEMMA MarkSentType ==
  ASSUME TypeOK, NEW w \in Workers, MarkSent(w)
  PROVE  TypeOK'
  <1>1. ControlOK /\ DataOK /\ job[w] \in Ids
    BY DEF TypeOK, ControlOK, DataOK, MarkSent, RowSteps, AnalysisSteps, MailSteps
  <1>2. SendMarked(rows[job[w]], "SENT") \in Row
    BY <1>1, RowOperators DEF DataOK, SendStatuses
  <1>3. rows' \in [Ids -> Row]
    BY <1>1, <1>2 DEF DataOK, MarkSent, Statement
  <1>4. faults' \in 0..MaxFaults
    BY <1>1, FaultCount DEF DataOK, MarkSent, Statement
  <1>5. DataOK'
    BY <1>1, <1>3, <1>4 DEF DataOK, MarkSent
  <1>6. \/ Continue(w, local[w])
        \/ Goto(w, "mark_send_failed")
    BY DEF MarkSent, Statement
  <1>7. ControlOK'
    BY <1>1, <1>6, GotoControl, ContinueControl
       DEF ControlOK, Steps, DbCalls
  <1> QED  BY <1>5, <1>7 DEF TypeOK, ControlOK, DataOK

LEMMA MarkSendFailedType ==
  ASSUME TypeOK, NEW w \in Workers, MarkSendFailed(w)
  PROVE  TypeOK'
  <1>1. ControlOK /\ DataOK /\ job[w] \in Ids
    BY DEF TypeOK, ControlOK, DataOK, MarkSendFailed, RowSteps, AnalysisSteps, MailSteps
  <1>2. SendMarked(rows[job[w]], "SEND_BLOCKED") \in Row
    BY <1>1, RowOperators DEF DataOK, SendStatuses
  <1>3. rows' \in [Ids -> Row]
    BY <1>1, <1>2 DEF DataOK, MarkSendFailed, Statement
  <1>4. faults' \in 0..MaxFaults
    BY <1>1, FaultCount DEF DataOK, MarkSendFailed, Statement
  <1>5. DataOK'
    BY <1>1, <1>3, <1>4 DEF DataOK, MarkSendFailed
  <1>6. \/ Continue(w, local[w])
        \/ EndRun(w)
    BY DEF MarkSendFailed, Statement
  <1>7. ControlOK'
    BY <1>1, <1>6, ContinueControl, EndRunControl
       DEF ControlOK, Steps, DbCalls
  <1> QED  BY <1>5, <1>7 DEF TypeOK, ControlOK, DataOK

LEMMA MarkSendUnknownType ==
  ASSUME TypeOK, NEW w \in Workers, MarkSendUnknown(w)
  PROVE  TypeOK'
  <1>1. ControlOK /\ DataOK /\ job[w] \in Ids
    BY DEF TypeOK, ControlOK, DataOK, MarkSendUnknown, RowSteps, AnalysisSteps, MailSteps
  <1>2. SendMarked(rows[job[w]], "SEND_UNKNOWN") \in Row
    BY <1>1, RowOperators DEF DataOK, SendStatuses
  <1>3. rows' \in [Ids -> Row]
    BY <1>1, <1>2 DEF DataOK, MarkSendUnknown, Statement
  <1>4. faults' \in 0..MaxFaults
    BY <1>1, FaultCount DEF DataOK, MarkSendUnknown, Statement
  <1>5. DataOK'
    BY <1>1, <1>3, <1>4 DEF DataOK, MarkSendUnknown
  <1>6. \/ Continue(w, local[w])
        \/ EndRun(w)
    BY DEF MarkSendUnknown, Statement
  <1>7. ControlOK'
    BY <1>1, <1>6, ContinueControl, EndRunControl
       DEF ControlOK, Steps, DbCalls
  <1> QED  BY <1>5, <1>7 DEF TypeOK, ControlOK, DataOK

LEMMA ListApiReadyType ==
  ASSUME TypeOK, NEW w \in Workers, ListApiReady(w)
  PROVE  TypeOK'
  <1>1. ControlOK /\ DataOK
    BY DEF TypeOK, ControlOK, DataOK, ListApiReady
  <1>3. rows' \in [Ids -> Row]
    BY <1>1 DEF DataOK, ListApiReady, Query
  <1>4. faults' \in 0..MaxFaults
    BY <1>1, FaultCount DEF DataOK, ListApiReady, Query
  <1>5. DataOK'
    BY <1>1, <1>3, <1>4 DEF DataOK, ListApiReady
  <1>6. PICK b \in FirstRows({r \in Ids : ApiReady(rows[r])}, MaxAnalysisPerRun, RetryFirst) :
          \/ Continue(w, [local[w] EXCEPT !.batch = b,
                                          !.full = Len(b) = MaxAnalysisPerRun])
          \/ EndRun(w)
    BY DEF ListApiReady, Query
  <1>7. b \in Seq(Ids)
    BY <1>6, ListingType, PipelineAssumption DEF SendQueueAfter
  <1>8. [local[w] EXCEPT !.batch = b, !.full = Len(b) = MaxAnalysisPerRun] \in Local
    BY <1>1, <1>7 DEF ControlOK, Local
  <1>9. ControlOK'
    BY <1>1, <1>6, <1>8, ContinueControl, EndRunControl
  <1> QED  BY <1>5, <1>9 DEF TypeOK, ControlOK, DataOK

LEMMA ClaimApiRequestType ==
  ASSUME TypeOK, NEW w \in Workers, ClaimApiRequest(w)
  PROVE  TypeOK'
  <1>1. ControlOK /\ DataOK /\ job[w] \in Ids
    BY DEF TypeOK, ControlOK, DataOK, ClaimApiRequest, RowSteps, AnalysisSteps, MailSteps
  <1>2. Claimed(rows[job[w]]) \in Row
    BY <1>1, RowOperators DEF DataOK
  <1>3. rows' \in [Ids -> Row]
    BY <1>1, <1>2 DEF DataOK, ClaimApiRequest, Statement, Query
  <1>4. faults' \in 0..MaxFaults
    BY <1>1, FaultCount DEF DataOK, ClaimApiRequest, Statement, Query
  <1>5. DataOK'
    BY <1>1, <1>3, <1>4 DEF DataOK, ClaimApiRequest
  <1>6. \/ Goto(w, "analyze_request")
        \/ Goto(w, "send_completed_request")
        \/ EndRun(w)
    BY DEF ClaimApiRequest, Statement, Query
  <1>7. ControlOK'
    BY <1>1, <1>6, GotoControl, EndRunControl
       DEF ControlOK, Steps, DbCalls
  <1> QED  BY <1>5, <1>7 DEF TypeOK, ControlOK, DataOK

LEMMA AnalyzeRequestType ==
  ASSUME TypeOK, NEW w \in Workers, AnalyzeRequest(w)
  PROVE  TypeOK'
  <1>1. ControlOK /\ DataOK /\ job[w] \in Ids
    BY DEF TypeOK, ControlOK, DataOK, AnalyzeRequest, RowSteps, AnalysisSteps, MailSteps
  <1>3. rows' \in [Ids -> Row]
    BY <1>1 DEF DataOK, AnalyzeRequest
  <1>4. faults' \in 0..MaxFaults
    BY <1>1, FaultCount DEF DataOK, AnalyzeRequest, NoFault
  <1>5. DataOK'
    BY <1>1, <1>3, <1>4 DEF DataOK, AnalyzeRequest
  <1>6. CASE Goto(w, "mark_retry")
    <2>1. ControlOK'
      BY <1>1, <1>6, GotoControl DEF ControlOK, Steps, DbCalls
    <2> QED  BY <1>5, <2>1 DEF TypeOK, ControlOK, DataOK
  <1>7. ASSUME NEW a \in ApiAnswers,
               local' = [local EXCEPT ![w] = [local[w] EXCEPT !.answer = a]],
               pc' = [pc EXCEPT ![w] = "mark_completed"], UNCHANGED job
        PROVE  TypeOK'
    <2>1. [local[w] EXCEPT !.answer = a] \in Local
      BY <1>1, PipelineAssumption DEF ControlOK, Local
    <2>2. ControlOK'
      BY <1>1, <1>7, <2>1 DEF ControlOK, Steps, DbCalls
    <2> QED  BY <1>5, <2>2 DEF TypeOK, ControlOK, DataOK
  <1> QED  BY <1>6, <1>7 DEF AnalyzeRequest

LEMMA MarkCompletedType ==
  ASSUME TypeOK, NEW w \in Workers, MarkCompleted(w)
  PROVE  TypeOK'
  <1>1. ControlOK /\ DataOK /\ job[w] \in Ids
    BY DEF TypeOK, ControlOK, DataOK, MarkCompleted, RowSteps, AnalysisSteps, MailSteps
  <1>2. Completed(rows[job[w]], local[w].answer, w \in MailSendEnabled) \in Row
    <2>1. rows[job[w]] \in Row /\ local[w].answer \in Answers
      BY <1>1 DEF DataOK, ControlOK, Local
    <2>2. CASE w \in MailSendEnabled
      BY <2>1, <2>2 DEF Completed, Row, Statuses, SendStatuses
    <2>3. CASE w \notin MailSendEnabled
      BY <2>1, <2>3 DEF Completed, Row, Statuses, SendStatuses
    <2> QED  BY <2>2, <2>3
  <1>3. rows' \in [Ids -> Row]
    BY <1>1, <1>2 DEF DataOK, MarkCompleted, Statement
  <1>4. faults' \in 0..MaxFaults
    BY <1>1, FaultCount DEF DataOK, MarkCompleted, Statement
  <1>5. DataOK'
    BY <1>1, <1>3, <1>4 DEF DataOK, MarkCompleted
  <1>6. \/ Goto(w, "send_completed_request")
        \/ Goto(w, "mark_retry")
    BY DEF MarkCompleted, Statement
  <1>7. ControlOK'
    BY <1>1, <1>6, GotoControl
       DEF ControlOK, Steps, DbCalls
  <1> QED  BY <1>5, <1>7 DEF TypeOK, ControlOK, DataOK

LEMMA MarkRetryType ==
  ASSUME TypeOK, NEW w \in Workers, MarkRetry(w)
  PROVE  TypeOK'
  <1>1. ControlOK /\ DataOK /\ job[w] \in Ids
    BY DEF TypeOK, ControlOK, DataOK, MarkRetry, RowSteps, AnalysisSteps, MailSteps
  <1>2. Retried(rows[job[w]]) \in Row
    BY <1>1, RowOperators DEF DataOK
  <1>3. rows' \in [Ids -> Row]
    BY <1>1, <1>2 DEF DataOK, MarkRetry, Statement
  <1>4. faults' \in 0..MaxFaults
    BY <1>1, FaultCount DEF DataOK, MarkRetry, Statement
  <1>5. DataOK'
    BY <1>1, <1>3, <1>4 DEF DataOK, MarkRetry
  <1>6. EndRun(w)
    BY DEF MarkRetry, Statement
  <1>7. ControlOK'
    BY <1>1, <1>6, EndRunControl
       DEF ControlOK, Steps, DbCalls
  <1> QED  BY <1>5, <1>7 DEF TypeOK, ControlOK, DataOK

LEMMA SendCompletedRequestType ==
  ASSUME TypeOK, NEW w \in Workers, SendCompletedRequest(w)
  PROVE  TypeOK'
  <1>1. ControlOK /\ DataOK /\ job[w] \in Ids
    BY DEF TypeOK, ControlOK, DataOK, SendCompletedRequest, RowSteps, AnalysisSteps, MailSteps
  <1>3. rows' \in [Ids -> Row]
    BY <1>1 DEF DataOK, SendCompletedRequest, Query
  <1>4. faults' \in 0..MaxFaults
    BY <1>1, FaultCount DEF DataOK, SendCompletedRequest, Query
  <1>5. DataOK'
    BY <1>1, <1>3, <1>4 DEF DataOK, SendCompletedRequest
  <1>6. \/ Goto(w, "claim_send")
        \/ Continue(w, local[w])
        \/ EndRun(w)
    BY DEF SendCompletedRequest, Query
  <1>7. ControlOK'
    BY <1>1, <1>6, GotoControl, ContinueControl, EndRunControl
       DEF ControlOK, Steps, DbCalls
  <1> QED  BY <1>5, <1>7 DEF TypeOK, ControlOK, DataOK

LEMMA ReleaseLockType ==
  ASSUME TypeOK, NEW w \in Workers, ReleaseLock(w)
  PROVE  TypeOK'
  <1>1. ControlOK /\ DataOK
    BY DEF TypeOK, ControlOK, DataOK, ReleaseLock
  <1>3. rows' \in [Ids -> Row]
    BY <1>1 DEF DataOK, ReleaseLock
  <1>4. faults' \in 0..MaxFaults
    BY <1>1 DEF DataOK, ReleaseLock
  <1>5. DataOK'
    BY <1>1, <1>3, <1>4 DEF DataOK, ReleaseLock
  <1>6. Goto(w, "idle")
    BY DEF ReleaseLock
  <1>7. ControlOK'
    BY <1>1, <1>6, GotoControl
       DEF ControlOK, Steps, DbCalls, RowSteps, AnalysisSteps,
           MailSteps
  <1> QED  BY <1>5, <1>7 DEF TypeOK, ControlOK, DataOK

LEMMA CrashType ==
  ASSUME TypeOK, NEW w \in Workers, Crash(w)
  PROVE  TypeOK'
  <1>1. ControlOK /\ DataOK
    BY DEF TypeOK, ControlOK, DataOK
  <1>2. ControlOK'
    BY <1>1, EnterPhaseControl
       DEF Crash, Steps, RowSteps, AnalysisSteps, MailSteps
  <1>3. faults' \in 0..MaxFaults
    BY <1>1, FaultCount DEF DataOK, Crash
  <1> QED  BY <1>1, <1>2, <1>3 DEF TypeOK, ControlOK, DataOK, Crash

LEMMA LockDropType ==
  ASSUME TypeOK, NEW w \in Workers, LockDrop(w)
  PROVE  TypeOK'
  <1>1. faults' \in 0..MaxFaults
    BY FaultCount DEF TypeOK, LockDrop
  <1> QED  BY <1>1 DEF TypeOK, LockDrop

LEMMA AbandonedType ==
  ASSUME TypeOK, NEW r \in Ids, Abandoned(r)
  PROVE  TypeOK'
  <1>1. [rows[r] EXCEPT !.old = TRUE] \in Row
    BY DEF TypeOK, Row
  <1>2. rows' \in [Ids -> Row]
    BY <1>1 DEF TypeOK, Abandoned
  <1>3. faults' \in 0..MaxFaults
    BY FaultCount DEF TypeOK, Abandoned
  <1> QED  BY <1>2, <1>3 DEF TypeOK, Abandoned

LEMMA OverdueType ==
  ASSUME TypeOK, NEW r \in Ids, Overdue(r)
  PROVE  TypeOK'
  <1>1. [rows[r] EXCEPT !.old = TRUE] \in Row
    BY DEF TypeOK, Row
  <1>2. rows' \in [Ids -> Row]
    BY <1>1 DEF TypeOK, Overdue
  <1>3. faults' \in 0..MaxFaults
    BY FaultCount DEF TypeOK, Overdue
  <1> QED  BY <1>2, <1>3 DEF TypeOK, Overdue

LEMMA ArriveType ==
  ASSUME TypeOK, NEW r \in Ids, Arrive(r)
  PROVE  TypeOK'
  <1>1. rows' \in [Ids -> Row]
    BY RowsAtStart DEF TypeOK, Arrive
  <1> QED  BY <1>1 DEF TypeOK, Arrive

LEMMA OperatorDropType ==
  ASSUME TypeOK, NEW r \in Ids, OperatorDrop(r)
  PROVE  TypeOK'
  <1>1. [rows[r] EXCEPT !.send = "SEND_DROPPED", !.old = FALSE] \in Row
    <2>1. rows[r] \in Row /\ "SEND_DROPPED" \in SendStatuses
      BY DEF TypeOK, SendStatuses
    <2> QED  BY <2>1 DEF Row
  <1>2. rows' \in [Ids -> Row]
    BY <1>1 DEF TypeOK, OperatorDrop
  <1> QED  BY <1>2 DEF TypeOK, OperatorDrop

\* What the operator does to a row leaves a row.
LEMMA SendByHand ==
  ASSUME NEW row \in Row, NEW s \in SendStatuses
  PROVE  [row EXCEPT !.send = s, !.old = FALSE] \in Row
  BY DEF Row

LEMMA OperatorReopenType ==
  ASSUME TypeOK, NEW r \in Ids, OperatorReopen(r)
  PROVE  TypeOK'
  <1>1. PICK s \in SEND_READY_STATUSES :
          rows' = [rows EXCEPT ![r].send = s, ![r].old = FALSE]
    BY DEF OperatorReopen
  <1>2. rows' \in [Ids -> Row]
    <2>1. rows \in [Ids -> Row] /\ rows[r] \in Row /\ s \in SendStatuses
      BY <1>1 DEF TypeOK, SendStatuses, SEND_READY_STATUSES
    <2>2. [rows[r] EXCEPT !.send = s, !.old = FALSE] \in Row
      BY <2>1, SendByHand
    <2>3. rows'[r] = [rows[r] EXCEPT !.send = s, !.old = FALSE]
      BY <1>1, <2>1
    <2>4. \A i \in Ids \ {r} : rows'[i] = rows[i]
      BY <1>1, <2>1
    <2>5. rows' = [i \in Ids |-> rows'[i]]
      BY <1>1, <2>1
    <2> QED  BY <2>1, <2>2, <2>3, <2>4, <2>5
  <1>3. reopened' \in [Ids -> Nat]
    BY DEF TypeOK, OperatorReopen
  <1> QED  BY <1>2, <1>3 DEF TypeOK, OperatorReopen

\* Every reachable state is well typed, and a worker on a row has that row's
\* id in hand.
THEOREM TypeCorrect == Spec => []TypeOK
  <1>1. Init => TypeOK
    <2>1. ASSUME Init PROVE rows \in [Ids -> Row]
      BY <2>1, RowsAtStart, PipelineAssumption DEF Init
    <2>2. ASSUME Init PROVE local \in [Workers -> Local]
      BY <2>2, FreshLocalType DEF Init
    <2> QED  BY <2>1, <2>2, PipelineAssumption
             DEF Init, TypeOK, Steps, RowSteps, AnalysisSteps, MailSteps
  <1>2. TypeOK /\ [Next]_vars => TypeOK'
    <2> SUFFICES ASSUME TypeOK, [Next]_vars PROVE TypeOK'
      OBVIOUS
    <2>1. ASSUME NEW w \in Workers, Step(w) PROVE TypeOK'
      BY <2>1, AcquireLockType, EnsureSchemaType, RecoverIncompleteRequestsType,
         CollectLegacyMailType, InsertReceivedType, RecoverStaleSendingType,
         ListSendReadyType, ClaimSendType, SendAnalysisMailType,
         MarkSentType, MarkSendFailedType, MarkSendUnknownType,
         ListApiReadyType, ClaimApiRequestType, AnalyzeRequestType,
         MarkCompletedType, MarkRetryType, SendCompletedRequestType,
         ReleaseLockType
         DEF Step
    <2>2. ASSUME NEW w \in Workers, Crash(w) \/ LockDrop(w) PROVE TypeOK'
      BY <2>2, CrashType, LockDropType
    <2>3. ASSUME NEW r \in Ids,
                 Abandoned(r) \/ Overdue(r) \/ Arrive(r) \/ OperatorDrop(r)
                   \/ OperatorReopen(r)
          PROVE  TypeOK'
      BY <2>3, AbandonedType, OverdueType, ArriveType, OperatorDropType,
         OperatorReopenType
    <2>4. CASE UNCHANGED vars
      BY <2>4 DEF vars, TypeOK
    <2> QED  BY <2>1, <2>2, <2>3, <2>4 DEF Next
  <1> QED  BY <1>1, <1>2, PTL DEF Spec

----------------------------------------------------------------------------
(* What the theorems assume of the failures.                                *)

\* The connection that holds the lock stays open while its run lasts.
LockHolds == "lock_drop" \notin Faults

\* mark_completed is acknowledged when it has taken effect.
CompletionIsKnown == "mark_completed" \notin Faults

\* After a delivery the worker learns of it, or at least that it is in doubt.
DeliveryIsKnown == "mark_sent" \notin Faults /\ "broken_reply" \notin Faults

\* No worker is slower than the stale thresholds.
RunsAreQuick == "slow" \notin Faults

----------------------------------------------------------------------------
(* The lock.                                                                *)

\* Whoever is in a run holds the lock.
LockInv == \A w \in Workers : pc[w] # "idle" => lock = w

\* The steps a worker takes inside a run, that is, with the lock.
InnerStep(w) ==
  \/ EnsureSchema(w) \/ RecoverIncompleteRequests(w)
  \/ CollectLegacyMail(w) \/ InsertReceived(w) \/ RecoverStaleSending(w)
  \/ ListSendReady(w) \/ ClaimSend(w) \/ SendAnalysisMail(w) \/ MarkSent(w)
  \/ MarkSendFailed(w) \/ MarkSendUnknown(w)
  \/ ListApiReady(w) \/ ClaimApiRequest(w) \/ AnalyzeRequest(w)
  \/ MarkCompleted(w) \/ MarkRetry(w) \/ SendCompletedRequest(w)

\* Nobody but w moves.
Alone(w) == \A v \in Workers \ {w} :
              pc'[v] = pc[v] /\ job'[v] = job[v] /\ local'[v] = local[v]

\* What such a step does to the control state of all workers.
Moved(w) == /\ pc[w] # "idle" /\ pc'[w] # "idle"
            /\ lock' = lock
            /\ Alone(w)

LEMMA GotoAlone ==
  ASSUME TypeOK, NEW w \in Workers, NEW s, Goto(w, s)
  PROVE  pc'[w] = s /\ job' = job /\ local' = local /\ Alone(w)
  BY DEF TypeOK, Goto, Alone

LEMMA EnterAlone ==
  ASSUME TypeOK, NEW w \in Workers, NEW phase, NEW s, EnterPhase(w, phase, s)
  PROVE  pc'[w] = s /\ job'[w] = 0 /\ local'[w] = FreshLocal(phase) /\ Alone(w)
  BY DEF TypeOK, EnterPhase, Alone

LEMMA FreshPhase ==
  ASSUME NEW phase
  PROVE  /\ FreshLocal(phase).phase = phase /\ FreshLocal(phase).batch = <<>>
         /\ FreshLocal(phase).full = FALSE /\ FreshLocal(phase).cursor = 0
  BY DEF FreshLocal

LEMMA EndRunAlone ==
  ASSUME TypeOK, NEW w \in Workers, EndRun(w)
  PROVE  pc'[w] = "release_lock" /\ Alone(w)
  BY EnterAlone DEF EndRun

LEMMA ContinueAlone ==
  ASSUME TypeOK, NEW w \in Workers, NEW l, Continue(w, l)
  PROVE  pc'[w] \in OpenSteps /\ Alone(w)
  <1>1. CASE NextRow(w, l) \/ NextBatch(w, l)
    <2>1. PICK s, i, m : /\ s \in OpenSteps
                         /\ pc' = [pc EXCEPT ![w] = s]
                         /\ job' = [job EXCEPT ![w] = i]
                         /\ local' = [local EXCEPT ![w] = m]
      BY <1>1 DEF NextRow, NextBatch, ClaimStep, ListStep, OpenSteps
    <2> QED  BY <2>1 DEF TypeOK, Alone
  <1>2. CASE LoopDone(w, l)
    BY <1>2, EnterAlone DEF LoopDone, EndRun, OpenSteps
  <1> QED  BY <1>1, <1>2 DEF Continue

\* From where the code goes on with the same row and the same loop, and where to.
Edge(w, s, t) ==
  \/ s = "ensure_schema" /\ t = "recover_incomplete_requests"
  \/ s = "recover_incomplete_requests" /\ t = "collect_legacy_pop3_mail"
  \/ s = "collect_legacy_pop3_mail" /\ w \in MailSendEnabled /\ t = "recover_stale_sending"
  \/ s = "recover_stale_sending" /\ t = "list_send_ready"
  \/ s = "claim_send" /\ t = "send_analysis_mail"
  \/ s = "send_analysis_mail" /\ t \in {"mark_sent", "mark_send_failed", "mark_send_unknown"}
  \/ s = "mark_sent" /\ t = "mark_send_failed"
  \/ s = "claim_api_request" /\ t \in {"analyze_request", "send_completed_request"}
  \/ s = "analyze_request" /\ t = "mark_retry"
  \/ s = "mark_completed" /\ t \in {"send_completed_request", "mark_retry"}
  \/ s = "send_completed_request" /\ w \in MailSendEnabled /\ t = "claim_send"

\* The steps after which a loop takes its next row.
LoopTails == {"claim_send", "send_completed_request", "mark_sent",
              "mark_send_failed", "mark_send_unknown"}

SendListing(w) == /\ pc[w] = "list_send_ready" /\ UNCHANGED rows
                  /\ \E b \in FirstRows(SendQueueAfter(local[w].cursor),
                                        MailSendBatchSize, ById) :
                       Continue(w, [local[w] EXCEPT !.batch = b,
                                                    !.full = Len(b) = MailSendBatchSize])

ApiListing(w) == /\ pc[w] = "list_api_ready" /\ UNCHANGED rows
                 /\ \E b \in FirstRows({r \in Ids : ApiReady(rows[r])},
                                       MaxAnalysisPerRun, RetryFirst) :
                      Continue(w, [local[w] EXCEPT !.batch = b,
                                                   !.full = Len(b) = MaxAnalysisPerRun])

\* Where a step inside a run takes its worker: to the end of the run, after a
\* failure; on in its loop; along an edge; to the analysis queue; or nowhere.
RunMove(w) ==
  \/ EndRun(w) /\ (pc[w] = "mark_retry" \/ \E kind \in FaultKinds : Fault(kind))
  \/ pc[w] \in LoopTails /\ Continue(w, local[w])
  \/ SendListing(w) \/ ApiListing(w)
  \/ \E t \in Steps : Edge(w, pc[w], t) /\ Goto(w, t)
  \/ /\ pc[w] = "collect_legacy_pop3_mail" /\ UNCHANGED rows
     /\ w \notin MailSendEnabled /\ EnterPhase(w, "queue", "list_api_ready")
  \/ pc[w] = "collect_legacy_pop3_mail" /\ UNCHANGED <<pc, job, local>>
  \/ /\ pc[w] = "analyze_request" /\ UNCHANGED job
     /\ pc' = [pc EXCEPT ![w] = "mark_completed"]
     /\ \E a \in Answers : local' = [local EXCEPT ![w] = [local[w] EXCEPT !.answer = a]]

LEMMA RunMoves ==
  ASSUME NEW w \in Workers, InnerStep(w)
  PROVE  RunMove(w) /\ lock' = lock
  <1> USE DEF RunMove, Statement, Query, Edge, LoopTails, FaultKinds, DbCalls, Steps
  <1>1. CASE EnsureSchema(w) \/ RecoverIncompleteRequests(w) \/ RecoverStaleSending(w)
    BY <1>1 DEF EnsureSchema, RecoverIncompleteRequests, RecoverStaleSending
  <1>2. CASE CollectLegacyMail(w)
    BY <1>2 DEF CollectLegacyMail
  <1>3. CASE InsertReceived(w)
    BY <1>3 DEF InsertReceived
  <1>4. CASE ListSendReady(w)
    BY <1>4 DEF ListSendReady, SendListing
  <1>5. CASE ClaimSend(w)
    BY <1>5 DEF ClaimSend
  <1>6. CASE SendAnalysisMail(w)
    BY <1>6 DEF SendAnalysisMail, Delivered, NotDelivered
  <1>7. CASE MarkSent(w)
    BY <1>7 DEF MarkSent
  <1>8. CASE MarkSendFailed(w)
    BY <1>8 DEF MarkSendFailed
  <1>9. CASE MarkSendUnknown(w)
    BY <1>9 DEF MarkSendUnknown
  <1>10. CASE ListApiReady(w)
    BY <1>10 DEF ListApiReady, ApiListing
  <1>11. CASE ClaimApiRequest(w)
    BY <1>11 DEF ClaimApiRequest
  <1>12. CASE AnalyzeRequest(w)
    BY <1>12, PipelineAssumption DEF AnalyzeRequest
  <1>13. CASE MarkCompleted(w)
    BY <1>13 DEF MarkCompleted
  <1>14. CASE MarkRetry(w)
    BY <1>14 DEF MarkRetry
  <1>15. CASE SendCompletedRequest(w)
    BY <1>15 DEF SendCompletedRequest
  <1> QED  BY <1>1, <1>2, <1>3, <1>4, <1>5, <1>6, <1>7, <1>8, <1>9, <1>10,
              <1>11, <1>12, <1>13, <1>14, <1>15 DEF InnerStep

\* The step a worker takes is the one its pc names.
LEMMA StepTaken ==
  ASSUME NEW w \in Workers, InnerStep(w)
  PROVE  /\ pc[w] = "claim_send" => ClaimSend(w)
         /\ pc[w] = "send_analysis_mail" => SendAnalysisMail(w)
         /\ pc[w] = "mark_sent" => MarkSent(w)
         /\ pc[w] = "claim_api_request" => ClaimApiRequest(w)
         /\ pc[w] = "analyze_request" => AnalyzeRequest(w)
         /\ pc[w] = "mark_completed" => MarkCompleted(w)
         /\ pc[w] = "mark_retry" => MarkRetry(w)
         /\ pc[w] # "idle" /\ pc[w] # "release_lock"
  <1>1. /\ EnsureSchema(w) => pc[w] = "ensure_schema"
        /\ RecoverIncompleteRequests(w) => pc[w] = "recover_incomplete_requests"
        /\ CollectLegacyMail(w) \/ InsertReceived(w) => pc[w] = "collect_legacy_pop3_mail"
        /\ RecoverStaleSending(w) => pc[w] = "recover_stale_sending"
        /\ ListSendReady(w) => pc[w] = "list_send_ready"
        /\ ListApiReady(w) => pc[w] = "list_api_ready"
    BY DEF EnsureSchema, RecoverIncompleteRequests, CollectLegacyMail, InsertReceived,
           RecoverStaleSending, ListSendReady, ListApiReady
  <1>2. /\ ClaimSend(w) => pc[w] = "claim_send"
        /\ SendAnalysisMail(w) => pc[w] = "send_analysis_mail"
        /\ MarkSent(w) => pc[w] = "mark_sent"
        /\ MarkSendFailed(w) => pc[w] = "mark_send_failed"
        /\ MarkSendUnknown(w) => pc[w] = "mark_send_unknown"
    BY DEF ClaimSend, SendAnalysisMail, MarkSent, MarkSendFailed, MarkSendUnknown
  <1>3. /\ ClaimApiRequest(w) => pc[w] = "claim_api_request"
        /\ AnalyzeRequest(w) => pc[w] = "analyze_request"
        /\ MarkCompleted(w) => pc[w] = "mark_completed"
        /\ MarkRetry(w) => pc[w] = "mark_retry"
        /\ SendCompletedRequest(w) => pc[w] = "send_completed_request"
    BY DEF ClaimApiRequest, AnalyzeRequest, MarkCompleted, MarkRetry, SendCompletedRequest
  <1> QED  BY <1>1, <1>2, <1>3 DEF InnerStep

\* A worker that is in its next step works on the same row, or on none.
LEMMA RunTargets ==
  ASSUME TypeOK, NEW w \in Workers, RunMove(w)
  PROVE  /\ Alone(w)
         /\ \/ pc'[w] \in OpenSteps
            \/ Edge(w, pc[w], pc'[w]) /\ job' = job
            \/ pc[w] = "analyze_request" /\ pc'[w] = "mark_completed" /\ job' = job
            \/ pc[w] = "collect_legacy_pop3_mail" /\ pc'[w] = pc[w]
  <1> DEFINE there == \/ pc'[w] \in OpenSteps
                      \/ Edge(w, pc[w], pc'[w]) /\ job' = job
                      \/ pc[w] = "analyze_request" /\ pc'[w] = "mark_completed" /\ job' = job
                      \/ pc[w] = "collect_legacy_pop3_mail" /\ pc'[w] = pc[w]
  <1>1. CASE EndRun(w) \/ \E l : Continue(w, l)
    BY <1>1, EndRunAlone, ContinueAlone DEF OpenSteps
  <1>2. CASE \E t \in Steps : Edge(w, pc[w], t) /\ Goto(w, t)
    BY <1>2, GotoAlone
  <1>3. CASE EnterPhase(w, "queue", "list_api_ready")
    BY <1>3, EnterAlone DEF OpenSteps
  <1>4. CASE pc[w] = "collect_legacy_pop3_mail" /\ UNCHANGED <<pc, job, local>>
    BY <1>4 DEF Alone
  <1>5. ASSUME pc[w] = "analyze_request", UNCHANGED job, NEW m,
               pc' = [pc EXCEPT ![w] = "mark_completed"], local' = [local EXCEPT ![w] = m]
        PROVE  Alone(w) /\ there
    BY <1>5 DEF TypeOK, Alone
  <1> QED  BY <1>1, <1>2, <1>3, <1>4, <1>5 DEF RunMove, SendListing, ApiListing

\* Every step inside a run stays inside it, keeps the lock and moves nobody
\* else.
LEMMA InnerMoves ==
  ASSUME TypeOK, NEW w \in Workers, InnerStep(w)
  PROVE  Moved(w)
  <1>1. RunMove(w) /\ lock' = lock
    BY RunMoves
  <1>2. pc[w] # "idle"
    BY StepTaken
  <1>3. pc'[w] # "idle"
    BY <1>1, RunTargets DEF Edge, OpenSteps
  <1> QED  BY <1>1, <1>2, <1>3, RunTargets DEF Moved

\* The four kinds of step a worker can take.
LEMMA StepCases ==
  ASSUME NEW w \in Workers, Step(w)
  PROVE  AcquireLock(w) \/ InnerStep(w) \/ ReleaseLock(w)
  BY DEF Step, InnerStep

LEMMA LockInvStep ==
  ASSUME TypeOK, LockInv, LockHolds, [Next]_vars
  PROVE  LockInv'
  <1> USE DEF LockInv
  <1>1. ASSUME NEW w \in Workers, Step(w) PROVE LockInv'
    <2>1. CASE AcquireLock(w)
      <3>1. \A v \in Workers : pc[v] = "idle"
        BY <2>1, PipelineAssumption DEF AcquireLock
      <3>2. pc' = [pc EXCEPT ![w] = "ensure_schema"] /\ lock' = w
        BY <2>1 DEF AcquireLock, Goto
      <3> QED  BY <3>1, <3>2 DEF TypeOK
    <2>2. CASE InnerStep(w)
      BY <2>2, InnerMoves DEF Moved, Alone
    <2>3. CASE ReleaseLock(w)
      BY <2>3 DEF ReleaseLock, Goto, TypeOK
    <2> QED  BY <1>1, <2>1, <2>2, <2>3, StepCases
  <1>2. ASSUME NEW w \in Workers, Crash(w) PROVE LockInv'
    BY <1>2 DEF Crash, EnterPhase, TypeOK
  <1>3. ASSUME NEW w \in Workers, LockDrop(w) PROVE FALSE
    BY <1>3 DEF LockDrop, Fault, LockHolds
  <1>4. ASSUME UNCHANGED <<pc, lock>> PROVE LockInv'
    BY <1>4
  <1>5. ASSUME NEW r \in Ids,
               Abandoned(r) \/ Overdue(r) \/ Arrive(r) \/ OperatorDrop(r)
                 \/ OperatorReopen(r)
        PROVE  UNCHANGED <<pc, lock>>
    BY <1>5 DEF Abandoned, Overdue, Arrive, OperatorDrop, OperatorReopen
  <1> QED  BY <1>1, <1>2, <1>3, <1>4, <1>5 DEF Next, vars

LEMMA LockInvHolds == LockHolds => (Spec => []LockInv)
  <1> SUFFICES ASSUME LockHolds PROVE Spec => []LockInv
    OBVIOUS
  <1>1. Init => LockInv
    BY DEF Init, LockInv
  <1>2. TypeOK /\ LockInv /\ [Next]_vars => LockInv'
    BY LockInvStep
  <1> QED  BY <1>1, <1>2, TypeCorrect, PTL DEF Spec

\* Two runs never overlap, whatever crashes and whatever the order in which
\* the workers come, as long as the connection that holds the lock stays open.
THEOREM OneRun == LockHolds => (Spec => []OneRunAtATime)
  <1>1. LockInv => OneRunAtATime
    BY DEF LockInv, OneRunAtATime
  <1> QED  BY <1>1, LockInvHolds, PTL



----------------------------------------------------------------------------
(* How a worker comes to a row it has claimed.                              *)

\* The steps from a claim of a mail up to the moment its fate is known, and
\* the one that returns it to the queue.
FlightSteps == {"send_analysis_mail", "mark_send_failed"}

\* The only steps that bring a worker to a row it has claimed.
Entries(w) ==
  /\ pc'[w] \in AnalysisSteps =>
       ClaimApiRequest(w) \/ AnalyzeRequest(w) \/ MarkCompleted(w)
  /\ pc'[w] \in FlightSteps => ClaimSend(w) \/ SendAnalysisMail(w) \/ MarkSent(w)

LEMMA InnerEntries ==
  ASSUME TypeOK, NEW w \in Workers, InnerStep(w)
  PROVE  Entries(w)
  <1>1. /\ pc'[w] \in AnalysisSteps =>
             pc[w] \in {"claim_api_request", "analyze_request", "mark_completed"}
        /\ pc'[w] \in FlightSteps =>
             pc[w] \in {"claim_send", "send_analysis_mail", "mark_sent"}
    BY RunMoves, RunTargets DEF Edge, OpenSteps, AnalysisSteps, FlightSteps
  <1> QED  BY <1>1, StepTaken DEF Entries

\* Who comes to a step of the mail queue keeps the row in hand: it has just
\* claimed it, or was on it before; and only a delivery leads to mark_sent.
LEMMA MailEntry ==
  ASSUME TypeOK, NEW w \in Workers, InnerStep(w), pc'[w] \in MailSteps
  PROVE  /\ job' = job /\ job[w] \in Ids
         /\ pc[w] \in MailSteps \/ (ClaimSend(w) /\ SendReady(rows[job[w]]))
         /\ pc'[w] = "mark_sent" => SendAnalysisMail(w) /\ Delivered(w)
  <1>1. /\ job' = job
        /\ \/ pc[w] = "claim_send" /\ pc'[w] = "send_analysis_mail"
           \/ pc[w] \in MailSteps
        /\ pc'[w] = "mark_sent" => pc[w] = "send_analysis_mail"
    BY RunMoves, RunTargets DEF Edge, OpenSteps, MailSteps
  <1>2. job[w] \in Ids
    BY <1>1 DEF TypeOK, RowSteps
  <1>3. CASE pc[w] = "claim_send"
    <2>1. ASSUME Continue(w, local[w]) \/ EndRun(w) PROVE FALSE
      BY <2>1, EndRunAlone, ContinueAlone DEF OpenSteps, MailSteps
    <2>2. ClaimSend(w)
      BY <1>3, StepTaken
    <2>3. SendReady(rows[job[w]])
      BY <2>1, <2>2 DEF ClaimSend, Query
    <2> QED  BY <1>1, <1>2, <1>3, <2>2, <2>3
  <1>4. CASE pc'[w] = "mark_sent"
    <2>1. SendAnalysisMail(w)
      BY <1>1, <1>4, StepTaken
    <2>2. ~NotDelivered(w)
      BY <1>4, GotoAlone DEF NotDelivered
    <2> QED  BY <1>1, <1>2, <1>4, <2>1, <2>2 DEF SendAnalysisMail, MailSteps
  <1> QED  BY <1>1, <1>2, <1>3, <1>4

----------------------------------------------------------------------------
(* What a step does to a row.                                               *)

\* What a worker's statements make of row r: some update every row that meets
\* their WHERE, the others the row in hand.
Written(w, r) ==
  \/ rows'[r] = rows[r] \/ rows'[r] = SendRecovered(rows[r])
  \/ pc[w] = "ensure_schema" /\ rows'[r] = Backfilled(rows[r])
  \/ pc[w] = "recover_incomplete_requests" /\ rows'[r] = Recovered(rows[r])
  \/ rows[r] = NoRow /\ rows'[r] = ReceivedRow
  \/ /\ job[w] = r
     /\ \/ ClaimApiRequest(w) /\ ApiClaimable(rows[r]) /\ rows'[r] = Claimed(rows[r])
        \/ /\ MarkCompleted(w)
           /\ \E a \in Answers, b \in BOOLEAN : rows'[r] = Completed(rows[r], a, b)
        \/ MarkRetry(w) /\ rows'[r] = Retried(rows[r])
        \/ ClaimSend(w) /\ SendReady(rows[r]) /\ rows'[r] = SendClaimed(rows[r])
        \/ MarkSent(w) /\ rows'[r] = SendMarked(rows[r], "SENT")
        \/ MarkSendFailed(w) /\ rows'[r] = SendMarked(rows[r], "SEND_BLOCKED")
        \/ MarkSendUnknown(w) /\ rows'[r] = SendMarked(rows[r], "SEND_UNKNOWN")

\* What the operator may set.
QueueStatuses == SEND_READY_STATUSES \cup {"SEND_DROPPED"}

\* What the clock, the central collector and the operator make of row r.
Touched(r) ==
  \/ rows'[r] = rows[r]
  \/ /\ rows'[r] = [rows[r] EXCEPT !.old = TRUE]
     /\ rows[r].status = "PROCESSING" \/ rows[r].send = "SENDING"
     /\ Holding(r) = {} \/ Fault("slow")
  \/ rows[r] = NoRow /\ rows'[r] \in Arrivals
  \/ /\ rows[r].send \in {"SEND_PENDING", "SEND_BLOCKED", "SENDING", "SEND_UNKNOWN"}
     /\ rows'[r] = [rows[r] EXCEPT !.send = "SEND_DROPPED", !.old = FALSE]
  \/ /\ rows[r].send \in {"SEND_UNKNOWN", "SEND_DROPPED"}
     /\ reopened'[r] = reopened[r] + 1
     /\ \E s \in SEND_READY_STATUSES :
          rows'[r] = [rows[r] EXCEPT !.send = s, !.old = FALSE]

\* A statement on one row changes no other, and that one as it says.
LEMMA OneRowWritten ==
  ASSUME TypeOK, NEW j \in Ids, NEW new, rows' \in {rows, [rows EXCEPT ![j] = new]},
         NEW r \in Ids
  PROVE  rows'[r] = rows[r] \/ (j = r /\ rows'[r] = new)
  BY DEF TypeOK

LEMMA InnerRows ==
  ASSUME TypeOK, NEW w \in Workers, InnerStep(w), NEW r \in Ids
  PROVE  Written(w, r)
  <1> DEFINE j == job[w]
  <1>1. pc[w] \in RowSteps => j \in Ids
    BY DEF TypeOK
  <1>2. CASE UNCHANGED rows
    BY <1>2 DEF Written
  <1>3. CASE EnsureSchema(w) \/ RecoverIncompleteRequests(w) \/ RecoverStaleSending(w)
    BY <1>3 DEF EnsureSchema, RecoverIncompleteRequests, RecoverStaleSending,
                Statement, Written
  <1>4. CASE InsertReceived(w)
    <2>1. PICK i \in Ids : /\ rows[i] = NoRow
                           /\ rows' \in {rows, [rows EXCEPT ![i] = ReceivedRow]}
      BY <1>4 DEF InsertReceived, Statement
    <2> QED  BY <2>1, OneRowWritten DEF Written
  <1>5. CASE ClaimApiRequest(w) /\ ApiClaimable(rows[j])
    <2>1. j \in Ids
      BY <1>1, <1>5 DEF ClaimApiRequest, RowSteps
    <2>2. rows' \in {rows, [rows EXCEPT ![j] = Claimed(rows[j])]}
      BY <1>5 DEF ClaimApiRequest, Statement
    <2> QED  BY <1>5, <2>1, <2>2, OneRowWritten DEF Written
  <1>6. CASE MarkCompleted(w)
    <2> DEFINE on == w \in MailSendEnabled
    <2>1. j \in Ids /\ local[w].answer \in Answers /\ on \in BOOLEAN
      BY <1>1, <1>6 DEF MarkCompleted, RowSteps, AnalysisSteps, TypeOK, Local
    <2>2. rows' \in {rows, [rows EXCEPT ![j] = Completed(rows[j], local[w].answer, on)]}
      BY <1>6 DEF MarkCompleted, Statement
    <2> HIDE DEF on
    <2>3. \/ rows'[r] = rows[r]
          \/ j = r /\ rows'[r] = Completed(rows[r], local[w].answer, on)
      BY <2>1, <2>2, OneRowWritten
    <2> QED  BY <1>6, <2>1, <2>3 DEF Written
  <1>7. CASE MarkRetry(w)
    <2>1. j \in Ids
      BY <1>1, <1>7 DEF MarkRetry, RowSteps, AnalysisSteps
    <2>2. rows' \in {rows, [rows EXCEPT ![j] = Retried(rows[j])]}
      BY <1>7 DEF MarkRetry, Statement
    <2> QED  BY <1>7, <2>1, <2>2, OneRowWritten DEF Written
  <1>8. CASE ClaimSend(w) /\ SendReady(rows[j])
    <2>1. j \in Ids
      BY <1>1, <1>8 DEF ClaimSend, RowSteps
    <2>2. rows' \in {rows, [rows EXCEPT ![j] = SendClaimed(rows[j])]}
      BY <1>8 DEF ClaimSend, Statement
    <2> QED  BY <1>8, <2>1, <2>2, OneRowWritten DEF Written
  <1>9. ASSUME NEW s, rows' \in {rows, [rows EXCEPT ![j] = SendMarked(rows[j], s)]},
               pc[w] \in MailSteps
        PROVE  rows'[r] = rows[r] \/ (j = r /\ rows'[r] = SendMarked(rows[r], s))
    <2>1. j \in Ids
      BY <1>1, <1>9 DEF RowSteps
    <2> QED  BY <1>9, <2>1, OneRowWritten
  <1>10. CASE MarkSent(w)
    BY <1>9, <1>10 DEF MarkSent, Statement, MailSteps, Written
  <1>11. CASE MarkSendFailed(w)
    BY <1>9, <1>11 DEF MarkSendFailed, Statement, MailSteps, Written
  <1>12. CASE MarkSendUnknown(w)
    BY <1>9, <1>12 DEF MarkSendUnknown, Statement, MailSteps, Written
  <1>13. CASE \/ CollectLegacyMail(w) \/ ListSendReady(w) \/ SendAnalysisMail(w)
              \/ ListApiReady(w) \/ AnalyzeRequest(w) \/ SendCompletedRequest(w)
    BY <1>2, <1>13 DEF CollectLegacyMail, ListSendReady, SendAnalysisMail,
                       ListApiReady, AnalyzeRequest, SendCompletedRequest, Query
  <1>14. CASE \/ ClaimApiRequest(w) /\ ~ApiClaimable(rows[j])
              \/ ClaimSend(w) /\ ~SendReady(rows[j])
    BY <1>2, <1>14 DEF ClaimApiRequest, ClaimSend, Query
  <1> QED  BY <1>3, <1>4, <1>5, <1>6, <1>7, <1>8, <1>10, <1>11, <1>12, <1>13,
              <1>14 DEF InnerStep

\* What changes a row around the workers moves none of them and delivers no mail.
LEMMA OuterRows ==
  ASSUME TypeOK, NEW i \in Ids,
         Abandoned(i) \/ Overdue(i) \/ Arrive(i) \/ OperatorDrop(i) \/ OperatorReopen(i)
  PROVE  /\ \A r \in Ids : Touched(r) /\ (r # i => rows'[r] = rows[r])
         /\ UNCHANGED <<lock, pc, job, local, mails>>
  <1>1. UNCHANGED <<lock, pc, job, local, mails>>
    BY DEF Abandoned, Overdue, Arrive, OperatorDrop, OperatorReopen
  <1>2. ASSUME NEW new, rows' = [rows EXCEPT ![i] = new], rows'[i] = new => Touched(i)
        PROVE  \A r \in Ids : Touched(r) /\ (r # i => rows'[r] = rows[r])
    BY <1>2 DEF TypeOK, Touched
  <1>3. CASE Abandoned(i)
    BY <1>2, <1>3 DEF Abandoned, Touched
  <1>4. CASE Overdue(i)
    BY <1>2, <1>4 DEF Overdue, Touched
  <1>5. CASE Arrive(i)
    BY <1>2, <1>5 DEF Arrive, Touched
  <1>6. CASE OperatorDrop(i)
    <2>1. rows' = [rows EXCEPT ![i] = [rows[i] EXCEPT !.send = "SEND_DROPPED",
                                                      !.old = FALSE]]
      BY <1>6 DEF OperatorDrop, TypeOK
    <2> QED  BY <1>2, <1>6, <2>1 DEF OperatorDrop, Touched
  <1>7. CASE OperatorReopen(i)
    <2>1. PICK s \in SEND_READY_STATUSES :
            rows' = [rows EXCEPT ![i] = [rows[i] EXCEPT !.send = s, !.old = FALSE]]
      BY <1>7 DEF OperatorReopen, TypeOK
    <2> DEFINE new == [rows[i] EXCEPT !.send = s, !.old = FALSE]
    <2>2. rows' = [rows EXCEPT ![i] = new]
      BY <2>1
    <2>3. reopened'[i] = reopened[i] + 1 /\ rows[i].send \in {"SEND_UNKNOWN", "SEND_DROPPED"}
      BY <1>7 DEF OperatorReopen, TypeOK
    <2>4. rows'[i] = new => Touched(i)
      BY <2>3 DEF Touched
    <2> HIDE DEF new
    <2> QED  BY <1>1, <1>2, <2>2, <2>4
  <1> QED  BY <1>1, <1>3, <1>4, <1>5, <1>6, <1>7

\* The steps that touch no row: a run begins, ends or dies.
OutsideStep(w) == AcquireLock(w) \/ ReleaseLock(w) \/ Crash(w)

LEMMA OutsideMoves ==
  ASSUME TypeOK, NEW w \in Workers, OutsideStep(w)
  PROVE  /\ UNCHANGED <<rows, mails, reopened>> /\ Alone(w)
         /\ pc'[w] \in {"idle", "ensure_schema"}
  BY DEF OutsideStep, AcquireLock, ReleaseLock, Crash, Goto, EnterPhase, TypeOK, Alone

\* The cases of a step: a worker within its run or at its ends, a lost lock, and
\* what happens to rows around the workers.
LEMMA NextCases ==
  ASSUME TypeOK, [Next]_vars
  PROVE  \/ \E w \in Workers : InnerStep(w) \/ OutsideStep(w) \/ LockDrop(w)
         \/ \E i \in Ids : Abandoned(i) \/ Overdue(i) \/ Arrive(i) \/ OperatorDrop(i)
                             \/ OperatorReopen(i)
         \/ UNCHANGED vars
  BY StepCases DEF Next, OutsideStep

\* A worker takes a step of its own, or is not moved.
LEMMA Bystanders ==
  ASSUME TypeOK, [Next]_vars, NEW v \in Workers
  PROVE  \/ InnerStep(v) \/ OutsideStep(v)
         \/ pc'[v] = pc[v] /\ job'[v] = job[v] /\ local'[v] = local[v]
  <1>1. CASE \E w \in Workers : InnerStep(w) \/ OutsideStep(w)
    BY <1>1, InnerMoves, OutsideMoves DEF Moved, Alone
  <1>2. CASE \E w \in Workers : LockDrop(w)
    BY <1>2 DEF LockDrop
  <1>3. CASE \E i \in Ids : Abandoned(i) \/ Overdue(i) \/ Arrive(i) \/ OperatorDrop(i)
                              \/ OperatorReopen(i)
    BY <1>3, OuterRows
  <1>4. CASE UNCHANGED vars
    BY <1>4 DEF vars
  <1> QED  BY <1>1, <1>2, <1>3, <1>4, NextCases

\* Every row after a step: as a worker has written it or as something else has
\* touched it.
LEMMA NextRows ==
  ASSUME TypeOK, [Next]_vars, NEW r \in Ids
  PROVE  (\E w \in Workers : InnerStep(w) /\ Written(w, r)) \/ Touched(r)
  <1>1. CASE \E w \in Workers : InnerStep(w)
    BY <1>1, InnerRows
  <1>2. CASE \E w \in Workers : OutsideStep(w)
    BY <1>2, OutsideMoves DEF Touched
  <1>3. CASE \E w \in Workers : LockDrop(w)
    BY <1>3 DEF LockDrop, Touched
  <1>4. CASE \E i \in Ids : Abandoned(i) \/ Overdue(i) \/ Arrive(i) \/ OperatorDrop(i)
                              \/ OperatorReopen(i)
    BY <1>4, OuterRows
  <1>5. CASE UNCHANGED vars
    BY <1>5 DEF vars, Touched
  <1> QED  BY <1>1, <1>2, <1>3, <1>4, <1>5, NextCases

----------------------------------------------------------------------------
(* The claims: who analyses a request has it alone.                         *)

\* One of the two guards against a second analysis works: the lock keeps the
\* runs apart, or no run is so slow that another takes its rows for abandoned.
RunsKeptApart == LockHolds \/ RunsAreQuick

\* A request in analysis is claimed by one worker; and where nobody is slow it
\* does not look abandoned either.
ClaimInv ==
  /\ WriteBackOwnsRow
  /\ LockHolds => LockInv
  /\ RunsAreQuick => \A w \in Workers : pc[w] \in AnalysisSteps => ~rows[job[w]].old

\* While one worker is inside a run the others are idle, before and after.
LEMMA OthersIdle ==
  ASSUME LockInv, NEW w \in Workers, Moved(w)
  PROVE  \A v \in Workers \ {w} : pc[v] = "idle" /\ pc'[v] = "idle"
  BY DEF LockInv, Moved, Alone

\* A row in the hands of a worker, before a step and after it.
Spared(a, b) == a.status = "PROCESSING" /\ ~a.old => b.status = "PROCESSING" /\ ~b.old

LEMMA SparedOperators ==
  ASSUME NEW row \in Row
  PROVE  /\ Spared(row, row)
         /\ ApiClaimable(row) => /\ row.status # "PROCESSING"
                                 /\ Claimed(row).status = "PROCESSING"
                                 /\ ~Claimed(row).old
         /\ Spared(row, Recovered(row))
         /\ Spared(row, Backfilled(row))
         /\ SendReady(row) => Spared(row, SendClaimed(row))
         /\ \A s \in SendStatuses : Spared(row, SendMarked(row, s))
         /\ Spared(row, SendRecovered(row))
         /\ \A s \in SendStatuses : Spared(row, [row EXCEPT !.send = s, !.old = FALSE])
  <1> USE DEF Spared, Row
  <1>1. ApiClaimable(row) => /\ row.status # "PROCESSING"
                             /\ Claimed(row).status = "PROCESSING"
                             /\ ~Claimed(row).old
    BY DEF ApiClaimable, Claimed
  <1>2. Spared(row, Recovered(row)) /\ Spared(row, Backfilled(row))
    BY DEF Recovered, Backfilled
  <1>3. SendReady(row) => Spared(row, SendClaimed(row))
    BY DEF SendReady, SendClaimed
  <1>4. (\A s \in SendStatuses : Spared(row, SendMarked(row, s)))
        /\ Spared(row, SendRecovered(row))
    BY DEF SendMarked, SendRecovered
  <1>5. \A s \in SendStatuses : Spared(row, [row EXCEPT !.send = s, !.old = FALSE])
    OBVIOUS
  <1> QED  BY <1>1, <1>2, <1>3, <1>4, <1>5

\* No statement of one run takes a row from a worker of another that analyses it.
LEMMA InnerSpared ==
  ASSUME TypeOK, ClaimInv, RunsKeptApart, NEW w \in Workers, InnerStep(w),
         NEW v \in Workers \ {w}, pc[v] \in AnalysisSteps, NEW j \in Ids, job[v] = j
  PROVE  /\ rows'[j].status = "PROCESSING"
         /\ RunsAreQuick => ~rows'[j].old
  <1>1. CASE LockHolds
    <2>1. pc[v] = "idle"
      BY <1>1, InnerMoves, OthersIdle DEF ClaimInv
    <2> QED  BY <2>1 DEF AnalysisSteps
  <1>2. CASE RunsAreQuick
    <2>1. rows[j] \in Row /\ rows[j].status = "PROCESSING" /\ ~rows[j].old
      BY <1>2 DEF ClaimInv, WriteBackOwnsRow, TypeOK
    \* mark_completed and mark_retry write by id alone, but to their own row.
    <2>2. ~(job[w] = j /\ (MarkCompleted(w) \/ MarkRetry(w)))
      BY DEF ClaimInv, WriteBackOwnsRow, MarkCompleted, MarkRetry, AnalysisSteps
    <2>3. rows[j] # NoRow
      BY <2>1 DEF NoRow, DefaultRow
    <2>4. {"SENT", "SEND_BLOCKED", "SEND_UNKNOWN"} \subseteq SendStatuses
      BY DEF SendStatuses
    <2> DEFINE old == rows[j]  new == rows'[j]
    <2>5. \/ new \in {old, Backfilled(old), Recovered(old), SendRecovered(old)}
          \/ ApiClaimable(old) /\ new = Claimed(old)
          \/ SendReady(old) /\ new = SendClaimed(old)
          \/ \E s \in SendStatuses : new = SendMarked(old, s)
      BY <2>2, <2>3, <2>4, InnerRows DEF Written
    <2>6. old \in Row
      BY <2>1
    <2> HIDE DEF old, new
    <2>7. Spared(old, new)
      BY <2>5, <2>6, SparedOperators DEF Spared
    <2> QED  BY <2>1, <2>7 DEF Spared, old, new
  <1> QED  BY <1>1, <1>2 DEF RunsKeptApart

\* A worker comes to analyse a row by its claim only, which takes the row when
\* nobody else has it.
LEMMA ClaimedAlone ==
  ASSUME TypeOK, ClaimInv, CompletionIsKnown, NEW w \in Workers, InnerStep(w),
         pc'[w] \in AnalysisSteps
  PROVE  /\ job'[w] = job[w] /\ job[w] \in Ids
         /\ rows'[job[w]].status = "PROCESSING"
         /\ RunsAreQuick => ~rows'[job[w]].old
         /\ \A v \in Workers \ {w} : pc[v] \in AnalysisSteps => job[v] # job[w]
  <1>0. CASE EndRun(w)
    BY <1>0, EndRunAlone DEF AnalysisSteps
  <1>1. CASE ClaimApiRequest(w)
    <2>1. job[w] \in Ids
      BY <1>1 DEF ClaimApiRequest, TypeOK, RowSteps
    <2>2. ~Goto(w, "send_completed_request")
      BY GotoAlone DEF AnalysisSteps
    <2>3. /\ ApiClaimable(rows[job[w]]) /\ job' = job
          /\ EndRun(w) \/ rows' = [rows EXCEPT ![job[w]] = Claimed(rows[job[w]])]
      BY <1>0, <1>1, <2>2, EndRunAlone
         DEF ClaimApiRequest, Statement, Query, Goto, AnalysisSteps
    <2>4. rows'[job[w]] = Claimed(rows[job[w]]) \/ EndRun(w)
      BY <2>1, <2>3 DEF TypeOK
    <2>5. rows[job[w]] \in Row
      BY <2>1 DEF TypeOK
    <2>6. /\ rows[job[w]].status # "PROCESSING"
          /\ Claimed(rows[job[w]]).status = "PROCESSING" /\ ~Claimed(rows[job[w]]).old
      BY <2>3, <2>5, SparedOperators
    <2> QED  BY <1>0, <2>1, <2>3, <2>4, <2>6 DEF ClaimInv, WriteBackOwnsRow
  <1>2. CASE AnalyzeRequest(w)
    <2>1. pc[w] \in AnalysisSteps /\ job' = job /\ rows' = rows
      BY <1>2 DEF AnalyzeRequest, AnalysisSteps, Goto
    <2> QED  BY <2>1 DEF ClaimInv, WriteBackOwnsRow, TypeOK, RowSteps
  <1>3. CASE MarkCompleted(w)
    <2>1. Goto(w, "send_completed_request")
      BY <1>3 DEF MarkCompleted, Statement, Fault, CompletionIsKnown
    <2> QED  BY <2>1, GotoAlone DEF AnalysisSteps
  <1> QED  BY <1>1, <1>2, <1>3, InnerEntries DEF Entries

\* Who goes on with an analysis while others step keeps its row.
LEMMA KeptRow ==
  ASSUME TypeOK, ClaimInv, RunsKeptApart, [Next]_vars,
         NEW v \in Workers, ~InnerStep(v), pc[v] \in AnalysisSteps,
         NEW j \in Ids, job[v] = j
  PROVE  rows'[j].status = "PROCESSING" /\ (RunsAreQuick => ~rows'[j].old)
  <1>1. CASE \E w \in Workers : InnerStep(w)
    BY <1>1, InnerSpared
  <1>2. CASE ~\E w \in Workers : InnerStep(w)
    <2>1. rows[j] \in Row /\ rows[j].status = "PROCESSING" /\ (RunsAreQuick => ~rows[j].old)
      BY DEF ClaimInv, WriteBackOwnsRow, TypeOK
    <2>2. Touched(j)
      BY <1>2, NextRows
    <2>3. Holding(j) # {}
      BY DEF Holding
    <2>4. RunsAreQuick => ~Fault("slow")
      BY DEF RunsAreQuick, Fault
    <2>5. rows[j] # NoRow
      BY <2>1 DEF NoRow, DefaultRow
    <2> QED  BY <2>1, <2>2, <2>3, <2>4, <2>5 DEF Touched, Row
  <1> QED  BY <1>1, <1>2

LEMMA ClaimInvStep ==
  ASSUME TypeOK, ClaimInv, RunsKeptApart, CompletionIsKnown, [Next]_vars
  PROVE  ClaimInv'
  <1>1. LockHolds => LockInv'
    BY LockInvStep DEF ClaimInv
  \* Each worker in analysis has its row in PROCESSING, and has had it before
  \* unless it takes the step.
  <1>2. ASSUME NEW v \in Workers, pc'[v] \in AnalysisSteps
        PROVE  /\ job'[v] = job[v] /\ job[v] \in Ids
               /\ rows'[job[v]].status = "PROCESSING"
               /\ RunsAreQuick => ~rows'[job[v]].old
               /\ \/ InnerStep(v)
                  \/ pc[v] \in AnalysisSteps
    <2>1. CASE InnerStep(v)
      BY <1>2, <2>1, ClaimedAlone
    <2>2. CASE ~InnerStep(v)
      <3>1. ~OutsideStep(v)
        BY <1>2, OutsideMoves DEF AnalysisSteps
      <3>2. pc[v] \in AnalysisSteps /\ job'[v] = job[v]
        BY <1>2, <2>2, <3>1, Bystanders
      <3>3. PICK j \in Ids : job[v] = j
        BY <3>2 DEF TypeOK, RowSteps
      <3> QED  BY <2>2, <3>2, <3>3, KeptRow
    <2> QED  BY <2>1, <2>2
  <1>3. ASSUME NEW v \in Workers, NEW w \in Workers \ {v},
               pc'[v] \in AnalysisSteps, pc'[w] \in AnalysisSteps
        PROVE  job'[w] # job'[v]
    <2>1. CASE pc[v] \in AnalysisSteps /\ pc[w] \in AnalysisSteps
      BY <1>2, <1>3, <2>1 DEF ClaimInv, WriteBackOwnsRow
    <2>2. CASE InnerStep(v) /\ pc[w] \in AnalysisSteps
      BY <1>2, <1>3, <2>2, ClaimedAlone
    <2>3. CASE InnerStep(w) /\ pc[v] \in AnalysisSteps
      BY <1>2, <1>3, <2>3, ClaimedAlone
    <2>4. CASE InnerStep(v) /\ InnerStep(w)
      <3>1. pc'[v] = pc[v] /\ pc'[w] = pc[w]
        BY <2>4, InnerMoves DEF Moved, Alone
      <3> QED  BY <1>3, <2>1, <3>1
    <2> QED  BY <1>2, <1>3, <2>1, <2>2, <2>3, <2>4
  <1> QED  BY <1>1, <1>2, <1>3 DEF ClaimInv, WriteBackOwnsRow

LEMMA ClaimInvHolds == RunsKeptApart /\ CompletionIsKnown => (Spec => []ClaimInv)
  <1> SUFFICES ASSUME RunsKeptApart, CompletionIsKnown PROVE Spec => []ClaimInv
    OBVIOUS
  <1>1. Init => ClaimInv
    BY DEF Init, ClaimInv, WriteBackOwnsRow, AnalysisSteps, LockInv
  <1>2. TypeOK /\ ClaimInv /\ [Next]_vars => ClaimInv'
    BY ClaimInvStep
  <1> QED  BY <1>1, <1>2, TypeCorrect, PTL DEF Spec

\* A worker writes back, by id alone, to a row that is still the one it claimed
\* and that no other works on (mark_completed, mark_retry): while the lock holds,
\* however slow the runs are, and where it is lost and runs overlap, as long as
\* none is slower than the stale thresholds. A completion of unknown outcome is
\* the one failure excluded besides.
THEOREM RowsOwned ==
  RunsKeptApart /\ CompletionIsKnown => (Spec => []WriteBackOwnsRow)
  <1>1. ClaimInv => WriteBackOwnsRow
    BY DEF ClaimInv
  <1> QED  BY <1>1, ClaimInvHolds, PTL


----------------------------------------------------------------------------
(* The rows: attempts, answers, and the stages of a mail.                   *)

\* What QueueBudget and MailOnlyAfterAnswer say of one row.
RowInv(row) ==
  /\ row.status \in {"ROUTED", "RETRY", "PROCESSING"} => row.retries < MaxRetryCount
  /\ row.status = "FAILED" => row.retries = MaxRetryCount
  /\ row.send # "NOT_READY" => row.status = "COMPLETED"
  /\ row.send \in {"SENDING", "SEND_UNKNOWN"} => row.answer \in NonblankAnswers
  /\ row.send = "SENT" => row.answer = "text"

RowsInv == \A r \in Ids : RowInv(rows[r])

\* A worker in the mail queue has an answer in hand, and once it has delivered,
\* one that makes a mail.
SentInv ==
  \A w \in Workers :
    /\ pc[w] \in MailSteps => rows[job[w]].status = "COMPLETED"
    /\ pc[w] = "mark_sent" => rows[job[w]].answer = "text"

QueueInv == RowsInv /\ SentInv

LEMMA RowInvAtStart ==
  /\ RowInv(NoRow)
  /\ \A s \in LegacyStatuses : RowInv(LegacyRow(s))
  /\ \A row \in Arrivals : RowInv(row)
  /\ RowInv(ReceivedRow)
  <1> USE RetryAssumption DEF RowInv, DefaultRow, NonblankAnswers
  <1>1. RowInv(NoRow)
    BY DEF NoRow
  <1>2. ASSUME NEW s \in LegacyStatuses PROVE RowInv(LegacyRow(s))
    <2>1. CASE s = "COMPLETED"
      BY <2>1 DEF LegacyRow
    <2>2. CASE s = "FAILED"
      BY <2>2 DEF LegacyRow
    <2>3. CASE s \notin {"COMPLETED", "FAILED"}
      BY <2>3 DEF LegacyRow
    <2> QED  BY <2>1, <2>2, <2>3
  <1>3. /\ RowInv(ReceivedRow) /\ RowInv(ArchiveRow)
        /\ RowInv(UnclassifiedRow(TRUE)) /\ RowInv(UnclassifiedRow(FALSE))
    BY DEF ReceivedRow, ArchiveRow, UnclassifiedRow
  <1>4. \A row \in Arrivals : RowInv(row)
    BY <1>3, PipelineAssumption
  <1> QED  BY <1>1, <1>2, <1>3, <1>4

LEMMA RowInvOperators ==
  ASSUME NEW row \in Row, RowInv(row)
  PROVE  /\ ApiClaimable(row) => RowInv(Claimed(row))
         /\ \A a \in Answers, b \in BOOLEAN : RowInv(Completed(row, a, b))
         /\ row.status = "PROCESSING" => RowInv(Retried(row))
         /\ RowInv(Recovered(row))
         /\ RowInv(Backfilled(row))
         /\ SendReady(row) => RowInv(SendClaimed(row))
         /\ \A s \in {"SEND_BLOCKED", "SEND_UNKNOWN"} : RowInv(SendMarked(row, s))
         /\ row.answer = "text" => RowInv(SendMarked(row, "SENT"))
         /\ RowInv(SendRecovered(row))
         /\ RowInv([row EXCEPT !.old = TRUE])
         /\ row.send # "NOT_READY" =>
              \A s \in QueueStatuses : RowInv([row EXCEPT !.send = s, !.old = FALSE])
  <1> USE RetryAssumption DEF RowInv, Row, NonblankAnswers
  <1>1. ApiClaimable(row) => RowInv(Claimed(row))
    BY DEF ApiClaimable, Claimed
  <1>2. ASSUME NEW a \in Answers, NEW b \in BOOLEAN
        PROVE  RowInv(Completed(row, a, b))
    <2>1. CASE b  BY <2>1 DEF Completed
    <2>2. CASE ~b  BY <2>2 DEF Completed
    <2> QED  BY <2>1, <2>2
  <1>3. ASSUME row.status = "PROCESSING" PROVE RowInv(Retried(row))
    <2>1. row.retries \in Nat /\ row.retries < MaxRetryCount /\ row.send = "NOT_READY"
      BY <1>3
    <2>2. CASE row.retries + 1 >= MaxRetryCount
      BY <1>3, <2>1, <2>2 DEF Retried
    <2>3. CASE ~(row.retries + 1 >= MaxRetryCount)
      BY <1>3, <2>1, <2>3 DEF Retried
    <2> QED  BY <2>2, <2>3
  <1>4. RowInv(Recovered(row))
    BY DEF Recovered
  <1>5. RowInv(Backfilled(row))
    BY DEF Backfilled
  <1>6. SendReady(row) => RowInv(SendClaimed(row))
    BY DEF SendReady, SendClaimed
  <1>7. /\ \A s \in {"SEND_BLOCKED", "SEND_UNKNOWN"} : RowInv(SendMarked(row, s))
        /\ row.answer = "text" => RowInv(SendMarked(row, "SENT"))
    BY DEF SendMarked
  <1>8. RowInv(SendRecovered(row))
    BY DEF SendRecovered
  <1>9. RowInv([row EXCEPT !.old = TRUE])
    OBVIOUS
  <1>10. row.send # "NOT_READY" =>
           \A s \in QueueStatuses : RowInv([row EXCEPT !.send = s, !.old = FALSE])
    BY DEF QueueStatuses, SEND_READY_STATUSES
  <1> QED  BY <1>1, <1>2, <1>3, <1>4, <1>5, <1>6, <1>7, <1>8, <1>9, <1>10

\* What may become of a row where runs are kept apart and completions known: what
\* a statement makes of a row that meets its WHERE, or the clock, the collector
\* or the operator.
Served(a, b) ==
  \/ b \in {a, Backfilled(a), Recovered(a), SendRecovered(a), [a EXCEPT !.old = TRUE]}
  \/ a = NoRow /\ b \in Arrivals \cup {ReceivedRow}
  \/ ApiClaimable(a) /\ b = Claimed(a)
  \/ /\ a.status = "PROCESSING"
     /\ b = Retried(a) \/ \E n \in Answers, on \in BOOLEAN : b = Completed(a, n, on)
  \/ SendReady(a) /\ b = SendClaimed(a)
  \/ \E s \in {"SENT", "SEND_BLOCKED", "SEND_UNKNOWN"} :
       (s = "SENT" => a.answer = "text") /\ b = SendMarked(a, s)
  \/ a.send # "NOT_READY" /\ b = [a EXCEPT !.send = "SEND_DROPPED", !.old = FALSE]

\* The operator puts the mail of request r back.
Reopened(r) ==
  /\ rows[r].send \in {"SEND_UNKNOWN", "SEND_DROPPED"}
  /\ reopened'[r] = reopened[r] + 1
  /\ \E s \in SEND_READY_STATUSES :
       rows'[r] = [rows[r] EXCEPT !.send = s, !.old = FALSE]

LEMMA InnerServes ==
  ASSUME TypeOK, ClaimInv, SentInv, NEW w \in Workers, InnerStep(w), NEW r \in Ids
  PROVE  Served(rows[r], rows'[r])
  <1> DEFINE a == rows[r]  b == rows'[r]
  <1>1. (MarkCompleted(w) \/ MarkRetry(w)) /\ job[w] = r => a.status = "PROCESSING"
    BY DEF MarkCompleted, MarkRetry, ClaimInv, WriteBackOwnsRow, AnalysisSteps
  <1>2. MarkSent(w) /\ job[w] = r => a.answer = "text"
    BY DEF MarkSent, SentInv
  <1>3. Written(w, r)
    BY InnerRows
  <1>4. \/ b \in {a, Backfilled(a), Recovered(a), SendRecovered(a)}
        \/ a = NoRow /\ b = ReceivedRow
        \/ ApiClaimable(a) /\ b = Claimed(a)
        \/ SendReady(a) /\ b = SendClaimed(a)
        \/ a.status = "PROCESSING" /\ b = Retried(a)
        \/ a.status = "PROCESSING" /\ \E n \in Answers, on \in BOOLEAN : b = Completed(a, n, on)
        \/ a.answer = "text" /\ b = SendMarked(a, "SENT")
        \/ b = SendMarked(a, "SEND_BLOCKED") \/ b = SendMarked(a, "SEND_UNKNOWN")
    BY <1>1, <1>2, <1>3 DEF Written
  <1> HIDE DEF a, b
  <1>5. Served(a, b)
    BY <1>4 DEF Served
  <1> QED  BY <1>5 DEF a, b

LEMMA NextServes ==
  ASSUME TypeOK, ClaimInv, SentInv, [Next]_vars, NEW r \in Ids
  PROVE  Served(rows[r], rows'[r]) \/ Reopened(r)
  <1>1. CASE \E w \in Workers : InnerStep(w)
    BY <1>1, InnerServes
  <1>2. CASE Touched(r)
    BY <1>2 DEF Touched, Served, Reopened
  <1> QED  BY <1>1, <1>2, NextRows

\* A finished request is not taken up again and keeps its answer.
Finished(a, b) ==
  /\ a.status \in {"COMPLETED", "FAILED"} => b.status = a.status
  /\ a.status = "COMPLETED" => b.answer = a.answer

LEMMA ServedRows ==
  ASSUME NEW a \in Row, RowInv(a), NEW b, Served(a, b)
  PROVE  RowInv(b) /\ Finished(a, b)
  <1>1. RowInv(b)
    <2>1. CASE a.send # "NOT_READY" /\ b = [a EXCEPT !.send = "SEND_DROPPED", !.old = FALSE]
      BY <2>1, RowInvOperators DEF QueueStatuses
    <2>2. CASE a = NoRow /\ b \in Arrivals \cup {ReceivedRow}
      BY <2>2, RowInvAtStart
    <2> QED  BY <2>1, <2>2, RowInvOperators DEF Served
  <1>2. Finished(a, b)
    <2> USE DEF Finished, Row
    <2>1. CASE b \in {a, Backfilled(a), Recovered(a), SendRecovered(a), [a EXCEPT !.old = TRUE]}
      BY <2>1 DEF Backfilled, Recovered, SendRecovered
    <2>2. CASE ApiClaimable(a) \/ a = NoRow \/ a.status = "PROCESSING"
      BY <2>2 DEF ApiClaimable, NoRow, DefaultRow
    <2>3. CASE b = SendClaimed(a)
      BY <2>3 DEF SendClaimed
    <2>4. ASSUME NEW s, b = SendMarked(a, s) PROVE Finished(a, b)
      BY <2>4 DEF SendMarked
    <2>5. CASE b = [a EXCEPT !.send = "SEND_DROPPED", !.old = FALSE]
      BY <2>5
    <2> QED  BY <2>1, <2>2, <2>3, <2>4, <2>5 DEF Served
  <1> QED  BY <1>1, <1>2

LEMMA NextFinished ==
  ASSUME TypeOK, ClaimInv, QueueInv, [Next]_vars, NEW r \in Ids
  PROVE  RowInv(rows'[r]) /\ Finished(rows[r], rows'[r])
  <1>1. rows[r] \in Row /\ RowInv(rows[r])
    BY DEF TypeOK, QueueInv, RowsInv
  <1>2. CASE Served(rows[r], rows'[r])
    BY <1>1, <1>2, ServedRows
  <1>3. CASE Reopened(r)
    <2>1. PICK s \in QueueStatuses : rows'[r] = [rows[r] EXCEPT !.send = s, !.old = FALSE]
      BY <1>3 DEF Reopened, QueueStatuses
    <2>2. RowInv(rows'[r])
      BY <1>1, <1>3, <2>1, RowInvOperators DEF Reopened
    <2> QED  BY <1>1, <2>1, <2>2 DEF Finished, Row
  <1> QED  BY <1>2, <1>3, NextServes DEF QueueInv

LEMMA QueueInvStep ==
  ASSUME TypeOK, ClaimInv, QueueInv, [Next]_vars
  PROVE  QueueInv'
  <1>1. RowsInv'
    BY NextFinished DEF RowsInv
  <1>2. ASSUME NEW v \in Workers, pc'[v] \in MailSteps
        PROVE  /\ rows'[job'[v]].status = "COMPLETED"
               /\ pc'[v] = "mark_sent" => rows'[job'[v]].answer = "text"
    <2>1. CASE InnerStep(v)
      <3>1. /\ job'[v] = job[v] /\ job[v] \in Ids
            /\ rows[job[v]].status = "COMPLETED"
        BY <1>2, <2>1, MailEntry DEF QueueInv, SentInv, SendReady
      <3>2. pc'[v] = "mark_sent" => rows[job[v]].answer = "text"
        BY <1>2, <2>1, MailEntry DEF Delivered, CannotCompose
      <3>3. PICK j \in Ids : job[v] = j
        BY <3>1
      <3>4. Finished(rows[j], rows'[j])
        BY NextFinished
      <3> QED  BY <3>1, <3>2, <3>3, <3>4 DEF Finished
    <2>2. CASE ~InnerStep(v)
      <3>1. pc'[v] = pc[v] /\ job'[v] = job[v]
        BY <1>2, <2>2, Bystanders, OutsideMoves DEF MailSteps
      <3>2. PICK j \in Ids : job[v] = j
        BY <1>2, <3>1 DEF TypeOK, RowSteps
      <3>3. Finished(rows[j], rows'[j])
        BY NextFinished
      <3> QED  BY <1>2, <3>1, <3>2, <3>3 DEF QueueInv, SentInv, Finished
    <2> QED  BY <2>1, <2>2
  <1>3. "mark_sent" \in MailSteps
    BY DEF MailSteps
  <1> QED  BY <1>1, <1>2, <1>3 DEF QueueInv, SentInv

LEMMA QueueInvHolds == RunsKeptApart /\ CompletionIsKnown => (Spec => []QueueInv)
  <1> SUFFICES ASSUME RunsKeptApart, CompletionIsKnown PROVE Spec => []QueueInv
    OBVIOUS
  <1>1. Init => QueueInv
    <2> SUFFICES ASSUME Init PROVE RowsInv /\ SentInv
      BY DEF QueueInv
    <2>1. RowsInv
      BY RowInvAtStart, PipelineAssumption DEF Init, RowsInv
    <2>2. SentInv
      BY DEF Init, SentInv, MailSteps
    <2> QED  BY <2>1, <2>2
  <1>2. TypeOK /\ ClaimInv /\ QueueInv /\ [Next]_vars => QueueInv'
    BY QueueInvStep
  <1> QED  BY <1>1, <1>2, TypeCorrect, ClaimInvHolds, PTL DEF Spec

\* The four that follow hold, like RowsOwned, while the lock holds or no run is
\* slow, and completions are known to have been recorded, whatever else fails.

\* Nobody exceeds MAX_RETRY_COUNT and nobody is given up before.
THEOREM QueueDiscipline ==
  RunsKeptApart /\ CompletionIsKnown => (Spec => []QueueBudget)
  <1>1. QueueInv => QueueBudget
    BY DEF QueueInv, RowsInv, RowInv, QueueBudget
  <1> QED  BY <1>1, QueueInvHolds, PTL

\* Mail is queued for finished requests only, and claimed, in doubt or sent
\* for answers that have something in them.
THEOREM AnswersMailed ==
  RunsKeptApart /\ CompletionIsKnown => (Spec => []MailOnlyAfterAnswer)
  <1>1. QueueInv => MailOnlyAfterAnswer
    BY DEF QueueInv, RowsInv, RowInv, MailOnlyAfterAnswer
  <1> QED  BY <1>1, QueueInvHolds, PTL

----------------------------------------------------------------------------
(* What is settled stays settled.                                           *)

\* A request that has an outcome keeps it: no recovery, backfill, late retry
\* or claim takes it up again, whatever crashes and in whatever order.
THEOREM OutcomesStand ==
  RunsKeptApart /\ CompletionIsKnown => (Spec => OutcomeIsFinal)
  <1> SUFFICES ASSUME RunsKeptApart, CompletionIsKnown PROVE Spec => OutcomeIsFinal
    OBVIOUS
  <1>1. TypeOK /\ ClaimInv /\ QueueInv /\ [Next]_vars =>
          [\A r \in Ids : rows[r].status \in {"COMPLETED", "FAILED"}
             => rows'[r].status = rows[r].status]_vars
    BY NextFinished DEF Finished
  <1> QED  BY <1>1, TypeCorrect, ClaimInvHolds, QueueInvHolds, PTL DEF Spec, OutcomeIsFinal

Closed == {"SENT", "SEND_UNKNOWN", "SEND_DROPPED"}

\* Only the operator's hand puts a mail that is out, in doubt or dropped back
\* in the queue.
LEMMA ServedMail ==
  ASSUME NEW a \in Row, RowInv(a), NEW b, Served(a, b), a.send \in Closed
  PROVE  b.send \notin SEND_READY_STATUSES \cup {"SENDING"}
  <1> USE DEF Closed, SEND_READY_STATUSES, Row
  <1>1. CASE b \in {a, Backfilled(a), Recovered(a), SendRecovered(a), [a EXCEPT !.old = TRUE]}
    BY <1>1 DEF Backfilled, Recovered, SendRecovered
  <1>2. CASE ApiClaimable(a) /\ b = Claimed(a)
    BY <1>2 DEF Claimed
  \* What is being analysed has no mail yet.
  <1>3. ~(a.status = "PROCESSING") /\ a # NoRow
    BY DEF RowInv, NoRow, DefaultRow
  <1>4. ~SendReady(a)
    BY DEF SendReady
  <1>5. ASSUME NEW s, b = SendMarked(a, s) PROVE b = a
    BY <1>5 DEF SendMarked
  <1>6. CASE b = [a EXCEPT !.send = "SEND_DROPPED", !.old = FALSE]
    BY <1>6
  <1> QED  BY <1>1, <1>2, <1>3, <1>4, <1>5, <1>6 DEF Served

\* A mail that is out, in doubt or dropped never finds its way back by itself.
THEOREM OperatorDecides ==
  RunsKeptApart /\ CompletionIsKnown => (Spec => OnlyOperatorReopens)
  <1> SUFFICES ASSUME RunsKeptApart, CompletionIsKnown PROVE Spec => OnlyOperatorReopens
    OBVIOUS
  <1>1. TypeOK /\ ClaimInv /\ QueueInv /\ [Next]_vars =>
          [\A r \in Ids :
             rows[r].send \in {"SENT", "SEND_UNKNOWN", "SEND_DROPPED"}
             /\ rows'[r].send \in SEND_READY_STATUSES \cup {"SENDING"}
             => reopened'[r] = reopened[r] + 1]_vars
    <2> SUFFICES ASSUME TypeOK, ClaimInv, QueueInv, [Next]_vars, NEW r \in Ids,
                        rows[r].send \in {"SENT", "SEND_UNKNOWN", "SEND_DROPPED"},
                        rows'[r].send \in SEND_READY_STATUSES \cup {"SENDING"}
                 PROVE  reopened'[r] = reopened[r] + 1
      OBVIOUS
    <2>1. rows[r] \in Row /\ RowInv(rows[r]) /\ rows[r].send \in Closed
      BY DEF TypeOK, QueueInv, RowsInv, Closed
    <2>2. ~Served(rows[r], rows'[r])
      BY <2>1, ServedMail
    <2> QED  BY <2>2, NextServes DEF Reopened, QueueInv
  <1> QED  BY <1>1, TypeCorrect, ClaimInvHolds, QueueInvHolds, PTL
           DEF Spec, OnlyOperatorReopens

----------------------------------------------------------------------------
(* The mail queue.                                                          *)

\* The mail is not sent, or may go back to the queue as not sent.
Mailable(row) == row.send \in {"NOT_READY", "SEND_PENDING", "SEND_BLOCKED"}

\* A request that can still be mailed has a delivery left.
DeliveriesInv ==
  \A r \in Ids : /\ mails[r] <= 1 + reopened[r]
                 /\ Mailable(rows[r]) => mails[r] <= reopened[r]

\* So has the one a worker is sending, or about to return to the queue; and
\* if the operator has put it back in the meantime, one more.
FlightInv ==
  \A w \in Workers : pc[w] \in FlightSteps =>
    /\ mails[job[w]] <= reopened[job[w]]
    /\ Mailable(rows[job[w]]) => mails[job[w]] + 1 <= reopened[job[w]]

MailInv == DeliveriesInv /\ FlightInv

\* A step keeps MailInv if it delivers and reopens nothing, makes no mail
\* mailable and starts no flight.
LEMMA QuietStep ==
  ASSUME TypeOK, MailInv, UNCHANGED <<mails, reopened>>,
         \A r \in Ids : Mailable(rows'[r]) => Mailable(rows[r]),
         \A w \in Workers : pc'[w] \in FlightSteps =>
                               pc[w] \in FlightSteps /\ job'[w] = job[w]
  PROVE  MailInv'
  <1>1. \A w \in Workers : pc[w] \in FlightSteps => job[w] \in Ids
    BY DEF TypeOK, FlightSteps, RowSteps, MailSteps
  <1> HIDE DEF Mailable
  <1> QED  BY <1>1 DEF MailInv, DeliveriesInv, FlightInv

\* What the statements do to a mail.
LEMMA MailableOperators ==
  ASSUME NEW row \in Row
  PROVE  /\ Mailable(Claimed(row)) => Mailable(row)
         /\ Mailable(Retried(row)) => Mailable(row)
         /\ Mailable(Recovered(row)) => Mailable(row)
         /\ Mailable(Backfilled(row)) => Mailable(row)
         /\ ~Mailable(SendClaimed(row))
         /\ \A s \in {"SENT", "SEND_UNKNOWN"} :
              Mailable(SendMarked(row, s)) => Mailable(row)
         /\ Mailable(SendRecovered(row)) => Mailable(row)
         /\ Mailable([row EXCEPT !.old = TRUE]) => Mailable(row)
         /\ ~Mailable([row EXCEPT !.send = "SEND_DROPPED", !.old = FALSE])
  <1> USE DEF Row, Mailable
  <1>1. /\ Mailable(Claimed(row)) => Mailable(row)
        /\ ~Mailable(SendClaimed(row))
    BY DEF Claimed, SendClaimed
  <1>2. Mailable(Retried(row)) => Mailable(row)
    <2>1. Retried(row).send = row.send
      BY DEF Retried
    <2> QED  BY <2>1
  <1>3. Mailable(Recovered(row)) => Mailable(row)
    BY DEF Recovered
  <1>4. Mailable(Backfilled(row)) => Mailable(row)
    BY DEF Backfilled
  <1>5. \A s \in {"SENT", "SEND_UNKNOWN"} :
          Mailable(SendMarked(row, s)) => Mailable(row)
    BY DEF SendMarked
  <1>6. Mailable(SendRecovered(row)) => Mailable(row)
    BY DEF SendRecovered
  <1>7. /\ Mailable([row EXCEPT !.old = TRUE]) => Mailable(row)
        /\ ~Mailable([row EXCEPT !.send = "SEND_DROPPED", !.old = FALSE])
    OBVIOUS
  <1> QED  BY <1>1, <1>2, <1>3, <1>4, <1>5, <1>6, <1>7

\* The steps of a run that make no mail mailable.
LEMMA InnerMailable ==
  ASSUME TypeOK, ClaimInv, QueueInv, NEW w \in Workers, InnerStep(w),
         ~MarkSendFailed(w), NEW r \in Ids, Mailable(rows'[r])
  PROVE  Mailable(rows[r])
  <1> DEFINE a == rows[r]  b == rows'[r]
  <1>1. a.status = "PROCESSING" => Mailable(a)
    BY DEF QueueInv, RowsInv, RowInv, Mailable
  <1>2. MarkCompleted(w) /\ job[w] = r => a.status = "PROCESSING"
    BY DEF MarkCompleted, ClaimInv, WriteBackOwnsRow, AnalysisSteps
  <1>3. a = NoRow => Mailable(a)
    BY DEF Mailable, NoRow, DefaultRow
  <1>4. \/ Mailable(a)
        \/ b \in {a, Backfilled(a), Recovered(a), SendRecovered(a), Claimed(a),
                  Retried(a), SendClaimed(a), SendMarked(a, "SENT"),
                  SendMarked(a, "SEND_UNKNOWN")}
    <2> HIDE DEF Mailable
    <2> QED  BY <1>1, <1>2, <1>3, InnerRows DEF Written
  <1>5. a \in Row /\ Mailable(b)
    BY DEF TypeOK
  <1> HIDE DEF a, b
  <1>6. Mailable(a)
    BY <1>4, <1>5, MailableOperators
  <1> QED  BY <1>6 DEF a

\* Nothing around the workers makes a mail mailable, but the operator.
LEMMA TouchedMailable ==
  ASSUME TypeOK, NEW r \in Ids, Touched(r), ~Reopened(r), Mailable(rows'[r])
  PROVE  Mailable(rows[r])
  <1>1. rows[r] \in Row
    BY DEF TypeOK
  <1>2. rows[r] = NoRow => Mailable(rows[r])
    BY DEF Mailable, NoRow, DefaultRow
  <1> QED  BY <1>1, <1>2, MailableOperators DEF Touched, Reopened

\* The steps that do something to a mail: its claim, its delivery, its return
\* to the queue, and the operator's.
LEMMA ClaimSendMail ==
  ASSUME TypeOK, LockInv, ClaimInv, QueueInv, MailInv, NEW w \in Workers, ClaimSend(w)
  PROVE  MailInv'
  <1>0. InnerStep(w) /\ ~MarkSendFailed(w)
    BY DEF InnerStep, ClaimSend, MarkSendFailed
  <1>1. \A r \in Ids : Mailable(rows'[r]) => Mailable(rows[r])
    BY <1>0, InnerMailable
  <1>2. \A v \in Workers \ {w} : pc'[v] \notin FlightSteps
    BY <1>0, InnerMoves, OthersIdle DEF FlightSteps
  <1>3. UNCHANGED <<mails, reopened>>
    BY DEF ClaimSend
  <1>4. CASE pc'[w] \notin FlightSteps
    BY <1>1, <1>2, <1>3, <1>4, QuietStep
  <1>5. CASE pc'[w] \in FlightSteps
    <2>1. job[w] \in Ids
      BY DEF ClaimSend, TypeOK, RowSteps
    <2>2. /\ SendReady(rows[job[w]]) /\ UNCHANGED job
          /\ rows' = [rows EXCEPT ![job[w]] = SendClaimed(rows[job[w]])]
      <3>1. ASSUME EndRun(w) \/ Continue(w, local[w]) PROVE FALSE
        BY <1>5, <3>1, EndRunAlone, ContinueAlone DEF OpenSteps, FlightSteps
      <3> QED  BY <3>1 DEF ClaimSend, Statement, Query, Goto
    <2>3. mails[job[w]] <= reopened[job[w]]
      BY <2>1, <2>2 DEF MailInv, DeliveriesInv, SendReady, SEND_READY_STATUSES, Mailable
    <2>4. ~Mailable(rows'[job[w]])
      BY <2>1, <2>2, MailableOperators DEF TypeOK
    <2>5. DeliveriesInv'
      BY <1>1, <1>3 DEF MailInv, DeliveriesInv
    <2>6. FlightInv'
      BY <1>2, <1>3, <2>2, <2>3, <2>4 DEF FlightInv
    <2> QED  BY <2>5, <2>6 DEF MailInv
  <1> QED  BY <1>4, <1>5

LEMMA DeliveredMail ==
  ASSUME TypeOK, LockInv, ClaimInv, QueueInv, MailInv, DeliveryIsKnown,
         NEW w \in Workers, SendAnalysisMail(w)
  PROVE  MailInv'
  <1>0. InnerStep(w) /\ ~MarkSendFailed(w)
    BY DEF InnerStep, SendAnalysisMail, MarkSendFailed
  <1>1. /\ UNCHANGED <<rows, reopened>>
        /\ pc[w] \in FlightSteps /\ job[w] \in Ids /\ UNCHANGED job
    BY DEF SendAnalysisMail, Delivered, NotDelivered, Goto, FlightSteps, TypeOK,
           RowSteps, MailSteps
  <1>2. \A v \in Workers \ {w} : pc'[v] \notin FlightSteps
    BY <1>0, InnerMoves, OthersIdle DEF FlightSteps
  <1>3. CASE NotDelivered(w)
    BY <1>1, <1>2, <1>3, QuietStep DEF NotDelivered
  <1>4. CASE Delivered(w)
    <2>1. mails' = [mails EXCEPT ![job[w]] = mails[job[w]] + 1]
          /\ (Goto(w, "mark_sent") \/ Goto(w, "mark_send_unknown"))
      BY <1>4 DEF Delivered, Fault, DeliveryIsKnown
    <2>2. pc'[w] \notin FlightSteps
      BY <2>1, GotoAlone DEF FlightSteps
    <2>3. /\ mails[job[w]] <= reopened[job[w]]
          /\ Mailable(rows[job[w]]) => mails[job[w]] + 1 <= reopened[job[w]]
      BY <1>1 DEF MailInv, FlightInv
    <2>4. mails \in [Ids -> Nat] /\ reopened \in [Ids -> Nat]
      BY DEF TypeOK
    <2>5. DeliveriesInv'
      <3> HIDE DEF Mailable
      <3> QED  BY <1>1, <2>1, <2>3, <2>4 DEF MailInv, DeliveriesInv
    <2>6. FlightInv'
      BY <1>2, <2>2 DEF FlightInv
    <2> QED  BY <2>5, <2>6 DEF MailInv
  <1> QED  BY <1>3, <1>4 DEF SendAnalysisMail

LEMMA MarkSendFailedMail ==
  ASSUME TypeOK, LockInv, MailInv, NEW w \in Workers, MarkSendFailed(w)
  PROVE  MailInv'
  <1>0. InnerStep(w)
    BY DEF InnerStep
  <1>1. pc[w] \in FlightSteps /\ job[w] \in Ids /\ UNCHANGED <<mails, reopened>>
    BY DEF MarkSendFailed, FlightSteps, TypeOK, RowSteps, MailSteps
  <1>2. \A v \in Workers \ {w} : pc'[v] \notin FlightSteps
    BY <1>0, InnerMoves, OthersIdle DEF FlightSteps
  <1>3. pc'[w] \notin FlightSteps
    BY EndRunAlone, ContinueAlone DEF MarkSendFailed, Statement, OpenSteps, FlightSteps
  <1>4. PICK new : rows' \in {rows, [rows EXCEPT ![job[w]] = new]}
    BY DEF MarkSendFailed, Statement
  <1>5. mails[job[w]] <= reopened[job[w]]
    BY <1>1 DEF MailInv, FlightInv
  <1>6. DeliveriesInv'
    <2> HIDE DEF Mailable
    <2> QED  BY <1>1, <1>4, <1>5 DEF MailInv, DeliveriesInv, TypeOK
  <1>7. FlightInv'
    BY <1>2, <1>3 DEF FlightInv
  <1> QED  BY <1>6, <1>7 DEF MailInv

LEMMA OperatorReopenMail ==
  ASSUME TypeOK, MailInv, NEW r \in Ids, OperatorReopen(r)
  PROVE  MailInv'
  <1>1. UNCHANGED <<mails, pc, job>> /\ ~Mailable(rows[r])
    BY DEF OperatorReopen, Mailable
  <1>2. reopened' = [reopened EXCEPT ![r] = reopened[r] + 1]
        /\ \A i \in Ids \ {r} : rows'[i] = rows[i]
    BY DEF OperatorReopen, TypeOK
  <1>3. mails \in [Ids -> Nat] /\ reopened \in [Ids -> Nat]
    BY DEF TypeOK
  <1>4. \A w \in Workers : pc[w] \in FlightSteps => job[w] \in Ids
    BY DEF TypeOK, FlightSteps, RowSteps, MailSteps
  <1>5. \A i \in Ids : reopened'[i] = IF i = r THEN reopened[i] + 1 ELSE reopened[i]
    BY <1>2, <1>3
  <1> HIDE DEF Mailable
  <1>6. DeliveriesInv'
    BY <1>1, <1>2, <1>3, <1>5 DEF MailInv, DeliveriesInv
  <1>7. FlightInv'
    BY <1>1, <1>2, <1>3, <1>4, <1>5 DEF MailInv, FlightInv
  <1> QED  BY <1>6, <1>7 DEF MailInv

LEMMA MailInvStep ==
  ASSUME TypeOK, LockInv, ClaimInv, QueueInv, MailInv, LockHolds, DeliveryIsKnown,
         [Next]_vars
  PROVE  MailInv'
  <1>1. CASE \E w \in Workers : OutsideStep(w)
    BY <1>1, OutsideMoves, QuietStep DEF Alone, FlightSteps
  <1>2. ASSUME NEW w \in Workers, InnerStep(w), ~ClaimSend(w), ~SendAnalysisMail(w),
               ~MarkSendFailed(w)
        PROVE  MailInv'
    <2>1. pc'[w] \notin FlightSteps
      <3>1. ASSUME MarkSent(w) PROVE pc'[w] \notin FlightSteps
        <4>1. Continue(w, local[w])
          BY <3>1 DEF MarkSent, Statement, Fault, DeliveryIsKnown
        <4> QED  BY <4>1, ContinueAlone DEF OpenSteps, FlightSteps
      <3> QED  BY <1>2, <3>1, InnerEntries DEF Entries
    <2>2. \A v \in Workers \ {w} : pc'[v] \notin FlightSteps
      BY <1>2, InnerMoves, OthersIdle DEF FlightSteps
    <2>3. UNCHANGED <<mails, reopened>>
      BY <1>2 DEF InnerStep, EnsureSchema, RecoverIncompleteRequests,
                  CollectLegacyMail, InsertReceived, RecoverStaleSending,
                  ListSendReady, MarkSent, MarkSendUnknown, ListApiReady,
                  ClaimApiRequest, AnalyzeRequest, MarkCompleted, MarkRetry,
                  SendCompletedRequest
    <2>4. \A r \in Ids : Mailable(rows'[r]) => Mailable(rows[r])
      BY <1>2, InnerMailable
    <2> QED  BY <2>1, <2>2, <2>3, <2>4, QuietStep
  <1>3. ASSUME NEW w \in Workers, LockDrop(w) PROVE FALSE
    BY <1>3 DEF LockDrop, Fault, LockHolds
  <1>4. ASSUME NEW i \in Ids,
               Abandoned(i) \/ Overdue(i) \/ Arrive(i) \/ OperatorDrop(i)
        PROVE  MailInv'
    <2>1. UNCHANGED <<mails, reopened, pc, job>>
      BY <1>4 DEF Abandoned, Overdue, Arrive, OperatorDrop
    <2>2. \A r \in Ids : Touched(r)
      BY <1>4, OuterRows
    <2>3. \A r \in Ids : ~Reopened(r)
      <3>1. \A r \in Ids : reopened'[r] # reopened[r] + 1
        BY <2>1 DEF TypeOK
      <3> QED  BY <3>1 DEF Reopened
    <2> QED  BY <2>1, <2>2, <2>3, TouchedMailable, QuietStep
  <1>5. CASE UNCHANGED vars
    BY <1>5, QuietStep DEF vars
  <1> QED  BY <1>1, <1>2, <1>3, <1>4, <1>5, NextCases, OperatorReopenMail,
              ClaimSendMail, DeliveredMail, MarkSendFailedMail

LEMMA MailInvHolds ==
  LockHolds /\ CompletionIsKnown /\ DeliveryIsKnown => (Spec => []MailInv)
  <1> SUFFICES ASSUME LockHolds, CompletionIsKnown, DeliveryIsKnown
               PROVE  Spec => []MailInv
    OBVIOUS
  <1>1. Init => MailInv
    BY DEF Init, MailInv, DeliveriesInv, FlightInv, FlightSteps
  <1>2. TypeOK /\ LockInv /\ ClaimInv /\ QueueInv /\ MailInv /\ [Next]_vars => MailInv'
    BY MailInvStep
  <1>3. RunsKeptApart
    BY DEF RunsKeptApart
  <1> QED  BY <1>1, <1>2, <1>3, TypeCorrect, LockInvHolds, ClaimInvHolds, QueueInvHolds, PTL
           DEF Spec

----------------------------------------------------------------------------
(* The switch.                                                              *)

\* Where a worker may be whose settings say MAIL_SEND_ENABLED=false; inside
\* the loop it is the one of process_api_queue.
OffSteps == {"idle", "ensure_schema", "recover_incomplete_requests",
             "collect_legacy_pop3_mail", "list_api_ready",
             "claim_api_request", "analyze_request", "mark_completed",
             "mark_retry", "send_completed_request", "release_lock"}
LoopSteps == {"list_api_ready", "claim_api_request", "analyze_request",
              "mark_completed", "send_completed_request"}

Off(w) == /\ pc[w] \in OffSteps
          /\ pc[w] \in LoopSteps => local[w].phase = "queue"

SwitchInv == \A w \in Workers \ MailSendEnabled : Off(w)

\* The loop of process_api_queue stays in its phase.
LEMMA ContinueOff ==
  ASSUME TypeOK, NEW w \in Workers, NEW l \in Local, l.phase = "queue",
         Continue(w, l)
  PROVE  Off(w)'
  <1> USE DEF Off, OffSteps, LoopSteps
  <1>1. CASE NextRow(w, l)
    <2>1. PICK c : local' = [local EXCEPT ![w] = [l EXCEPT !.batch = Tail(l.batch),
                                                          !.cursor = c]]
      BY <1>1 DEF NextRow
    <2>2. local'[w].phase = "queue"
      BY <2>1 DEF TypeOK, Local
    <2>3. pc'[w] = "claim_api_request"
      BY <1>1 DEF NextRow, ClaimStep, TypeOK
    <2> QED  BY <2>2, <2>3
  <1>2. CASE NextBatch(w, l)
    <2>1. local'[w].phase = "queue" /\ pc'[w] = "list_api_ready"
      BY <1>2 DEF NextBatch, ListStep, TypeOK, Local
    <2> QED  BY <2>1
  <1>3. CASE LoopDone(w, l)
    BY <1>3, EnterAlone, FreshPhase DEF LoopDone, EndRun
  <1> QED  BY <1>1, <1>2, <1>3 DEF Continue

\* Without sending, a step keeps a worker away from the mail queue.
LEMMA InnerOff ==
  ASSUME TypeOK, NEW w \in Workers \ MailSendEnabled, Off(w), InnerStep(w)
  PROVE  Off(w)'
  <1>0. local[w] \in Local
    BY DEF TypeOK
  <1>1. CASE EndRun(w)
    BY <1>1, EndRunAlone DEF Off, OffSteps, LoopSteps
  <1>2. CASE pc[w] \in LoopTails /\ Continue(w, local[w])
    <2>1. local[w].phase = "queue"
      BY <1>2 DEF Off, OffSteps, LoopSteps, LoopTails
    <2> QED  BY <1>0, <1>2, <2>1, ContinueOff
  <1>3. CASE ApiListing(w)
    <2>1. PICK b \in FirstRows({r \in Ids : ApiReady(rows[r])}, MaxAnalysisPerRun,
                               RetryFirst) :
            Continue(w, [local[w] EXCEPT !.batch = b,
                                         !.full = Len(b) = MaxAnalysisPerRun])
      BY <1>3 DEF ApiListing
    <2>2. b \in Seq(Ids)
      BY <2>1, ListingType, PipelineAssumption
    <2>3. local[w].phase = "queue"
      BY <1>3 DEF ApiListing, Off, LoopSteps
    <2>4. PICK l : l = [local[w] EXCEPT !.batch = b, !.full = Len(b) = MaxAnalysisPerRun]
      OBVIOUS
    <2>5. l \in Local /\ l.phase = "queue"
      BY <1>0, <2>2, <2>3, <2>4 DEF Local
    <2> QED  BY <2>1, <2>4, <2>5, ContinueOff
  <1>4. ASSUME NEW t, Edge(w, pc[w], t), Goto(w, t) PROVE Off(w)'
    <2>1. t \in OffSteps /\ (t \in LoopSteps => pc[w] \in LoopSteps)
      BY <1>4 DEF Off, Edge, OffSteps, LoopSteps
    <2> QED  BY <1>4, <2>1, GotoAlone DEF Off
  <1>5. CASE EnterPhase(w, "queue", "list_api_ready")
    <2>1. pc'[w] = "list_api_ready" /\ local'[w] = FreshLocal("queue")
      BY <1>5, EnterAlone
    <2>2. FreshLocal("queue").phase = "queue"
      BY FreshPhase
    <2> QED  BY <2>1, <2>2 DEF Off, OffSteps
  <1>6. CASE UNCHANGED <<pc, job, local>>
    BY <1>6 DEF Off
  <1>7. ASSUME pc[w] = "analyze_request", pc' = [pc EXCEPT ![w] = "mark_completed"],
               NEW a, local' = [local EXCEPT ![w] = [local[w] EXCEPT !.answer = a]]
        PROVE  Off(w)'
    <2>1. local[w].phase = "queue"
      BY <1>7 DEF Off, LoopSteps
    <2>2. local'[w].phase = "queue" /\ pc'[w] = "mark_completed"
      BY <1>0, <1>7, <2>1 DEF TypeOK, Local
    <2> QED  BY <2>2 DEF Off, OffSteps
  <1>8. ~SendListing(w)
    BY DEF SendListing, Off, OffSteps
  <1> QED  BY <1>1, <1>2, <1>3, <1>4, <1>5, <1>6, <1>7, <1>8, RunMoves DEF RunMove

LEMMA SwitchInvStep ==
  ASSUME TypeOK, SwitchInv, [Next]_vars
  PROVE  SwitchInv'
  <1>1. SUFFICES ASSUME NEW v \in Workers \ MailSendEnabled PROVE Off(v)'
    BY DEF SwitchInv
  <1>2. CASE OutsideStep(v)
    BY <1>2, OutsideMoves DEF Off, OffSteps, LoopSteps
  <1>3. CASE InnerStep(v)
    BY <1>3, InnerOff DEF SwitchInv
  <1>4. CASE pc'[v] = pc[v] /\ job'[v] = job[v] /\ local'[v] = local[v]
    BY <1>4 DEF SwitchInv, Off
  <1> QED  BY <1>2, <1>3, <1>4, Bystanders

\* With sending switched off, no worker reaches Knox, and what it completes
\* waits as SEND_BLOCKED, whatever fails and whoever else is running.
THEOREM SwitchHolds == Spec => SendingSwitch
  <1>1. Init => SwitchInv
    BY DEF Init, SwitchInv, Off, OffSteps, LoopSteps
  <1>2. TypeOK /\ SwitchInv /\ [Next]_vars => SwitchInv'
    BY SwitchInvStep
  <1>3. TypeOK /\ SwitchInv /\ SwitchInv' /\ [Next]_vars =>
          [\A w \in Workers \ MailSendEnabled :
             /\ pc'[w] \notin MailSteps
             /\ pc[w] = "mark_completed" /\ pc'[w] = "send_completed_request"
                  => rows'[job[w]].send = "SEND_BLOCKED"]_vars
    <2> SUFFICES ASSUME TypeOK, SwitchInv, SwitchInv', [Next]_vars,
                        NEW w \in Workers \ MailSendEnabled
                 PROVE  /\ pc'[w] \notin MailSteps
                        /\ pc[w] = "mark_completed" /\ pc'[w] = "send_completed_request"
                             => rows'[job[w]].send = "SEND_BLOCKED"
      OBVIOUS
    <2>1. pc'[w] \notin MailSteps
      BY DEF SwitchInv, Off, OffSteps, MailSteps
    <2>2. ASSUME pc[w] = "mark_completed", pc'[w] = "send_completed_request"
          PROVE  rows'[job[w]].send = "SEND_BLOCKED"
      <3>1. InnerStep(w)
        BY <2>2, Bystanders, OutsideMoves
      <3>2. MarkCompleted(w) /\ ~Goto(w, "mark_retry")
        BY <2>2, <3>1, StepTaken, GotoAlone
      <3>3. job[w] \in Ids /\ rows[job[w]] \in Row
        BY <2>2 DEF TypeOK, RowSteps, AnalysisSteps
      <3>4. PICK new : /\ new = Completed(rows[job[w]], local[w].answer,
                                          w \in MailSendEnabled)
                       /\ rows' = [rows EXCEPT ![job[w]] = new]
        BY <3>2 DEF MarkCompleted, Statement
      <3>5. new.send = "SEND_BLOCKED"
        BY <3>3, <3>4 DEF Completed, Row
      <3> QED  BY <3>3, <3>4, <3>5 DEF TypeOK
    <2> QED  BY <2>1, <2>2
  <1> QED  BY <1>1, <1>2, <1>3, TypeCorrect, PTL DEF Spec, SendingSwitch

----------------------------------------------------------------------------
(* The rows of other routes.                                                *)

Unserved(row) ==
  row.route = "FILE_ARCHIVE" => row.send = "NOT_READY" /\ row.status # "PROCESSING"

\* What any step may make of a row: nothing of one that is on another route,
\* and ours is on its route for good.
Spares(a, b) ==
  /\ a.route = "FILE_ARCHIVE" => b = a
  /\ a.route = "API_ANALYSIS" => b.route = "API_ANALYSIS"
  /\ Unserved(b)

LEMMA SparesOperators ==
  ASSUME NEW row \in Row, Unserved(row)
  PROVE  /\ Spares(row, row)
         /\ ApiClaimable(row) => Spares(row, Claimed(row))
         /\ row.route = "API_ANALYSIS" =>
              \A a \in Answers, b \in BOOLEAN : Spares(row, Completed(row, a, b))
         /\ Spares(row, Retried(row))
         /\ Spares(row, Recovered(row))
         /\ Spares(row, Backfilled(row))
         /\ SendReady(row) => Spares(row, SendClaimed(row))
         /\ \A s \in SendStatuses : Spares(row, SendMarked(row, s))
         /\ Spares(row, SendRecovered(row))
         /\ row.status = "PROCESSING" \/ row.send = "SENDING" =>
              Spares(row, [row EXCEPT !.old = TRUE])
         /\ row.send # "NOT_READY" =>
              \A s \in SendStatuses : Spares(row, [row EXCEPT !.send = s, !.old = FALSE])
  <1> USE DEF Spares, Unserved, Row
  <1>1. Spares(row, row) /\ (ApiClaimable(row) => Spares(row, Claimed(row)))
    BY DEF ApiClaimable, Claimed
  <1>2. ASSUME row.route = "API_ANALYSIS", NEW a \in Answers, NEW b \in BOOLEAN
        PROVE  Spares(row, Completed(row, a, b))
    <2>1. Completed(row, a, b).route = "API_ANALYSIS"
      BY <1>2 DEF Completed
    <2> QED  BY <1>2, <2>1
  <1>3. Spares(row, Retried(row))
    <2>1. CASE row.route = "API_ANALYSIS"
      <3>1. Retried(row).route = "API_ANALYSIS"
        BY <2>1 DEF Retried
      <3> QED  BY <2>1, <3>1
    <2>2. CASE row.route # "API_ANALYSIS"
      BY <2>2 DEF Retried
    <2> QED  BY <2>1, <2>2
  <1>4. Spares(row, Recovered(row)) /\ Spares(row, Backfilled(row))
    BY DEF Recovered, Backfilled
  <1>5. SendReady(row) => Spares(row, SendClaimed(row))
    BY DEF SendReady, SendClaimed
  <1>6. \A s \in SendStatuses : Spares(row, SendMarked(row, s))
    BY DEF SendMarked
  <1>7. Spares(row, SendRecovered(row))
    BY DEF SendRecovered
  <1>8. row.status = "PROCESSING" \/ row.send = "SENDING" =>
          Spares(row, [row EXCEPT !.old = TRUE])
    OBVIOUS
  <1>9. row.send # "NOT_READY" =>
          \A s \in SendStatuses : Spares(row, [row EXCEPT !.send = s, !.old = FALSE])
    OBVIOUS
  <1> QED  BY <1>1, <1>2, <1>3, <1>4, <1>5, <1>6, <1>7, <1>8, <1>9

SparingStep == \A r \in Ids : Spares(rows[r], rows'[r])

\* The rows, and the row that a worker will write to by its id alone.
ArchiveInv ==
  /\ \A r \in Ids : Unserved(rows[r])
  /\ \A w \in Workers : pc[w] \in AnalysisSteps => rows[job[w]].route = "API_ANALYSIS"

LEMMA InnerSpares ==
  ASSUME TypeOK, ArchiveInv, NEW w \in Workers, InnerStep(w), NEW r \in Ids
  PROVE  Spares(rows[r], rows'[r])
  <1> DEFINE a == rows[r]  b == rows'[r]
  <1>1. MarkCompleted(w) /\ job[w] = r => a.route = "API_ANALYSIS"
    BY DEF MarkCompleted, AnalysisSteps, ArchiveInv
  <1>2. {"SENT", "SEND_BLOCKED", "SEND_UNKNOWN"} \subseteq SendStatuses
    BY DEF SendStatuses
  <1>3. \/ b \in {a, Backfilled(a), Recovered(a), SendRecovered(a), Retried(a)}
        \/ a = NoRow /\ b = ReceivedRow
        \/ ApiClaimable(a) /\ b = Claimed(a)
        \/ /\ a.route = "API_ANALYSIS"
           /\ \E n \in Answers, on \in BOOLEAN : b = Completed(a, n, on)
        \/ SendReady(a) /\ b = SendClaimed(a)
        \/ \E s \in SendStatuses : b = SendMarked(a, s)
    BY <1>1, <1>2, InnerRows DEF Written
  <1>4. a \in Row /\ Unserved(a)
    BY DEF TypeOK, ArchiveInv
  <1> HIDE DEF a, b
  <1> SUFFICES Spares(a, b)
    BY DEF a, b
  <1>5. CASE a = NoRow /\ b = ReceivedRow
    <2>1. NoRow.route = "UNCLASSIFIED"
      BY DEF NoRow, DefaultRow
    <2>2. ReceivedRow.send = "NOT_READY" /\ ReceivedRow.status = "ROUTED"
      BY DEF ReceivedRow, DefaultRow
    <2> QED  BY <1>5, <2>1, <2>2 DEF Spares, Unserved
  <1>6. CASE \/ b \in {a, Backfilled(a), Recovered(a), SendRecovered(a), Retried(a)}
             \/ SendReady(a) /\ b = SendClaimed(a)
             \/ \E s \in SendStatuses : b = SendMarked(a, s)
    BY <1>4, <1>6, SparesOperators
  <1>7. CASE \/ ApiClaimable(a) /\ b = Claimed(a)
             \/ /\ a.route = "API_ANALYSIS"
                /\ \E n \in Answers, on \in BOOLEAN : b = Completed(a, n, on)
    BY <1>4, <1>7, SparesOperators
  <1> QED  BY <1>3, <1>5, <1>6, <1>7

LEMMA TouchedSpares ==
  ASSUME TypeOK, ArchiveInv, NEW r \in Ids, Touched(r)
  PROVE  Spares(rows[r], rows'[r])
  <1>0. rows[r] \in Row /\ Unserved(rows[r])
    BY DEF TypeOK, ArchiveInv
  <1>1. CASE rows[r] = NoRow /\ rows'[r] \in Arrivals
    <2>1. NoRow.route = "UNCLASSIFIED"
      BY DEF NoRow, DefaultRow
    <2>2. /\ ReceivedRow.status = "ROUTED" /\ ArchiveRow.status = "ROUTED"
          /\ ReceivedRow.send = "NOT_READY" /\ ArchiveRow.send = "NOT_READY"
      BY DEF ReceivedRow, ArchiveRow, DefaultRow
    <2>3. \A t \in BOOLEAN : UnclassifiedRow(t).route = "UNCLASSIFIED"
      BY DEF UnclassifiedRow, DefaultRow
    <2>4. rows'[r] \in {ReceivedRow, ArchiveRow, UnclassifiedRow(TRUE),
                        UnclassifiedRow(FALSE)}
      BY <1>1, PipelineAssumption
    <2> QED  BY <1>1, <2>1, <2>2, <2>3, <2>4 DEF Spares, Unserved
  <1>2. QueueStatuses \subseteq SendStatuses
    BY DEF QueueStatuses, SEND_READY_STATUSES, SendStatuses
  <1>3. ASSUME rows[r].send # "NOT_READY", NEW s \in QueueStatuses,
               rows'[r] = [rows[r] EXCEPT !.send = s, !.old = FALSE]
        PROVE  Spares(rows[r], rows'[r])
    BY <1>0, <1>2, <1>3, SparesOperators
  <1>4. CASE rows'[r] = rows[r]
    BY <1>0, <1>4, SparesOperators
  <1>5. CASE /\ rows'[r] = [rows[r] EXCEPT !.old = TRUE]
             /\ rows[r].status = "PROCESSING" \/ rows[r].send = "SENDING"
    BY <1>0, <1>5, SparesOperators
  <1> QED  BY <1>1, <1>3, <1>4, <1>5 DEF Touched, QueueStatuses

\* A worker that has claimed a request claimed one of our route.
LEMMA ClaimedRoute ==
  ASSUME TypeOK, ArchiveInv, NEW w \in Workers, InnerStep(w), SparingStep,
         pc'[w] \in AnalysisSteps
  PROVE  rows'[job'[w]].route = "API_ANALYSIS"
  <1>1. job[w] \in Ids /\ job' = job /\ rows[job[w]].route = "API_ANALYSIS"
    <2>1. ASSUME EndRun(w) PROVE FALSE
      BY <2>1, EndRunAlone DEF AnalysisSteps
    <2>2. ASSUME Goto(w, "send_completed_request") PROVE FALSE
      BY <2>2, GotoAlone DEF AnalysisSteps
    <2>3. CASE ClaimApiRequest(w)
      <3>1. job[w] \in Ids /\ ApiClaimable(rows[job[w]]) /\ Goto(w, "analyze_request")
        BY <2>1, <2>2, <2>3 DEF ClaimApiRequest, Statement, Query, TypeOK, RowSteps
      <3> QED  BY <3>1 DEF ApiClaimable, Goto
    <2>4. CASE AnalyzeRequest(w) \/ MarkCompleted(w)
      <3>1. pc[w] \in AnalysisSteps /\ job[w] \in Ids
        BY <2>4 DEF AnalyzeRequest, MarkCompleted, AnalysisSteps, TypeOK, RowSteps
      <3>2. job' = job
        BY <2>1, <2>4 DEF AnalyzeRequest, MarkCompleted, Statement, Goto
      <3> QED  BY <3>1, <3>2 DEF ArchiveInv
    <2> QED  BY <2>3, <2>4, InnerEntries DEF Entries
  <1> QED  BY <1>1 DEF SparingStep, Spares

LEMMA ArchiveInvStep ==
  ASSUME TypeOK, ArchiveInv, [Next]_vars
  PROVE  ArchiveInv' /\ SparingStep
  <1>1. SparingStep
    BY NextRows, InnerSpares, TouchedSpares DEF SparingStep
  <1>2. \A r \in Ids : Unserved(rows'[r])
    BY <1>1 DEF SparingStep, Spares
  <1>3. ASSUME NEW v \in Workers, pc'[v] \in AnalysisSteps
        PROVE  rows'[job'[v]].route = "API_ANALYSIS"
    <2>1. CASE InnerStep(v)
      BY <1>1, <1>3, <2>1, ClaimedRoute
    <2>2. CASE ~InnerStep(v)
      <3>1. pc'[v] = pc[v] /\ job'[v] = job[v]
        BY <1>3, <2>2, Bystanders, OutsideMoves DEF AnalysisSteps
      <3>2. job[v] \in Ids
        BY <1>3, <3>1 DEF TypeOK, RowSteps
      <3> QED  BY <1>1, <1>3, <3>1, <3>2 DEF ArchiveInv, SparingStep, Spares
    <2> QED  BY <2>1, <2>2
  <1> QED  BY <1>1, <1>2, <1>3 DEF ArchiveInv

LEMMA ArchiveInvHolds == Spec => []ArchiveInv
  <1>1. Init => ArchiveInv
    <2> SUFFICES ASSUME Init PROVE ArchiveInv
      OBVIOUS
    <2>1. NoRow.route = "UNCLASSIFIED"
      BY DEF NoRow, DefaultRow
    <2>2. \A s \in Legacy : LegacyRow(s).route = "UNCLASSIFIED"
      BY DEF LegacyRow, DefaultRow
    <2>3. \A r \in Ids : rows[r].route = "UNCLASSIFIED"
      BY <2>1, <2>2 DEF Init
    <2>4. \A w \in Workers : pc[w] \notin AnalysisSteps
      BY DEF Init, AnalysisSteps
    <2> QED  BY <2>3, <2>4 DEF ArchiveInv, Unserved
  <1>2. TypeOK /\ ArchiveInv /\ [Next]_vars => ArchiveInv'
    BY ArchiveInvStep
  <1> QED  BY <1>1, <1>2, TypeCorrect, PTL DEF Spec

\* Whatever fails, with the lock or without it, no statement touches a row of
\* another route, those that update by id alone or test no route included.
THEOREM OtherRoutesSpared == Spec => OtherRoutesUntouched
  <1>1. TypeOK /\ ArchiveInv /\ [Next]_vars => SparingStep
    BY ArchiveInvStep
  <1>2. SparingStep =>
          [\A r \in Ids : rows[r].route = "FILE_ARCHIVE" => rows'[r] = rows[r]]_vars
    BY DEF SparingStep, Spares
  <1> QED  BY <1>1, <1>2, TypeCorrect, ArchiveInvHolds, PTL
           DEF Spec, OtherRoutesUntouched

----------------------------------------------------------------------------
(* What failures cost, with the lock or without it.                         *)

Bit(b) == IF b THEN 1 ELSE 0

\* The workers that may yet complete a request, and those that may yet deliver
\* its mail or return it to the queue.
Analysts(r) == {w \in Workers : pc[w] \in AnalysisSteps /\ job[w] = r}
Flights(r)  == {w \in Workers : pc[w] \in FlightSteps /\ job[w] = r}

\* A row with n analysts that may get another: its request is still to be
\* served, or is recovered soon, or its mail is in the queue.
Open(row, n) ==
  \/ row.status \in {"ABSENT", "RECEIVED", "ROUTED", "RETRY"}
  \/ row.status = "PROCESSING" /\ (n = 0 \/ row.old)
  \/ row.status = "COMPLETED" /\ row.send \in SEND_READY_STATUSES

\* The mails of a request, delivered and to come, if nothing more goes wrong.
Cost(r) == mails[r] + Cardinality(Analysts(r)) + Cardinality(Flights(r))
             + Bit(Open(rows[r], Cardinality(Analysts(r))))

\* A step adds no more than d to the cost that no reopening accounts for.
Adds(d) == \A r \in Ids : Cost(r)' - reopened'[r] <= Cost(r) - reopened[r] + d

\* What one worker contributes to the two counts.
Analyses(w, r) == Bit(pc[w] \in AnalysisSteps /\ job[w] = r)
Flies(w, r)    == Bit(pc[w] \in FlightSteps /\ job[w] = r)

LEMMA CountWithout ==
  ASSUME NEW S, IsFiniteSet(S), NEW w
  PROVE  /\ Cardinality(S \ {w}) \in Nat
         /\ Cardinality(S) = Cardinality(S \ {w}) + Bit(w \in S)
  <1>1. Cardinality(S) \in Nat /\ Cardinality(S \ {w}) \in Nat
    BY FS_CardinalityType, FS_RemoveElement
  <1> QED  BY <1>1, FS_RemoveElement DEF Bit

LEMMA FiniteCounts ==
  ASSUME NEW r
  PROVE  /\ IsFiniteSet(Analysts(r)) /\ IsFiniteSet(Flights(r))
         /\ Cardinality(Analysts(r)) \in Nat /\ Cardinality(Flights(r)) \in Nat
  BY PipelineAssumption, FS_Subset, FS_CardinalityType DEF Analysts, Flights

LEMMA FiniteCountsNext ==
  ASSUME NEW r
  PROVE  /\ IsFiniteSet(Analysts(r)') /\ IsFiniteSet(Flights(r)')
         /\ Cardinality(Analysts(r)') \in Nat /\ Cardinality(Flights(r)') \in Nat
  BY PipelineAssumption, FS_Subset, FS_CardinalityType DEF Analysts, Flights

\* When one worker steps, the counts change by its own contribution.
LEMMA Reckoning ==
  ASSUME NEW w \in Workers, Alone(w), NEW r
  PROVE  \E n, f \in Nat :
           /\ Cardinality(Analysts(r)) = n + Analyses(w, r)
           /\ Cardinality(Analysts(r)') = n + Analyses(w, r)'
           /\ Cardinality(Flights(r)) = f + Flies(w, r)
           /\ Cardinality(Flights(r)') = f + Flies(w, r)'
  <1>1. /\ Analysts(r)' \ {w} = Analysts(r) \ {w}
        /\ Flights(r)' \ {w} = Flights(r) \ {w}
    BY DEF Alone, Analysts, Flights
  <1>2. /\ Bit(w \in Analysts(r)) = Analyses(w, r)
        /\ Bit(w \in Flights(r)) = Flies(w, r)
        /\ Bit(w \in Analysts(r)') = Analyses(w, r)'
        /\ Bit(w \in Flights(r)') = Flies(w, r)'
    BY DEF Analysts, Flights, Analyses, Flies
  <1>3. /\ Cardinality(Analysts(r) \ {w}) \in Nat
        /\ Cardinality(Analysts(r)) = Cardinality(Analysts(r) \ {w}) + Bit(w \in Analysts(r))
    BY FiniteCounts, CountWithout
  <1>4. Cardinality(Analysts(r)') = Cardinality(Analysts(r)' \ {w}) + Bit(w \in Analysts(r)')
    BY FiniteCountsNext, CountWithout
  <1>5. /\ Cardinality(Flights(r) \ {w}) \in Nat
        /\ Cardinality(Flights(r)) = Cardinality(Flights(r) \ {w}) + Bit(w \in Flights(r))
    BY FiniteCounts, CountWithout
  <1>6. Cardinality(Flights(r)') = Cardinality(Flights(r)' \ {w}) + Bit(w \in Flights(r)')
    BY FiniteCountsNext, CountWithout
  <1> QED  BY <1>1, <1>2, <1>3, <1>4, <1>5, <1>6

\* The balance of a worker's step at one row, over plain numbers.
LEMMA Balance ==
  ASSUME TypeOK, NEW w \in Workers, Alone(w), UNCHANGED reopened, NEW d \in {0, 1},
         \A r \in Ids : mails'[r] \in Nat,
         \A r \in Ids, n, f \in Nat :
           mails'[r] + (n + Analyses(w, r)') + (f + Flies(w, r)')
             + Bit(Open(rows'[r], n + Analyses(w, r)'))
           <= mails[r] + (n + Analyses(w, r)) + (f + Flies(w, r))
                + Bit(Open(rows[r], n + Analyses(w, r))) + d
  PROVE  Adds(d)
  <1> SUFFICES ASSUME NEW r \in Ids
               PROVE  Cost(r)' - reopened'[r] <= Cost(r) - reopened[r] + d
    BY DEF Adds
  <1>1. PICK n, f \in Nat : /\ Cardinality(Analysts(r)) = n + Analyses(w, r)
                            /\ Cardinality(Analysts(r)') = n + Analyses(w, r)'
                            /\ Cardinality(Flights(r)) = f + Flies(w, r)
                            /\ Cardinality(Flights(r)') = f + Flies(w, r)'
    BY Reckoning
  <1>2. Cost(r)' <= Cost(r) + d
    BY <1>1 DEF Cost
  <1>3. Cost(r)' \in Nat /\ Cost(r) \in Nat
    BY FiniteCounts, FiniteCountsNext DEF Cost, Bit, TypeOK
  <1>4. reopened'[r] = reopened[r] /\ reopened[r] \in Nat
    BY DEF TypeOK
  <1> QED  BY <1>2, <1>3, <1>4

Counted == AnalysisSteps \cup FlightSteps

LEMMA Contributions ==
  ASSUME NEW w, NEW r
  PROVE  /\ Analyses(w, r) \in {0, 1} /\ Flies(w, r) \in {0, 1}
         /\ Analyses(w, r)' \in {0, 1} /\ Flies(w, r)' \in {0, 1}
         /\ Analyses(w, r) = 0 \/ Flies(w, r) = 0
         /\ Analyses(w, r)' = 0 \/ Flies(w, r)' = 0
         /\ pc[w] \notin Counted => Analyses(w, r) = 0 /\ Flies(w, r) = 0
         /\ pc'[w] \notin Counted => Analyses(w, r)' = 0 /\ Flies(w, r)' = 0
         /\ job[w] # r => Analyses(w, r) = 0 /\ Flies(w, r) = 0
         /\ job'[w] # r => Analyses(w, r)' = 0 /\ Flies(w, r)' = 0
         /\ pc[w] \in AnalysisSteps /\ job[w] = r => Analyses(w, r) = 1
         /\ pc'[w] \in AnalysisSteps /\ job'[w] = r => Analyses(w, r)' = 1
         /\ pc[w] \in FlightSteps /\ job[w] = r => Flies(w, r) = 1
         /\ pc'[w] \in FlightSteps /\ job'[w] = r => Flies(w, r)' = 1
  BY DEF Analyses, Flies, Bit, Counted, AnalysisSteps, FlightSteps

\* A worker that goes away from its row, or is on none, while no row opens:
\* at most the row that it leaves without an analyst opens.
LEMMA Leaving ==
  ASSUME TypeOK, NEW w \in Workers, Alone(w), pc'[w] \notin Counted,
         UNCHANGED <<mails, reopened>>,
         \A r \in Ids, n \in Nat : Open(rows'[r], n) => Open(rows[r], n)
  PROVE  Adds(0)
  <1>1. \A r \in Ids : mails'[r] \in Nat /\ mails'[r] = mails[r]
    BY DEF TypeOK
  <1>2. ASSUME NEW r \in Ids, NEW n \in Nat, NEW f \in Nat
        PROVE  mails'[r] + (n + Analyses(w, r)') + (f + Flies(w, r)')
                 + Bit(Open(rows'[r], n + Analyses(w, r)'))
               <= mails[r] + (n + Analyses(w, r)) + (f + Flies(w, r))
                    + Bit(Open(rows[r], n + Analyses(w, r))) + 0
    <2>1. Analyses(w, r)' = 0 /\ Flies(w, r)' = 0
      BY Contributions
    <2>2. Analyses(w, r) \in {0, 1} /\ Flies(w, r) \in {0, 1}
      BY Contributions
    <2>3. Bit(Open(rows'[r], n)) <= Bit(Open(rows[r], n))
      BY DEF Bit
    <2>4. /\ Bit(Open(rows'[r], n)) \in {0, 1} /\ Bit(Open(rows[r], n)) \in {0, 1}
          /\ Bit(Open(rows[r], n + Analyses(w, r))) \in {0, 1}
      BY DEF Bit
    <2>5. CASE Analyses(w, r) = 0
      BY <1>1, <2>1, <2>2, <2>3, <2>4, <2>5
    <2>6. CASE Analyses(w, r) = 1
      BY <1>1, <2>1, <2>2, <2>4, <2>6
    <2> QED  BY <2>2, <2>5, <2>6
  <1> QED  BY <1>1, <1>2, Balance

\* The balance at the row in hand, when that is all the step changes.
LEMMA RowBalance ==
  ASSUME TypeOK, NEW w \in Workers, Alone(w), UNCHANGED reopened, NEW d \in {0, 1},
         NEW j \in Ids, job[w] = j, job'[w] = j \/ pc'[w] \notin Counted,
         mails'[j] \in Nat,
         \A r \in Ids : r # j => rows'[r] = rows[r] /\ mails'[r] = mails[r],
         \A n \in Nat :
           mails'[j] + Analyses(w, j)' + Flies(w, j)'
             + Bit(Open(rows'[j], n + Analyses(w, j)'))
           <= mails[j] + Analyses(w, j) + Flies(w, j)
                + Bit(Open(rows[j], n + Analyses(w, j))) + d
  PROVE  Adds(d)
  <1>1. \A r \in Ids : mails'[r] \in Nat /\ mails[r] \in Nat
    BY DEF TypeOK
  <1>2. ASSUME NEW r \in Ids, NEW n \in Nat, NEW f \in Nat
        PROVE  mails'[r] + (n + Analyses(w, r)') + (f + Flies(w, r)')
                 + Bit(Open(rows'[r], n + Analyses(w, r)'))
               <= mails[r] + (n + Analyses(w, r)) + (f + Flies(w, r))
                    + Bit(Open(rows[r], n + Analyses(w, r))) + d
    <2>1. /\ Analyses(w, r) \in {0, 1} /\ Flies(w, r) \in {0, 1}
          /\ Analyses(w, r)' \in {0, 1} /\ Flies(w, r)' \in {0, 1}
      BY Contributions
    <2>2. CASE r = j
      <3>1. \A m : Bit(Open(rows'[r], m)) \in {0, 1} /\ Bit(Open(rows[r], m)) \in {0, 1}
        BY DEF Bit
      <3>2. mails'[r] + Analyses(w, r)' + Flies(w, r)'
              + Bit(Open(rows'[r], n + Analyses(w, r)'))
            <= mails[r] + Analyses(w, r) + Flies(w, r)
                 + Bit(Open(rows[r], n + Analyses(w, r))) + d
        BY <2>2
      <3> QED  BY <1>1, <2>1, <3>1, <3>2
    <2>3. CASE r # j
      <3>1. /\ Analyses(w, r) = 0 /\ Flies(w, r) = 0
            /\ Analyses(w, r)' = 0 /\ Flies(w, r)' = 0
        BY <2>3, Contributions
      <3>2. rows'[r] = rows[r] /\ mails'[r] = mails[r]
        BY <2>3
      <3>3. Bit(Open(rows[r], n)) \in {0, 1}
        BY DEF Bit
      <3> QED  BY <1>1, <3>1, <3>2, <3>3
    <2> QED  BY <2>2, <2>3
  <1> QED  BY <1>1, <1>2, Balance

\* What may change at the row in hand, over plain numbers: the mail m, the
\* analyst a, the flight f and the openness o, before and after.
LEMMA RowCases ==
  ASSUME TypeOK, NEW w \in Workers, Alone(w), UNCHANGED reopened, NEW d \in {0, 1},
         NEW j \in Ids, job[w] = j, job'[w] = j \/ pc'[w] \notin Counted,
         NEW k \in {0, 1}, mails'[j] = mails[j] + k,
         \A r \in Ids : r # j => rows'[r] = rows[r] /\ mails'[r] = mails[r],
         \A n \in Nat : 
           \E o, p \in {0, 1} :
             /\ Open(rows'[j], n + Analyses(w, j)') => o = 1
             /\ p = 1 => Open(rows[j], n + Analyses(w, j))
             /\ k + Analyses(w, j)' + Flies(w, j)' + o
                  <= Analyses(w, j) + Flies(w, j) + p + d
  PROVE  Adds(d)
  <1>1. mails[j] \in Nat /\ mails'[j] \in Nat
    BY DEF TypeOK
  <1>2. /\ Analyses(w, j) \in {0, 1} /\ Flies(w, j) \in {0, 1}
        /\ Analyses(w, j)' \in {0, 1} /\ Flies(w, j)' \in {0, 1}
    BY Contributions
  <1>3. ASSUME NEW n \in Nat
        PROVE  mails'[j] + Analyses(w, j)' + Flies(w, j)'
                 + Bit(Open(rows'[j], n + Analyses(w, j)'))
               <= mails[j] + Analyses(w, j) + Flies(w, j)
                    + Bit(Open(rows[j], n + Analyses(w, j))) + d
    <2>1. PICK o, p \in {0, 1} :
             /\ Open(rows'[j], n + Analyses(w, j)') => o = 1
             /\ p = 1 => Open(rows[j], n + Analyses(w, j))
             /\ k + Analyses(w, j)' + Flies(w, j)' + o
                  <= Analyses(w, j) + Flies(w, j) + p + d
      OBVIOUS
    <2>2. /\ Bit(Open(rows'[j], n + Analyses(w, j)')) \in {0, 1}
          /\ Bit(Open(rows[j], n + Analyses(w, j))) \in {0, 1}
          /\ Bit(Open(rows'[j], n + Analyses(w, j)')) <= o
          /\ p <= Bit(Open(rows[j], n + Analyses(w, j)))
      BY <2>1 DEF Bit
    <2> HIDE DEF Bit
    <2> QED  BY <1>1, <1>2, <2>1, <2>2
  <1> QED  BY <1>1, <1>3, RowBalance

\* Which statements leave a row closed that was closed.
LEMMA OpenOperators ==
  ASSUME NEW row \in Row, NEW n \in Nat
  PROVE  /\ Open(Backfilled(row), n) => Open(row, n)
         /\ Open(Recovered(row), n) => Open(row, n)
         /\ Open(SendRecovered(row), n) => Open(row, n)
         /\ \A s \in SendStatuses \ SEND_READY_STATUSES :
              Open(SendMarked(row, s), n) => Open(row, n)
         /\ SendReady(row) => Open(row, n) /\ ~Open(SendClaimed(row), n)
         /\ ApiClaimable(row) => Open(row, n) /\ (n # 0 => ~Open(Claimed(row), n))
  <1> USE DEF Open, Row, SEND_READY_STATUSES
  <1>1. /\ Open(Backfilled(row), n) => Open(row, n)
        /\ Open(Recovered(row), n) => Open(row, n)
    BY DEF Backfilled, Recovered
  <1>2. /\ Open(SendRecovered(row), n) => Open(row, n)
        /\ \A s \in SendStatuses \ SEND_READY_STATUSES :
             Open(SendMarked(row, s), n) => Open(row, n)
    BY DEF SendRecovered, SendMarked
  <1>3. SendReady(row) => Open(row, n) /\ ~Open(SendClaimed(row), n)
    BY DEF SendReady, SendClaimed
  <1>4. ApiClaimable(row) => Open(row, n) /\ (n # 0 => ~Open(Claimed(row), n))
    BY DEF ApiClaimable, Claimed
  <1> QED  BY <1>1, <1>2, <1>3, <1>4

\* No row opens that was closed.
NoneOpens == \A r \in Ids, n \in Nat : Open(rows'[r], n) => Open(rows[r], n)

\* The steps of a worker that open no row and deliver no mail.
LEMMA QuietSteps ==
  ASSUME TypeOK, NEW w \in Workers, InnerStep(w),
         ~MarkRetry(w), ~MarkCompleted(w), ~MarkSendFailed(w)
  PROVE  NoneOpens /\ UNCHANGED reopened /\ (SendAnalysisMail(w) \/ UNCHANGED mails)
  <1>1. UNCHANGED reopened /\ (SendAnalysisMail(w) \/ UNCHANGED mails)
    BY DEF InnerStep, EnsureSchema, RecoverIncompleteRequests, CollectLegacyMail,
           InsertReceived, RecoverStaleSending, ListSendReady, ClaimSend, MarkSent,
           MarkSendUnknown, ListApiReady, ClaimApiRequest, AnalyzeRequest,
           SendCompletedRequest, SendAnalysisMail
  <1>2. ASSUME NEW r \in Ids, NEW n \in Nat, Open(rows'[r], n) PROVE Open(rows[r], n)
    <2> DEFINE a == rows[r]  b == rows'[r]
    <2>1. a \in Row
      BY DEF TypeOK
    <2>2. \/ b \in {a, Backfilled(a), Recovered(a), SendRecovered(a)}
          \/ a = NoRow
          \/ ApiClaimable(a) \/ SendReady(a)
          \/ \E s \in {"SENT", "SEND_UNKNOWN"} : b = SendMarked(a, s)
      BY InnerRows DEF Written
    <2>3. {"SENT", "SEND_UNKNOWN"} \subseteq SendStatuses \ SEND_READY_STATUSES
      BY DEF SendStatuses, SEND_READY_STATUSES
    <2>4. Open(b, n)
      BY <1>2
    <2> HIDE DEF a, b
    <2>5. CASE a = NoRow
      BY <2>5 DEF Open, NoRow, DefaultRow, a
    <2>6. CASE a # NoRow
      BY <2>1, <2>2, <2>3, <2>4, <2>6, OpenOperators DEF a
    <2> QED  BY <2>5, <2>6
  <1> QED  BY <1>1, <1>2 DEF NoneOpens

\* A worker that returns its row, as a request or as a mail, gives up what it
\* counted for, so that the row may be open afterwards.
LEMMA ReturningSteps ==
  ASSUME TypeOK, NEW w \in Workers, Alone(w), pc'[w] \notin Counted,
         MarkRetry(w) \/ MarkCompleted(w) \/ MarkSendFailed(w)
  PROVE  Adds(0)
  <1>1. pc[w] \in Counted /\ job[w] \in Ids
    BY DEF MarkRetry, MarkCompleted, MarkSendFailed, Counted, AnalysisSteps, FlightSteps,
           TypeOK, RowSteps, MailSteps
  <1>2. /\ \A r \in Ids : r # job[w] => rows'[r] = rows[r] /\ mails'[r] = mails[r]
        /\ mails'[job[w]] = mails[job[w]] + 0 /\ UNCHANGED reopened
    BY <1>1 DEF MarkRetry, MarkCompleted, MarkSendFailed, Statement, TypeOK
  <1>0. PICK j \in Ids : job[w] = j
    BY <1>1
  <1>3. Analyses(w, j) = 1 \/ Flies(w, j) = 1
    BY <1>0, <1>1, Contributions DEF Counted
  <1>4. /\ Analyses(w, j) \in {0, 1} /\ Flies(w, j) \in {0, 1}
    BY Contributions
  <1>5. ASSUME NEW n \in Nat
        PROVE  \E o, p \in {0, 1} :
             /\ Open(rows'[j], n + Analyses(w, j)') => o = 1
             /\ p = 1 => Open(rows[j], n + Analyses(w, j))
             /\ 0 + Analyses(w, j)' + Flies(w, j)' + o
                  <= Analyses(w, j) + Flies(w, j) + p + 0
    <2>1. Analyses(w, j)' = 0 /\ Flies(w, j)' = 0
      BY Contributions
    <2>2. 0 + 0 + 0 + 1 <= Analyses(w, j) + Flies(w, j) + 0 + 0
      BY <1>3, <1>4
    <2> QED  BY <2>1, <2>2
  <1> QED  BY <1>0, <1>1, <1>2, <1>5, RowCases

\* A worker that stays on its row, or on none, while its row does not open: the
\* cost changes by its mail k and by its own part.
LEMMA ClosedRowCases ==
  ASSUME TypeOK, NEW w \in Workers, Alone(w), UNCHANGED reopened, NEW d \in {0, 1},
         NEW j \in Ids, job[w] = j, job'[w] = j \/ pc'[w] \notin Counted,
         NEW k \in {0, 1}, mails'[j] = mails[j] + k,
         \A r \in Ids : r # j => rows'[r] = rows[r] /\ mails'[r] = mails[r],
         \A n \in Nat : Open(rows'[j], n) => Open(rows[j], n),
         Analyses(w, j)' = Analyses(w, j),
         k + Flies(w, j)' <= Flies(w, j) + d
  PROVE  Adds(d)
  <1>1. /\ Analyses(w, j) \in {0, 1} /\ Flies(w, j) \in {0, 1} /\ Flies(w, j)' \in {0, 1}
    BY Contributions
  <1>2. ASSUME NEW n \in Nat
        PROVE  \E o, p \in {0, 1} :
             /\ Open(rows'[j], n + Analyses(w, j)') => o = 1
             /\ p = 1 => Open(rows[j], n + Analyses(w, j))
             /\ k + Analyses(w, j)' + Flies(w, j)' + o
                  <= Analyses(w, j) + Flies(w, j) + p + d
    <2>1. Open(rows'[j], n + Analyses(w, j)') => Open(rows[j], n + Analyses(w, j))
      BY <1>1
    <2>2. \A o \in {0, 1} : k + Analyses(w, j)' + Flies(w, j)' + o
                              <= Analyses(w, j) + Flies(w, j) + o + d
      BY <1>1
    <2>3. CASE Open(rows[j], n + Analyses(w, j))
      BY <2>2, <2>3
    <2>4. CASE ~Open(rows[j], n + Analyses(w, j))
      BY <2>1, <2>2, <2>4
    <2> QED  BY <2>3, <2>4
  <1> QED  BY <1>2, RowCases

\* A worker that claims its row closes it.
LEMMA ClaimingRowCases ==
  ASSUME TypeOK, NEW w \in Workers, Alone(w), UNCHANGED <<mails, reopened>>,
         NEW j \in Ids, job[w] = j, job'[w] = j, pc[w] \notin Counted,
         \A r \in Ids : r # j => rows'[r] = rows[r],
         \A n \in Nat : Open(rows[j], n),
         \A n \in Nat : ~Open(rows'[j], n + Analyses(w, j)')
  PROVE  Adds(0)
  <1>1. /\ Analyses(w, j) = 0 /\ Flies(w, j) = 0
        /\ Analyses(w, j)' \in {0, 1} /\ Flies(w, j)' \in {0, 1}
        /\ Analyses(w, j)' = 0 \/ Flies(w, j)' = 0
    BY Contributions
  <1>2. ASSUME NEW n \in Nat
        PROVE  \E o, p \in {0, 1} :
             /\ Open(rows'[j], n + Analyses(w, j)') => o = 1
             /\ p = 1 => Open(rows[j], n + Analyses(w, j))
             /\ 0 + Analyses(w, j)' + Flies(w, j)' + o
                  <= Analyses(w, j) + Flies(w, j) + p + 0
    <2>1. ~Open(rows'[j], n + Analyses(w, j)') /\ Open(rows[j], n + Analyses(w, j))
      BY <1>1
    <2>2. 0 + Analyses(w, j)' + Flies(w, j)' + 0 <= Analyses(w, j) + Flies(w, j) + 1 + 0
      BY <1>1
    <2> QED  BY <2>1, <2>2
  <1>3. mails'[j] = mails[j] + 0
    BY DEF TypeOK
  <1> QED  BY <1>2, <1>3, RowCases

LEMMA SendingCost ==
  ASSUME TypeOK, NEW w \in Workers, SendAnalysisMail(w)
  PROVE  Adds(0) \/ (Adds(1) /\ Fault("broken_reply"))
  <1>1. /\ pc[w] \in FlightSteps /\ pc[w] \notin AnalysisSteps
        /\ UNCHANGED <<rows, reopened>>
    BY DEF SendAnalysisMail, FlightSteps, AnalysisSteps
  <1>2. PICK j \in Ids : job[w] = j
    BY DEF SendAnalysisMail, TypeOK, RowSteps, MailSteps
  <1>3. PICK s \in MailSteps : Goto(w, s)
    BY DEF SendAnalysisMail, Delivered, NotDelivered, MailSteps
  <1>4. pc'[w] = s /\ job' = job /\ Alone(w)
    BY <1>3, GotoAlone
  <1>5. /\ Analyses(w, j)' = 0 /\ Analyses(w, j) = 0 /\ Flies(w, j) = 1
        /\ Flies(w, j)' \in {0, 1}
        /\ s \notin FlightSteps => Flies(w, j)' = 0
    BY <1>1, <1>2, <1>4, Contributions DEF MailSteps, AnalysisSteps, Counted, Analyses, Bit
  <1>6. CASE NotDelivered(w)
    <2>1. UNCHANGED mails /\ mails'[j] = mails[j] + 0
      BY <1>6 DEF NotDelivered, TypeOK
    <2>2. 0 + Flies(w, j)' <= Flies(w, j) + 0
      BY <1>5
    <2> QED  BY <1>1, <1>2, <1>4, <1>5, <2>1, <2>2, ClosedRowCases
  <1>7. CASE Delivered(w)
    <2>1. mails'[j] = mails[j] + 1 /\ \A r \in Ids : r # j => mails'[r] = mails[r]
      BY <1>2, <1>7 DEF Delivered, TypeOK
    <2>2. CASE s \notin FlightSteps
      <3>1. 1 + Flies(w, j)' <= Flies(w, j) + 0
        BY <1>5, <2>2
      <3> QED  BY <1>1, <1>2, <1>4, <1>5, <2>1, <3>1, ClosedRowCases
    <2>3. CASE s \in FlightSteps
      <3>1. 1 + Flies(w, j)' <= Flies(w, j) + 1
        BY <1>5
      <3>2. Adds(1)
        BY <1>1, <1>2, <1>4, <1>5, <2>1, <3>1, ClosedRowCases
      <3>3. Fault("broken_reply")
        BY <1>4, <1>7, <2>3, GotoAlone DEF Delivered, FlightSteps
      <3> QED  BY <3>2, <3>3
    <2> QED  BY <2>2, <2>3
  <1> QED  BY <1>6, <1>7 DEF SendAnalysisMail

LEMMA ClaimingCost ==
  ASSUME TypeOK, NEW w \in Workers, pc'[w] \in Counted,
         ClaimApiRequest(w) \/ ClaimSend(w)
  PROVE  Adds(0)
  <1>1. /\ pc[w] \notin Counted /\ UNCHANGED <<mails, reopened>>
    BY DEF ClaimApiRequest, ClaimSend, Counted, AnalysisSteps, FlightSteps
  <1>2. PICK j \in Ids : job[w] = j
    BY DEF ClaimApiRequest, ClaimSend, TypeOK, RowSteps
  <1>3. ~EndRun(w) /\ ~Goto(w, "send_completed_request") /\ \A l : ~Continue(w, l)
    BY EndRunAlone, GotoAlone, ContinueAlone
       DEF Counted, AnalysisSteps, FlightSteps, OpenSteps
  <1>4. rows[j] \in Row
    BY DEF TypeOK
  <1>5. CASE ClaimApiRequest(w)
    <2>1. /\ ApiClaimable(rows[j])
          /\ rows' = [rows EXCEPT ![j] = Claimed(rows[j])]
          /\ Goto(w, "analyze_request")
      BY <1>2, <1>3, <1>5 DEF ClaimApiRequest, Statement, Query
    <2>2. pc'[w] = "analyze_request" /\ job' = job /\ Alone(w)
      BY <2>1, GotoAlone
    <2>3. Analyses(w, j)' = 1
      BY <1>2, <2>2, Contributions DEF AnalysisSteps
    <2>4. rows'[j] = Claimed(rows[j]) /\ \A r \in Ids : r # j => rows'[r] = rows[r]
      BY <2>1 DEF TypeOK
    <2>5. \A n \in Nat : Open(rows[j], n)
      BY <1>4, <2>1, OpenOperators
    <2>6. ASSUME NEW n \in Nat PROVE ~Open(rows'[j], n + Analyses(w, j)')
      <3>1. n + 1 \in Nat /\ n + 1 # 0
        OBVIOUS
      <3>2. ~Open(Claimed(rows[j]), n + 1)
        BY <1>4, <2>1, <3>1, OpenOperators
      <3> QED  BY <2>3, <2>4, <3>2
    <2> QED  BY <1>1, <1>2, <2>2, <2>4, <2>5, <2>6, ClaimingRowCases
  <1>6. CASE ClaimSend(w)
    <2>1. /\ SendReady(rows[j])
          /\ rows' = [rows EXCEPT ![j] = SendClaimed(rows[j])]
          /\ Goto(w, "send_analysis_mail")
      BY <1>2, <1>3, <1>6 DEF ClaimSend, Statement, Query
    <2>2. pc'[w] = "send_analysis_mail" /\ job' = job /\ Alone(w)
      BY <2>1, GotoAlone
    <2>3. Analyses(w, j)' \in {0, 1}
      BY Contributions
    <2>4. rows'[j] = SendClaimed(rows[j]) /\ \A r \in Ids : r # j => rows'[r] = rows[r]
      BY <2>1 DEF TypeOK
    <2>5. \A n \in Nat : Open(rows[j], n) /\ ~Open(SendClaimed(rows[j]), n)
      BY <1>4, <2>1, OpenOperators
    <2>6. ASSUME NEW n \in Nat PROVE ~Open(rows'[j], n + Analyses(w, j)')
      <3>1. n + Analyses(w, j)' \in Nat
        BY <2>3
      <3> QED  BY <2>4, <2>5, <3>1
    <2> QED  BY <1>1, <1>2, <2>2, <2>4, <2>5, <2>6, ClaimingRowCases
  <1> QED  BY <1>5, <1>6

LEMMA AnalyzingCost ==
  ASSUME TypeOK, NEW w \in Workers, AnalyzeRequest(w)
  PROVE  Adds(0)
  <1>1. /\ pc[w] \in AnalysisSteps /\ pc'[w] \in AnalysisSteps /\ job' = job
        /\ Alone(w) /\ UNCHANGED <<rows, mails, reopened>>
    BY DEF AnalyzeRequest, AnalysisSteps, Goto, Alone, TypeOK
  <1>2. PICK j \in Ids : job[w] = j
    BY <1>1 DEF TypeOK, RowSteps
  <1>3. /\ Analyses(w, j) = 1 /\ Analyses(w, j)' = 1
        /\ Flies(w, j) = 0 /\ Flies(w, j)' = 0
    BY <1>1, <1>2, Contributions
  <1>4. mails'[j] = mails[j] + 0 /\ 0 + Flies(w, j)' <= Flies(w, j) + 0
    BY <1>1, <1>3 DEF TypeOK
  <1> QED  BY <1>1, <1>2, <1>3, <1>4, ClosedRowCases

\* A completion that may have been saved is saved as a failed analysis.
LEMMA DoubtfulCompletionCost ==
  ASSUME TypeOK, NEW w \in Workers, MarkCompleted(w), pc'[w] \in Counted
  PROVE  Adds(1) /\ Fault("mark_completed")
  <1>1. ~Goto(w, "send_completed_request")
    BY GotoAlone DEF Counted, AnalysisSteps, FlightSteps
  <1>2. Fault("mark_completed") /\ Goto(w, "mark_retry")
    BY <1>1 DEF MarkCompleted, Statement
  <1>3. pc'[w] = "mark_retry" /\ job' = job /\ Alone(w)
    BY <1>2, GotoAlone
  <1>4. pc[w] = "mark_completed" /\ UNCHANGED <<mails, reopened>>
    BY DEF MarkCompleted
  <1>5. PICK j \in Ids : job[w] = j
    BY <1>4 DEF TypeOK, RowSteps, AnalysisSteps
  <1>6. /\ Analyses(w, j) = 1 /\ Analyses(w, j)' = 1
        /\ Flies(w, j) = 0 /\ Flies(w, j)' = 0
    BY <1>3, <1>4, <1>5, Contributions DEF AnalysisSteps
  <1>7. /\ mails'[j] = mails[j] + 0
        /\ \A r \in Ids : r # j => rows'[r] = rows[r] /\ mails'[r] = mails[r]
    BY <1>4, <1>5 DEF MarkCompleted, Statement, TypeOK
  <1>8. ASSUME NEW n \in Nat
        PROVE  \E o, p \in {0, 1} :
             /\ Open(rows'[j], n + Analyses(w, j)') => o = 1
             /\ p = 1 => Open(rows[j], n + Analyses(w, j))
             /\ 0 + Analyses(w, j)' + Flies(w, j)' + o
                  <= Analyses(w, j) + Flies(w, j) + p + 1
    <2>1. 0 + Analyses(w, j)' + Flies(w, j)' + 1
            <= Analyses(w, j) + Flies(w, j) + 0 + 1
      BY <1>6
    <2> QED  BY <2>1
  <1>9. Adds(1)
    BY <1>3, <1>4, <1>5, <1>7, <1>8, RowCases
  <1> QED  BY <1>2, <1>9

\* A mail that is delivered and not recorded as sent may be saved as refused.
LEMMA DoubtfulDeliveryCost ==
  ASSUME TypeOK, NEW w \in Workers, MarkSent(w), pc'[w] \in Counted, InnerStep(w)
  PROVE  Adds(1) /\ Fault("mark_sent")
  <1>1. \A l : ~Continue(w, l)
    BY ContinueAlone DEF Counted, AnalysisSteps, FlightSteps, OpenSteps
  <1>2. Fault("mark_sent") /\ Goto(w, "mark_send_failed")
    BY <1>1 DEF MarkSent, Statement
  <1>3. pc'[w] = "mark_send_failed" /\ job' = job /\ Alone(w)
    BY <1>2, GotoAlone
  <1>4. pc[w] = "mark_sent" /\ UNCHANGED <<mails, reopened>>
    BY DEF MarkSent
  <1>5. PICK j \in Ids : job[w] = j
    BY <1>4 DEF TypeOK, RowSteps, MailSteps
  <1>6. /\ Analyses(w, j) = 0 /\ Analyses(w, j)' = 0
        /\ Flies(w, j) = 0 /\ Flies(w, j)' = 1
    BY <1>3, <1>4, <1>5, Contributions DEF Counted, AnalysisSteps, FlightSteps
  <1>7. /\ mails'[j] = mails[j] + 0
        /\ \A r \in Ids : r # j => rows'[r] = rows[r] /\ mails'[r] = mails[r]
    BY <1>4, <1>5 DEF MarkSent, Statement, TypeOK
  <1>8. \A n \in Nat : Open(rows'[j], n) => Open(rows[j], n)
    <2>1. ~MarkRetry(w) /\ ~MarkCompleted(w) /\ ~MarkSendFailed(w)
      BY <1>4 DEF MarkRetry, MarkCompleted, MarkSendFailed
    <2> QED  BY <2>1, QuietSteps DEF NoneOpens
  <1>9. 0 + Flies(w, j)' <= Flies(w, j) + 1
    BY <1>6
  <1>10. Adds(1)
    BY <1>3, <1>4, <1>5, <1>6, <1>7, <1>8, <1>9, ClosedRowCases
  <1> QED  BY <1>2, <1>10

\* The failures that may cost a duplicate.
CostlyKinds == {"slow", "mark_completed", "mark_sent", "broken_reply"}

Costs == Adds(0) \/ (Adds(1) /\ \E kind \in CostlyKinds : Fault(kind))

LEMMA InnerCost ==
  ASSUME TypeOK, NEW w \in Workers, InnerStep(w)
  PROVE  Costs
  <1> USE DEF Costs, CostlyKinds
  <1>1. Alone(w) /\ Entries(w)
    BY InnerMoves, InnerEntries DEF Moved
  <1>2. CASE SendAnalysisMail(w)
    BY <1>2, SendingCost
  <1>3. CASE pc'[w] \notin Counted /\ ~SendAnalysisMail(w)
    <2>1. CASE MarkRetry(w) \/ MarkCompleted(w) \/ MarkSendFailed(w)
      BY <1>1, <1>3, <2>1, ReturningSteps
    <2>2. CASE ~MarkRetry(w) /\ ~MarkCompleted(w) /\ ~MarkSendFailed(w)
      <3>1. NoneOpens /\ UNCHANGED <<mails, reopened>>
        BY <1>3, <2>2, QuietSteps
      <3> QED  BY <1>1, <1>3, <3>1, Leaving DEF NoneOpens
    <2> QED  BY <2>1, <2>2
  <1>4. CASE pc'[w] \in Counted /\ ~SendAnalysisMail(w)
    <2>1. \/ ClaimApiRequest(w) \/ ClaimSend(w) \/ AnalyzeRequest(w)
          \/ MarkCompleted(w) \/ MarkSent(w)
      BY <1>1, <1>4 DEF Entries, Counted
    <2> QED  BY <1>4, <2>1, ClaimingCost, AnalyzingCost, DoubtfulCompletionCost,
                DoubtfulDeliveryCost
  <1> QED  BY <1>2, <1>3, <1>4

\* Where no worker moves, only what becomes of the row counts.
LEMMA StandingCost ==
  ASSUME TypeOK, UNCHANGED <<pc, job, mails>>, NEW d \in {0, 1},
         \A r \in Ids : reopened'[r] \in Nat /\ reopened[r] <= reopened'[r],
         \A r \in Ids : \/ d = 1
                        \/ reopened[r] < reopened'[r]
                        \/ Analysts(r) = {} /\ Open(rows[r], 0)
                        \/ \A n \in Nat : Open(rows'[r], n) => Open(rows[r], n)
  PROVE  Adds(d)
  <1> SUFFICES ASSUME NEW r \in Ids
               PROVE  Cost(r)' - reopened'[r] <= Cost(r) - reopened[r] + d
    BY DEF Adds
  <1>1. Analysts(r)' = Analysts(r) /\ Flights(r)' = Flights(r)
    BY DEF Analysts, Flights
  <1> DEFINE a == Cardinality(Analysts(r))
             f == Cardinality(Flights(r))
             o == Bit(Open(rows[r], a))
             p == Bit(Open(rows'[r], a))
  <1>2. a \in Nat /\ f \in Nat /\ mails[r] \in Nat /\ reopened[r] \in Nat
    BY FiniteCounts DEF TypeOK
  <1>3. o \in {0, 1} /\ p \in {0, 1}
    BY DEF Bit
  <1>4. \/ d = 1 \/ reopened[r] < reopened'[r] \/ p <= o
    <2>1. Analysts(r) = {} => a = 0
      BY FS_EmptySet
    <2>2. (Open(rows'[r], a) => Open(rows[r], a)) => p <= o
      BY DEF Bit
    <2> HIDE DEF p, o
    <2>3. (\A n \in Nat : Open(rows'[r], n) => Open(rows[r], n))
            => (Open(rows'[r], a) => Open(rows[r], a))
      BY <1>2
    <2>4. a = 0 /\ Open(rows[r], 0) => Open(rows[r], a)
      OBVIOUS
    <2> HIDE DEF a
    <2> QED  BY <2>1, <2>2, <2>3, <2>4
  <1>5. Cost(r) = mails[r] + a + f + o /\ Cost(r)' = mails[r] + a + f + p
    BY <1>1 DEF Cost
  <1> HIDE DEF a, f, o, p
  <1>6. reopened'[r] \in Nat /\ reopened[r] <= reopened'[r]
    OBVIOUS
  <1> QED  BY <1>2, <1>3, <1>4, <1>5, <1>6

LEMMA NextCost ==
  ASSUME TypeOK, [Next]_vars
  PROVE  Costs
  <1> USE DEF Costs, CostlyKinds
  <1>0. \A r \in Ids : reopened[r] \in Nat
    BY DEF TypeOK
  <1>1. ASSUME NEW w \in Workers, InnerStep(w) PROVE Costs
    BY <1>1, InnerCost
  <1>2. ASSUME NEW w \in Workers, OutsideStep(w) PROVE Costs
    <2>1. /\ UNCHANGED <<rows, mails, reopened>> /\ Alone(w)
          /\ pc'[w] \in {"ensure_schema", "idle"}
      BY <1>2, OutsideMoves
    <2>2. pc'[w] \notin Counted
      BY <2>1 DEF Counted, AnalysisSteps, FlightSteps
    <2> QED  BY <2>1, <2>2, Leaving
  <1>3. ASSUME UNCHANGED <<rows, pc, job, mails, reopened>> PROVE Costs
    BY <1>0, <1>3, StandingCost
  <1>4. ASSUME NEW w \in Workers, LockDrop(w) PROVE Costs
    BY <1>3, <1>4 DEF LockDrop
  <1>5. ASSUME NEW r \in Ids, Abandoned(r) PROVE Costs
    <2>1. UNCHANGED <<pc, job, mails, reopened>> /\ \A i \in Ids \ {r} : rows'[i] = rows[i]
      BY <1>5 DEF Abandoned, TypeOK
    <2>2. Analysts(r) = {}
      BY <1>5 DEF Abandoned, Holding, Analysts
    <2>3. Open(rows[r], 0) \/ \A n \in Nat : Open(rows'[r], n) => Open(rows[r], n)
      BY <1>5 DEF Abandoned, Open, TypeOK, Row, SEND_READY_STATUSES
    <2> QED  BY <1>0, <2>1, <2>2, <2>3, StandingCost
  <1>6. ASSUME NEW r \in Ids, Overdue(r) PROVE Costs
    <2>1. UNCHANGED <<pc, job, mails, reopened>> /\ Fault("slow")
      BY <1>6 DEF Overdue
    <2> QED  BY <1>0, <2>1, StandingCost
  <1>7. ASSUME NEW r \in Ids, Arrive(r) PROVE Costs
    <2>1. UNCHANGED <<pc, job, mails, reopened>> /\ \A i \in Ids \ {r} : rows'[i] = rows[i]
      BY <1>7 DEF Arrive, TypeOK
    <2>2. \A n \in Nat : Open(rows[r], n)
      BY <1>7 DEF Arrive, Open, NoRow, DefaultRow
    <2> QED  BY <1>0, <2>1, <2>2, StandingCost
  <1>8. ASSUME NEW r \in Ids, OperatorDrop(r) PROVE Costs
    <2>1. UNCHANGED <<pc, job, mails, reopened>> /\ \A i \in Ids \ {r} : rows'[i] = rows[i]
      BY <1>8 DEF OperatorDrop, TypeOK
    <2>2. \A n \in Nat : Open(rows'[r], n) => Open(rows[r], n)
      BY <1>8 DEF OperatorDrop, Open, TypeOK, Row, SEND_READY_STATUSES
    <2> QED  BY <1>0, <2>1, <2>2, StandingCost
  <1>9. ASSUME NEW r \in Ids, OperatorReopen(r) PROVE Costs
    <2>1. /\ UNCHANGED <<pc, job, mails>> /\ \A i \in Ids \ {r} : rows'[i] = rows[i]
          /\ reopened'[r] = reopened[r] + 1
          /\ \A i \in Ids \ {r} : reopened'[i] = reopened[i]
      BY <1>9 DEF OperatorReopen, TypeOK
    <2>2. \A i \in Ids : reopened'[i] \in Nat /\ reopened[i] <= reopened'[i]
      BY <1>0, <2>1
    <2>3. reopened[r] < reopened'[r]
      BY <1>0, <2>1
    <2> QED  BY <2>1, <2>2, <2>3, StandingCost
  <1>10. CASE UNCHANGED vars
    BY <1>3, <1>10 DEF vars
  <1> QED  BY <1>1, <1>2, <1>4, <1>5, <1>6, <1>7, <1>8, <1>9, <1>10, NextCases

LEMMA FaultsGrow ==
  ASSUME TypeOK, [Next]_vars
  PROVE  faults' \in {faults, faults + 1}
  <1>1. ASSUME NEW w \in Workers, InnerStep(w) PROVE faults' \in {faults, faults + 1}
    BY <1>1 DEF InnerStep, EnsureSchema, RecoverIncompleteRequests, CollectLegacyMail,
                InsertReceived, RecoverStaleSending, ListSendReady, ClaimSend, MarkSent,
                MarkSendUnknown, MarkSendFailed, MarkCompleted, MarkRetry, ListApiReady,
                ClaimApiRequest, AnalyzeRequest, SendCompletedRequest, SendAnalysisMail,
                Delivered, NotDelivered, Statement, Query, Fault, NoFault
  <1> QED  BY <1>1, NextCases DEF OutsideStep, AcquireLock, ReleaseLock, Crash, LockDrop,
              Abandoned, Overdue, Arrive, OperatorDrop, OperatorReopen, Fault, vars

\* What a request may still cost is never more than its allowance.
CostPerFault  == \A r \in Ids : Cost(r) <= 1 + reopened[r] + faults
CostPerReopen == \A r \in Ids : Cost(r) <= 1 + reopened[r]

LEMMA CostNumbers ==
  ASSUME TypeOK, NEW r \in Ids
  PROVE  /\ Cost(r) \in Nat /\ mails[r] \in Nat /\ mails[r] <= Cost(r)
         /\ reopened[r] \in Nat /\ faults \in Nat
  <1>1. /\ Cardinality(Analysts(r)) \in Nat /\ Cardinality(Flights(r)) \in Nat
        /\ Bit(Open(rows[r], Cardinality(Analysts(r)))) \in Nat
    BY FiniteCounts DEF Bit
  <1>2. mails[r] \in Nat /\ reopened[r] \in Nat /\ faults \in Nat
    BY PipelineAssumption DEF TypeOK
  <1> QED  BY <1>1, <1>2 DEF Cost

LEMMA CostNumbersNext ==
  ASSUME TypeOK', NEW r \in Ids
  PROVE  Cost(r)' \in Nat /\ reopened'[r] \in Nat /\ faults' \in Nat
  <1>1. /\ Cardinality(Analysts(r)') \in Nat /\ Cardinality(Flights(r)') \in Nat
        /\ Bit(Open(rows'[r], Cardinality(Analysts(r)'))) \in Nat
    BY FiniteCountsNext DEF Bit
  <1>2. mails'[r] \in Nat /\ reopened'[r] \in Nat /\ faults' \in Nat
    BY PipelineAssumption DEF TypeOK
  <1> QED  BY <1>1, <1>2 DEF Cost

\* At first no mail is delivered and no worker on a row.
LEMMA CostInit ==
  ASSUME Init, NEW r \in Ids
  PROVE  Cost(r) <= 1 /\ reopened[r] = 0 /\ faults = 0
  <1>1. Analysts(r) = {} /\ Flights(r) = {}
    BY DEF Init, Analysts, Flights, AnalysisSteps, FlightSteps
  <1>2. Cardinality(Analysts(r)) = 0 /\ Cardinality(Flights(r)) = 0
    BY <1>1, FS_EmptySet
  <1>3. mails[r] = 0 /\ reopened[r] = 0 /\ faults = 0
    BY DEF Init
  <1>4. Bit(Open(rows[r], Cardinality(Analysts(r)))) \in {0, 1}
    BY DEF Bit
  <1> QED  BY <1>2, <1>3, <1>4 DEF Cost

\* With nothing excluded, lost locks, slow workers and calls of unknown outcome
\* included, in any number and order: each failure costs a requester at most one
\* mail more.
THEOREM OneFaultOneDuplicate == Spec => []DuplicatePerFault
  <1>1. Init => CostPerFault
    <2> SUFFICES ASSUME Init, NEW r \in Ids PROVE Cost(r) <= 1 + reopened[r] + faults
      BY DEF CostPerFault
    <2> QED  BY CostInit
  <1>2. TypeOK /\ TypeOK' /\ CostPerFault /\ [Next]_vars => CostPerFault'
    <2> SUFFICES ASSUME TypeOK, TypeOK', CostPerFault, [Next]_vars, NEW r \in Ids
                 PROVE  Cost(r)' <= 1 + reopened'[r] + faults'
      BY DEF CostPerFault
    <2>1. Cost(r) \in Nat /\ reopened[r] \in Nat /\ faults \in Nat
      BY CostNumbers
    <2>2. Cost(r)' \in Nat /\ reopened'[r] \in Nat /\ faults' \in Nat
      BY CostNumbersNext
    <2>3. Cost(r) <= 1 + reopened[r] + faults
      BY DEF CostPerFault
    <2>4. faults <= faults'
      BY <2>1, FaultsGrow
    <2>5. CASE Adds(0)
      <3>1. Cost(r)' - reopened'[r] <= Cost(r) - reopened[r] + 0
        BY <2>5 DEF Adds
      <3> QED  BY <2>1, <2>2, <2>3, <2>4, <3>1
    <2>6. CASE Adds(1) /\ faults' = faults + 1
      <3>1. Cost(r)' - reopened'[r] <= Cost(r) - reopened[r] + 1
        BY <2>6 DEF Adds
      <3> QED  BY <2>1, <2>2, <2>3, <2>6, <3>1
    <2> QED  BY <2>5, <2>6, NextCost DEF Costs, Fault
  <1>3. TypeOK /\ CostPerFault => DuplicatePerFault
    <2> SUFFICES ASSUME TypeOK, CostPerFault, NEW r \in Ids
                 PROVE  mails[r] <= 1 + reopened[r] + faults
      BY DEF DuplicatePerFault
    <2>1. /\ Cost(r) \in Nat /\ mails[r] \in Nat /\ mails[r] <= Cost(r)
          /\ reopened[r] \in Nat /\ faults \in Nat
      BY CostNumbers
    <2>2. Cost(r) <= 1 + reopened[r] + faults
      BY DEF CostPerFault
    <2> QED  BY <2>1, <2>2
  <1> QED  BY <1>1, <1>2, <1>3, TypeCorrect, PTL DEF Spec

LEMMA CostPerReopenHolds ==
  RunsAreQuick /\ CompletionIsKnown /\ DeliveryIsKnown => (Spec => []CostPerReopen)
  <1> SUFFICES ASSUME RunsAreQuick, CompletionIsKnown, DeliveryIsKnown
               PROVE  Spec => []CostPerReopen
    OBVIOUS
  <1>1. Init => CostPerReopen
    <2> SUFFICES ASSUME Init, NEW r \in Ids PROVE Cost(r) <= 1 + reopened[r]
      BY DEF CostPerReopen
    <2> QED  BY CostInit
  <1>2. TypeOK /\ TypeOK' /\ CostPerReopen /\ [Next]_vars => CostPerReopen'
    <2> SUFFICES ASSUME TypeOK, TypeOK', CostPerReopen, [Next]_vars, NEW r \in Ids
                 PROVE  Cost(r)' <= 1 + reopened'[r]
      BY DEF CostPerReopen
    <2>1. \A kind \in CostlyKinds : ~Fault(kind)
      BY DEF CostlyKinds, Fault, RunsAreQuick, CompletionIsKnown, DeliveryIsKnown
    <2>2. Adds(0)
      BY <2>1, NextCost DEF Costs
    <2>3. Cost(r)' - reopened'[r] <= Cost(r) - reopened[r] + 0
      BY <2>2 DEF Adds
    <2>4. Cost(r) \in Nat /\ reopened[r] \in Nat
      BY CostNumbers
    <2>5. Cost(r)' \in Nat /\ reopened'[r] \in Nat
      BY CostNumbersNext
    <2>6. Cost(r) <= 1 + reopened[r]
      BY DEF CostPerReopen
    <2> QED  BY <2>3, <2>4, <2>5, <2>6
  <1> QED  BY <1>1, <1>2, TypeCorrect, PTL DEF Spec

\* If every completion is known, and every delivery known or known to be in
\* doubt, the requester gets the answer once, and once more only for each time
\* the operator put it back, whatever crashes, times out or is refused: while the
\* lock holds, because the runs are one after the other; where it is lost and
\* runs overlap, because of the claims, as long as no run is slower than the
\* stale thresholds.
THEOREM MailedOnce ==
  RunsKeptApart /\ CompletionIsKnown /\ DeliveryIsKnown => (Spec => []MailedAtMostOnce)
  <1>1. MailInv => MailedAtMostOnce
    BY DEF MailInv, DeliveriesInv, MailedAtMostOnce
  <1>2. TypeOK /\ CostPerReopen => MailedAtMostOnce
    <2> SUFFICES ASSUME TypeOK, CostPerReopen, NEW r \in Ids
                 PROVE  mails[r] <= 1 + reopened[r]
      BY DEF MailedAtMostOnce
    <2>1. /\ Cost(r) \in Nat /\ mails[r] \in Nat /\ mails[r] <= Cost(r)
          /\ reopened[r] \in Nat
      BY CostNumbers
    <2>2. Cost(r) <= 1 + reopened[r]
      BY DEF CostPerReopen
    <2> QED  BY <2>1, <2>2
  <1>3. CASE LockHolds
    BY <1>1, <1>3, MailInvHolds, PTL
  <1>4. CASE RunsAreQuick
    BY <1>2, <1>4, TypeCorrect, CostPerReopenHolds, PTL
  <1> QED  BY <1>3, <1>4 DEF RunsKeptApart

\* And what mark_send_failed returns to the queue has not been delivered.
THEOREM ReturnedUndelivered ==
  RunsKeptApart /\ CompletionIsKnown /\ DeliveryIsKnown =>
    (Spec => []OnlyDefiniteFailuresRetried)
  <1>1. MailInv => OnlyDefiniteFailuresRetried
    BY DEF MailInv, FlightInv, FlightSteps, OnlyDefiniteFailuresRetried
  <1>2. TypeOK /\ CostPerReopen => OnlyDefiniteFailuresRetried
    <2> SUFFICES ASSUME TypeOK, CostPerReopen, NEW w \in Workers,
                        pc[w] = "mark_send_failed"
                 PROVE  mails[job[w]] <= reopened[job[w]]
      BY DEF OnlyDefiniteFailuresRetried
    <2>1. PICK j \in Ids : job[w] = j
      BY DEF TypeOK, RowSteps, MailSteps
    <2>2. w \in Flights(j)
      BY <2>1 DEF Flights, FlightSteps
    <2>3. Cardinality(Flights(j)) # 0
      BY <2>2, FiniteCounts, FS_EmptySet
    <2>4. /\ Cardinality(Analysts(j)) \in Nat /\ Cardinality(Flights(j)) \in Nat
          /\ Bit(Open(rows[j], Cardinality(Analysts(j)))) \in Nat
      BY FiniteCounts DEF Bit
    <2>5. mails[j] \in Nat /\ reopened[j] \in Nat
      BY DEF TypeOK
    <2>6. mails[j] + 1 <= Cost(j)
      BY <2>3, <2>4, <2>5 DEF Cost
    <2>7. Cost(j) \in Nat /\ Cost(j) <= 1 + reopened[j]
      BY CostNumbers DEF CostPerReopen
    <2> QED  BY <2>1, <2>5, <2>6, <2>7
  <1>3. CASE LockHolds
    BY <1>1, <1>3, MailInvHolds, PTL
  <1>4. CASE RunsAreQuick
    BY <1>2, <1>4, TypeCorrect, CostPerReopenHolds, PTL
  <1> QED  BY <1>3, <1>4 DEF RunsKeptApart

=============================================================================
