------------------------------ MODULE RunHistory ------------------------------
(***************************************************************************)
(* RequestPipeline with a history variable: what each worker has done since *)
(* its run began.  The README and the tests describe one run ("한 번의      *)
(* 실행"), which the state of the pipeline alone does not remember.         *)
(***************************************************************************)
EXTENDS RequestPipeline

VARIABLE history    \* of the current run of each worker

hvars == <<vars, history>>

\* analysed: the requests whose analysis was called, in order; tried: those
\* whose mail was given to Knox or refused; failed: an analysis has failed;
\* due: what the analysis queue held when process_api_queue began; waiting: the
\* mails that have been in the send queue ever since process_pending_send began.
NewRun == [analysed |-> <<>>, tried |-> <<>>, failed |-> FALSE, due |-> {},
           waiting |-> {}]

HInit == Init /\ history = [w \in Workers |-> NewRun]

Leaves(w, steps) == pc[w] \in steps /\ pc'[w] # pc[w]

EntersQueue(w) == pc[w] # "list_api_ready" /\ pc'[w] = "list_api_ready"
                  /\ local[w].phase = "backlog"

Observed(w) ==
  IF pc'[w] = "idle" THEN NewRun
  ELSE [analysed |-> IF Leaves(w, {"analyze_request"})
                     THEN Append(history[w].analysed, job[w])
                     ELSE history[w].analysed,
        tried    |-> IF Leaves(w, {"send_analysis_mail"})
                     THEN Append(history[w].tried, job[w])
                     ELSE history[w].tried,
        failed   |-> history[w].failed \/ pc'[w] = "mark_retry",
        due      |-> IF EntersQueue(w) THEN {r \in Ids : ApiReady(rows[r])}
                                       ELSE history[w].due,
        waiting  |-> {r \in IF Leaves(w, {"recover_stale_sending"})
                            THEN Ids ELSE history[w].waiting : SendReady(rows'[r])}]

HNext == Next /\ history' = [w \in Workers |-> Observed(w)]

HSpec == HInit /\ [][HNext]_hvars

HFairSpec == HSpec /\ Fairness

----------------------------------------------------------------------------
\* process_api_queue lists again and again: within a run no request is
\* analysed twice, however it ended the first time.
AnalysedOncePerRun ==
  \A w \in Workers : IsInjective(history[w].analysed)

\* process_pending_send lists by id from a cursor, while other processes, the
\* operator and the clock change the queue: when it is done, no mail has waited
\* in the queue all the while.
NoMailPassedOver ==
  \A w \in Workers : local[w].phase = "queue" => history[w].waiting = {}

\* Each waiting mail is tried, and none twice: a refused mail is SEND_BLOCKED
\* again at once and still in the queue, and the cursor keeps the run from trying
\* it forever.
TriedOncePerRun ==
  /\ \A w \in Workers : IsInjective(history[w].tried)
  /\ NoMailPassedOver

\* "첫 분석 실패 시 해당 실행 즉시 중단" (README): after a failed analysis the
\* run records it and ends, without another analysis and without a mail.
FailureEndsRun ==
  \A w \in Workers :
    history[w].failed => pc[w] \in {"mark_retry", "release_lock"}

\* A run that ends without a failure leaves nothing it found in the analysis
\* queue (docstring of process_api_queue), also when the listing shifts
\* because other rows arrive or turn RETRY between two batches.
QueueDrained ==
  [][\A w \in Workers :
       /\ Leaves(w, Steps \ {"mark_retry", "idle"})
       /\ pc'[w] = "release_lock"
       /\ UNCHANGED faults
       => \A r \in history[w].due : ~ApiReady(rows[r])]_hvars

\* What the README says of MAX_ANALYSIS_PER_RUN ("한 번의 실행에서 처리할 최대
\* 분석 건수"); run.py uses it as the size of a batch.
AnalysisCap == \A w \in Workers : Len(history[w].analysed) <= MaxAnalysisPerRun

\* The order tests/test_run_recovery.py asserts: recover, collect, analyse,
\* then send; _run_once sends what is queued before it analyses.
AnalysesBeforeBacklog ==
  [][\A w \in Workers : pc[w] = "list_send_ready" => pc'[w] # "list_api_ready"]_hvars
=============================================================================
