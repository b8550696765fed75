# Verification of request-pipeline

TLA+ models of this repository's pipeline, the TLC configurations that check them
on small instances, and TLAPS proofs for every instance. The program takes
analysis requests from a MySQL table through an analysis API and mails each
answer through Knox; it is started again and again by a scheduler, under a
MySQL advisory lock. What makes it hard is that every step is a call to another
system, that any of them can fail before or after it took effect, and that the
process can die between two of them: the row's `status` and `send_status` are
all that the next run has to go by.

Run `tlc -config X.cfg M` for a configuration `X.cfg` of the module `M` named with it
below, and `tlapm M.tla` for a module of proofs.

## Inventory

| Part | State it keeps | Operations | Talks to | Model |
|---|---|---|---|---|
| Mail table (`db.py`, `mail_queue.py`, `schema.sql`) | one row per request: route, status, retry count, answer, send status, `updated_at` | claim, listing, recovery and outcome statements, each in a connection and transaction of its own | MySQL | `MailTable` |
| Pipeline run (`run.py`) | the listed batch, the row in hand, the mail cursor; the advisory lock | `main`, `_run_once`, `process_pending_send`, `process_api_queue`, `_analyze_row`, `_send_row`, `_send_completed_request` | table, analysis API, Knox | `RequestPipeline`, `RunHistory` |
| Schema and migration (`db.py`, `schema.sql`) | tables, columns, indexes, the seeded prompt | `migrate_legacy_table`, `ensure_schema` | MySQL (DDL) | `SchemaMigration` |
| Legacy POP3 collector (`run.py`, `mail_client.py`) | none but the rows it inserts | `collect_legacy_pop3_mail`, `uidl_exists`, `insert_received` | POP3, table | `LegacyCollector` |
| Knox sender (`mail_sender.py`) | none | recipient rules, payload, classification of the reply | Knox | `MailSender` |
| Analysis client (`web_client.py`) | none | prompt and template rendering, target and credential, classification of the reply | analysis API | `AnalysisClient` |
| Scheduler (`run_pipeline.py`) | deadlines, stop event | run, poll, rest, stop | pipeline run | `Scheduler` |
| Configuration (`config.py`) | settings | `validate` | – | mail settings in `MailSender`, the rest as constants |
| Mail parser (`mail_parser.py`) | none | MIME decoding, subject normalisation | – | its three outcomes, in `LegacyCollector` |
| Central collector (`email-ingestion`), operator | – | add rows, run DDL; edit `send_status`, profiles, prompts | table (other programs) | environment actions |

What makes each part correct, and where it is hard:

- **Table and run.** A request is served by one worker at a time, uses at most
  `MAX_RETRY_COUNT` attempts, ends COMPLETED or FAILED and stays there, and its
  answer is mailed once. Hard: a crash between claim and outcome, the lost
  acknowledgement of a commit, a lost reply from Knox, two runs at once after the
  lock's connection dropped, rows listed long before they are served, the
  operator's hand in the table.
- **One run.** The first failed analysis ends the run; the queue is drained; nothing
  is tried twice, and no waiting mail is passed over. Hard: each batch is listed anew
  while rows change order, come and go.
- **Schema.** A start may be cut off between two DDL statements, and the central
  collector creates the same tables without this program's lock. No run may begin on
  half a schema, beside the rows of the old table, or with an old prompt, unless the
  operator has put it there since.
- **Collector.** One row per UIDL although the look and the INSERT are far apart; no
  mail is left behind; collection must not keep the run from its queues.
- **Sender.** Only the mailbox that is meant and listed gets the mail; the row says
  what went out.
- **Client.** The prompt says what the template means, whatever a requester writes; a
  request follows one version of its profile although the operator may edit it meanwhile;
  COMPLETED stands for a reply that this version counts as success.
- **Scheduler.** Polls stay in the active window, the process ends at its deadline, a
  stop signal is obeyed at once.

`PROJECT.json` lists the hazards one by one, at their lines, with the properties
that watch each.

## Modules

```
MailTable <- RequestPipeline <- RequestRefinement --(INSTANCE)--> RequestLifecycle
                             <- RunHistory
SchemaMigration   LegacyCollector   Scheduler   MailSender   AnalysisClient
```

`MC*` give the constants their values. `*Proofs` hold the theorems; `RunHistoryProofs` and
`RequestRefinementProofs` rest on `RequestPipelineProofs`. The five
modules of the second line each open up what is one or two actions of
`RequestPipeline`: `EnsureSchema`; `InsertReceived` and `CollectLegacyMail`;
`AcquireLock` again and again; `SendAnalysisMail`; `AnalyzeRequest`.

A definition marked **Slip** is not the code: it is the definition after it with a
plausible mistake. No action uses it; put in the place of the right one it makes a
run find the property violated that `PROJECT.json` names with it.

**`MailTable.tla`** has no variables. Each statement's WHERE is a predicate on a
row (`ApiClaimable`, `ApiReady`, `SendReady`) and its SET an operator from a row to
a row (`Claimed`, `Completed`, `Retried`, `Recovered`, `Backfilled`, `SendClaimed`,
`SendMarked`, `SendRecovered`). A row keeps the columns that some statement tests.
The flag `old` stands for `updated_at`: the row has not been touched for longer
than the two stale thresholds (both 15 minutes by default). Only the clock sets it
and every update clears it (`ON UPDATE CURRENT_TIMESTAMP`).

**`RequestPipeline.tla`** is the run:

| Model | Code |
|---|---|
| `rows` | `ae_llm_agent_mail`; `NoRow` is an id not given out |
| `lock` | holder of `GET_LOCK` (`db.pipeline_lock`) |
| `pc[w]` | the function process `w` calls next, by its name in the code |
| `job[w]` | `request_id` of the row in hand |
| `local[w]` | rest of the batch, whether the listing filled it, `after_id`, the analysis result |
| `mails[r]` | deliveries by Knox (seen by no one in the program) |
| `reopened[r]` | times a human put the mail back |
| `faults` | failures so far |

One step is one call that leaves the process. `Statement(name, table, goOn,
raise)` is a statement with its commit: it takes effect and the caller goes on, or
the caller gets an exception and the statement has, or has not, taken effect.
`raise` is where that exception is caught: `mark_retry` for what `_analyze_row`
wraps, `mark_send_failed` for what `_send_row` wraps (`mark_sent` included), the end
of the run for everything else. `Continue` is the code of the two loops between two
rows: next row, next batch after a full one, or out.

`SendAnalysisMail` has the outcomes `_send_row` can tell apart, and for each whether
Knox delivered: accepted; refused; never arrived (`lost_request`); delivered but the
reply timed out (`lost_reply`); delivered but the reply breaks off or cannot be read
(`broken_reply`). `Unanswerable` and `Undeliverable` are requests whose analysis, or
whose recipient, fails every time.

Environment: `Crash` at any step, `LockDrop` (MySQL closes the idle connection of the
lock), `Abandoned` and `Overdue` (15 minutes pass over a claimed row, with nobody or
with a slow worker on it), `Arrive` (the central collector inserts), `OperatorDrop` and
`OperatorReopen` (DBeaver, in any state of the mail that is not SENT).

**`RequestLifecycle.tla`** is what a requester is promised, with no table, no
processes and no failures: a request is queued, analysed until it is answered or its
attempts are used up, and its answer delivered once and once more per reopening. It is
a relation between two lives of one request (`Moves`); `Kept` is the promise.

**`RequestRefinement.tla`** maps the pipeline onto it. `StageOf` reads the stage off
`status`, `send_status` and the route the next backfill will give; `LifeOf` adds the
retry count, the deliveries and the reopenings. A row of another route, or in a status
no listing looks at, is stage "none". `KeepsPromise` is `Lifecycle!Spec` under that
mapping: every step of a run is, for each request, one of its moves or none.

**`RunHistory.tla`** adds a history variable, what each worker has done since its run
began, for the statements that the README and the tests of the repository make about
*one run*. `due` is what was in the analysis queue when the run came to it, `waiting` the
mails that have been in the send queue ever since the run began to go through it.

**`SchemaMigration.tla`**: `db` maps the tables that exist to the columns and indexes
each has (`Items`, in the order of `_ensure_mail_route_columns` and
`_ensure_api_profile_columns`); `history` is the table with the rows of the older
release; `prompt` the seeded profile's `instruction_template`, as the set of telling phrases
it holds (`OldPhrases` are those of the LIKE clauses, whoever wrote the text). One step is one
statement: the look at the tables, `RENAME TABLE`, each `CREATE TABLE` of
`schema.sql`, its DML as one transaction, each look at an item and each `ALTER TABLE`,
`_seed_default_instruction_template`, the backfill. A look and the DDL that follows it
are two steps, and the collector may come between them; the DDL then fails. The
operator may write or blank the prompt or resolve two conflicting tables; `edited` are the
workers that have not executed the UPDATE of the prompt since. The seed in `db.py` writes the
prompt of an older release wherever it finds none, which happens if the operator blanks it
after that UPDATE; an operator's text with `{{raw_request_title}}` is overwritten by the UPDATE.

**`LegacyCollector.tla`**: `mailbox` is what lies on the server, `todo[w]` what is left
of a worker's UIDL listing (`Listings`). Per mail: RETR, `uidl_exists`, `parse_mail`,
`insert_received`, each able to raise, which ends session and run. `Uidl` is the value
of a UIDL as the column compares it. Mail may be recalled; the central collector
inserts under the same unique key.

**`Scheduler.tla`**: time in ticks, which pass in a run and in a wait only. `until` is
the end of the current wait, `WaitOver` what ends it. The moment in which
`Event.wait` holds the event's lock is a location of its own (`poll_locked`,
`rest_locked`), because the signal handler runs in the same thread.

**`MailSender.tla`**: an address is a mailbox and a spelling; `casefold` gives the
mailbox. The rules are operators that give the empty set where the code raises. The
actions are `_send_row` for one row, and a restart of the process with other settings.
`letters` is what Knox has taken, each with the mode it was sent in and the mailbox that
was meant for it (`Meant`, said without the code).

**`AnalysisClient.tla`**: a text is a sequence of tokens, words and placeholders,
because what matters is that a requester's text may contain placeholders too. The
actions are the steps of `_analyze_row` up to the answer, with the operator editing
the profile between any two. The environment (`env`) goes before the profile's own
settings; the fields of the request are those of the profile's `request_template_json`;
the look for the profile may fail. `versions` is what the profile has been since
the request had its turn (seen by no one in the program).

## Runs

| Run | Module | What it checks | Bounds |
|---|---|---|---|
| `crashes` | `MCRequestPipeline` | Under the lock: one mail per answer, only undelivered mail returns, no overlap of runs, the retry budget, no mail without an answer, outcomes final, only the operator reopens, other routes untouched, the send switch, and the refinement `KeepsPromise` | 2 processes, one with sending off; 2 rows that begin in any legacy status or arrive on any route; 2 failures out of all but a dropped lock, `mark_sent`, `mark_completed` and `broken_reply`; 1 reopening; 2 attempts; batches of 2 and 1 |
| `lost_lock` | `MCRequestPipeline` | The lock may drop, so two runs interleave, and no run is slower than the thresholds: the conditional claims alone keep requests and mails apart | 2 workers, 2 rows, 2 failures, 1 reopening |
| `any_fault` | `MCRequestPipeline` | Every failure of the model together, in any combination: one failure costs at most one duplicate mail | 2 workers, 1 row, 3 failures, 1 reopening |
| `progress` | `MCRunHistory` | Behind a request that always fails and a mail that is always refused. In one run: nothing analysed or tried twice, no waiting mail passed over, the first failure ends it, the queue is drained. Over many: every other request settles, every other answer leaves the send queue | 2 workers, 3 rows (legacy RETRY and PROCESSING, arrivals), 1 failure, batches of 2 and 1 |
| `migration` | `MCSchemaMigration` | No run begins on an incomplete schema, beside the old rows or, unless the operator edited it since, with an old prompt or none; service resumes wherever a start was cut off | 2 processes, 3 items of the mail table and the profile's column, 5 start databases, 5 prompts, 3 that the operator writes, 2 failures |
| `mailbox` | `MCLegacyCollector` | One row per UIDL; with mail that can be parsed and stored: a session that ends has skipped no request, every request is stored, runs go on | 2 collectors and the central one, 3 mails (2 requests), 1 failure |
| `windows` | `MCScheduler` | Polls in the window, the shortened rest, a stop obeyed at once, the process ends | active window 7, rest 3, poll 2, runs of 0 to 5 ticks, a signal at any moment but inside the locked part of `wait()` |
| `recipients` | `MCMailSender` | Only the mailbox meant and listed gets the mail; a listed one is not refused; the status tells whether the mail is out; a SENT row names mailbox, mode and an id of that mail | 3 mailboxes, 6 lists, both modes, all valid settings with restarts between them, every readable reply, up to 3 deliveries |
| `client` | `MCAnalysisClient` | Title and prompt are posted as meant; one request follows one version of the profile, enabled, with the target and credential it asks for; COMPLETED is a reply it counts as success, with that reply's answer | the seeded profile and 22 that differ from it in a point or two (12 templates, 2 sets of fields), 5 that the operator may set, 2 versions per request, 3 environments, 4 titles, 2 bodies, 2 routes, every reply |

`Session.cfg`, of `MCLegacyCollector`, checks `NothingSkipped` beside these runs on another
mailbox, with a mail whose line of the listing lacks the UIDL; it is passed.

Three runs are expected to find a violation: `mark_sent_fails`, `poison_mail` and
`bare_profile`, explained under "Where the code and its documents disagree".

**Why the bounds are enough.** Two workers are what the lock and the claims have to
keep apart; a third meets the same guards. Two requests show every interference between
the row in hand and another one, three are needed where a batch of two must leave one
over. Two attempts distinguish the first failure (RETRY) from the last (FAILED). Two
failures reach every pair of a failure and the failure of its handler, three also a
crash after both. Three items of the mail table have a first, a middle and a last, a
column and an index; windows of 7 and 3 with a poll of 2 leave a cut-short last wait, and
runs of up to 5 outlast the rest. `MaxFaults`, `MaxReopens`, `RowCount`, `MailCount` and
`LongestRun` are guards of the actions that use them, so no behaviour is cut off inside a
step. The theorems below do without all of these bounds.

**Deadlock** is checked in every run but `windows`, whose process ends.

## Fairness

- `RequestPipeline`, `RunHistory`: weak fairness of each worker's own steps and of
  `Abandoned`. The first is the scheduler (`run_pipeline.py` polls, the outer scheduler
  starts it hourly) together with the timeouts of both HTTP calls: a started call returns
  or raises. The second is the clock.
- `SchemaMigration`, `LegacyCollector`: weak fairness of each worker's own steps, for
  the same reason; a worker that never gets the lock is allowed, that some worker gets it
  follows.
- `Scheduler`: weak fairness of the process's steps (it is not suspended for ever) and of
  `Tick` (time passes; a run ends).
- `MailSender` and `AnalysisClient` state safety only.

Nothing is assumed of crashes, failures, the collectors, the operator or the signal: they
may happen or not.

## Where the code and its documents disagree

Three are runs of the project, and TLC finds the violation in each:

| Run | Line | What the code does | What the document says |
|---|---|---|---|
| `mark_sent_fails`: `MailedAtMostOnce` | `run.py:112` | `mark_sent` is in the same `try` as the call to Knox: if it fails after a delivery, `mark_send_failed` puts the mail back and it is sent again | `docs/MAIL_DELIVERY.md:80`: only clear HTTP failures and refusals return to SEND_BLOCKED |
| `poison_mail`: `NewMailIsStored` | `mail_parser.py:39` | a mail with an unknown charset raises `LookupError` in every run; what lies behind it is never stored | `README.md:93`: mail whose UIDL is not in the table is stored |
| `bare_profile`: `ProfileIsUpgraded` | `schema.sql:155` | the UPDATE names `instruction_template` before `_ensure_api_profile_columns` (`db.py:186`) adds it: every start fails on a profile table without it | `docs/EMAIL_INGESTION_INTEGRATION.md:15`: each run ensures the schema |

The others have a configuration to run by hand. Each states one sentence of a document,
comment or test, and TLC finds it violated:

| Configuration | Module | Property | What the code does, against what is said of it |
|---|---|---|---|
| `BrokenReply.cfg` | `MCRequestPipeline` | `OnlyDefiniteFailuresRetried` | `mail_sender.py:317`, `:265`: a delivered mail whose reply breaks off, or is JSON but no object, is recorded as a definite failure; the docstring of `mark_send_failed` keeps that for clear failures |
| `LockDropped.cfg` | `MCRequestPipeline` | `OneRunAtATime` | `db.py:43`: the lock's connection is never looked at again during a run; once it is closed a second run starts, against `README.md:115` |
| `ReceivedStuck.cfg` | `MCRequestPipeline` | `ReceivedIsRecovered` | `db.py:481`: only PROCESSING rows are recovered; `README.md:94` promises it of RECEIVED |
| `BlankAnswer.cfg` | `MCRequestPipeline` | `BlockedIsRetried` | `mail_queue.py:37`: `mark_completed` queues a blank answer, the listing skips it for ever, against `docs/EMAIL_INGESTION_INTEGRATION.md:36` |
| `SwitchedOff.cfg` | `MCRequestPipeline` | `SendingIsRecovered` | `run.py:146`: with sending off the recovery of SENDING is skipped too, against the docstring at `mail_queue.py:165` |
| `AnalysisLimit.cfg` | `MCRunHistory` | `AnalysisCap` | `run.py:302`: MAX_ANALYSIS_PER_RUN is the size of a batch; `README.md:119` calls it the limit of a run |
| `PhaseOrder.cfg` | `MCRunHistory` | `AnalysesBeforeBacklog` | `run.py:298`: queued mail goes out before the analysis queue is served; `tests/test_run_recovery.py:79` asserts the other order |
| `SameUidl.cfg` | `MCLegacyCollector` | `NewMailIsStored` | `db.py:328`: the column's default collation ignores case, so of two UIDLs that differ in case the later is taken for known (`README.md:93`) |
| `OtherMail.cfg` | `MCLegacyCollector` | `OtherMailIsIgnored` | `run.py:277`: mail that is no request is skipped without a row and fetched again in every run; `README.md:97` says it becomes IGNORED |
| `Overrun.cfg` | `MCScheduler` | `FinishesWithinWindows` | `run_pipeline.py:95`: a last run longer than the rest ends the process late, against the comment at line 93 |
| `StopDeadlock.cfg` | `MCScheduler` | `ProcessEnds` | `run_pipeline.py:30`: the handler calls `set()` in the main thread; if that thread holds the event's lock inside `wait()`, it waits for itself (`README.md:37`) |
| `TestMode.cfg` | `MCMailSender` | `TestModeOneRecipient` | `mail_sender.py:218`: the Knox account is a second recipient in TEST mode too; `docs/MAIL_DELIVERY.md:45` says one recipient only |

## Proofs

Every theorem holds for all values of the constants that satisfy the named ASSUMEs
(`RetryAssumption`, `PipelineAssumption`, `MigrationAssumption`, `CollectorAssumption`,
`SchedulerAssumption`, `SenderAssumption`, `ClientAssumption`), which the runs evaluate.
Some have hypotheses besides, which exclude failures:

- **L** `LockHolds`: the lock's connection is not closed under a run.
- **Q** `RunsAreQuick`: no worker is slower on a row than the stale thresholds.
- **A** `RunsKeptApart`: L or Q.
- **C** `CompletionIsKnown`: `mark_completed` is not reported as failed.
- **D** `DeliveryIsKnown`: neither `mark_sent` fails nor a delivered mail's reply is unreadable.
- **U** `Undisturbed`: L, or Q and C.
- **O** `OperatorWaits`: the operator puts back no mail that some run has in hand.
- **R** `RepliesAreReadable`, in `MailSender`: Knox answers 2xx if and only if it takes the
  mail, in a body that can be read; an exception other than a timeout or a lost connection
  comes before the mail has left.

| Module | Theorem | Hypotheses | Establishes |
|---|---|---|---|
| `RequestPipelineProofs` | `TypeCorrect` | – | `TypeOK` |
| | `OneRun` | L | `OneRunAtATime` |
| | `QueueDiscipline`, `RowsOwned`, `AnswersMailed` | A C | `QueueBudget`, `WriteBackOwnsRow`, `MailOnlyAfterAnswer` |
| | `OutcomesStand`, `OperatorDecides` | A C | `OutcomeIsFinal`, `OnlyOperatorReopens` |
| | `MailedOnce`, `ReturnedUndelivered` | A C D | `MailedAtMostOnce`, `OnlyDefiniteFailuresRetried` |
| | `OneFaultOneDuplicate` | – | `DuplicatePerFault` |
| | `SwitchHolds`, `OtherRoutesSpared` | – | `SendingSwitch`, `OtherRoutesUntouched` |
| `RequestRefinementProofs` | `Refinement` | L C D | `KeepsPromise` |
| | `RefinementOfOverlaps` | Q C D, O | `KeepsPromise` |
| | `PromiseIsKept` | `KeepsPromise` | `PromiseKept` of the lifecycle, for every request |
| | `PipelineKeepsPromise` | L C D, or Q C D and O | the same, of the pipeline |
| `RunHistoryProofs` | `FirstFailureEndsRun` | – | `FailureEndsRun` |
| | `NoMailLeft` | – | `NoMailPassedOver`, the second half of `TriedOncePerRun` |
| | `AnalysedOnce`, `TriedOnce` | U | `AnalysedOncePerRun`, `TriedOncePerRun` |
| | `QueueServed` | L | `QueueDrained` |
| `SchemaMigrationProofs` | `MigrationKeepsHistory`, `MigrationCompletesSchema`, `MigrationUpdatesPrompt` | – | `HistoryInService`, `SchemaInService`, `PromptInService` |
| `LegacyCollectorProofs` | `CollectedOnce`, `CollectionIsComplete` | – | `OneRowPerUidl`, `NothingSkipped` |
| `SchedulerProofs` | `SchedulerEndsOnTime`, `SchedulerStopsPromptly`, `SchedulerPolls` | – | `EndsOnTime`, `StopsPromptly`, `PollsInWindow` |
| `MailSenderProofs` | `MeantRecipientsOnly`, `ListedAreServed` | – | `OnlyMeantRecipients`, `ListedIsNotRefused` |
| | `StatusTellsTruth`, `RecordTellsTruth` | R | `StatusTellsDelivery`, `RecordIsTrue` |
| `AnalysisClientProofs` | `OneVersionFollowed`, `TitlePosted` | – | `FollowsOneVersion`, `TitleAsWritten` |
| | `PromptMeant` | – | `PromptAsMeant` |
| | `CompletedSucceeded` | – | `CompletedIsSuccess` |

The hypotheses are needed. Without L two runs overlap (`LockDropped.cfg`), and a run cannot
drain a queue into which another puts back what failed. Without D: `mark_sent_fails` and `BrokenReply.cfg`. Without
C: a completion that took effect and is reported as failed is handled by `mark_retry`, which does
not look at the status, so the row is RETRY, or FAILED, with its answer queued for mail; under the
lock this ends the run, so U asks for C only where runs overlap. Where the lock is lost, the claims
still keep runs apart that are not slower than the thresholds: so A is enough for rows and mails.
The refinement asks for L, or for Q and O: with two runs the operator may drop and reopen a mail
that one run has in flight, the other run may send it and mark it as SENT, and the first delivers
after that: no move of the lifecycle delivers for a *sent* request. TLC finds that behaviour
without O and none with it. The number of mails is within the permits in either case, which is
what `MailedOnce` says. What no
theorem excludes: crashes, timeouts, refusals, every other database call failing before or after
its commit, the collector and the operator.

The arguments:

- **Types.** Every operator of `MailTable` returns a row (`RowOperators`); `Goto`,
  `EnterPhase` and `Continue` lead to well typed control states (`ContinueControl` covers
  both loops); then one lemma per action.
- **The lock.** `LockInv`: whoever is not idle holds the lock. Every step inside a run moves
  its worker alone and keeps the lock (`InnerMoves`), so while one steps the others are idle
  (`OthersIdle`).
- **The claims.** `ClaimInv`: who analyses a row is on it alone, and the row is PROCESSING and,
  where runs are quick, not `old`. A claim takes only a row that is not PROCESSING, so nobody is on it; and no step
  takes a row from the others (`OthersSpared`): under the lock because there are none, without
  it because the recoveries look at `old`. So what the rest needs of the lock or
  of quick runs is `WriteBackOwnsRow`.
- **The queue.** No invariant of the rows alone is inductive, because `mark_completed` and
  `mark_retry` update by id alone. By `ClaimInv` a worker between its claim and its record is on a
  row that is still PROCESSING, which is what `QueueInv` needs for those two; it adds to
  `RowsInv` that a mail in hand is of a finished request, and one about to be marked as sent had
  an answer (`SentInv`).
- **What is settled.** An outcome stays, and a closed mail stays closed. Each statement settles
  every row given `QueueInv`; the reopening is a case of its own.
- **The cost of a failure.** `Cost(r)` counts the mails delivered for a request, the workers
  that may yet complete it, those that may yet deliver its mail or return it to the queue, and
  one more if the row is `Open`: it may be claimed, or recovered and claimed, again. A claim
  closes the row it opens a worker for; a record trades the worker for the open row; a delivery
  trades the worker for the mail. So no step raises the cost (`Adds(0)`), except a reopening,
  which has its own allowance, and four failures (`CostlyKinds`), which raise it by one: a row
  that grows old under its worker, a completion saved and reported as failed, a mail that is
  delivered and not recorded as sent, or one whose reply cannot be read. The counts are
  cardinalities, so one worker's step is reckoned against the others' unchanged number
  (`Reckoning`). That gives `OneFaultOneDuplicate`; the same invariant without the four
  (`CostPerReopen`) gives `MailedOnce` and `ReturnedUndelivered` where runs overlap.
- **The mail, under the lock.** A slow worker raises the cost and harms nobody while it holds
  the lock, so this half has an invariant of its own. `MailInv`: a mail that is unsent, or may
  go back to the queue, has a delivery left (`DeliveriesInv`); so has the one in flight
  (`FlightInv`), and one more if the operator dropped and reopened it while Knox had it. Most
  steps are quiet; the claim, the delivery, the return and the reopening are lemmas of their own.
- **The refinement.** `RefinementInv`, with `RouteInv` (a row being analysed keeps its route),
  and the invariants above give each step its move: the claim is `Begin`, a recovery
  `Interrupt`, `mark_retry` `Fail`, and so on, for each row that the statement touches
  (`StageMoves` and its kin translate a change of columns into a move). `LifeInv` is the
  lifecycle's own invariant: what is unanswered has no mail, what is queued has attempts left,
  what is sent has been delivered. The two meet in `PipelineKeepsPromise`. What the moves need
  of the number of mails is `PermitInv`: by `MailInv` under the lock (`PermitByMails`), by
  `CostPerReopen` where runs overlap (`PermitByCost`). There O gives `MailOwned`: a mail in
  hand stays SENDING, with that one worker, so no delivery is for a request already sent.
- **One run.** A history variable over the pipeline's steps, so the invariants above carry over
  to `HSpec`. `LoopInv` is about the two loops: the rest of a batch has every row once and not
  the one in hand; in the mail queue it ascends and lies beyond the cursor. On it rest
  `AnalysedInv` (what the run has analysed is COMPLETED or about to be recorded: a claim does
  not take it again) and `TriedInv` (what the run has tried to mail is COMPLETED and `Behind`
  it: not in the batch, not beyond the cursor, and in hand only to be recorded). `DueInv` is for
  the drain: once the loop has listed a batch that was not full, every row of the queue is out
  of it or `Ahead`, in the rest of that batch. It is true after every listing because
  `FirstRows` of fewer than it might return is all there is. `WaitingInv` says the same of a
  mail that waits all the while: it is still before the loop, beyond the cursor when a batch is
  to be listed, else in the rest of the batch or, if the batch was full and another follows,
  beyond it; the claim of a mail takes it out of the queue. It needs no hypothesis. What others may do to
  the run's rows is `DoneStays`: only `mark_retry` undoes a completion, and only at a worker that
  still has its own to record.
- **No hypotheses.** `SwitchInv` (where a process with sending off may be) and `ArchiveInv`
  (rows of other routes have no mail to send, and no worker analyses one) survive every failure,
  the dropped lock included.
- **Schema.** `DbOK` is about the database alone; `Relies(w)` is what worker `w` has established by
  the statement it is at. Nobody drops an item or a table of this release, so what one worker relies on
  survives the others' steps and the collector's, the lock or no lock. A prompt that is there and
  holds no old phrase (`Good`) is left so by every statement, the UPDATE and the seed included,
  because the text of `schema.sql` holds none of the phrases it looks for (`PromptsTellApart`);
  only the operator ends it, and is then in `edited`.
- **Scheduler.** The invariant ties `now` to the deadline of the current wait at each location.
- **Collector.** `SessionInv`: of the mails up to the last of the session's listing, each request
  that is still in the mailbox is in the table or still to do. What arrives meanwhile comes
  after that mail, and the table only grows, whoever else collects. An end of the session with
  nothing left to do is then what `NothingSkipped` states.
- **Sender.** `SettingsInv`: the settings are valid, and a payload is one of those the rules
  allow under them; `RecordInv`: what has been delivered is the letter at the head of
  `letters`, which a row that is SENT records, with an id of the reply to it (`MailIdIsOfTheReply`).
- **Client.** `ClientInv`: what was posted is the payload that the copy of the profile in hand
  makes of the request and the prompt, and what is recorded its reading of the reply; the copy
  is one of `versions`, enabled, whatever the row has become since, which is what
  `FollowsOneVersion` asks for. A field that is one placeholder becomes the value of its key and nothing in that value
  is looked at again (`OnePlaceholder`); the title and the prompt have keys of their own
  (`KeysOfPayload`, `ContextOfPayload`). `AnswersTaken` is the classification of the reply. That
  the prompt *says* what the template means is by induction over the text and over the keys,
  stated with sets of numbers (`NatSetInduction`, `SeqSetInduction`), because the library's
  induction theorems cannot be instantiated. `Expand` puts a text in the place of each token;
  one `str.replace` is one such expansion (`ReplaceIsExpand`), two in a row are one
  (`ExpandTwice`), so the keys replaced one after another are one `Filling` of the known ones
  (`ReplaceEachFills`), provided that no value of the instruction's context holds a placeholder
  (`PlainContext`), and that is the meaning of the template (`PromptMeans`).

Model-checked only: all liveness (`EveryRequestSettles`, `EveryAnswerLeavesQueue`,
`ServiceResumes`, `NewMailIsStored`, `RunsGoOn`, `ProcessEnds`), because the prover has no
reasoning about fairness and ENABLED. What safety there is behind it is proved: `QueueDrained`
behind the first, `NoMailPassedOver` behind the second, `NothingSkipped` behind the fourth,
each for one run that ends in order.

## Not modelled

- Text: subject and body of mails (markdown, HTML, escaping, links), MIME decoding,
  normalising and hashing, log lines, columns that are only copied.
- `find_duplicate`, `mark_ignored`, `mark_duplicate` and `list_enabled_rules`: never called.
- The pause between two analyses, and time-outs as numbers: a call returns or raises.
- Two statements of MySQL inside one another: each is a single UPDATE or SELECT, atomic under
  InnoDB. The DML of `schema.sql` is one transaction.
- `Settings.validate` beyond the settings of mail: the other constants keep to the ranges it
  enforces, and MAX_RETRY_COUNT to 1 and more, which it does not enforce.

- The copy of a row from which a mail is composed: `CannotCompose` reads the answer of the row
  itself. The two differ only if the request was analysed anew between the listing and the
  claim of its mail, which takes a second run, and where runs overlap every answer is "text".

Hazards without a property, each with its reason in `PROJECT.json`: three are the behaviour
the code means to have or that no document promises otherwise (a refused mail is retried
for ever, a template with placeholders at both ends fails, a recovery counts no attempt),
four are shown by a configuration above (`ReceivedStuck`, `AnalysisLimit`, `BlankAnswer`,
`SwitchedOff`), one is a missing check of the configuration (MAX_RETRY_COUNT of 0). And of one
with a property a half has none: an operator's prompt with an old placeholder is overwritten.

## Plan

What was planned is done: every safety property that a run checks has a theorem. Open, in
the order of what it would tell:

1. MAX_RETRY_COUNT of 0 and the other constants `Settings.validate` does not check, as a model of
   the configuration with the assumptions of `RequestPipeline` as its promise.
2. The prompt of a template with a placeholder at both ends, and the one the operator wrote
   with the old placeholder, as statements for the documents to decide on.
3. The routing rules, if a release begins to read them.
