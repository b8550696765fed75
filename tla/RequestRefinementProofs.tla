----------------------- MODULE RequestRefinementProofs -----------------------
(***************************************************************************)
(* RequestPipeline.tla implements RequestLifecycle.tla, for every value of  *)
(* the constants: the initial states are those of the lifecycle, and every  *)
(* step moves each request by one of its moves, or not at all.  So what the *)
(* moves of the lifecycle promise a requester is true of the pipeline.      *)
(***************************************************************************)
EXTENDS RequestPipelineProofs, RequestRefinement

----------------------------------------------------------------------------
(* The lives of rows.                                                       *)

\* The request is ours: it has a stage.
Ours(row) == Backfilled(row).route = "API_ANALYSIS"

Evolves(a, b) == b = a \/ Lifecycle!Moves(a, b)

\* A row's stage, one status after the other.
LEMMA StagesOfRows ==
  ASSUME NEW row \in Row
  PROVE  /\ ~Ours(row) => StageOf(row) = "none"
         /\ Ours(row) =>
              /\ row.status \in {"ROUTED", "RETRY"} => StageOf(row) = "queued"
              /\ row.status = "PROCESSING" => StageOf(row) = "running"
              /\ row.status = "FAILED" => StageOf(row) = "failed"
              /\ row.status \in {"ABSENT", "RECEIVED", "IGNORED", "DUPLICATE"}
                   => StageOf(row) = "none"
              /\ row.status = "COMPLETED" =>
                   /\ row.send \in {"SEND_BLOCKED", "SEND_PENDING"}
                        => StageOf(row) = "ready"
                   /\ row.send = "SENDING" => StageOf(row) = "sending"
                   /\ row.send = "SENT" => StageOf(row) = "sent"
                   /\ row.send = "SEND_UNKNOWN" => StageOf(row) = "in_doubt"
                   /\ row.send = "SEND_DROPPED" => StageOf(row) = "dropped"
                   /\ row.send = "NOT_READY" => StageOf(row) = "none"
<1>1. ~Ours(row) => StageOf(row) = "none"
  BY DEF Ours, StageOf
<1>2. ASSUME Ours(row), row.status # "COMPLETED"
      PROVE  /\ row.status \in {"ROUTED", "RETRY"} => StageOf(row) = "queued"
             /\ row.status = "PROCESSING" => StageOf(row) = "running"
             /\ row.status = "FAILED" => StageOf(row) = "failed"
             /\ row.status \in {"ABSENT", "RECEIVED", "IGNORED", "DUPLICATE"}
                  => StageOf(row) = "none"
  BY <1>2 DEF Ours, StageOf
<1>3. ASSUME Ours(row), row.status = "COMPLETED"
      PROVE  StageOf(row) =
               CASE row.send \in SEND_READY_STATUSES -> "ready"
                 [] row.send = "SENDING"             -> "sending"
                 [] row.send = "SENT"                -> "sent"
                 [] row.send = "SEND_UNKNOWN"        -> "in_doubt"
                 [] row.send = "SEND_DROPPED"        -> "dropped"
                 [] OTHER                            -> "none"
  BY <1>3 DEF Ours, StageOf
<1>4. ASSUME Ours(row), row.status = "COMPLETED"
      PROVE  /\ row.send \in {"SEND_BLOCKED", "SEND_PENDING"}
                  => StageOf(row) = "ready"
             /\ row.send = "SENDING" => StageOf(row) = "sending"
             /\ row.send = "SENT" => StageOf(row) = "sent"
             /\ row.send = "SEND_UNKNOWN" => StageOf(row) = "in_doubt"
             /\ row.send = "SEND_DROPPED" => StageOf(row) = "dropped"
             /\ row.send = "NOT_READY" => StageOf(row) = "none"
  BY <1>3, <1>4 DEF SEND_READY_STATUSES
<1> QED
  BY <1>1, <1>2, <1>4

\* The stage is all a move of this kind changes.
LEMMA StageMoves ==
  ASSUME NEW old \in Row, NEW new \in Row, NEW m \in Nat, NEW p \in Nat,
         new.retries = old.retries,
         NEW from, NEW to, StageOf(old) \in from, StageOf(new) \in to
  PROVE  Lifecycle!Becomes(LifeOf(old, m, p), LifeOf(new, m, p), from, to)
BY DEF LifeOf, Lifecycle!Becomes

LEMMA SameStage ==
  ASSUME NEW old \in Row, NEW new \in Row, NEW m \in Nat, NEW p \in Nat,
         new.retries = old.retries, StageOf(new) = StageOf(old)
  PROVE  Evolves(LifeOf(old, m, p), LifeOf(new, m, p))
BY DEF LifeOf, Evolves

\* What is mailed or will be is ours.
RouteInv(row) == row.send # "NOT_READY" => Ours(row)

\* What a statement may make of a row whose mail has gone out m times, with p
\* permits: a move of its life.
Fine(old, new, m, p) ==
  /\ Evolves(LifeOf(old, m, p), LifeOf(new, m, p))
  /\ RouteInv(new)

\* A row is ours by its route, or will be by the backfill.
LEMMA OursByColumns ==
  ASSUME NEW row \in Row
  PROVE  Ours(row) <=> \/ row.route = "API_ANALYSIS"
                       \/ /\ row.route = "UNCLASSIFIED" /\ row.titled
                          /\ row.status # "ABSENT"
BY DEF Ours, Backfilled, Row

\* An update that keeps the columns of the route.
LEMMA SameRoute ==
  ASSUME NEW old \in Row, NEW new \in Row, new.route = old.route,
         new.titled = old.titled,
         (new.status = "ABSENT") <=> (old.status = "ABSENT")
  PROVE  Ours(new) <=> Ours(old)
BY OursByColumns

\* The recoveries and the backfill, each for one row.
LEMMA FineRecoveries ==
  ASSUME NEW row \in Row, RowInv(row), RouteInv(row),
         NEW m \in Nat, NEW p \in Nat
  PROVE  /\ Fine(row, row, m, p)
         /\ Fine(row, Backfilled(row), m, p)
         /\ Fine(row, Recovered(row), m, p)
         /\ Fine(row, SendRecovered(row), m, p)
         /\ Fine(row, [row EXCEPT !.old = TRUE], m, p)
<1>1. Fine(row, row, m, p)
  BY DEF Fine, Evolves
<1>2. Fine(row, Backfilled(row), m, p)
  <2> DEFINE new == Backfilled(row)
  <2>1. /\ new \in Row /\ new.status = row.status /\ new.send = row.send
        /\ new.retries = row.retries
    BY RowOperators DEF Backfilled, Row
  <2>2. Ours(new) <=> Ours(row)
    BY DEF Ours, Backfilled, Row
  <2> HIDE DEF new
  <2>3. StageOf(new) = StageOf(row)
    BY <2>1, <2>2 DEF StageOf, Ours
  <2>4. Fine(row, new, m, p)
    BY <2>1, <2>2, <2>3, SameStage DEF Fine, RouteInv
  <2> QED
    BY <2>4 DEF new
<1>3. Fine(row, Recovered(row), m, p)
  <2> DEFINE new == Recovered(row)
  <2>1. CASE new = row
    BY <1>1, <2>1
  <2>2. CASE new # row
    <3>1. /\ new \in Row /\ new.status = "RETRY" /\ row.status = "PROCESSING"
          /\ new.retries = row.retries /\ new.send = row.send
          /\ new.route = "API_ANALYSIS" /\ row.route = "API_ANALYSIS"
      BY <2>2, RowOperators DEF Recovered, Row
    <3> HIDE DEF new
    <3>2. Ours(row) /\ Ours(new)
      BY <3>1, OursByColumns
    <3>3. StageOf(row) \in {"running"} /\ StageOf(new) \in {"queued"}
      BY <3>1, <3>2, StagesOfRows
    <3>4. Fine(row, new, m, p)
      BY <3>1, <3>2, <3>3, StageMoves
         DEF Fine, RouteInv, Evolves, Lifecycle!Moves, Lifecycle!Interrupt
    <3> QED
      BY <3>4 DEF new
  <2> QED
    BY <2>1, <2>2
<1>4. Fine(row, SendRecovered(row), m, p)
  <2> DEFINE new == SendRecovered(row)
  <2>1. CASE new = row
    BY <1>1, <2>1
  <2>2. CASE new # row
    <3>1. /\ new \in Row /\ row.send = "SENDING" /\ new.send = "SEND_UNKNOWN"
          /\ new.retries = row.retries /\ new.status = row.status
          /\ new.route = row.route /\ new.titled = row.titled
      BY <2>2, RowOperators DEF SendRecovered, Row
    <3> HIDE DEF new
    <3>2. row.status = "COMPLETED" /\ Ours(row) /\ Ours(new)
      BY <3>1, SameRoute DEF RowInv, RouteInv
    <3>3. StageOf(row) \in {"sending"} /\ StageOf(new) \in {"in_doubt"}
      BY <3>1, <3>2, StagesOfRows
    <3>4. Fine(row, new, m, p)
      BY <3>1, <3>2, <3>3, StageMoves
         DEF Fine, RouteInv, Evolves, Lifecycle!Moves, Lifecycle!Doubt
    <3> QED
      BY <3>4 DEF new
  <2> QED
    BY <2>1, <2>2
<1>5. Fine(row, [row EXCEPT !.old = TRUE], m, p)
  <2> DEFINE new == [row EXCEPT !.old = TRUE]
  <2>1. /\ new \in Row /\ new.status = row.status /\ new.send = row.send
        /\ new.retries = row.retries /\ new.route = row.route
        /\ new.titled = row.titled
    BY DEF Row
  <2> HIDE DEF new
  <2>2. Ours(new) <=> Ours(row)
    BY <2>1, SameRoute
  <2>3. StageOf(new) = StageOf(row)
    BY <2>1, <2>2 DEF StageOf, Ours
  <2>4. Fine(row, new, m, p)
    BY <2>1, <2>2, <2>3, SameStage DEF Fine, RouteInv
  <2> QED
    BY <2>4 DEF new
<1> QED
  BY <1>1, <1>2, <1>3, <1>4, <1>5

LEMMA OneMoreTry ==
  ASSUME NEW t \in Nat, NEW m \in Nat, NEW p \in Nat, NEW s, NEW a, NEW c,
         a = [stage |-> "running", tries |-> t, mails |-> m, permits |-> p],
         c = [a EXCEPT !.tries = @ + 1, !.stage = s]
  PROVE  c = [stage |-> s, tries |-> t + 1, mails |-> m, permits |-> p]
OBVIOUS

\* A row enters the table.
LEMMA FineArrivals ==
  ASSUME NEW new \in Arrivals \cup {ReceivedRow}, NEW m \in Nat, NEW p \in Nat
  PROVE  Fine(NoRow, new, m, p)
<1>1. /\ NoRow \in Row /\ NoRow.status = "ABSENT" /\ NoRow.retries = 0
      /\ NoRow.route = "UNCLASSIFIED"
      /\ new \in Row /\ new.retries = 0 /\ new.send = "NOT_READY"
      /\ \/ new.route = "API_ANALYSIS" /\ new.status = "ROUTED"
         \/ new.route = "FILE_ARCHIVE"
         \/ new.route = "UNCLASSIFIED" /\ new.status = "RECEIVED"
  <2>1. /\ NoRow \in Row /\ NoRow.status = "ABSENT" /\ NoRow.retries = 0
        /\ NoRow.route = "UNCLASSIFIED"
    BY RowsAtStart DEF NoRow, DefaultRow
  <2>2. new \in Row
    BY RowsAtStart, PipelineAssumption
  <2>3. new \in {ReceivedRow, ArchiveRow, UnclassifiedRow(TRUE), UnclassifiedRow(FALSE)}
    BY PipelineAssumption
  <2>4. /\ new.retries = 0 /\ new.send = "NOT_READY"
        /\ \/ new.route = "API_ANALYSIS" /\ new.status = "ROUTED"
           \/ new.route = "FILE_ARCHIVE"
           \/ new.route = "UNCLASSIFIED" /\ new.status = "RECEIVED"
    BY <2>3 DEF DefaultRow, ReceivedRow, ArchiveRow, UnclassifiedRow
  <2> QED  BY <2>1, <2>2, <2>4
<1>2. StageOf(NoRow) \in {"none"}
  BY <1>1, OursByColumns, StagesOfRows
<1>3. StageOf(new) \in {"none", "queued"}
  BY <1>1, OursByColumns, StagesOfRows
<1>4. StageOf(new) = StageOf(NoRow) \/ StageOf(new) \in {"queued"}
  BY <1>2, <1>3
<1>5. Evolves(LifeOf(NoRow, m, p), LifeOf(new, m, p))
  BY <1>1, <1>2, <1>4, StageMoves, SameStage
     DEF Evolves, Lifecycle!Moves, Lifecycle!Enter
<1> QED
  BY <1>1, <1>5 DEF Fine, RouteInv

\* The analysis queue.
LEMMA FineAnalysis ==
  ASSUME NEW row \in Row, RowInv(row), RouteInv(row),
         NEW m \in Nat, NEW p \in Nat
  PROVE  /\ ApiClaimable(row) => Fine(row, Claimed(row), m, p)
         /\ row.status = "PROCESSING" => Fine(row, Retried(row), m, p)
         /\ row.status = "PROCESSING" /\ row.route = "API_ANALYSIS" /\ m <= p =>
              \A a \in Answers, b \in BOOLEAN : Fine(row, Completed(row, a, b), m, p)
<1>1. ASSUME ApiClaimable(row) PROVE Fine(row, Claimed(row), m, p)
  <2> DEFINE new == Claimed(row)
  <2>1. /\ new \in Row /\ row.status \in {"ROUTED", "RETRY"}
        /\ new.status = "PROCESSING"
        /\ new.retries = row.retries /\ new.send = row.send
        /\ new.route = "API_ANALYSIS" /\ row.route = "API_ANALYSIS"
    BY <1>1, RowOperators DEF ApiClaimable, Claimed, Row
  <2> HIDE DEF new
  <2>2. Ours(row) /\ Ours(new)
    BY <2>1, OursByColumns
  <2>3. StageOf(row) \in {"queued"} /\ StageOf(new) \in {"running"}
    BY <2>1, <2>2, StagesOfRows
  <2>4. Fine(row, new, m, p)
    BY <2>1, <2>2, <2>3, StageMoves
       DEF Fine, RouteInv, Evolves, Lifecycle!Moves, Lifecycle!Begin
  <2> QED
    BY <2>4 DEF new
<1>2. ASSUME row.status = "PROCESSING" PROVE Fine(row, Retried(row), m, p)
  <2>1. CASE row.route # "API_ANALYSIS"
    BY <2>1, FineRecoveries DEF Retried
  <2>2. CASE row.route = "API_ANALYSIS"
    <3> DEFINE new == Retried(row)
    <3>1. /\ new \in Row /\ row.retries \in Nat
          /\ row.retries < MaxRetryCount /\ row.send = "NOT_READY"
      BY <1>2, RowOperators DEF RowInv, Row
    <3>2. /\ new.retries = row.retries + 1 /\ new.send = row.send
          /\ new.route = "API_ANALYSIS"
          /\ new.status = IF row.retries + 1 >= MaxRetryCount
                          THEN "FAILED" ELSE "RETRY"
      BY <2>2 DEF Retried, Row
    <3> HIDE DEF new
    <3>3. Ours(row) /\ Ours(new)
      BY <2>2, <3>1, <3>2, OursByColumns
    <3>4. StageOf(row) = "running"
      BY <1>2, <3>3, StagesOfRows
    <3>5. StageOf(new) = IF row.retries + 1 = MaxRetryCount
                         THEN "failed" ELSE "queued"
      <4>1. CASE row.retries + 1 = MaxRetryCount
        BY <3>1, <3>2, <3>3, <4>1, StagesOfRows
      <4>2. CASE row.retries + 1 # MaxRetryCount
        <5>1. ~(row.retries + 1 >= MaxRetryCount)
          BY <3>1, <4>2, RetryAssumption
        <5> QED
          BY <3>1, <3>2, <3>3, <4>2, <5>1, StagesOfRows
      <4> QED
        BY <4>1, <4>2
    <3>6. Lifecycle!Fail(LifeOf(row, m, p), LifeOf(new, m, p))
      <4>1. LifeOf(row, m, p) = [stage |-> "running", tries |-> row.retries,
                                 mails |-> m, permits |-> p]
        BY <3>4 DEF LifeOf
      <4>2. LifeOf(new, m, p) = [stage |-> IF row.retries + 1 = MaxRetryCount
                                           THEN "failed" ELSE "queued",
                                 tries |-> row.retries + 1,
                                 mails |-> m, permits |-> p]
        BY <3>2, <3>5 DEF LifeOf
      <4> DEFINE a == LifeOf(row, m, p)
                 s == IF row.retries + 1 = MaxRetryCount THEN "failed"
                                                         ELSE "queued"
      <4>3. /\ a.stage = "running" /\ a.tries = row.retries
            /\ a = [stage |-> "running", tries |-> row.retries, mails |-> m,
                    permits |-> p]
        BY <4>1
      <4>4. PICK c : c = [a EXCEPT !.tries = @ + 1, !.stage = s]
        OBVIOUS
      <4> HIDE DEF a, s
      <4>5. c = [stage |-> s, tries |-> row.retries + 1, mails |-> m,
                 permits |-> p]
        BY <3>1, <4>3, <4>4, OneMoreTry
      <4>6. Lifecycle!Fail(a, c)
        BY <4>3, <4>4 DEF Lifecycle!Fail, s
      <4> QED
        BY <4>2, <4>5, <4>6 DEF a, s
    <3>7. Fine(row, new, m, p)
      BY <3>2, <3>3, <3>6 DEF Fine, RouteInv, Evolves, Lifecycle!Moves
    <3> QED
      BY <3>7 DEF new
  <2> QED
    BY <2>1, <2>2
<1>3. ASSUME row.status = "PROCESSING", row.route = "API_ANALYSIS", m <= p,
             NEW a \in Answers, NEW b \in BOOLEAN
      PROVE  Fine(row, Completed(row, a, b), m, p)
  <2> DEFINE new == Completed(row, a, b)
  <2>1. /\ new.status = "COMPLETED" /\ new.send \in {"SEND_PENDING", "SEND_BLOCKED"}
        /\ new.retries = row.retries /\ new.route = "API_ANALYSIS"
    BY <1>3 DEF Completed, Row
  <2>2. new \in Row
    BY RowOperators
  <2> HIDE DEF new
  <2>3. Ours(row) /\ Ours(new)
    BY <1>3, <2>1, <2>2, OursByColumns
  <2>4. StageOf(row) \in {"running"} /\ StageOf(new) \in {"ready"}
    BY <1>3, <2>1, <2>2, <2>3, StagesOfRows
  <2>5. Lifecycle!Becomes(LifeOf(row, m, p), LifeOf(new, m, p),
                          {"running"}, {"ready"})
    BY <2>1, <2>2, <2>4, StageMoves
  <2>6. Lifecycle!Unsent(LifeOf(row, m, p))
    BY <1>3 DEF LifeOf, Lifecycle!Unsent
  <2>7. Fine(row, new, m, p)
    BY <2>1, <2>3, <2>5, <2>6
       DEF Fine, RouteInv, Evolves, Lifecycle!Moves, Lifecycle!Answer
  <2> QED
    BY <2>7 DEF new
<1> QED
  BY <1>1, <1>2, <1>3

\* The mail queue.
LEMMA FineMails ==
  ASSUME NEW row \in Row, RowInv(row), RouteInv(row),
         NEW m \in Nat, NEW p \in Nat
  PROVE  /\ SendReady(row) /\ m <= p => Fine(row, SendClaimed(row), m, p)
         /\ m > 0 => Fine(row, SendMarked(row, "SENT"), m, p)
         /\ m <= p => Fine(row, SendMarked(row, "SEND_BLOCKED"), m, p)
         /\ Fine(row, SendMarked(row, "SEND_UNKNOWN"), m, p)
         /\ row.send \in {"SEND_PENDING", "SEND_BLOCKED", "SENDING",
                          "SEND_UNKNOWN"} =>
              Fine(row, [row EXCEPT !.send = "SEND_DROPPED", !.old = FALSE], m, p)
<1>0. ASSUME NEW new \in Row, new.status = row.status,
             new.retries = row.retries, new.route = row.route,
             new.titled = row.titled, row.send # "NOT_READY",
             NEW from, NEW to,
             row.status = "COMPLETED" /\ Ours(row) => StageOf(row) \in from,
             new.status = "COMPLETED" /\ Ours(new) => StageOf(new) \in to
      PROVE  /\ Lifecycle!Becomes(LifeOf(row, m, p), LifeOf(new, m, p), from, to)
             /\ RouteInv(new)
  <2>1. row.status = "COMPLETED" /\ Ours(row) /\ Ours(new)
    BY <1>0, SameRoute DEF RowInv, RouteInv
  <2> QED
    BY <1>0, <2>1, StageMoves DEF RouteInv
<1>1. ASSUME SendReady(row), m <= p PROVE Fine(row, SendClaimed(row), m, p)
  <2> DEFINE new == SendClaimed(row)
  <2>1. /\ new \in Row /\ new.status = row.status /\ new.retries = row.retries
        /\ new.route = row.route /\ new.titled = row.titled
        /\ new.send = "SENDING" /\ row.send \in {"SEND_PENDING", "SEND_BLOCKED"}
    BY <1>1, RowOperators DEF SendReady, SEND_READY_STATUSES, SendClaimed, Row
  <2> HIDE DEF new
  <2>2. /\ Lifecycle!Becomes(LifeOf(row, m, p), LifeOf(new, m, p),
                             {"ready"}, {"sending"})
        /\ RouteInv(new)
    BY <1>0, <2>1, StagesOfRows
  <2>3. Lifecycle!Unsent(LifeOf(row, m, p))
    BY <1>1 DEF LifeOf, Lifecycle!Unsent
  <2>4. Fine(row, new, m, p)
    BY <2>2, <2>3 DEF Fine, Evolves, Lifecycle!Moves, Lifecycle!Take
  <2> QED
    BY <2>4 DEF new
<1>2. ASSUME NEW s \in {"SENT", "SEND_BLOCKED", "SEND_UNKNOWN"},
             s = "SENT" => m > 0, s = "SEND_BLOCKED" => m <= p
      PROVE  Fine(row, SendMarked(row, s), m, p)
  <2> DEFINE new == SendMarked(row, s)
  <2>1. CASE row.send # "SENDING"
    BY <2>1, FineRecoveries DEF SendMarked
  <2>2. CASE row.send = "SENDING"
    <3>0. s \in SendStatuses
      BY DEF SendStatuses
    <3>1. /\ new \in Row /\ new.status = row.status /\ new.retries = row.retries
          /\ new.route = row.route /\ new.titled = row.titled
          /\ new.send = s
      BY <2>2, <3>0, RowOperators DEF SendMarked, Row
    <3> SUFFICES Fine(row, new, m, p)
      OBVIOUS
    <3> HIDE DEF new
    <3>2. CASE s = "SENT"
      <4>1. /\ Lifecycle!Becomes(LifeOf(row, m, p), LifeOf(new, m, p),
                                 {"sending"}, {"sent"})
            /\ RouteInv(new)
        BY <1>0, <2>2, <3>1, <3>2, StagesOfRows
      <4>2. LifeOf(row, m, p).mails > 0
        BY <1>2, <3>2 DEF LifeOf
      <4> QED
        BY <4>1, <4>2 DEF Fine, Evolves, Lifecycle!Moves, Lifecycle!Confirm
    <3>3. CASE s = "SEND_BLOCKED"
      <4>1. /\ Lifecycle!Becomes(LifeOf(row, m, p), LifeOf(new, m, p),
                                 {"sending"}, {"ready"})
            /\ RouteInv(new)
        BY <1>0, <2>2, <3>1, <3>3, StagesOfRows
      <4>2. Lifecycle!Unsent(LifeOf(row, m, p))
        BY <1>2, <3>3 DEF LifeOf, Lifecycle!Unsent
      <4> QED
        BY <4>1, <4>2 DEF Fine, Evolves, Lifecycle!Moves, Lifecycle!Return
    <3>4. CASE s = "SEND_UNKNOWN"
      <4>1. /\ Lifecycle!Becomes(LifeOf(row, m, p), LifeOf(new, m, p),
                                 {"sending"}, {"in_doubt"})
            /\ RouteInv(new)
        BY <1>0, <2>2, <3>1, <3>4, StagesOfRows
      <4> QED
        BY <4>1 DEF Fine, Evolves, Lifecycle!Moves, Lifecycle!Doubt
    <3> QED
      BY <3>2, <3>3, <3>4
  <2> QED
    BY <2>1, <2>2
<1>3. ASSUME row.send \in {"SEND_PENDING", "SEND_BLOCKED", "SENDING",
                           "SEND_UNKNOWN"}
      PROVE  Fine(row, [row EXCEPT !.send = "SEND_DROPPED", !.old = FALSE], m, p)
  <2> DEFINE new == [row EXCEPT !.send = "SEND_DROPPED", !.old = FALSE]
  <2>1. /\ new \in Row /\ new.status = row.status /\ new.retries = row.retries
        /\ new.route = row.route /\ new.titled = row.titled
        /\ new.send = "SEND_DROPPED"
    BY DEF Row, SendStatuses
  <2> HIDE DEF new
  <2>2. /\ Lifecycle!Becomes(LifeOf(row, m, p), LifeOf(new, m, p),
                             {"ready", "sending", "in_doubt"}, {"dropped"})
        /\ RouteInv(new)
    BY <1>0, <1>3, <2>1, StagesOfRows
  <2>3. Fine(row, new, m, p)
    BY <2>2 DEF Fine, Evolves, Lifecycle!Moves, Lifecycle!Drop
  <2> QED
    BY <2>3 DEF new
<1> QED
  BY <1>1, <1>2, <1>3

\* A mail is delivered; the row is as it was.
LEMMA FineDelivery ==
  ASSUME NEW row \in Row, RowInv(row), RouteInv(row),
         NEW m \in Nat, NEW p \in Nat, m <= p,
         row.send \notin {"NOT_READY", "SENT"}
  PROVE  Lifecycle!Moves(LifeOf(row, m, p), LifeOf(row, m + 1, p))
<1>1. row.status = "COMPLETED" /\ Ours(row)
  BY DEF RowInv, RouteInv
<1>2. StageOf(row) \in {"ready", "sending", "in_doubt", "dropped"}
  BY <1>1, StagesOfRows DEF Row, SendStatuses
<1>3. PICK g : g = StageOf(row)
  OBVIOUS
<1>4. PICK c : c = [LifeOf(row, m, p) EXCEPT !.mails = @ + 1]
  OBVIOUS
<1>5. c = [stage |-> g, tries |-> row.retries, mails |-> m + 1, permits |-> p]
  BY <1>3, <1>4 DEF LifeOf
<1>6. LifeOf(row, m + 1, p) = c
  BY <1>3, <1>5 DEF LifeOf
<1>7. LifeOf(row, m, p).stage \in {"ready", "sending", "in_doubt", "dropped"}
  BY <1>2 DEF LifeOf
<1>8. Lifecycle!Unsent(LifeOf(row, m, p))
  BY DEF LifeOf, Lifecycle!Unsent
<1>9. Lifecycle!Deliver(LifeOf(row, m, p), c)
  BY <1>4, <1>7, <1>8 DEF Lifecycle!Deliver, Lifecycle!Answered
<1> QED
  BY <1>6, <1>9 DEF Lifecycle!Moves

LEMMA OneMorePermit ==
  ASSUME NEW t \in Nat, NEW m \in Nat, NEW p \in Nat, NEW g, NEW a, NEW c,
         a = [stage |-> g, tries |-> t, mails |-> m, permits |-> p],
         c = [a EXCEPT !.stage = "ready", !.permits = @ + 1]
  PROVE  c = [stage |-> "ready", tries |-> t, mails |-> m, permits |-> p + 1]
OBVIOUS

\* The operator puts a mail back.
LEMMA FineReopening ==
  ASSUME NEW row \in Row, RowInv(row), RouteInv(row),
         NEW m \in Nat, NEW p \in Nat,
         row.send \in {"SEND_UNKNOWN", "SEND_DROPPED"},
         NEW new \in Row, new.status = row.status, new.retries = row.retries,
         new.route = row.route, new.titled = row.titled,
         new.send \in SEND_READY_STATUSES
  PROVE  /\ Lifecycle!Moves(LifeOf(row, m, p), LifeOf(new, m, p + 1))
         /\ RouteInv(new)
<1>1. row.status = "COMPLETED" /\ Ours(row) /\ Ours(new)
  BY SameRoute DEF RowInv, RouteInv
<1>2. StageOf(row) \in {"in_doubt", "dropped"} /\ StageOf(new) = "ready"
  BY <1>1, StagesOfRows DEF SEND_READY_STATUSES
<1> DEFINE a == LifeOf(row, m, p)
<1>3. /\ a = [stage |-> StageOf(row), tries |-> row.retries, mails |-> m,
              permits |-> p]
      /\ a.stage \in {"in_doubt", "dropped"}
      /\ row.retries \in Nat
  BY <1>2 DEF LifeOf, Row
<1>4. PICK c : c = [a EXCEPT !.stage = "ready", !.permits = @ + 1]
  OBVIOUS
<1> HIDE DEF a
<1>5. c = [stage |-> "ready", tries |-> row.retries, mails |-> m,
           permits |-> p + 1]
  BY <1>3, <1>4, OneMorePermit
<1>6. LifeOf(new, m, p + 1) = c
  BY <1>2, <1>5 DEF LifeOf
<1>7. Lifecycle!Reopen(a, c)
  BY <1>3, <1>4 DEF Lifecycle!Reopen
<1> QED
  BY <1>1, <1>6, <1>7 DEF a, Lifecycle!Moves, RouteInv


----------------------------------------------------------------------------
(* The invariant that the moves need besides those of the safety proofs.    *)

\* Mail is ours; the mail that a worker is about to give to Knox is not sent yet,
\* and the one it is about to mark as sent has gone out.
RefinementInv ==
  /\ \A r \in Ids : RouteInv(rows[r])
  /\ \A w \in Workers :
       /\ pc[w] = "send_analysis_mail" =>
            rows[job[w]].send \notin {"NOT_READY", "SENT"}
       /\ pc[w] = "mark_sent" => mails[job[w]] > 0

\* Whoever is analysing a request, and whoever may mail it now or has its mail in
\* flight, has a delivery left.
PermitInv ==
  /\ \A r \in Ids :
       rows[r].status = "PROCESSING" \/ rows[r].send \in SEND_READY_STATUSES
         => mails[r] <= reopened[r]
  /\ \A w \in Workers : pc[w] \in FlightSteps => mails[job[w]] <= reopened[job[w]]

\* That follows from the invariant of the mails, which needs the lock, ...
LEMMA PermitByMails ==
  ASSUME TypeOK, QueueInv, MailInv
  PROVE  PermitInv
<1>1. ASSUME NEW r \in Ids,
             rows[r].status = "PROCESSING" \/ rows[r].send \in SEND_READY_STATUSES
      PROVE  mails[r] <= reopened[r]
  <2>1. Mailable(rows[r])
    BY <1>1 DEF Mailable, SEND_READY_STATUSES, QueueInv, RowsInv, RowInv
  <2> QED
    BY <2>1 DEF MailInv, DeliveriesInv
<1> QED
  BY <1>1 DEF PermitInv, MailInv, FlightInv

\* ... and from what failures cost where runs are quick.
LEMMA PermitByCost ==
  ASSUME TypeOK, QueueInv, CostPerReopen
  PROVE  PermitInv
<1>1. ASSUME NEW r \in Ids
      PROVE  /\ mails[r] \in Nat /\ reopened[r] \in Nat
             /\ Cardinality(Analysts(r)) \in Nat /\ Cardinality(Flights(r)) \in Nat
             /\ Bit(Open(rows[r], Cardinality(Analysts(r)))) \in Nat
             /\ mails[r] + Cardinality(Analysts(r)) + Cardinality(Flights(r))
                  + Bit(Open(rows[r], Cardinality(Analysts(r)))) <= 1 + reopened[r]
  BY FiniteCounts DEF Bit, TypeOK, CostPerReopen, Cost
<1>2. ASSUME NEW r \in Ids,
             rows[r].status = "PROCESSING" \/ rows[r].send \in SEND_READY_STATUSES
      PROVE  mails[r] <= reopened[r]
  <2>1. CASE Open(rows[r], Cardinality(Analysts(r)))
    BY <1>1, <2>1 DEF Bit
  <2>2. CASE ~Open(rows[r], Cardinality(Analysts(r)))
    <3>1. rows[r].send \in SEND_READY_STATUSES => rows[r].status = "COMPLETED"
      BY DEF QueueInv, RowsInv, RowInv, SEND_READY_STATUSES
    <3>2. Cardinality(Analysts(r)) # 0
      BY <1>2, <2>2, <3>1 DEF Open
    <3> QED
      BY <1>1, <3>2
  <2> QED
    BY <2>1, <2>2
<1>3. ASSUME NEW w \in Workers, pc[w] \in FlightSteps
      PROVE  mails[job[w]] <= reopened[job[w]]
  <2>1. PICK j \in Ids : job[w] = j
    BY <1>3 DEF TypeOK, FlightSteps, RowSteps, MailSteps
  <2>2. w \in Flights(j)
    BY <1>3, <2>1 DEF Flights
  <2>3. Cardinality(Flights(j)) # 0
    BY <2>2, FiniteCounts, FS_EmptySet
  <2>4. mails[j] <= reopened[j]
    BY <1>1, <2>3
  <2> QED
    BY <2>1, <2>4
<1> QED
  BY <1>2, <1>3 DEF PermitInv

\* What the row invariants say of one row.
LEMMA RowFacts ==
  ASSUME TypeOK, QueueInv, PermitInv, RefinementInv, NEW r \in Ids
  PROVE  /\ rows[r] \in Row /\ RowInv(rows[r]) /\ RouteInv(rows[r])
         /\ mails[r] \in Nat /\ reopened[r] \in Nat
         /\ rows[r].status = "PROCESSING" \/ rows[r].send \in SEND_READY_STATUSES
              => mails[r] <= reopened[r]
BY DEF TypeOK, QueueInv, RowsInv, RefinementInv, PermitInv

FineRow(r) == Fine(rows[r], rows'[r], mails[r], reopened[r])

\* A worker's statements, for one row.
LEMMA InnerFine ==
  ASSUME TypeOK, ClaimInv, ArchiveInv, QueueInv, PermitInv, RefinementInv,
         NEW w \in Workers, InnerStep(w), NEW r \in Ids
  PROVE  FineRow(r)
<1>0. /\ rows[r] \in Row /\ RowInv(rows[r]) /\ RouteInv(rows[r])
      /\ mails[r] \in Nat /\ reopened[r] \in Nat
      /\ rows[r].status = "PROCESSING" \/ rows[r].send \in SEND_READY_STATUSES
           => mails[r] <= reopened[r]
  BY RowFacts
<1> USE DEF FineRow
<1>1. CASE \/ rows'[r] = rows[r] \/ rows'[r] = SendRecovered(rows[r])
           \/ rows'[r] = Backfilled(rows[r]) \/ rows'[r] = Recovered(rows[r])
  BY <1>0, <1>1, FineRecoveries
<1>2. CASE rows[r] = NoRow /\ rows'[r] = ReceivedRow
  BY <1>0, <1>2, FineArrivals
<1>3. CASE ApiClaimable(rows[r]) /\ rows'[r] = Claimed(rows[r])
  BY <1>0, <1>3, FineAnalysis
<1>4. CASE /\ job[w] = r /\ MarkCompleted(w)
           /\ \E a \in Answers, b \in BOOLEAN : rows'[r] = Completed(rows[r], a, b)
  <2>1. pc[w] \in AnalysisSteps
    BY <1>4 DEF MarkCompleted, AnalysisSteps
  <2>2. rows[r].status = "PROCESSING" /\ rows[r].route = "API_ANALYSIS"
    BY <1>4, <2>1 DEF ClaimInv, WriteBackOwnsRow, ArchiveInv
  <2>3. mails[r] <= reopened[r]
    BY <1>0, <2>2
  <2> QED
    BY <1>0, <1>4, <2>2, <2>3, FineAnalysis
<1>5. CASE job[w] = r /\ MarkRetry(w) /\ rows'[r] = Retried(rows[r])
  <2>1. pc[w] \in AnalysisSteps
    BY <1>5 DEF MarkRetry, AnalysisSteps
  <2>2. rows[r].status = "PROCESSING"
    BY <1>5, <2>1 DEF ClaimInv, WriteBackOwnsRow
  <2> QED
    BY <1>0, <1>5, <2>2, FineAnalysis
<1>6. CASE SendReady(rows[r]) /\ rows'[r] = SendClaimed(rows[r])
  <2>1. mails[r] <= reopened[r]
    BY <1>0, <1>6 DEF SendReady
  <2> QED
    BY <1>0, <1>6, <2>1, FineMails
<1>7. CASE job[w] = r /\ MarkSent(w) /\ rows'[r] = SendMarked(rows[r], "SENT")
  <2>1. mails[r] > 0
    BY <1>7 DEF MarkSent, RefinementInv
  <2> QED
    BY <1>0, <1>7, <2>1, FineMails
<1>8. CASE /\ job[w] = r /\ MarkSendFailed(w)
           /\ rows'[r] = SendMarked(rows[r], "SEND_BLOCKED")
  <2>1. mails[r] <= reopened[r]
    BY <1>8 DEF MarkSendFailed, PermitInv, FlightSteps
  <2> QED
    BY <1>0, <1>8, <2>1, FineMails
<1>9. CASE rows'[r] = SendMarked(rows[r], "SEND_UNKNOWN")
  BY <1>0, <1>9, FineMails
<1> QED
  BY <1>1, <1>2, <1>3, <1>4, <1>5, <1>6, <1>7, <1>8, <1>9, InnerRows DEF Written

\* The clock, the central collector and the operator, for one row.
LEMMA TouchedFine ==
  ASSUME TypeOK, QueueInv, PermitInv, RefinementInv, NEW r \in Ids, Touched(r)
  PROVE  FineRow(r) \/ Reopened(r)
<1>0. /\ rows[r] \in Row /\ RowInv(rows[r]) /\ RouteInv(rows[r])
      /\ mails[r] \in Nat /\ reopened[r] \in Nat
  BY RowFacts
<1> USE DEF FineRow
<1>1. CASE rows'[r] = rows[r] \/ rows'[r] = [rows[r] EXCEPT !.old = TRUE]
  BY <1>0, <1>1, FineRecoveries
<1>2. CASE rows[r] = NoRow /\ rows'[r] \in Arrivals
  BY <1>0, <1>2, FineArrivals
<1>3. CASE /\ rows[r].send \in {"SEND_PENDING", "SEND_BLOCKED", "SENDING", "SEND_UNKNOWN"}
           /\ rows'[r] = [rows[r] EXCEPT !.send = "SEND_DROPPED", !.old = FALSE]
  <2>1. Fine(rows[r], [rows[r] EXCEPT !.send = "SEND_DROPPED", !.old = FALSE],
             mails[r], reopened[r])
    BY <1>0, <1>3, FineMails
  <2> QED
    BY <1>3, <2>1
<1> QED
  BY <1>1, <1>2, <1>3 DEF Touched, Reopened

\* A reopening is a move of its own.
LEMMA ReopenedFine ==
  ASSUME TypeOK, QueueInv, PermitInv, RefinementInv, NEW r \in Ids, Reopened(r)
  PROVE  /\ Lifecycle!Moves(LifeOf(rows[r], mails[r], reopened[r]),
                            LifeOf(rows'[r], mails[r], reopened'[r]))
         /\ RouteInv(rows'[r])
         /\ rows'[r].send \notin {"NOT_READY", "SENT"}
<1>0. /\ rows[r] \in Row /\ RowInv(rows[r]) /\ RouteInv(rows[r])
      /\ mails[r] \in Nat /\ reopened[r] \in Nat
  BY RowFacts
<1>1. PICK s \in SEND_READY_STATUSES :
        rows'[r] = [rows[r] EXCEPT !.send = s, !.old = FALSE]
  BY DEF Reopened
<1>2. PICK new : new = [rows[r] EXCEPT !.send = s, !.old = FALSE]
  OBVIOUS
<1>3. /\ new \in Row /\ new.status = rows[r].status
      /\ new.retries = rows[r].retries /\ new.route = rows[r].route
      /\ new.titled = rows[r].titled /\ new.send = s
  BY <1>0, <1>2 DEF Row, SendStatuses, SEND_READY_STATUSES
<1>4. /\ rows[r].send \in {"SEND_UNKNOWN", "SEND_DROPPED"}
      /\ reopened'[r] = reopened[r] + 1 /\ rows'[r] = new
  BY <1>1, <1>2 DEF Reopened
<1>5. /\ Lifecycle!Moves(LifeOf(rows[r], mails[r], reopened[r]),
                         LifeOf(new, mails[r], reopened[r] + 1))
      /\ RouteInv(new)
  BY <1>0, <1>3, <1>4, FineReopening
<1> QED
  BY <1>3, <1>4, <1>5 DEF SEND_READY_STATUSES

----------------------------------------------------------------------------
(* Every step of the pipeline, for every request.                           *)

\* Request r makes one move of its life, or none, and its mail remains ours.
LifeMove(r) ==
  /\ Evolves(LifeOf(rows[r], mails[r], reopened[r]),
             LifeOf(rows'[r], mails'[r], reopened'[r]))
  /\ RouteInv(rows'[r])

LEMMA FineMove ==
  ASSUME NEW r \in Ids, FineRow(r), mails'[r] = mails[r], reopened'[r] = reopened[r]
  PROVE  LifeMove(r)
BY DEF FineRow, Fine, LifeMove

\* The call of Knox: the mail goes out, or nothing happens to any request.
LEMMA SendMove ==
  ASSUME TypeOK, QueueInv, PermitInv, RefinementInv, NEW w \in Workers,
         SendAnalysisMail(w), NEW r \in Ids
  PROVE  LifeMove(r)
<1>0. /\ rows[r] \in Row /\ RowInv(rows[r]) /\ RouteInv(rows[r])
      /\ mails[r] \in Nat /\ reopened[r] \in Nat
  BY RowFacts
<1>1. /\ job[w] \in Ids /\ UNCHANGED <<rows, reopened>>
      /\ pc[w] = "send_analysis_mail"
  BY DEF SendAnalysisMail, TypeOK, RowSteps, MailSteps
<1>2. CASE mails'[r] = mails[r]
  BY <1>0, <1>1, <1>2 DEF LifeMove, Evolves
<1>3. CASE mails'[r] # mails[r]
  <2>1. job[w] = r /\ mails'[r] = mails[r] + 1
    BY <1>1, <1>3 DEF SendAnalysisMail, Delivered, NotDelivered, TypeOK
  <2>2. mails[r] <= reopened[r]
    BY <1>1, <2>1 DEF PermitInv, FlightSteps
  <2>3. rows[r].send \notin {"NOT_READY", "SENT"}
    BY <1>1, <2>1 DEF RefinementInv
  <2>4. Lifecycle!Moves(LifeOf(rows[r], mails[r], reopened[r]),
                        LifeOf(rows[r], mails[r] + 1, reopened[r]))
    BY <1>0, <2>2, <2>3, FineDelivery
  <2> QED
    BY <1>0, <1>1, <2>1, <2>4 DEF LifeMove, Evolves
<1> QED
  BY <1>2, <1>3

\* What happens around the workers: one row is touched, or reopened.
LEMMA OuterMove ==
  ASSUME TypeOK, QueueInv, PermitInv, RefinementInv, NEW i \in Ids,
         Abandoned(i) \/ Overdue(i) \/ Arrive(i) \/ OperatorDrop(i)
           \/ OperatorReopen(i),
         NEW r \in Ids
  PROVE  LifeMove(r)
<1>0. RouteInv(rows[r]) /\ reopened[r] \in Nat
  BY RowFacts
<1>1. /\ Touched(r) /\ (r # i => rows'[r] = rows[r])
      /\ UNCHANGED mails
  BY OuterRows
<1>2. r # i => reopened'[r] = reopened[r]
  BY DEF Abandoned, Overdue, Arrive, OperatorDrop, OperatorReopen, TypeOK
<1>3. CASE Reopened(r)
  BY <1>1, <1>3, ReopenedFine DEF LifeMove, Evolves
<1>4. CASE FineRow(r) /\ reopened'[r] = reopened[r]
  BY <1>1, <1>4, FineMove
<1>5. CASE r = i /\ OperatorReopen(i)
  <2>1. Reopened(r)
    BY <1>5 DEF OperatorReopen, Reopened, TypeOK
  <2> QED
    BY <1>3, <2>1
<1>6. CASE r # i
  BY <1>0, <1>1, <1>2, <1>6 DEF LifeMove, Evolves
<1>7. CASE r = i /\ ~OperatorReopen(i)
  <2>1. UNCHANGED reopened
    BY <1>7 DEF Abandoned, Overdue, Arrive, OperatorDrop
  <2> QED
    BY <1>1, <1>3, <1>4, <2>1, TouchedFine
<1> QED
  BY <1>5, <1>6, <1>7

LEMMA LifeMoves ==
  ASSUME TypeOK, ClaimInv, ArchiveInv, QueueInv, PermitInv, RefinementInv,
         [Next]_vars, NEW r \in Ids
  PROVE  LifeMove(r)
<1>0. RouteInv(rows[r])
  BY RowFacts
<1>1. ASSUME UNCHANGED <<rows, mails, reopened>> PROVE LifeMove(r)
  BY <1>0, <1>1 DEF LifeMove, Evolves
<1>2. ASSUME NEW w \in Workers, InnerStep(w) PROVE LifeMove(r)
  <2>1. CASE SendAnalysisMail(w)
    BY <2>1, SendMove
  <2>2. CASE ~SendAnalysisMail(w)
    <3>1. UNCHANGED <<mails, reopened>>
      BY <1>2, <2>2
         DEF InnerStep, EnsureSchema, RecoverIncompleteRequests,
             CollectLegacyMail, InsertReceived, RecoverStaleSending,
             ListSendReady, ClaimSend, MarkSent, MarkSendFailed, MarkSendUnknown,
             ListApiReady, ClaimApiRequest, AnalyzeRequest, MarkCompleted,
             MarkRetry, SendCompletedRequest
    <3> QED
      BY <1>2, <3>1, InnerFine, FineMove
  <2> QED
    BY <2>1, <2>2
<1>3. ASSUME NEW w \in Workers, OutsideStep(w) \/ LockDrop(w) PROVE LifeMove(r)
  BY <1>1, <1>3, OutsideMoves DEF LockDrop
<1>4. CASE UNCHANGED vars
  BY <1>1, <1>4 DEF vars
<1> QED
  BY <1>2, <1>3, <1>4, OuterMove, NextCases

----------------------------------------------------------------------------
(* RefinementInv is inductive.                                              *)

\* Only a claim leads to the call of Knox, and it leaves the mail in SENDING.
LEMMA SendEntry ==
  ASSUME TypeOK, NEW w \in Workers, InnerStep(w),
         pc'[w] = "send_analysis_mail"
  PROVE  rows'[job'[w]].send = "SENDING"
<1>1. RunMove(w) /\ job' = job /\ job[w] \in Ids
  BY RunMoves, MailEntry DEF MailSteps
<1>2. pc[w] = "claim_send"
  BY <1>1, RunTargets DEF Edge, OpenSteps
<1>3. ClaimSend(w)
  BY <1>2, StepTaken
<1>4. ASSUME EndRun(w) \/ Continue(w, local[w]) PROVE FALSE
  BY <1>4, EndRunAlone, ContinueAlone DEF OpenSteps
<1>5. rows' = [rows EXCEPT ![job[w]] = SendClaimed(rows[job[w]])]
  BY <1>3, <1>4 DEF ClaimSend, Statement, Query
<1>6. SendClaimed(rows[job[w]]).send = "SENDING"
  BY <1>1 DEF SendClaimed, TypeOK, Row
<1> QED
  BY <1>1, <1>5, <1>6 DEF TypeOK

\* A mail on its way stays on its way, or is dropped or put back, as long as no
\* worker touches it.
LEMMA TouchedMail ==
  ASSUME TypeOK, NEW r \in Ids, Touched(r),
         rows[r].send \notin {"NOT_READY", "SENT"}
  PROVE  rows'[r].send \notin {"NOT_READY", "SENT"}
<1>1. rows[r] \in Row
  BY DEF TypeOK
<1>2. rows[r] # NoRow
  BY DEF NoRow, DefaultRow
<1>3. ASSUME NEW s, rows'[r] = [rows[r] EXCEPT !.send = s, !.old = FALSE]
      PROVE  rows'[r].send = s
  BY <1>1, <1>3 DEF Row
<1>4. rows'[r] = [rows[r] EXCEPT !.old = TRUE] => rows'[r].send = rows[r].send
  BY <1>1 DEF Row
<1> QED
  BY <1>2, <1>3, <1>4 DEF Touched, SEND_READY_STATUSES

\* While a worker is in its run and takes no step of it, only the clock and people
\* touch the rows, for nobody else is in a run.
LEMMA StandingMail ==
  ASSUME TypeOK, LockInv, LockHolds, [Next]_vars, NEW v \in Workers, ~InnerStep(v),
         pc[v] # "idle", NEW j \in Ids
  PROVE  Touched(j)
<1>1. ASSUME NEW w \in Workers, InnerStep(w) PROVE FALSE
  BY <1>1, InnerMoves, OthersIdle
<1> QED
  BY <1>1, NextRows

\* What has been delivered stays delivered.
LEMMA DeliveredStays ==
  ASSUME TypeOK, [Next]_vars, NEW j \in Ids, mails[j] > 0
  PROVE  mails'[j] > 0
<1>1. CASE UNCHANGED mails
  BY <1>1
<1>2. ASSUME NEW w \in Workers, InnerStep(w) PROVE mails'[j] > 0
  <2>1. CASE SendAnalysisMail(w)
    BY <2>1 DEF SendAnalysisMail, Delivered, NotDelivered, TypeOK
  <2>2. CASE ~SendAnalysisMail(w)
    BY <1>1, <1>2, <2>2
       DEF InnerStep, EnsureSchema, RecoverIncompleteRequests,
           CollectLegacyMail, InsertReceived, RecoverStaleSending,
           ListSendReady, ClaimSend, MarkSent, MarkSendFailed, MarkSendUnknown,
           ListApiReady, ClaimApiRequest, AnalyzeRequest, MarkCompleted,
           MarkRetry, SendCompletedRequest
  <2> QED
    BY <2>1, <2>2
<1>3. ASSUME NEW w \in Workers, OutsideStep(w) \/ LockDrop(w) PROVE UNCHANGED mails
  BY <1>3, OutsideMoves DEF LockDrop
<1>4. CASE UNCHANGED vars
  BY <1>1, <1>4 DEF vars
<1> QED
  BY <1>1, <1>2, <1>3, <1>4, OuterRows, NextCases

\* The operator reopens no mail that a run has in hand: one that it has claimed
\* and not yet recorded.
OperatorWaits ==
  \A r \in Ids : reopened'[r] # reopened[r] =>
    \A w \in Workers : ~(pc[w] \in MailSteps /\ job[w] = r)

\* Then a mail in hand is in the hands of one run alone, and not in the queue,
\* whether the runs overlap or not.
MailOwned ==
  \A v \in Workers : pc[v] \in MailSteps =>
    /\ rows[job[v]].send \in {"SENDING", "SEND_UNKNOWN", "SEND_DROPPED"}
    /\ \A w \in Workers : pc[w] \in MailSteps /\ job[w] = job[v] => w = v

\* A mail that is not in the queue does not get there through the statements of
\* the runs that do not have it in hand.
LEMMA OthersSpareMail ==
  ASSUME TypeOK, ClaimInv, QueueInv, NEW w \in Workers, InnerStep(w), NEW r \in Ids,
         rows[r].send \in {"SENDING", "SEND_UNKNOWN", "SEND_DROPPED"},
         ~(pc[w] \in MailSteps /\ job[w] = r)
  PROVE  rows'[r].send \in {"SENDING", "SEND_UNKNOWN", "SEND_DROPPED"}
<1>1. rows[r] \in Row /\ rows[r].status = "COMPLETED"
  BY DEF TypeOK, QueueInv, RowsInv, RowInv
<1>2. rows[r] # NoRow
  BY DEF NoRow, DefaultRow
<1>3. CASE \/ rows'[r] = rows[r] \/ rows'[r] = SendRecovered(rows[r])
           \/ rows'[r] = Backfilled(rows[r]) \/ rows'[r] = Recovered(rows[r])
  BY <1>1, <1>3 DEF SendRecovered, Backfilled, Recovered, Row
<1>4. ASSUME job[w] = r, MarkCompleted(w) \/ MarkRetry(w) PROVE FALSE
  BY <1>1, <1>4 DEF ClaimInv, WriteBackOwnsRow, MarkCompleted, MarkRetry, AnalysisSteps
<1>5. ASSUME ApiClaimable(rows[r]) \/ SendReady(rows[r]) PROVE FALSE
  BY <1>1, <1>5 DEF ApiClaimable, SendReady, SEND_READY_STATUSES
<1>6. ASSUME job[w] = r, MarkSent(w) \/ MarkSendFailed(w) \/ MarkSendUnknown(w) PROVE FALSE
  BY <1>6 DEF MarkSent, MarkSendFailed, MarkSendUnknown, MailSteps
<1> QED
  BY <1>2, <1>3, <1>4, <1>5, <1>6, InnerRows DEF Written

LEMMA TouchedInHand ==
  ASSUME TypeOK, NEW r \in Ids, Touched(r), ~Reopened(r),
         rows[r].send \in {"SENDING", "SEND_UNKNOWN", "SEND_DROPPED"}
  PROVE  rows'[r].send \in {"SENDING", "SEND_UNKNOWN", "SEND_DROPPED"}
<1>1. rows[r] \in Row
  BY DEF TypeOK
<1>2. rows[r] # NoRow
  BY DEF NoRow, DefaultRow
<1>3. rows'[r] = [rows[r] EXCEPT !.send = "SEND_DROPPED", !.old = FALSE]
        => rows'[r].send = "SEND_DROPPED"
  BY <1>1 DEF Row
<1>4. rows'[r] = [rows[r] EXCEPT !.old = TRUE] => rows'[r].send = rows[r].send
  BY <1>1 DEF Row
<1> QED
  BY <1>2, <1>3, <1>4 DEF Touched, Reopened

\* A worker that stays in the mail queue by a step of its own has called Knox, and
\* no row has changed.
LEMMA InHand ==
  ASSUME TypeOK, DeliveryIsKnown, NEW v \in Workers, InnerStep(v),
         pc[v] \in MailSteps, pc'[v] \in MailSteps
  PROVE  rows' = rows
<1>1. \/ pc[v] = "send_analysis_mail"
      \/ pc[v] = "mark_sent" /\ pc'[v] = "mark_send_failed"
  BY RunMoves, RunTargets DEF Edge, OpenSteps, MailSteps
<1>2. CASE pc[v] = "send_analysis_mail"
  BY <1>2, StepTaken DEF SendAnalysisMail
<1>3. CASE pc[v] = "mark_sent" /\ pc'[v] = "mark_send_failed"
  <2>1. MarkSent(v)
    BY <1>3, StepTaken
  <2>2. ASSUME Continue(v, local[v]) PROVE FALSE
    BY <1>3, <2>2, ContinueAlone DEF OpenSteps
  <2>3. Fault("mark_sent")
    BY <2>1, <2>2 DEF MarkSent, Statement
  <2> QED
    BY <2>3 DEF Fault, DeliveryIsKnown
<1> QED
  BY <1>1, <1>2, <1>3

LEMMA MailOwnedStep ==
  ASSUME TypeOK, ClaimInv, QueueInv, MailOwned, DeliveryIsKnown,
         [Next]_vars, [OperatorWaits]_vars
  PROVE  MailOwned'
<1>1. ASSUME NEW v \in Workers, pc'[v] \in MailSteps
      PROVE  /\ job'[v] = job[v] /\ job[v] \in Ids
             /\ \/ pc[v] \in MailSteps
                \/ InnerStep(v) /\ ClaimSend(v) /\ SendReady(rows[job[v]])
  <2>1. CASE InnerStep(v)
    BY <1>1, <2>1, MailEntry
  <2>2. CASE ~InnerStep(v)
    <3>1. pc'[v] = pc[v] /\ job'[v] = job[v]
      BY <1>1, <2>2, Bystanders, OutsideMoves DEF MailSteps
    <3> QED
      BY <1>1, <3>1 DEF TypeOK, RowSteps
  <2> QED
    BY <2>1, <2>2
<1>2. ASSUME NEW v \in Workers, pc'[v] \in MailSteps
      PROVE  rows'[job'[v]].send \in {"SENDING", "SEND_UNKNOWN", "SEND_DROPPED"}
  <2>1. PICK j \in Ids : job[v] = j /\ job'[v] = j
    BY <1>1, <1>2
  <2>2. CASE pc[v] \notin MailSteps
    <3>1. InnerStep(v) /\ pc[v] = "claim_send"
      BY <1>1, <1>2, <2>2 DEF ClaimSend
    <3>2. pc'[v] = "send_analysis_mail"
      BY <1>2, <3>1, RunMoves, RunTargets DEF Edge, OpenSteps, MailSteps
    <3> QED
      BY <3>1, <3>2, SendEntry
  <2>3. CASE pc[v] \in MailSteps
    <3>1. rows[j].send \in {"SENDING", "SEND_UNKNOWN", "SEND_DROPPED"}
      BY <2>1, <2>3 DEF MailOwned
    <3>2. CASE InnerStep(v)
      BY <1>2, <2>1, <2>3, <3>1, <3>2, InHand
    <3>3. ASSUME NEW w \in Workers, InnerStep(w), w # v
          PROVE  rows'[j].send \in {"SENDING", "SEND_UNKNOWN", "SEND_DROPPED"}
      <4>1. ~(pc[w] \in MailSteps /\ job[w] = j)
        BY <2>1, <2>3, <3>3 DEF MailOwned
      <4> QED
        BY <3>1, <3>3, <4>1, OthersSpareMail
    <3>4. ASSUME NEW w \in Workers, OutsideStep(w) \/ LockDrop(w)
          PROVE  rows'[j].send \in {"SENDING", "SEND_UNKNOWN", "SEND_DROPPED"}
      BY <3>1, <3>4, OutsideMoves DEF LockDrop
    <3>5. ASSUME NEW i \in Ids, Abandoned(i) \/ Overdue(i) \/ Arrive(i) \/ OperatorDrop(i)
                                  \/ OperatorReopen(i)
          PROVE  rows'[j].send \in {"SENDING", "SEND_UNKNOWN", "SEND_DROPPED"}
      <4>1. Touched(j)
        BY <3>5, OuterRows
      <4>2. ~Reopened(j)
        <5>1. ASSUME Reopened(j) PROVE FALSE
          <6>1. reopened'[j] = reopened[j] + 1 /\ reopened[j] \in Nat
            BY <5>1 DEF Reopened, TypeOK
          <6>2. reopened'[j] # reopened[j]
            BY <6>1
          <6>3. ~UNCHANGED vars
            BY <6>2 DEF vars
          <6> QED
            BY <2>1, <2>3, <6>2, <6>3 DEF OperatorWaits
        <5> QED
          BY <5>1
      <4> QED
        BY <3>1, <4>1, <4>2, TouchedInHand
    <3>6. CASE UNCHANGED vars
      BY <2>1, <3>1, <3>6 DEF vars
    <3> QED
      BY <2>1, <3>2, <3>3, <3>4, <3>5, <3>6, NextCases
  <2> QED
    BY <2>2, <2>3
<1>3. ASSUME NEW v \in Workers, pc'[v] \in MailSteps, NEW w \in Workers,
             pc'[w] \in MailSteps, job'[w] = job'[v], w # v
      PROVE  FALSE
  <2>1. job[v] = job[w]
    BY <1>1, <1>3
  <2>2. pc[v] \in MailSteps \/ pc[w] \in MailSteps
    <3>1. InnerStep(v) => pc'[w] = pc[w]
      BY <1>3, InnerMoves DEF Moved, Alone
    <3> QED
      BY <1>1, <1>3, <3>1
  <2>3. CASE pc[v] \in MailSteps /\ pc[w] \in MailSteps
    BY <1>3, <2>1, <2>3 DEF MailOwned
  <2>4. ASSUME NEW x \in Workers, pc[x] \in MailSteps, SendReady(rows[job[x]])
        PROVE  FALSE
    BY <2>4 DEF MailOwned, SendReady, SEND_READY_STATUSES
  <2>5. pc[v] \in MailSteps \/ SendReady(rows[job[v]])
    BY <1>1, <1>3
  <2>6. pc[w] \in MailSteps \/ SendReady(rows[job[w]])
    BY <1>1, <1>3
  <2> QED
    BY <1>3, <2>1, <2>2, <2>3, <2>4, <2>5, <2>6
<1> QED
  BY <1>2, <1>3 DEF MailOwned

LEMMA RefinementInvStep ==
  ASSUME TypeOK, ClaimInv, ArchiveInv, QueueInv, PermitInv, RefinementInv,
         (LockHolds /\ LockInv) \/ MailOwned', [Next]_vars
  PROVE  RefinementInv'
<1>1. \A r \in Ids : RouteInv(rows'[r])
  BY LifeMoves DEF LifeMove
<1>2. ASSUME NEW v \in Workers, pc'[v] \in {"send_analysis_mail", "mark_sent"},
             ~InnerStep(v)
      PROVE  /\ pc[v] = pc'[v] /\ job'[v] = job[v] /\ job[v] \in Ids
  <2>1. pc'[v] = pc[v] /\ job'[v] = job[v]
    BY <1>2, Bystanders, OutsideMoves
  <2> QED
    BY <1>2, <2>1 DEF TypeOK, RowSteps, MailSteps
<1>3. ASSUME NEW v \in Workers, pc'[v] = "send_analysis_mail"
      PROVE  rows'[job'[v]].send \notin {"NOT_READY", "SENT"}
  <2>1. CASE InnerStep(v)
    BY <1>3, <2>1, SendEntry
  <2>2. CASE MailOwned'
    BY <1>3, <2>2 DEF MailOwned, MailSteps
  <2>3. CASE ~InnerStep(v) /\ LockHolds /\ LockInv
    <3>1. PICK j \in Ids : job[v] = j
      BY <1>2, <1>3, <2>3
    <3>2. /\ job'[v] = j /\ pc[v] = "send_analysis_mail"
          /\ rows[j].send \notin {"NOT_READY", "SENT"}
      BY <1>2, <1>3, <2>3, <3>1 DEF RefinementInv
    <3>3. Touched(j)
      BY <2>3, <3>2, StandingMail
    <3> QED
      BY <3>2, <3>3, TouchedMail
  <2> QED
    BY <2>1, <2>2, <2>3
<1>4. ASSUME NEW v \in Workers, pc'[v] = "mark_sent"
      PROVE  mails'[job'[v]] > 0
  <2>1. CASE InnerStep(v)
    <3>1. job' = job /\ job[v] \in Ids /\ Delivered(v)
      BY <1>4, <2>1, MailEntry DEF MailSteps
    <3> QED
      BY <3>1 DEF Delivered, TypeOK
  <2>2. CASE ~InnerStep(v)
    BY <1>2, <1>4, <2>2, DeliveredStays DEF RefinementInv
  <2> QED
    BY <2>1, <2>2
<1> QED
  BY <1>1, <1>3, <1>4 DEF RefinementInv

----------------------------------------------------------------------------
(* The beginning, and the theorems.                                         *)

\* The rows an older release left, and those that are not there yet.
LEMMA FirstRowsFresh ==
  ASSUME NEW row \in {NoRow} \cup {LegacyRow(s) : s \in LegacyStatuses}
  PROVE  Lifecycle!Fresh(LifeOf(row, 0, 0)) /\ RouteInv(row)
<1>1. CASE row = NoRow
  <2>1. /\ row \in Row /\ row.retries = 0 /\ row.send = "NOT_READY"
        /\ row.status = "ABSENT"
    BY <1>1, RowsAtStart DEF NoRow, DefaultRow
  <2>2. StageOf(row) = "none"
    BY <2>1, StagesOfRows
  <2> QED
    BY <2>1, <2>2, RetryAssumption
       DEF LifeOf, RouteInv, Lifecycle!Fresh, Lifecycle!Life,
           Lifecycle!Unanswered, Lifecycle!Answered
<1>2. CASE row # NoRow
  <2>1. PICK s \in LegacyStatuses : row = LegacyRow(s)
    BY <1>2
  <2>2. row \in Row
    BY <2>1, RowsAtStart
  <2>3. /\ row.route = "UNCLASSIFIED" /\ row.titled /\ row.status = s
        /\ row.retries = IF s = "FAILED" THEN MaxRetryCount ELSE 0
        /\ row.send = IF s = "COMPLETED" THEN "SEND_BLOCKED" ELSE "NOT_READY"
    BY <2>1 DEF LegacyRow, DefaultRow
  <2>4. Ours(row)
    BY <2>2, <2>3, OursByColumns DEF LegacyStatuses
  <2>5. StageOf(row) = CASE s = "RETRY"      -> "queued"
                         [] s = "PROCESSING" -> "running"
                         [] s = "FAILED"     -> "failed"
                         [] s = "COMPLETED"  -> "ready"
                         [] OTHER            -> "none"
    BY <2>2, <2>3, <2>4, StagesOfRows DEF LegacyStatuses
  <2>6. /\ StageOf(row) \in {"none", "queued", "running", "failed", "ready"}
        /\ StageOf(row) = "failed" <=> s = "FAILED"
    BY <2>5
  <2>7. row.retries \in Nat
    BY <2>2 DEF Row
  <2> QED
    BY <2>3, <2>4, <2>6, <2>7, RetryAssumption
       DEF LifeOf, RouteInv, Lifecycle!Fresh, Lifecycle!Life,
           Lifecycle!Unanswered, Lifecycle!Answered
<1> QED
  BY <1>1, <1>2

\* Every state that the run starts in is one that the lives start in.
LEMMA FirstState ==
  ASSUME Init
  PROVE  Lifecycle!Init /\ RefinementInv
<1>1. \A r \in Ids : /\ Lifecycle!Fresh(LifeOf(rows[r], mails[r], reopened[r]))
                     /\ RouteInv(rows[r])
  <2> SUFFICES ASSUME NEW r \in Ids
               PROVE  /\ Lifecycle!Fresh(LifeOf(rows[r], mails[r], reopened[r]))
                      /\ RouteInv(rows[r])
    OBVIOUS
  <2>1. /\ rows[r] \in {NoRow} \cup {LegacyRow(s) : s \in LegacyStatuses}
        /\ mails[r] = 0 /\ reopened[r] = 0
    BY PipelineAssumption DEF Init
  <2> QED
    BY <2>1, FirstRowsFresh
<1>2. Lifecycle!Init
  BY <1>1 DEF Lifecycle!Init
<1>3. RefinementInv
  BY <1>1 DEF Init, RefinementInv
<1> QED
  BY <1>2, <1>3

\* Where every step finds the permits right, and the mails in one run's hands by
\* the lock or one by one, every step is a move of the lives.
LEMMA Implementation ==
  ASSUME TypeOK, ClaimInv, ArchiveInv, QueueInv, PermitInv, RefinementInv,
         (LockHolds /\ LockInv) \/ MailOwned', [Next]_vars
  PROVE  /\ RefinementInv'
         /\ [Lifecycle!Next]_[r \in Ids |-> LifeOf(rows[r], mails[r], reopened[r])]
<1>1. \A r \in Ids : LifeMove(r)
  BY LifeMoves
<1>2. Lifecycle!Next
  BY <1>1 DEF LifeMove, Evolves, Lifecycle!Next
<1> QED
  BY <1>2, RefinementInvStep

\* While the lock holds, completions are known to have been recorded and
\* deliveries are known or known to be in doubt, every run keeps the promise
\* of RequestLifecycle.tla, for any table, any processes and any failures:
\* each step moves each request by one of the moves of its life, or not at all.
THEOREM Refinement ==
  LockHolds /\ CompletionIsKnown /\ DeliveryIsKnown => (Spec => KeepsPromise)
<1> SUFFICES ASSUME LockHolds, CompletionIsKnown, DeliveryIsKnown
             PROVE  Spec => KeepsPromise
  OBVIOUS
<1> DEFINE life == [r \in Ids |-> LifeOf(rows[r], mails[r], reopened[r])]
           Inv  == /\ TypeOK /\ LockInv /\ ClaimInv /\ ArchiveInv /\ QueueInv
                   /\ PermitInv
<1>1. Init => Lifecycle!Init /\ RefinementInv
  BY FirstState
<1>2. Spec => []MailInv
  BY MailInvHolds
<1>3. Spec => []ClaimInv /\ []QueueInv /\ []LockInv
  BY ClaimInvHolds, QueueInvHolds, LockInvHolds DEF RunsKeptApart
<1>4. TypeOK /\ QueueInv /\ MailInv => PermitInv
  BY PermitByMails
<1>5. Inv /\ RefinementInv /\ [Next]_vars => RefinementInv' /\ [Lifecycle!Next]_life
  BY Implementation
<1> QED
  BY <1>1, <1>2, <1>3, <1>4, <1>5, TypeCorrect, ArchiveInvHolds, PTL
     DEF Spec, KeepsPromise, Lifecycle!Spec

\* Where the lock is lost and runs overlap, the claims keep the promise too, as
\* long as no run is slower than the stale thresholds and the operator reopens no
\* mail that a run has in hand.  The last is needed: a mail that is dropped and
\* reopened between a run's claim and its call of Knox can be sent by a second
\* run and then once more by the first.
THEOREM RefinementOfOverlaps ==
  RunsAreQuick /\ CompletionIsKnown /\ DeliveryIsKnown =>
    (Spec /\ [][OperatorWaits]_vars => KeepsPromise)
<1> SUFFICES ASSUME RunsAreQuick, CompletionIsKnown, DeliveryIsKnown
             PROVE  Spec /\ [][OperatorWaits]_vars => KeepsPromise
  OBVIOUS
<1> DEFINE life == [r \in Ids |-> LifeOf(rows[r], mails[r], reopened[r])]
           Inv  == TypeOK /\ ClaimInv /\ ArchiveInv /\ QueueInv /\ PermitInv
<1>1. Init => Lifecycle!Init /\ RefinementInv
  BY FirstState
<1>2. Init => MailOwned
  BY DEF Init, MailOwned, MailSteps
<1>3. Spec => []CostPerReopen
  BY CostPerReopenHolds
<1>4. Spec => []ClaimInv /\ []QueueInv
  BY ClaimInvHolds, QueueInvHolds DEF RunsKeptApart
<1>5. TypeOK /\ QueueInv /\ CostPerReopen => PermitInv
  BY PermitByCost
<1>6. Inv /\ MailOwned /\ [Next]_vars /\ [OperatorWaits]_vars => MailOwned'
  BY MailOwnedStep
<1>7. Inv /\ RefinementInv /\ MailOwned' /\ [Next]_vars
        => RefinementInv' /\ [Lifecycle!Next]_life
  BY Implementation
<1> QED
  BY <1>1, <1>2, <1>3, <1>4, <1>5, <1>6, <1>7, TypeCorrect, ArchiveInvHolds, PTL
     DEF Spec, KeepsPromise, Lifecycle!Spec

----------------------------------------------------------------------------
(* What the moves of the lifecycle promise.                                 *)

\* Each answer that may still go out has a delivery left; so the one under
\* way may arrive.
LifeInv(a) ==
  /\ a \in Lifecycle!Life
  /\ a.stage \in {"none", "queued", "running"} => a.tries < MaxRetryCount
  /\ a.stage = "failed" => a.tries = MaxRetryCount
  /\ a.stage \in Lifecycle!Unanswered => a.mails = 0 /\ a.permits = 0
  /\ a.mails <= 1 + a.permits
  /\ a.stage = "sent" => a.mails > 0

LEMMA FreshLife ==
  ASSUME NEW a, Lifecycle!Fresh(a) PROVE LifeInv(a)
BY DEF Lifecycle!Fresh, LifeInv, Lifecycle!Life, Lifecycle!Unanswered,
       Lifecycle!Answered

LEMMA BecomesOnlyStage ==
  ASSUME NEW a \in Lifecycle!Life, NEW b, NEW from, NEW to,
         Lifecycle!Becomes(a, b, from, to),
         to \subseteq Lifecycle!Unanswered \cup Lifecycle!Answered
  PROVE  /\ a.stage \in from /\ b.stage \in to /\ b \in Lifecycle!Life
         /\ b.tries = a.tries /\ b.mails = a.mails /\ b.permits = a.permits
<1>1. PICK s : s = b.stage
  OBVIOUS
<1>2. s \in to /\ b = [a EXCEPT !.stage = s] /\ a.stage \in from
  BY <1>1 DEF Lifecycle!Becomes
<1> QED
  BY <1>1, <1>2 DEF Lifecycle!Life

LEMMA MoveKeepsLife ==
  ASSUME NEW a, NEW b, LifeInv(a), Lifecycle!Moves(a, b)
  PROVE  LifeInv(b)
<1>0. /\ a \in Lifecycle!Life
      /\ a = [stage |-> a.stage, tries |-> a.tries, mails |-> a.mails,
              permits |-> a.permits]
      /\ a.tries \in Nat /\ a.mails \in Nat /\ a.permits \in Nat
  BY DEF LifeInv, Lifecycle!Life
<1> USE DEF Lifecycle!Unanswered, Lifecycle!Answered
<1>1. ASSUME NEW from, NEW to, Lifecycle!Becomes(a, b, from, to),
             from \subseteq {"none", "queued", "running"},
             to \subseteq {"queued", "running", "ready"}
      PROVE  LifeInv(b)
  <2>1. /\ a.stage \in from /\ b.stage \in to /\ b \in Lifecycle!Life
        /\ b.tries = a.tries /\ b.mails = a.mails /\ b.permits = a.permits
    BY <1>0, <1>1, BecomesOnlyStage
  <2> QED
    BY <1>1, <2>1 DEF LifeInv, Lifecycle!Life
<1>2. ASSUME NEW from, NEW to, Lifecycle!Becomes(a, b, from, to),
             from \subseteq Lifecycle!Answered, to \subseteq Lifecycle!Answered,
             "sent" \in to => a.mails > 0
      PROVE  LifeInv(b)
  <2>1. /\ a.stage \in from /\ b.stage \in to /\ b \in Lifecycle!Life
        /\ b.tries = a.tries /\ b.mails = a.mails /\ b.permits = a.permits
    BY <1>0, <1>2, BecomesOnlyStage
  <2> QED
    BY <1>2, <2>1 DEF LifeInv, Lifecycle!Life
<1>3. CASE \/ Lifecycle!Enter(a, b) \/ Lifecycle!Begin(a, b)
           \/ Lifecycle!Interrupt(a, b) \/ Lifecycle!Answer(a, b)
  BY <1>1, <1>3 DEF Lifecycle!Enter, Lifecycle!Begin, Lifecycle!Interrupt,
                    Lifecycle!Answer
<1>4. CASE \/ Lifecycle!Take(a, b) \/ Lifecycle!Return(a, b)
           \/ Lifecycle!Confirm(a, b) \/ Lifecycle!Doubt(a, b)
           \/ Lifecycle!Drop(a, b)
  BY <1>2, <1>4 DEF Lifecycle!Take, Lifecycle!Return, Lifecycle!Confirm,
                    Lifecycle!Doubt, Lifecycle!Drop
<1>5. CASE Lifecycle!Fail(a, b)
  <2>1. /\ a.stage = "running" /\ a.tries \in Nat /\ a.tries < MaxRetryCount
        /\ a.mails = 0 /\ a.permits = 0
    BY <1>5 DEF Lifecycle!Fail, LifeInv, Lifecycle!Life
  <2>2. CASE a.tries + 1 = MaxRetryCount
    <3>1. b = [stage |-> "failed", tries |-> a.tries + 1, mails |-> a.mails,
               permits |-> a.permits]
      BY <1>0, <1>5, <2>2 DEF Lifecycle!Fail
    <3> QED
      BY <1>0, <2>1, <2>2, <3>1 DEF LifeInv, Lifecycle!Life
  <2>3. CASE a.tries + 1 # MaxRetryCount
    <3>1. b = [stage |-> "queued", tries |-> a.tries + 1, mails |-> a.mails,
               permits |-> a.permits]
      BY <1>0, <1>5, <2>3 DEF Lifecycle!Fail
    <3>2. a.tries + 1 < MaxRetryCount
      BY <2>1, <2>3, RetryAssumption
    <3> QED
      BY <1>0, <2>1, <3>1, <3>2 DEF LifeInv, Lifecycle!Life
  <2> QED
    BY <2>2, <2>3
<1>6. CASE Lifecycle!Deliver(a, b)
  <2>1. /\ b \in Lifecycle!Life /\ b.stage = a.stage /\ b.mails = a.mails + 1
        /\ b.tries = a.tries /\ b.permits = a.permits
        /\ a.stage \in Lifecycle!Answered \ {"sent"} /\ a.mails <= a.permits
    BY <1>0, <1>6 DEF Lifecycle!Deliver, Lifecycle!Unsent, Lifecycle!Life
  <2> QED
    BY <2>1 DEF LifeInv, Lifecycle!Life
<1>7. CASE Lifecycle!Reopen(a, b)
  <2>1. b = [stage |-> "ready", tries |-> a.tries, mails |-> a.mails,
             permits |-> a.permits + 1]
    BY <1>0, <1>7 DEF Lifecycle!Reopen
  <2>2. a.mails <= 1 + a.permits
    BY DEF LifeInv
  <2> QED
    BY <1>0, <2>1, <2>2 DEF LifeInv, Lifecycle!Life
<1> QED
  BY <1>3, <1>4, <1>5, <1>6, <1>7 DEF Lifecycle!Moves

\* Whoever follows the moves of the lifecycle keeps the promise: every request
\* within its attempts, nothing mailed without an answer, one mail for each
\* permit, and what counts as sent has been delivered.
THEOREM PromiseIsKept == KeepsPromise => []Lifecycle!PromiseKept
<1> DEFINE life == [r \in Ids |-> LifeOf(rows[r], mails[r], reopened[r])]
           Inv  == \A r \in Ids : LifeInv(life[r])
<1>1. Lifecycle!Init => Inv
  BY FreshLife DEF Lifecycle!Init
<1>2. Inv /\ [Lifecycle!Next]_life => Inv'
  BY MoveKeepsLife DEF Lifecycle!Next
<1>3. Inv => Lifecycle!PromiseKept
  BY DEF LifeInv, Lifecycle!PromiseKept, Lifecycle!Kept
<1> QED
  BY <1>1, <1>2, <1>3, PTL DEF KeepsPromise, Lifecycle!Spec

\* So the pipeline keeps the promise to every requester, under the hypotheses of
\* either refinement.
THEOREM PipelineKeepsPromise ==
  CompletionIsKnown /\ DeliveryIsKnown =>
    /\ LockHolds => (Spec => []Lifecycle!PromiseKept)
    /\ RunsAreQuick => (Spec /\ [][OperatorWaits]_vars => []Lifecycle!PromiseKept)
<1> SUFFICES ASSUME CompletionIsKnown, DeliveryIsKnown
             PROVE  /\ LockHolds => (Spec => []Lifecycle!PromiseKept)
                    /\ RunsAreQuick =>
                         (Spec /\ [][OperatorWaits]_vars => []Lifecycle!PromiseKept)
  OBVIOUS
<1>1. ASSUME LockHolds PROVE Spec => []Lifecycle!PromiseKept
  BY <1>1, Refinement, PromiseIsKept, PTL
<1>2. ASSUME RunsAreQuick
      PROVE  Spec /\ [][OperatorWaits]_vars => []Lifecycle!PromiseKept
  BY <1>2, RefinementOfOverlaps, PromiseIsKept, PTL
<1> QED
  BY <1>1, <1>2
=============================================================================
