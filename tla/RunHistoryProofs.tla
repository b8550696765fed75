--------------------------- MODULE RunHistoryProofs ---------------------------
(***************************************************************************)
(* What one run does, for every table size, every set of workers and every  *)
(* batch size: nothing is analysed or tried twice, the first failure ends   *)
(* the run, and what the run found in the analysis queue it serves.         *)
(***************************************************************************)
EXTENDS RequestPipelineProofs, RunHistory

----------------------------------------------------------------------------
(* Batches.                                                                 *)

Ascending(s) == \A i, j \in DOMAIN s : i < j => s[i] < s[j]

LEMMA BatchEnds ==
  ASSUME NEW s \in Seq(Ids), s # <<>>
  PROVE  /\ Head(s) \in ToSet(s) /\ ToSet(s) = {Head(s)} \cup ToSet(Tail(s))
         /\ IsInjective(s) => IsInjective(Tail(s)) /\ Head(s) \notin ToSet(Tail(s))
         /\ Ascending(s) =>
              Ascending(Tail(s)) /\ \A r \in ToSet(Tail(s)) : Head(s) < r
  <1> DEFINE n == Len(s)  t == Tail(s)
  <1>1. n \in Nat /\ n # 0 /\ DOMAIN s = 1..n /\ Head(s) = s[1]
    OBVIOUS
  <1>2. DOMAIN t = 1..(n - 1) /\ \A i \in 1..(n - 1) : t[i] = s[i + 1]
    BY <1>1
  <1>3. 1 \in 1..n /\ \A i \in 1..(n - 1) : i + 1 \in 1..n
    BY <1>1
  <1>4. \A i \in 1..n : i = 1 \/ (i - 1 \in 1..(n - 1) /\ (i - 1) + 1 = i)
    BY <1>1
  <1> HIDE DEF n, t
  <1>5. Head(s) \in ToSet(s)
    BY <1>1, <1>3 DEF ToSet
  <1>6. ToSet(t) \subseteq ToSet(s)
    BY <1>1, <1>2, <1>3 DEF ToSet
  <1>7. ASSUME NEW r \in ToSet(s), r # Head(s) PROVE r \in ToSet(t)
    <2>1. PICK i \in 1..n : s[i] = r
      BY <1>1 DEF ToSet
    <2>2. i - 1 \in 1..(n - 1) /\ (i - 1) + 1 = i
      BY <1>1, <1>4, <1>7, <2>1
    <2>3. t[i - 1] = r
      BY <1>2, <2>1, <2>2
    <2> QED  BY <1>2, <2>2, <2>3 DEF ToSet
  <1>8. ASSUME IsInjective(s) PROVE IsInjective(t) /\ Head(s) \notin ToSet(t)
    <2>1. ASSUME NEW i \in 1..(n - 1), NEW k \in 1..(n - 1), t[i] = t[k] PROVE i = k
      <3>1. i + 1 = k + 1
        BY <1>1, <1>2, <1>3, <1>8, <2>1 DEF IsInjective
      <3> QED  BY <3>1
    <2>2. ASSUME NEW i \in 1..(n - 1), t[i] = Head(s) PROVE FALSE
      <3>1. i + 1 = 1
        BY <1>1, <1>2, <1>3, <1>8, <2>2 DEF IsInjective
      <3> QED  BY <3>1
    <2> QED  BY <1>2, <2>1, <2>2 DEF IsInjective, ToSet
  <1>9. ASSUME Ascending(s)
        PROVE  Ascending(t) /\ \A r \in ToSet(t) : Head(s) < r
    <2>1. ASSUME NEW i \in 1..(n - 1), NEW k \in 1..(n - 1), i < k PROVE t[i] < t[k]
      <3>1. i + 1 < k + 1
        BY <2>1
      <3> QED  BY <1>1, <1>2, <1>3, <1>9, <3>1 DEF Ascending
    <2>2. ASSUME NEW i \in 1..(n - 1) PROVE Head(s) < t[i]
      <3>1. 1 < i + 1
        OBVIOUS
      <3> QED  BY <1>1, <1>2, <1>3, <1>9, <3>1 DEF Ascending
    <2> QED  BY <1>2, <2>1, <2>2 DEF Ascending, ToSet
  <1> QED  BY <1>5, <1>6, <1>7, <1>8, <1>9 DEF t

LEMMA EmptyBatch ==
  ToSet(<<>>) = {} /\ IsInjective(<<>>) /\ Ascending(<<>>)
  BY DEF ToSet, IsInjective, Ascending

LEMMA AscendingInjective ==
  ASSUME NEW s \in Seq(Ids), Ascending(s)
  PROVE  IsInjective(s)
  <1>1. \A i, k \in DOMAIN s : i \in Nat /\ k \in Nat /\ s[i] \in Nat /\ s[k] \in Nat
    BY PipelineAssumption DEF Ids
  <1>2. ASSUME NEW i \in DOMAIN s, NEW k \in DOMAIN s, s[i] = s[k] PROVE i = k
    <2>1. ~(i < k) /\ ~(k < i)
      BY <1>1, <1>2 DEF Ascending
    <2> QED  BY <1>1, <2>1
  <1> QED  BY <1>2 DEF IsInjective

\* One more element, that the sequence does not have yet.
LEMMA Appended ==
  ASSUME NEW s \in Seq(Ids), NEW r \in Ids
  PROVE  /\ Append(s, r) \in Seq(Ids)
         /\ ToSet(Append(s, r)) = ToSet(s) \cup {r}
         /\ IsInjective(s) /\ r \notin ToSet(s) => IsInjective(Append(s, r))
  <1> DEFINE n == Len(s)  t == Append(s, r)
  <1>1. n \in Nat /\ DOMAIN s = 1..n
    OBVIOUS
  <1>2. /\ t \in Seq(Ids) /\ DOMAIN t = 1..(n + 1)
        /\ \A i \in 1..n : t[i] = s[i]
        /\ t[n + 1] = r
    BY <1>1
  <1>3. \A i \in 1..(n + 1) : i \in 1..n \/ i = n + 1
    BY <1>1
  <1>4. \A i \in 1..n : i \in 1..(n + 1)
    BY <1>1
  <1>5. n + 1 \in 1..(n + 1)
    BY <1>1
  <1> HIDE DEF n, t
  <1>6. ToSet(t) = ToSet(s) \cup {r}
    BY <1>1, <1>2, <1>3, <1>4, <1>5 DEF ToSet
  <1>7. ASSUME IsInjective(s), r \notin ToSet(s) PROVE IsInjective(t)
    <2>1. \A i \in 1..n : s[i] # r
      BY <1>1, <1>7 DEF ToSet
    <2>2. ASSUME NEW i \in 1..(n + 1), NEW k \in 1..(n + 1), t[i] = t[k] PROVE i = k
      <3>1. CASE i \in 1..n /\ k \in 1..n
        BY <1>1, <1>2, <1>7, <2>2, <3>1 DEF IsInjective
      <3>2. CASE i = n + 1 \/ k = n + 1
        BY <1>2, <1>3, <2>1, <2>2, <3>2
      <3> QED  BY <1>3, <3>1, <3>2
    <2> QED  BY <1>2, <2>2 DEF IsInjective
  <1> QED  BY <1>2, <1>6, <1>7 DEF t

\* A listing holds rows of the selection only, each once; one that is not full
\* holds all of them.
LEMMA Listed ==
  ASSUME NEW S \in SUBSET Ids, NEW limit \in Nat \ {0}, NEW key \in [Ids -> Int],
         NEW b \in FirstRows(S, limit, key)
  PROVE  /\ b \in Seq(Ids) /\ ToSet(b) \subseteq S
         /\ IsInjective(b)
         /\ Len(b) # limit => S \subseteq ToSet(b)
         /\ b = <<>> => S = {}
         /\ key = ById => /\ Ascending(b)
                          /\ \A r \in S \ ToSet(b), k \in ToSet(b) : k < r
  <1>1. PICK m \in 0..limit : b \in [1..m -> S]
    BY DEF FirstRows, SeqOf
  <1>2. m \in Nat /\ DOMAIN b = 1..m /\ b \in Seq(Ids) /\ Len(b) = m
    BY <1>1
  <1>3. /\ \A i, j \in 1..m : i < j => key[b[i]] < key[b[j]]
        /\ \A r \in S \ {b[i] : i \in 1..m} :
             m = limit /\ \A i \in 1..m : key[b[i]] < key[r]
    BY <1>2 DEF FirstRows
  <1>4. \A i \in 1..m : b[i] \in S /\ b[i] \in Ids /\ key[b[i]] \in Int
    BY <1>1
  <1>5. ASSUME NEW i \in 1..m, NEW k \in 1..m, b[i] = b[k] PROVE i = k
    <2>1. ~(key[b[i]] < key[b[k]]) /\ ~(key[b[k]] < key[b[i]])
      BY <1>4, <1>5
    <2>2. ~(i < k) /\ ~(k < i)
      BY <1>3, <2>1
    <2> QED  BY <2>2
  <1>6. ToSet(b) \subseteq S /\ (m # limit => S \subseteq ToSet(b))
    BY <1>2, <1>3, <1>4 DEF ToSet
  <1>7. b = <<>> => S = {}
    BY <1>2, <1>6, EmptyBatch
  <1>8. ASSUME key = ById PROVE Ascending(b)
    <2>1. \A i, j \in 1..m : i < j => key[b[i]] < key[b[j]]
      BY <1>3
    <2>2. \A i \in 1..m : key[b[i]] = b[i]
      BY <1>4, <1>8 DEF ById
    <2> QED  BY <1>2, <2>1, <2>2 DEF Ascending
  <1>9. ASSUME key = ById, NEW r \in S \ ToSet(b), NEW k \in ToSet(b)
        PROVE  k < r
    <2>1. PICK i \in 1..m : b[i] = k
      BY <1>2 DEF ToSet
    <2>2. r \in S \ {b[h] : h \in 1..m}
      BY <1>2, <1>9 DEF ToSet
    <2>3. key[b[i]] < key[r]
      BY <1>3, <2>2
    <2>4. k \in Ids /\ r \in Ids
      BY <1>4, <2>1, <2>2
    <2> QED  BY <1>9, <2>1, <2>3, <2>4 DEF ById
  <1> QED  BY <1>2, <1>5, <1>6, <1>7, <1>8, <1>9 DEF IsInjective

LEMMA ListingKeys ==
  ASSUME TypeOK
  PROVE  /\ ById \in [Ids -> Int] /\ RetryFirst \in [Ids -> Int]
         /\ MailSendBatchSize \in Nat \ {0} /\ MaxAnalysisPerRun \in Nat \ {0}
         /\ Ids \subseteq Nat
  BY PipelineAssumption DEF ById, RetryFirst, Ids

----------------------------------------------------------------------------
(* The loops: where a worker is, what it has in hand and what is to come.   *)

\* Outside the loop of process_api_queue, and inside it.
Early == {"idle", "ensure_schema", "recover_incomplete_requests",
          "collect_legacy_pop3_mail", "recover_stale_sending", "list_send_ready",
          "release_lock"}
Late  == AnalysisSteps \cup {"list_api_ready", "claim_api_request",
                             "send_completed_request"}

\* At step p with row j in hand and the locals l: the rest of the batch has other
\* rows, each once, and in the mail queue only rows that the cursor has not passed.
LoopOK(p, j, l) ==
  /\ p \in Early => l.phase = "backlog"
  /\ p \in Late => l.phase = "queue"
  /\ IsInjective(l.batch)
  /\ p \in RowSteps => j \notin ToSet(l.batch)
  /\ l.phase = "backlog" => /\ Ascending(l.batch)
                            /\ \A r \in ToSet(l.batch) : l.cursor < r
                            /\ p \in RowSteps => j <= l.cursor

LoopInv == \A w \in Workers : LoopOK(pc[w], job[w], local[w])

\* Where Continue takes a worker from the locals l: to step p with row j and the
\* locals m.
Advanced(l) == [l EXCEPT !.batch = Tail(l.batch),
                         !.cursor = IF l.phase = "backlog" /\ Head(l.batch) > l.cursor
                                    THEN Head(l.batch) ELSE l.cursor]

GoesOn(l, p, j, m) ==
  \/ l.batch # <<>> /\ p = ClaimStep(l.phase) /\ j = Head(l.batch) /\ m = Advanced(l)
  \/ l.batch = <<>> /\ l.full /\ p = ListStep(l.phase) /\ j = 0
       /\ m = [l EXCEPT !.full = FALSE]
  \/ l.batch = <<>> /\ ~l.full /\ l.phase = "backlog"
       /\ p = "list_api_ready" /\ j = 0 /\ m = FreshLocal("queue")
  \/ l.batch = <<>> /\ ~l.full /\ l.phase = "queue"
       /\ p = "release_lock" /\ j = 0 /\ m = FreshLocal("backlog")

LEMMA ContinueGoesOn ==
  ASSUME TypeOK, NEW w \in Workers, NEW l, Continue(w, l)
  PROVE  GoesOn(l, pc'[w], job'[w], local'[w])
  <1>1. CASE NextRow(w, l)
    <2>1. /\ l.batch # <<>>
          /\ pc' = [pc EXCEPT ![w] = ClaimStep(l.phase)]
          /\ job' = [job EXCEPT ![w] = Head(l.batch)]
          /\ local' = [local EXCEPT ![w] = Advanced(l)]
      BY <1>1 DEF NextRow, Advanced
    <2> QED  BY <2>1 DEF TypeOK, GoesOn
  <1>2. CASE NextBatch(w, l)
    BY <1>2 DEF NextBatch, TypeOK, GoesOn
  <1>3. CASE LoopDone(w, l)
    BY <1>3, EnterAlone DEF LoopDone, EndRun, GoesOn
  <1> QED  BY <1>1, <1>2, <1>3 DEF Continue

\* The next row is the first of the batch, and the batch the rest.
LEMMA NextInBatch ==
  ASSUME NEW l \in Local, l.batch # <<>>
  PROVE  /\ Head(l.batch) \in Ids /\ Head(l.batch) \in ToSet(l.batch)
         /\ Advanced(l).batch = Tail(l.batch)
         /\ Advanced(l).phase = l.phase /\ Advanced(l).full = l.full
         /\ Advanced(l).cursor \in Nat /\ l.cursor <= Advanced(l).cursor
         /\ l.phase = "backlog" => Head(l.batch) <= Advanced(l).cursor
         /\ l.phase = "backlog" /\ l.cursor < Head(l.batch)
              => Advanced(l).cursor = Head(l.batch)
  <1>1. l.batch \in Seq(Ids) /\ l.cursor \in Nat
    BY DEF Local
  <1>2. Head(l.batch) \in Ids /\ Head(l.batch) \in Nat /\ Head(l.batch) \in ToSet(l.batch)
    BY <1>1, BatchEnds, PipelineAssumption DEF Ids
  <1> DEFINE c == IF l.phase = "backlog" /\ Head(l.batch) > l.cursor
                  THEN Head(l.batch) ELSE l.cursor
  <1>3. Advanced(l) = [l EXCEPT !.batch = Tail(l.batch), !.cursor = c]
    BY DEF Advanced
  <1>4. /\ c \in Nat /\ l.cursor <= c
        /\ l.phase = "backlog" => Head(l.batch) <= c
        /\ l.phase = "backlog" /\ l.cursor < Head(l.batch) => c = Head(l.batch)
    BY <1>1, <1>2
  <1> HIDE DEF c
  <1> QED  BY <1>2, <1>3, <1>4 DEF Local

LEMMA FreshLoop ==
  ASSUME NEW j
  PROVE  /\ \A p \in Early : LoopOK(p, j, FreshLocal("backlog"))
         /\ LoopOK("list_api_ready", j, FreshLocal("queue"))
  <1>1. \A p \in Early : p \notin RowSteps /\ p \notin Late
    BY DEF Early, Late, RowSteps, AnalysisSteps, MailSteps
  <1>2. "list_api_ready" \notin RowSteps /\ "list_api_ready" \notin Early
    BY DEF Early, RowSteps, AnalysisSteps, MailSteps
  <1> QED  BY <1>1, <1>2, FreshPhase, EmptyBatch DEF LoopOK

LEMMA GoesOnLoop ==
  ASSUME NEW l \in Local, NEW p, NEW j, NEW m, GoesOn(l, p, j, m),
         IsInjective(l.batch),
         l.phase = "backlog" => /\ Ascending(l.batch)
                                /\ \A r \in ToSet(l.batch) : l.cursor < r
  PROVE  LoopOK(p, j, m)
  <1>1. CASE l.batch # <<>> /\ p = ClaimStep(l.phase) /\ j = Head(l.batch)
             /\ m = Advanced(l)
    <2>1. /\ IsInjective(m.batch) /\ j \notin ToSet(m.batch) /\ m.phase = l.phase
          /\ j \in ToSet(l.batch) /\ ToSet(m.batch) \subseteq ToSet(l.batch)
          /\ Ascending(l.batch) =>
               Ascending(m.batch) /\ \A r \in ToSet(m.batch) : j < r
      BY <1>1, BatchEnds, NextInBatch DEF Local
    <2>2. l.phase = "backlog" => m.cursor = j /\ j <= m.cursor
      BY <1>1, <2>1, NextInBatch, PipelineAssumption DEF Local
    <2>3. p \notin Early /\ (p \in Late => m.phase = "queue")
      BY <1>1, <2>1 DEF ClaimStep, Early, Late, AnalysisSteps, Local
    <2> QED  BY <2>1, <2>2, <2>3 DEF LoopOK
  <1>2. CASE l.batch = <<>> /\ l.full /\ p = ListStep(l.phase) /\ j = 0
             /\ m = [l EXCEPT !.full = FALSE]
    <2>1. m.batch = <<>> /\ m.phase = l.phase
      BY <1>2 DEF Local
    <2>2. /\ p \notin RowSteps
          /\ p \in Early => m.phase = "backlog"
          /\ p \in Late => m.phase = "queue"
      BY <1>2, <2>1 DEF ListStep, Local, Early, Late, RowSteps, AnalysisSteps, MailSteps
    <2> QED  BY <2>1, <2>2, EmptyBatch DEF LoopOK
  <1>3. CASE p = "list_api_ready" /\ j = 0 /\ m = FreshLocal("queue")
    BY <1>3, FreshLoop
  <1>4. CASE p = "release_lock" /\ j = 0 /\ m = FreshLocal("backlog")
    BY <1>4, FreshLoop DEF Early
  <1> QED  BY <1>1, <1>2, <1>3, <1>4 DEF GoesOn

\* The locals with a new batch.
With(l, b, limit) == [l EXCEPT !.batch = b, !.full = Len(b) = limit]

LEMMA WithBatch ==
  ASSUME NEW l \in Local, NEW b \in Seq(Ids), NEW limit
  PROVE  /\ With(l, b, limit) \in Local
         /\ With(l, b, limit).batch = b /\ With(l, b, limit).phase = l.phase
         /\ With(l, b, limit).cursor = l.cursor
         /\ With(l, b, limit).full = (Len(b) = limit)
  BY DEF With, Local

LEMMA LoopStep ==
  ASSUME TypeOK, NEW w \in Workers, RunMove(w), LoopOK(pc[w], job[w], local[w])
  PROVE  LoopOK(pc'[w], job'[w], local'[w])
  <1> DEFINE l == local[w]
  <1>0. l \in Local /\ job[w] \in Ids \cup {0}
    BY DEF TypeOK
  <1>1. CASE EndRun(w)
    <2>1. pc'[w] = "release_lock" /\ local'[w] = FreshLocal("backlog")
      BY <1>1, EnterAlone DEF EndRun
    <2> QED  BY <2>1, FreshLoop DEF Early
  <1>2. CASE Continue(w, l)
    BY <1>0, <1>2, ContinueGoesOn, GoesOnLoop DEF LoopOK
  <1>3. CASE SendListing(w)
    <2>1. PICK b \in FirstRows(SendQueueAfter(l.cursor), MailSendBatchSize, ById) :
            Continue(w, With(l, b, MailSendBatchSize))
      BY <1>3 DEF SendListing, With
    <2>2. SendQueueAfter(l.cursor) \in SUBSET Ids
      BY DEF SendQueueAfter
    <2>3. /\ b \in Seq(Ids) /\ IsInjective(b) /\ Ascending(b)
          /\ \A r \in ToSet(b) : r > l.cursor /\ r \in Ids
      BY <2>1, <2>2, Listed, ListingKeys DEF SendQueueAfter
    <2>4. \A r \in ToSet(b) : l.cursor < r
      BY <1>0, <2>3, ListingKeys DEF Local
    <2> QED  BY <1>0, <2>1, <2>3, <2>4, WithBatch, ContinueGoesOn, GoesOnLoop
  <1>4. CASE ApiListing(w)
    <2> DEFINE S == {r \in Ids : ApiReady(rows[r])}
    <2>1. PICK b \in FirstRows(S, MaxAnalysisPerRun, RetryFirst) :
            Continue(w, With(l, b, MaxAnalysisPerRun))
      BY <1>4 DEF ApiListing, With
    <2>2. S \in SUBSET Ids
      OBVIOUS
    <2> HIDE DEF S
    <2>3. b \in Seq(Ids) /\ IsInjective(b)
      BY <2>1, <2>2, Listed, ListingKeys
    <2>4. l.phase = "queue"
      BY <1>4 DEF ApiListing, LoopOK, Late
    <2> QED  BY <1>0, <2>1, <2>3, <2>4, WithBatch, ContinueGoesOn, GoesOnLoop
  <1>5. ASSUME NEW t \in Steps, Edge(w, pc[w], t), Goto(w, t)
        PROVE  LoopOK(pc'[w], job'[w], local'[w])
    <2>1. pc'[w] = t /\ job'[w] = job[w] /\ local'[w] = local[w]
      BY <1>5, GotoAlone
    <2>2. /\ t \in Early => pc[w] \in Early
          /\ t \in Late => pc[w] \in Late
          /\ t \in RowSteps => pc[w] \in RowSteps
      BY <1>5 DEF Edge, Early, Late, RowSteps, AnalysisSteps, MailSteps
    <2> QED  BY <2>1, <2>2 DEF LoopOK
  <1>6. CASE EnterPhase(w, "queue", "list_api_ready")
    <2>1. pc'[w] = "list_api_ready" /\ local'[w] = FreshLocal("queue")
      BY <1>6, EnterAlone
    <2> QED  BY <2>1, FreshLoop
  <1>7. CASE UNCHANGED <<pc, job, local>>
    BY <1>7
  <1>8. ASSUME pc[w] = "analyze_request", UNCHANGED job,
               pc' = [pc EXCEPT ![w] = "mark_completed"],
               NEW a, local' = [local EXCEPT ![w] = [local[w] EXCEPT !.answer = a]]
        PROVE  LoopOK(pc'[w], job'[w], local'[w])
    <2>1. pc'[w] = "mark_completed" /\ job'[w] = job[w] /\ local'[w] = [l EXCEPT !.answer = a]
      BY <1>8 DEF TypeOK
    <2>2. /\ local'[w].batch = l.batch /\ local'[w].phase = l.phase
          /\ local'[w].cursor = l.cursor
      BY <1>0, <2>1 DEF Local
    <2> QED  BY <1>8, <2>1, <2>2 DEF LoopOK, Early, Late, RowSteps, AnalysisSteps
  <1> QED  BY <1>1, <1>2, <1>3, <1>4, <1>5, <1>6, <1>7, <1>8 DEF RunMove

LEMMA LoopInvStep ==
  ASSUME TypeOK, LoopInv, [Next]_vars
  PROVE  LoopInv'
  <1> SUFFICES ASSUME NEW v \in Workers PROVE LoopOK(pc'[v], job'[v], local'[v])
    BY DEF LoopInv
  <1>1. LoopOK(pc[v], job[v], local[v])
    BY DEF LoopInv
  <1>2. CASE InnerStep(v)
    BY <1>1, <1>2, RunMoves, LoopStep
  <1>3. CASE OutsideStep(v)
    <2>1. CASE Crash(v)
      <3>1. pc'[v] = "idle" /\ local'[v] = FreshLocal("backlog")
        BY <2>1, EnterAlone DEF Crash
      <3> QED  BY <3>1, FreshLoop DEF Early
    <2>2. CASE AcquireLock(v) \/ ReleaseLock(v)
      <3>1. /\ pc[v] \in Early /\ pc'[v] \in Early /\ job'[v] = job[v]
            /\ local'[v] = local[v]
        BY <2>2, GotoAlone DEF AcquireLock, ReleaseLock, Early
      <3>2. pc'[v] \notin RowSteps /\ pc'[v] \notin Late
        BY <3>1 DEF Early, Late, RowSteps, AnalysisSteps, MailSteps
      <3> QED  BY <1>1, <3>1, <3>2 DEF LoopOK
    <2> QED  BY <1>3, <2>1, <2>2 DEF OutsideStep
  <1> QED  BY <1>1, <1>2, <1>3, Bystanders

LEMMA LoopInvHolds == Spec => []LoopInv
  <1>1. Init => LoopInv
    <2> SUFFICES ASSUME Init, NEW w \in Workers PROVE LoopOK(pc[w], job[w], local[w])
      BY DEF LoopInv
    <2>1. pc[w] = "idle" /\ local[w] = FreshLocal("backlog")
      BY DEF Init
    <2> QED  BY <2>1, FreshLoop DEF Early
  <1>2. TypeOK /\ LoopInv /\ [Next]_vars => LoopInv'
    BY LoopInvStep
  <1> QED  BY <1>1, <1>2, TypeCorrect, PTL DEF Spec

----------------------------------------------------------------------------
(* The history: what is recorded of a run.                                  *)

\* With the history left out, a behaviour is one of the pipeline.
LEMMA HistoryIsSpec == HSpec => Spec
  <1>1. HInit => Init
    BY DEF HInit
  <1>2. [HNext]_hvars => [Next]_vars
    BY DEF HNext, hvars
  <1> QED  BY <1>1, <1>2, PTL DEF HSpec, Spec

Record == [analysed : Seq(Ids), tried : Seq(Ids), failed : BOOLEAN, due : SUBSET Ids,
           waiting : SUBSET Ids]

\* A worker in no run has done nothing, one that records a failed analysis has
\* had one, and a waiting mail is in the queue.
HistoryOK ==
  /\ history \in [Workers -> Record]
  /\ \A w \in Workers : /\ pc[w] = "idle" => history[w] = NewRun
                        /\ pc[w] = "mark_retry" => history[w].failed
                        /\ \A r \in history[w].waiting : SendReady(rows[r])

LEMMA NewRunRecord ==
  /\ NewRun \in Record /\ NewRun.analysed = <<>> /\ NewRun.tried = <<>>
  /\ NewRun.failed = FALSE /\ NewRun.due = {} /\ NewRun.waiting = {}
  BY DEF NewRun, Record

\* What becomes of the record of a worker, part by part; a step of the
\* environment, or none, changes nothing of it.
Analysed(w) == IF Leaves(w, {"analyze_request"}) THEN Append(history[w].analysed, job[w])
                                                 ELSE history[w].analysed
Tried(w) == IF Leaves(w, {"send_analysis_mail"}) THEN Append(history[w].tried, job[w])
                                                 ELSE history[w].tried
Due(w) == IF EntersQueue(w) THEN {r \in Ids : ApiReady(rows[r])} ELSE history[w].due
Waiting(w) == {r \in IF Leaves(w, {"recover_stale_sending"})
                     THEN Ids ELSE history[w].waiting : SendReady(rows'[r])}

LEMMA Recorded ==
  ASSUME TypeOK, HistoryOK, [HNext]_hvars, NEW w \in Workers
  PROVE  /\ [Next]_vars
         /\ pc'[w] = "idle" => history'[w] = NewRun
         /\ pc'[w] # "idle" =>
              /\ history'[w] \in Record
              /\ history'[w].analysed = Analysed(w)
              /\ history'[w].tried = Tried(w)
              /\ history'[w].due = Due(w)
              /\ history'[w].waiting = Waiting(w)
              /\ history'[w].failed <=> (history[w].failed \/ pc'[w] = "mark_retry")
  <1>0. /\ history[w] \in Record /\ history[w].failed \in BOOLEAN
        /\ history[w].waiting \in SUBSET Ids
    BY DEF HistoryOK, Record
  <1>1. CASE HNext
    <2>1. [Next]_vars /\ history'[w] = Observed(w)
      BY <1>1 DEF HNext
    <2>2. CASE pc'[w] # "idle"
      <3> DEFINE a == Analysed(w)  t == Tried(w)  d == Due(w)
                 f == history[w].failed \/ pc'[w] = "mark_retry"  q == Waiting(w)
      <3>1. history'[w] = [analysed |-> a, tried |-> t, failed |-> f, due |-> d,
                           waiting |-> q]
        BY <2>1, <2>2 DEF Observed, Analysed, Tried, Due, Waiting
      <3>2. Leaves(w, {"analyze_request"}) \/ Leaves(w, {"send_analysis_mail"})
              => job[w] \in Ids
        BY DEF Leaves, TypeOK, RowSteps, AnalysisSteps, MailSteps
      <3>3. a \in Seq(Ids) /\ t \in Seq(Ids)
        BY <1>0, <3>2, Appended DEF Analysed, Tried, Record
      <3>4. d \in SUBSET Ids /\ q \in SUBSET Ids
        BY <1>0 DEF Due, Record, Waiting
      <3>5. f \in BOOLEAN
        OBVIOUS
      <3> HIDE DEF a, t, d, f, q
      <3>6. /\ history'[w] \in Record /\ history'[w].analysed = a
            /\ history'[w].tried = t /\ history'[w].due = d /\ history'[w].failed = f
            /\ history'[w].waiting = q
        BY <3>1, <3>3, <3>4, <3>5 DEF Record
      <3> QED  BY <2>1, <2>2, <3>6 DEF a, t, d, f, q
    <2> QED  BY <2>1, <2>2 DEF Observed
  <1>2. CASE UNCHANGED hvars
    <2>1. UNCHANGED vars /\ pc'[w] = pc[w] /\ history'[w] = history[w]
      BY <1>2 DEF hvars, vars
    <2>2. ~Leaves(w, {"analyze_request"}) /\ ~Leaves(w, {"send_analysis_mail"})
          /\ ~EntersQueue(w) /\ ~Leaves(w, {"recover_stale_sending"})
      BY <2>1 DEF Leaves, EntersQueue
    <2>3. /\ pc'[w] = "idle" => history'[w] = NewRun
          /\ pc'[w] = "mark_retry" => history[w].failed
      BY <2>1 DEF HistoryOK
    <2>4. Waiting(w) = history[w].waiting
      <3>1. rows' = rows
        BY <2>1 DEF vars
      <3>2. \A r \in history[w].waiting : SendReady(rows'[r])
        BY <3>1 DEF HistoryOK
      <3> QED  BY <2>2, <3>2 DEF Waiting
    <2> QED  BY <1>0, <2>1, <2>2, <2>3, <2>4 DEF Analysed, Tried, Due
  <1> QED  BY <1>1, <1>2

LEMMA HistoryOKHolds == HSpec => []HistoryOK
  <1>1. HInit => HistoryOK
    BY NewRunRecord DEF HInit, Init, HistoryOK
  <1>2. TypeOK /\ HistoryOK /\ [HNext]_hvars => HistoryOK'
    <2> SUFFICES ASSUME TypeOK, HistoryOK, [HNext]_hvars PROVE HistoryOK'
      OBVIOUS
    <2>1. history' \in [Workers -> Record]
      <3>1. \A w \in Workers : history'[w] \in Record
        BY Recorded, NewRunRecord
      <3>2. history' = [w \in Workers |-> history'[w]]
        BY DEF HistoryOK, HNext, hvars
      <3> QED  BY <3>1, <3>2
    <2>2. \A w \in Workers : /\ pc'[w] = "idle" => history'[w] = NewRun
                             /\ pc'[w] = "mark_retry" => history'[w].failed
      BY Recorded
    <2>3. \A w \in Workers : \A r \in history'[w].waiting : SendReady(rows'[r])
      BY Recorded, NewRunRecord DEF Waiting
    <2> QED  BY <2>1, <2>2, <2>3 DEF HistoryOK
  <1> QED  BY <1>1, <1>2, HistoryIsSpec, TypeCorrect, PTL DEF HSpec

----------------------------------------------------------------------------
(* The first failure ends the run.                                          *)

LEMMA FailureStep ==
  ASSUME TypeOK, HistoryOK, FailureEndsRun, [HNext]_hvars
  PROVE  FailureEndsRun'
  <1> SUFFICES ASSUME NEW w \in Workers, history'[w].failed
               PROVE  pc'[w] \in {"mark_retry", "release_lock"}
    BY DEF FailureEndsRun
  <1>1. pc'[w] # "idle"
    BY Recorded, NewRunRecord
  <1>2. CASE pc'[w] # "mark_retry"
    <2>1. [Next]_vars /\ pc[w] \in {"mark_retry", "release_lock"}
      BY <1>1, <1>2, Recorded DEF FailureEndsRun
    <2>2. CASE InnerStep(w)
      <3>1. MarkRetry(w)
        BY <2>1, <2>2, StepTaken
      <3> QED  BY <3>1, EndRunAlone DEF MarkRetry, Statement
    <2>3. CASE OutsideStep(w)
      <3>1. ~AcquireLock(w)
        BY <2>1 DEF AcquireLock
      <3>2. CASE ReleaseLock(w)
        BY <1>1, <3>2, GotoAlone DEF ReleaseLock
      <3>3. CASE Crash(w)
        BY <1>1, <3>3, EnterAlone DEF Crash
      <3> QED  BY <2>3, <3>1, <3>2, <3>3 DEF OutsideStep
    <2> QED  BY <2>1, <2>2, <2>3, Bystanders
  <1> QED  BY <1>2

\* "첫 분석 실패 시 해당 실행 즉시 중단" (README): whatever else fails, and whether
\* or not other runs overlap, the run that has had an analysis fail does nothing
\* but record it and end.
THEOREM FirstFailureEndsRun == HSpec => []FailureEndsRun
  <1>1. HInit => FailureEndsRun
    BY NewRunRecord DEF HInit, FailureEndsRun
  <1>2. TypeOK /\ HistoryOK /\ FailureEndsRun /\ [HNext]_hvars => FailureEndsRun'
    BY FailureStep
  <1> QED  BY <1>1, <1>2, HistoryIsSpec, TypeCorrect, HistoryOKHolds, PTL DEF HSpec

----------------------------------------------------------------------------
(* Once per run.                                                            *)

\* Either the lock keeps the runs apart, or they are quick and completions known:
\* then nobody puts back what another run has finished.
Undisturbed == LockHolds \/ (RunsAreQuick /\ CompletionIsKnown)

Safe == LockInv \/ WriteBackOwnsRow

LEMMA SafeHolds == Undisturbed => (Spec => []Safe)
  <1> SUFFICES ASSUME Undisturbed PROVE Spec => []Safe
    OBVIOUS
  <1>1. CASE LockHolds
    <2>1. LockInv => Safe
      BY DEF Safe
    <2> QED  BY <1>1, <2>1, LockInvHolds, PTL
  <1>2. CASE RunsAreQuick /\ CompletionIsKnown
    <2>1. WriteBackOwnsRow => Safe
      BY DEF Safe
    <2>2. RunsKeptApart /\ CompletionIsKnown
      BY <1>2 DEF RunsKeptApart
    <2> QED  BY <2>1, <2>2, RowsOwned, PTL
  <1> QED  BY <1>1, <1>2 DEF Undisturbed

\* Only mark_retry undoes a completion, at a worker that has its own still to
\* record; with the lock that is the run in question, which then ends.
LEMMA DoneStays ==
  ASSUME TypeOK, Safe, [Next]_vars, NEW v \in Workers, pc[v] # "idle",
         NEW r \in Ids, rows[r].status = "COMPLETED"
  PROVE  rows'[r].status = "COMPLETED" \/ pc'[v] = "release_lock"
  <1> DEFINE a == rows[r]  b == rows'[r]
  <1>1. a \in Row
    BY DEF TypeOK
  <1>2. CASE Touched(r)
    BY <1>1, <1>2 DEF Touched, Row, NoRow, DefaultRow
  <1>3. ASSUME NEW w \in Workers, InnerStep(w), Written(w, r)
        PROVE  rows'[r].status = "COMPLETED" \/ pc'[v] = "release_lock"
    <2>1. CASE MarkRetry(w) /\ job[w] = r
      <3>1. pc[w] = "mark_retry" /\ EndRun(w)
        BY <2>1 DEF MarkRetry, Statement
      <3>2. CASE LockInv
        <4>1. w = v
          BY <3>1, <3>2 DEF LockInv
        <4> QED  BY <3>1, <4>1, EndRunAlone
      <3>3. CASE WriteBackOwnsRow
        BY <2>1, <3>1, <3>3 DEF WriteBackOwnsRow, AnalysisSteps
      <3> QED  BY <3>2, <3>3 DEF Safe
    <2>2. CASE ~(MarkRetry(w) /\ job[w] = r)
      <3>1. \/ b \in {a, Backfilled(a), Recovered(a), SendRecovered(a), SendClaimed(a)}
            \/ \E n \in Answers, on \in BOOLEAN : b = Completed(a, n, on)
            \/ \E s \in {"SENT", "SEND_BLOCKED", "SEND_UNKNOWN"} : b = SendMarked(a, s)
            \/ a = NoRow \/ ApiClaimable(a)
        BY <1>3, <2>2 DEF Written
      <3>2. a.status = "COMPLETED"
        OBVIOUS
      <3> HIDE DEF a, b
      <3>3. a # NoRow /\ ~ApiClaimable(a)
        BY <3>2 DEF NoRow, DefaultRow, ApiClaimable
      <3>4. b.status = "COMPLETED"
        <4>1. CASE b \in {a, Backfilled(a), Recovered(a), SendRecovered(a), SendClaimed(a)}
          BY <1>1, <3>2, <4>1 DEF Row, Backfilled, Recovered, SendRecovered, SendClaimed
        <4>2. CASE \E n \in Answers, on \in BOOLEAN : b = Completed(a, n, on)
          BY <1>1, <4>2 DEF Row, Completed
        <4>3. CASE \E s \in {"SENT", "SEND_BLOCKED", "SEND_UNKNOWN"} : b = SendMarked(a, s)
          BY <1>1, <3>2, <4>3 DEF Row, SendMarked
        <4> QED  BY <3>1, <3>3, <4>1, <4>2, <4>3
      <3> QED  BY <3>4 DEF b
    <2> QED  BY <2>1, <2>2
  <1> QED  BY <1>2, <1>3, NextRows

\* What the run has analysed is completed, or about to be recorded; and the row
\* it is about to analyse is another.
AnalysedOK(w) ==
  /\ IsInjective(history[w].analysed)
  /\ pc[w] # "release_lock" =>
       \A r \in ToSet(history[w].analysed) :
         /\ \/ rows[r].status = "COMPLETED"
            \/ pc[w] \in {"mark_completed", "mark_retry"} /\ job[w] = r
         /\ pc[w] = "analyze_request" => job[w] # r

AnalysedInv == \A w \in Workers : AnalysedOK(w)

\* Who comes to the analysis has claimed a row that was not completed.
LEMMA AnalysisEntry ==
  ASSUME TypeOK, NEW w \in Workers, InnerStep(w), pc'[w] = "analyze_request"
  PROVE  /\ pc[w] = "claim_api_request" /\ job'[w] = job[w]
         /\ rows[job[w]].status # "COMPLETED"
  <1>1. pc[w] = "claim_api_request" /\ job' = job
    BY RunMoves, RunTargets DEF Edge, OpenSteps
  <1>2. ClaimApiRequest(w)
    BY <1>1, StepTaken
  <1>3. ~Goto(w, "send_completed_request") /\ ~EndRun(w)
    BY GotoAlone, EndRunAlone
  <1>4. ApiClaimable(rows[job[w]])
    BY <1>2, <1>3 DEF ClaimApiRequest, Query
  <1> QED  BY <1>1, <1>4 DEF ApiClaimable

\* What the analysis and its recording leave behind.
LEMMA AnalysisExit ==
  ASSUME TypeOK, NEW w \in Workers, InnerStep(w), job[w] \in Ids, pc'[w] # "release_lock"
  PROVE  /\ pc[w] = "analyze_request" =>
              pc'[w] \in {"mark_completed", "mark_retry"} /\ job'[w] = job[w]
         /\ pc[w] = "mark_completed" =>
              \/ pc'[w] = "mark_retry" /\ job'[w] = job[w]
              \/ rows'[job[w]].status = "COMPLETED"
         /\ pc[w] # "mark_retry"
  <1>1. CASE pc[w] = "analyze_request"
    <2>1. AnalyzeRequest(w)
      BY <1>1, StepTaken
    <2> QED  BY <1>1, <2>1, GotoAlone DEF AnalyzeRequest, TypeOK
  <1>2. CASE pc[w] = "mark_completed"
    <2>1. MarkCompleted(w)
      BY <1>2, StepTaken
    <2>2. PICK j \in Ids : job[w] = j
      OBVIOUS
    <2>3. CASE Goto(w, "mark_retry")
      BY <1>2, <2>3, GotoAlone
    <2>4. CASE rows' = [rows EXCEPT ![j] = Completed(rows[j], local[w].answer,
                                                     w \in MailSendEnabled)]
      BY <1>2, <2>2, <2>4 DEF Completed, TypeOK, Row
    <2> QED  BY <2>1, <2>2, <2>3, <2>4 DEF MarkCompleted, Statement
  <1>3. CASE pc[w] = "mark_retry"
    <2>1. MarkRetry(w)
      BY <1>3, StepTaken
    <2> QED  BY <2>1, EndRunAlone DEF MarkRetry, Statement
  <1> QED  BY <1>1, <1>2, <1>3

LEMMA AnalysedStep ==
  ASSUME TypeOK, Safe, HistoryOK, AnalysedInv, [HNext]_hvars
  PROVE  AnalysedInv'
  <1> SUFFICES ASSUME NEW v \in Workers PROVE AnalysedOK(v)'
    BY DEF AnalysedInv
  <1> DEFINE seq == history[v].analysed  new == history'[v].analysed
  <1>1. seq \in Seq(Ids) /\ IsInjective(seq) /\ [Next]_vars
    BY Recorded DEF HistoryOK, Record, AnalysedInv, AnalysedOK
  <1>2. CASE pc'[v] = "idle"
    <2>1. new = <<>>
      BY <1>2, Recorded, NewRunRecord
    <2> QED  BY <2>1, EmptyBatch DEF AnalysedOK
  <1>3. CASE pc'[v] # "idle" /\ Leaves(v, {"analyze_request"})
    <2>1. pc[v] = "analyze_request" /\ new = Append(seq, job[v]) /\ job[v] \in Ids
      BY <1>3, Recorded DEF Leaves, Analysed, TypeOK, RowSteps, AnalysisSteps
    <2>2. job[v] \notin ToSet(seq)
      BY <2>1 DEF AnalysedInv, AnalysedOK
    <2>3. IsInjective(new) /\ ToSet(new) = ToSet(seq) \cup {job[v]}
      BY <1>1, <2>1, <2>2, Appended
    <2>4. ASSUME pc'[v] # "release_lock", NEW r \in ToSet(new)
          PROVE  /\ \/ rows'[r].status = "COMPLETED"
                    \/ pc'[v] \in {"mark_completed", "mark_retry"} /\ job'[v] = r
                 /\ pc'[v] # "analyze_request"
      <3>1. InnerStep(v)
        BY <1>1, <1>3, <2>1, Bystanders DEF Leaves, OutsideStep, AcquireLock, ReleaseLock,
           Crash, EnterPhase, TypeOK
      <3>2. pc'[v] \in {"mark_completed", "mark_retry"} /\ job'[v] = job[v]
        BY <2>1, <2>4, <3>1, AnalysisExit
      <3>3. CASE r # job[v]
        <4>1. r \in ToSet(seq)
          BY <2>3, <2>4, <3>3
        <4>3. r \in Ids
          BY <1>1, <4>1 DEF ToSet
        <4>2. rows[r].status = "COMPLETED"
          BY <2>1, <4>1 DEF AnalysedInv, AnalysedOK
        <4> QED  BY <1>1, <2>1, <2>4, <3>2, <4>3, <4>2, DoneStays
      <3> QED  BY <3>2, <3>3
    <2> QED  BY <2>3, <2>4 DEF AnalysedOK
  <1>4. CASE pc'[v] # "idle" /\ ~Leaves(v, {"analyze_request"})
    <2>1. new = seq
      BY <1>4, Recorded DEF Analysed
    <2>2. ASSUME pc'[v] # "release_lock", NEW r \in ToSet(seq)
          PROVE  /\ \/ rows'[r].status = "COMPLETED"
                    \/ pc'[v] \in {"mark_completed", "mark_retry"} /\ job'[v] = r
                 /\ pc'[v] = "analyze_request" => job'[v] # r
      <3>1. r \in Ids
        BY <1>1, <2>2 DEF ToSet
      <3>2. pc[v] # "idle"
        BY <2>2, NewRunRecord, EmptyBatch DEF HistoryOK
      <3>3. rows[r].status = "COMPLETED" =>
              rows'[r].status = "COMPLETED"
        BY <1>1, <2>2, <3>1, <3>2, DoneStays
      <3>4. CASE InnerStep(v)
        <4>1. pc[v] # "release_lock"
          BY <3>4, StepTaken
        <4>2. /\ \/ rows[r].status = "COMPLETED"
                 \/ pc[v] \in {"mark_completed", "mark_retry"} /\ job[v] = r
              /\ pc[v] = "analyze_request" => job[v] # r
          BY <2>2, <4>1 DEF AnalysedInv, AnalysedOK
        <4>3. pc'[v] = "analyze_request" => job'[v] # r
          BY <3>4, <4>2, AnalysisEntry
        <4>4. CASE rows[r].status # "COMPLETED"
          BY <2>2, <3>1, <3>4, <4>2, <4>3, <4>4, AnalysisExit
        <4> QED  BY <3>3, <4>3, <4>4
      <3>5. CASE OutsideStep(v)
        <4>1. AcquireLock(v) \/ ReleaseLock(v) \/ Crash(v)
          BY <3>5 DEF OutsideStep
        <4> QED  BY <1>4, <3>2, <4>1, GotoAlone, EnterAlone
                 DEF AcquireLock, ReleaseLock, Crash
      <3>6. CASE pc'[v] = pc[v] /\ job'[v] = job[v]
        BY <2>2, <3>3, <3>6 DEF AnalysedInv, AnalysedOK
      <3> QED  BY <1>1, <3>4, <3>5, <3>6, Bystanders
    <2> QED  BY <1>1, <2>1, <2>2 DEF AnalysedOK
  <1> QED  BY <1>2, <1>3, <1>4

\* Within a run no request is analysed twice, however the first analysis ended
\* and however often process_api_queue lists again; also while other runs overlap,
\* as long as none is slow and completions are known.
THEOREM AnalysedOnce == Undisturbed => (HSpec => []AnalysedOncePerRun)
  <1> SUFFICES ASSUME Undisturbed PROVE HSpec => []AnalysedOncePerRun
    OBVIOUS
  <1>1. HInit => AnalysedInv
    BY NewRunRecord, EmptyBatch DEF HInit, AnalysedInv, AnalysedOK
  <1>2. TypeOK /\ Safe /\ HistoryOK /\ AnalysedInv /\ [HNext]_hvars => AnalysedInv'
    BY AnalysedStep
  <1>3. AnalysedInv => AnalysedOncePerRun
    BY DEF AnalysedInv, AnalysedOK, AnalysedOncePerRun
  <1> QED  BY <1>1, <1>2, <1>3, HistoryIsSpec, TypeCorrect, SafeHolds, HistoryOKHolds, PTL
           DEF HSpec

\* The steps that record how a delivery went.
Outcomes == {"mark_sent", "mark_send_failed", "mark_send_unknown"}

\* At step p with row j and the locals l, row r is behind the worker.
Behind(r, p, j, l) ==
  /\ r \notin ToSet(l.batch)
  /\ l.phase = "backlog" => r <= l.cursor
  /\ p \in RowSteps /\ j = r => p \in Outcomes

LEMMA FreshBehind ==
  ASSUME NEW r \in Ids, NEW p
  PROVE  Behind(r, p, 0, FreshLocal("queue"))
  <1>1. /\ FreshLocal("queue").phase # "backlog"
        /\ ToSet(FreshLocal("queue").batch) = {}
    BY FreshPhase, EmptyBatch
  <1>2. r # 0
    BY PipelineAssumption DEF Ids
  <1> QED  BY <1>1, <1>2 DEF Behind

\* What the run has tried to mail is completed and behind it: not in the rest of
\* the batch, not beyond the cursor, and in hand only to record how it went.
TriedOK(w) ==
  /\ IsInjective(history[w].tried)
  /\ pc[w] \in MailSteps => rows[job[w]].status = "COMPLETED"
  /\ pc[w] # "release_lock" =>
       \A r \in ToSet(history[w].tried) :
         rows[r].status = "COMPLETED" /\ Behind(r, pc[w], job[w], local[w])

TriedInv == \A w \in Workers : TriedOK(w)

\* A completed row that a worker has behind it, it does not come to again.
LEMMA BehindStep ==
  ASSUME TypeOK, NEW w \in Workers, RunMove(w), LoopOK(pc[w], job[w], local[w]),
         NEW r \in Ids, rows[r].status = "COMPLETED", Behind(r, pc[w], job[w], local[w]),
         pc'[w] # "release_lock"
  PROVE  Behind(r, pc'[w], job'[w], local'[w])
  <1> DEFINE l == local[w]
  <1>0. /\ l \in Local /\ r \notin ToSet(l.batch) /\ r \in Nat
        /\ l.phase = "backlog" => r <= l.cursor
    BY PipelineAssumption DEF TypeOK, Behind, Ids
  <1>1. ~EndRun(w)
    BY EndRunAlone
  <1>2. ASSUME NEW m \in Local, Continue(w, m), r \notin ToSet(m.batch),
               m.phase = "backlog" => r <= m.cursor
        PROVE  Behind(r, pc'[w], job'[w], local'[w])
    <2>1. GoesOn(m, pc'[w], job'[w], local'[w])
      BY <1>2, ContinueGoesOn
    <2>2. CASE /\ m.batch # <<>> /\ job'[w] = Head(m.batch) /\ local'[w] = Advanced(m)
      <3>1. /\ job'[w] # r /\ local'[w].phase = m.phase /\ m.cursor <= local'[w].cursor
            /\ local'[w].batch = Tail(m.batch) /\ local'[w].cursor \in Nat
        BY <1>2, <2>2, NextInBatch
      <3>2. r \notin ToSet(local'[w].batch)
        BY <1>2, <2>2, <3>1, BatchEnds DEF Local
      <3>3. local'[w].phase = "backlog" => r <= local'[w].cursor
        BY <1>0, <1>2, <3>1 DEF Local
      <3> QED  BY <3>1, <3>2, <3>3 DEF Behind
    <2>3. CASE m.batch = <<>> /\ job'[w] = 0 /\ local'[w] = [m EXCEPT !.full = FALSE]
      <3>1. /\ job'[w] # r /\ local'[w].batch = m.batch /\ local'[w].phase = m.phase
            /\ local'[w].cursor = m.cursor
        BY <2>3, PipelineAssumption DEF Local, Ids
      <3> QED  BY <1>2, <3>1 DEF Behind
    <2>4. CASE job'[w] = 0 /\ local'[w] = FreshLocal("queue")
      BY <2>4, FreshBehind
    <2> QED  BY <2>1, <2>2, <2>3, <2>4 DEF GoesOn
  <1>3. CASE Continue(w, l)
    BY <1>0, <1>2, <1>3
  <1>4. CASE SendListing(w)
    <2>1. PICK b \in FirstRows(SendQueueAfter(l.cursor), MailSendBatchSize, ById) :
            Continue(w, With(l, b, MailSendBatchSize))
      BY <1>4 DEF SendListing, With
    <2>2. SendQueueAfter(l.cursor) \in SUBSET Ids
      BY DEF SendQueueAfter
    <2>3. b \in Seq(Ids) /\ ToSet(b) \subseteq SendQueueAfter(l.cursor)
      BY <2>1, <2>2, Listed, ListingKeys
    <2>4. l.phase = "backlog" /\ ~(r > l.cursor)
      BY <1>0, <1>4 DEF SendListing, LoopOK, Early, Local
    <2>5. r \notin ToSet(b)
      BY <2>3, <2>4 DEF SendQueueAfter
    <2> QED  BY <1>0, <1>2, <2>1, <2>3, <2>5, WithBatch
  <1>5. CASE ApiListing(w)
    <2> DEFINE S == {i \in Ids : ApiReady(rows[i])}
    <2>1. PICK b \in FirstRows(S, MaxAnalysisPerRun, RetryFirst) :
            Continue(w, With(l, b, MaxAnalysisPerRun))
      BY <1>5 DEF ApiListing, With
    <2>2. S \in SUBSET Ids /\ r \notin S
      BY DEF ApiReady, ApiClaimable
    <2> HIDE DEF S
    <2>3. b \in Seq(Ids) /\ ToSet(b) \subseteq S
      BY <2>1, <2>2, Listed, ListingKeys
    <2> QED  BY <1>0, <1>2, <2>1, <2>2, <2>3, WithBatch
  <1>6. ASSUME NEW t \in Steps, Edge(w, pc[w], t), Goto(w, t)
        PROVE  Behind(r, pc'[w], job'[w], local'[w])
    <2>1. pc'[w] = t /\ job'[w] = job[w] /\ local'[w] = local[w]
      BY <1>6, GotoAlone
    <2>2. t \in RowSteps => pc[w] \in RowSteps /\ (pc[w] \in Outcomes => t \in Outcomes)
      BY <1>6 DEF Edge, Outcomes, RowSteps, AnalysisSteps, MailSteps
    <2> QED  BY <2>1, <2>2 DEF Behind
  <1>7. CASE EnterPhase(w, "queue", "list_api_ready")
    <2>1. job'[w] = 0 /\ local'[w] = FreshLocal("queue")
      BY <1>7, EnterAlone
    <2> QED  BY <2>1, FreshBehind
  <1>8. CASE UNCHANGED <<pc, job, local>>
    BY <1>8
  <1>9. ASSUME pc[w] = "analyze_request", UNCHANGED job,
               pc' = [pc EXCEPT ![w] = "mark_completed"],
               NEW a, local' = [local EXCEPT ![w] = [local[w] EXCEPT !.answer = a]]
        PROVE  Behind(r, pc'[w], job'[w], local'[w])
    <2>1. job'[w] = job[w] /\ local'[w] = [l EXCEPT !.answer = a]
      BY <1>9 DEF TypeOK
    <2>2. /\ local'[w].batch = l.batch /\ local'[w].phase = l.phase
          /\ local'[w].cursor = l.cursor
      BY <1>0, <2>1 DEF Local
    <2>3. job[w] # r
      BY <1>9 DEF Behind, RowSteps, AnalysisSteps, Outcomes
    <2> QED  BY <1>0, <2>1, <2>2, <2>3 DEF Behind
  <1> QED  BY <1>1, <1>3, <1>4, <1>5, <1>6, <1>7, <1>8, <1>9 DEF RunMove

\* The delivery leaves its row behind, which was not in the rest of the batch.
LEMMA TriedBehind ==
  ASSUME TypeOK, NEW w \in Workers, SendAnalysisMail(w), LoopOK(pc[w], job[w], local[w])
  PROVE  job[w] \in Ids /\ Behind(job[w], pc'[w], job'[w], local'[w])
  <1>1. pc[w] \in RowSteps /\ job[w] \in Ids
    BY DEF SendAnalysisMail, TypeOK, RowSteps, MailSteps
  <1>2. PICK s \in Outcomes : Goto(w, s)
    BY DEF SendAnalysisMail, Delivered, NotDelivered, Outcomes
  <1>3. pc'[w] = s /\ local'[w] = local[w]
    BY <1>2, GotoAlone
  <1> QED  BY <1>1, <1>2, <1>3 DEF Behind, LoopOK

LEMMA TriedStep ==
  ASSUME TypeOK, Safe, LoopInv, HistoryOK, TriedInv, [HNext]_hvars
  PROVE  TriedInv'
  <1> SUFFICES ASSUME NEW v \in Workers PROVE TriedOK(v)'
    BY DEF TriedInv
  <1> DEFINE seq == history[v].tried  new == history'[v].tried
  <1>1. /\ seq \in Seq(Ids) /\ IsInjective(seq) /\ [Next]_vars
        /\ LoopOK(pc[v], job[v], local[v])
    BY Recorded DEF HistoryOK, Record, TriedInv, TriedOK, LoopInv
  \* A mail in hand stays one of a completed request.
  <1>2. ASSUME pc'[v] \in MailSteps PROVE rows'[job'[v]].status = "COMPLETED"
    <2>1. /\ job'[v] = job[v] /\ job[v] \in Ids /\ pc[v] # "idle"
          /\ rows[job[v]].status = "COMPLETED"
      <3>1. CASE InnerStep(v)
        BY <1>2, <3>1, MailEntry, StepTaken DEF TriedInv, TriedOK, SendReady
      <3>2. CASE ~InnerStep(v)
        <4>1. pc'[v] = pc[v] /\ job'[v] = job[v]
          BY <1>1, <1>2, <3>2, Bystanders, OutsideMoves DEF MailSteps
        <4> QED  BY <1>2, <4>1 DEF TriedInv, TriedOK, TypeOK, RowSteps, MailSteps
      <3> QED  BY <3>1, <3>2
    <2>2. PICK j \in Ids : job[v] = j
      BY <2>1
    <2>3. pc'[v] # "release_lock"
      BY <1>2 DEF MailSteps
    <2> QED  BY <1>1, <2>1, <2>2, <2>3, DoneStays
  <1>3. CASE pc'[v] = "idle"
    <2>1. new = <<>>
      BY <1>3, Recorded, NewRunRecord
    <2> QED  BY <1>2, <2>1, EmptyBatch DEF TriedOK
  \* What was tried before is still behind.
  <1>4. ASSUME pc'[v] # "idle", pc'[v] # "release_lock", NEW r \in ToSet(seq)
        PROVE  rows'[r].status = "COMPLETED" /\ Behind(r, pc'[v], job'[v], local'[v])
    <2>1. r \in Ids
      BY <1>1 DEF ToSet
    <2>2. pc[v] # "idle"
      BY NewRunRecord, EmptyBatch DEF HistoryOK
    <2>3. ~OutsideStep(v) \/ ReleaseLock(v)
      BY <1>4, <2>2, EnterAlone DEF OutsideStep, AcquireLock, Crash
    <2>4. ~ReleaseLock(v)
      BY <1>4, GotoAlone DEF ReleaseLock
    <2>5. pc[v] # "release_lock"
      BY <1>1, <1>4, <2>3, <2>4, StepTaken, Bystanders
    <2>6. rows[r].status = "COMPLETED" /\ Behind(r, pc[v], job[v], local[v])
      BY <2>5 DEF TriedInv, TriedOK
    <2>7. rows'[r].status = "COMPLETED"
      BY <1>1, <1>4, <2>1, <2>2, <2>6, DoneStays
    <2>8. CASE InnerStep(v)
      BY <1>1, <1>4, <2>1, <2>6, <2>7, <2>8, RunMoves, BehindStep
    <2>9. CASE pc'[v] = pc[v] /\ job'[v] = job[v] /\ local'[v] = local[v]
      BY <2>6, <2>7, <2>9
    <2> QED  BY <1>1, <2>3, <2>4, <2>8, <2>9, Bystanders
  <1>5. CASE pc'[v] # "idle" /\ ~Leaves(v, {"send_analysis_mail"})
    <2>1. new = seq
      BY <1>5, Recorded DEF Tried
    <2> QED  BY <1>1, <1>2, <1>4, <1>5, <2>1 DEF TriedOK
  <1>6. CASE pc'[v] # "idle" /\ Leaves(v, {"send_analysis_mail"})
    <2>1. pc[v] = "send_analysis_mail" /\ new = Append(seq, job[v])
      BY <1>6, Recorded DEF Leaves, Tried
    <2>2. SendAnalysisMail(v)
      <3>1. ~OutsideStep(v)
        BY <1>6, <2>1, GotoAlone, EnterAlone DEF OutsideStep, AcquireLock, ReleaseLock, Crash
      <3>2. InnerStep(v)
        BY <1>1, <1>6, <3>1, Bystanders DEF Leaves
      <3> QED  BY <2>1, <3>2, StepTaken
    <2>3. PICK j \in Ids : job[v] = j
      BY <1>1, <2>2, TriedBehind
    <2>4. Behind(j, pc'[v], job'[v], local'[v])
      BY <1>1, <2>2, <2>3, TriedBehind
    <2>5. rows[j].status = "COMPLETED"
      BY <2>1, <2>3 DEF TriedInv, TriedOK, MailSteps
    <2>6. pc'[v] # "release_lock" => rows'[j].status = "COMPLETED"
      BY <1>1, <2>1, <2>5, DoneStays
    <2>7. j \notin ToSet(seq)
      BY <2>1, <2>3 DEF TriedInv, TriedOK, Behind, RowSteps, MailSteps, Outcomes
    <2>8. IsInjective(new) /\ ToSet(new) = ToSet(seq) \cup {j}
      BY <1>1, <2>1, <2>3, <2>7, Appended
    <2> QED  BY <1>2, <1>4, <1>6, <2>4, <2>6, <2>8 DEF TriedOK
  <1> QED  BY <1>3, <1>5, <1>6

----------------------------------------------------------------------------
(* The backlog is gone through.                                             *)

\* Before the loop of process_pending_send, and inside it.
Before  == {"idle", "ensure_schema", "recover_incomplete_requests",
            "collect_legacy_pop3_mail", "recover_stale_sending"}
Backlog == {"list_send_ready", "claim_send"} \cup MailSteps

\* Mail r is in the rest of the batch, or beyond it when another one follows.
Coming(r, l) == \/ r \in ToSet(l.batch)
                \/ l.full /\ l.cursor < r /\ \A k \in ToSet(l.batch) : k < r

\* At step p with row j and the locals l, the loop has mail r still before it.
ToCome(r, p, j, l) == IF p = "list_send_ready" THEN l.cursor < r
                      ELSE Coming(r, l) \/ (p = "claim_send" /\ j = r)

\* A mail that waits all the while is one that the loop has still before it,
\* unless the run is over.
WaitingOK(w) ==
  /\ pc[w] \in Before \cup {"release_lock"} => local[w].cursor = 0
  /\ \A r \in history[w].waiting :
       \/ pc[w] = "release_lock"
       \/ /\ pc[w] \in Backlog /\ local[w].phase = "backlog"
          /\ ToCome(r, pc[w], job[w], local[w])

WaitingInv == \A w \in Workers : WaitingOK(w)

\* The claim takes its mail out of the queue.
LEMMA ClaimTakesMail ==
  ASSUME TypeOK, NEW w \in Workers, InnerStep(w), pc[w] = "claim_send",
         NEW r \in Ids, job[w] = r, SendReady(rows[r]), pc'[w] # "release_lock"
  PROVE  ~SendReady(rows'[r])
  <1>1. ClaimSend(w) /\ ~EndRun(w)
    BY StepTaken, EndRunAlone
  <1>2. rows' = [rows EXCEPT ![r] = SendClaimed(rows[r])]
    BY <1>1 DEF ClaimSend, Statement
  <1>3. rows'[r] = SendClaimed(rows[r]) /\ rows[r] \in Row
    BY <1>2 DEF TypeOK
  <1> QED  BY <1>3 DEF SendClaimed, Row, SendReady, SEND_READY_STATUSES

\* Where Continue goes from a batch, what is to come is still to come.
LEMMA GoesOnComing ==
  ASSUME NEW l \in Local, NEW p, NEW j, NEW m, GoesOn(l, p, j, m),
         l.phase = "backlog", NEW r \in Ids, Coming(r, l)
  PROVE  p \in Backlog /\ m.phase = "backlog" /\ ToCome(r, p, j, m)
  <1>0. l.batch \in Seq(Ids) /\ l.cursor \in Nat /\ r \in Nat
    BY PipelineAssumption DEF Local, Ids
  <1>1. CASE l.batch # <<>> /\ p = "claim_send" /\ j = Head(l.batch) /\ m = Advanced(l)
    <2>1. /\ Head(l.batch) \in ToSet(l.batch) /\ m.batch = Tail(l.batch)
          /\ m.phase = "backlog" /\ m.full = l.full
          /\ ToSet(l.batch) = {Head(l.batch)} \cup ToSet(m.batch)
      BY <1>0, <1>1, NextInBatch, BatchEnds
    <2>2. m.cursor \in {Head(l.batch), l.cursor}
      BY <1>1 DEF Advanced, Local
    <2>3. CASE r \in ToSet(l.batch)
      BY <1>1, <2>1, <2>3 DEF ToCome, Coming, Backlog
    <2>4. CASE l.full /\ l.cursor < r /\ \A k \in ToSet(l.batch) : k < r
      <3>1. m.cursor < r
        BY <2>1, <2>2, <2>4
      <3> QED  BY <1>1, <2>1, <2>4, <3>1 DEF ToCome, Coming, Backlog
    <2> QED  BY <2>3, <2>4 DEF Coming
  <1>2. CASE l.batch = <<>> /\ l.full /\ p = "list_send_ready" /\ m = [l EXCEPT !.full = FALSE]
    <2>1. l.cursor < r
      BY <1>2, EmptyBatch DEF Coming
    <2>2. m.phase = "backlog" /\ m.cursor = l.cursor
      BY <1>2 DEF Local
    <2> QED  BY <1>2, <2>1, <2>2 DEF ToCome, Backlog
  <1>3. ~(l.batch = <<>> /\ ~l.full)
    BY EmptyBatch DEF Coming
  <1> QED  BY <1>1, <1>2, <1>3 DEF GoesOn, ClaimStep, ListStep

LEMMA WaitingMove ==
  ASSUME TypeOK, NEW w \in Workers, InnerStep(w), pc[w] \in Backlog,
         local[w].phase = "backlog", pc'[w] # "release_lock",
         NEW r \in Ids, SendReady(rows[r]), SendReady(rows'[r]),
         ToCome(r, pc[w], job[w], local[w])
  PROVE  /\ pc'[w] \in Backlog /\ local'[w].phase = "backlog"
         /\ ToCome(r, pc'[w], job'[w], local'[w])
  <1> DEFINE l == local[w]
             goal == /\ pc'[w] \in Backlog /\ local'[w].phase = "backlog"
                     /\ ToCome(r, pc'[w], job'[w], local'[w])
  <1>0. l \in Local /\ RunMove(w) /\ ~EndRun(w)
    BY RunMoves, EndRunAlone DEF TypeOK
  <1>1. pc[w] # "list_send_ready" => Coming(r, l)
    BY ClaimTakesMail DEF ToCome
  <1>2. CASE pc[w] \in LoopTails /\ Continue(w, l)
    <2>1. GoesOn(l, pc'[w], job'[w], local'[w]) /\ Coming(r, l)
      BY <1>1, <1>2, ContinueGoesOn DEF LoopTails
    <2> QED  BY <1>0, <2>1, GoesOnComing
  <1>3. CASE SendListing(w)
    <2> DEFINE S == SendQueueAfter(l.cursor)
    <2>1. PICK b \in FirstRows(S, MailSendBatchSize, ById) :
            Continue(w, With(l, b, MailSendBatchSize))
      BY <1>3 DEF SendListing, With
    <2>2. l.cursor < r /\ l.cursor \in Nat /\ r \in Nat
      BY <1>0, <1>3, ListingKeys DEF SendListing, ToCome, Local
    <2>3. S \in SUBSET Ids /\ r \in S
      BY <2>2 DEF SendQueueAfter
    <2> HIDE DEF S
    <2>4. /\ b \in Seq(Ids) /\ (Len(b) # MailSendBatchSize => S \subseteq ToSet(b))
          /\ \A k \in ToSet(b) : r \in ToSet(b) \/ k < r
      BY <2>1, <2>3, Listed, ListingKeys
    <2> DEFINE m == With(l, b, MailSendBatchSize)
    <2>5. /\ m \in Local /\ m.batch = b /\ m.phase = "backlog" /\ m.cursor = l.cursor
          /\ m.full = (Len(b) = MailSendBatchSize)
      BY <1>0, <2>4, WithBatch
    <2>6. GoesOn(m, pc'[w], job'[w], local'[w])
      BY <2>1, ContinueGoesOn
    <2> HIDE DEF m
    <2>7. Coming(r, m)
      BY <2>2, <2>3, <2>4, <2>5 DEF Coming
    <2> QED  BY <2>5, <2>6, <2>7, GoesOnComing
  <1>4. ASSUME NEW t \in Steps, Edge(w, pc[w], t), Goto(w, t) PROVE goal
    <2>1. pc'[w] = t /\ local'[w] = l
      BY <1>4, GotoAlone
    <2>2. pc[w] # "list_send_ready" /\ t \in Backlog /\ t # "list_send_ready"
      BY <1>4 DEF Edge, Backlog, MailSteps
    <2> QED  BY <1>1, <2>1, <2>2 DEF ToCome
  <1>5. pc[w] \notin {"list_api_ready", "collect_legacy_pop3_mail", "analyze_request"}
    BY DEF Backlog, MailSteps
  <1> QED  BY <1>0, <1>2, <1>3, <1>4, <1>5 DEF RunMove, ApiListing

\* A run starts its lists from the first id.
LEMMA CursorStep ==
  ASSUME TypeOK, NEW w \in Workers, InnerStep(w) \/ OutsideStep(w),
         pc[w] \in Before \cup {"release_lock"} => local[w].cursor = 0,
         pc'[w] \in Before \cup {"release_lock"}
  PROVE  local'[w].cursor = 0
  <1>1. ASSUME NEW phase, NEW s, EnterPhase(w, phase, s) PROVE local'[w].cursor = 0
    <2>1. local'[w] = FreshLocal(phase)
      BY <1>1, EnterAlone
    <2> QED  BY <2>1, FreshPhase
  <1>2. CASE EndRun(w) \/ Crash(w)
    BY <1>1, <1>2 DEF EndRun, Crash
  <1>3. ASSUME NEW l, Continue(w, l) PROVE local'[w].cursor = 0
    <2>1. GoesOn(l, pc'[w], job'[w], local'[w])
      BY <1>3, ContinueGoesOn
    <2>2. local'[w] = FreshLocal("backlog")
      BY <2>1 DEF GoesOn, ClaimStep, ListStep, Before
    <2> QED  BY <2>2, FreshPhase
  <1>4. ASSUME NEW t \in Steps, Edge(w, pc[w], t), Goto(w, t) PROVE local'[w].cursor = 0
    <2>1. pc'[w] = t /\ local'[w] = local[w]
      BY <1>4, GotoAlone
    <2>2. pc[w] \in Before
      BY <1>4, <2>1 DEF Edge, Before
    <2> QED  BY <2>1, <2>2
  <1>5. CASE AcquireLock(w) \/ ReleaseLock(w)
    <2>1. pc[w] \in Before \cup {"release_lock"} /\ local'[w] = local[w]
      BY <1>5, GotoAlone DEF AcquireLock, ReleaseLock, Before
    <2> QED  BY <2>1
  <1>6. CASE pc[w] = "collect_legacy_pop3_mail" /\ UNCHANGED <<pc, job, local>>
    BY <1>6
  <1>7. pc' # [pc EXCEPT ![w] = "mark_completed"]
    BY DEF Before, TypeOK
  <1>8. CASE InnerStep(w)
    BY <1>1, <1>2, <1>3, <1>4, <1>6, <1>7, <1>8, RunMoves
       DEF RunMove, SendListing, ApiListing
  <1> QED  BY <1>2, <1>5, <1>8 DEF OutsideStep

LEMMA WaitingStep ==
  ASSUME TypeOK, LoopInv, HistoryOK, WaitingInv, [HNext]_hvars
  PROVE  WaitingInv'
  <1> SUFFICES ASSUME NEW v \in Workers PROVE WaitingOK(v)'
    BY DEF WaitingInv
  <1>1. [Next]_vars /\ (pc[v] \in Before \cup {"release_lock"} => local[v].cursor = 0)
    BY Recorded DEF WaitingInv, WaitingOK
  <1>2. pc'[v] \in Before \cup {"release_lock"} => local'[v].cursor = 0
    BY <1>1, CursorStep, Bystanders
  <1>3. ASSUME NEW r \in history'[v].waiting, pc'[v] # "release_lock"
        PROVE  /\ pc'[v] \in Backlog /\ local'[v].phase = "backlog"
               /\ ToCome(r, pc'[v], job'[v], local'[v])
    <2>1. pc'[v] # "idle" /\ r \in Waiting(v)
      BY <1>3, Recorded, NewRunRecord
    <2>2. CASE Leaves(v, {"recover_stale_sending"})
      <3>1. r \in Ids /\ local[v].cursor = 0
        BY <1>1, <2>1, <2>2 DEF Waiting, Leaves, Before
      <3>2. ~OutsideStep(v)
        BY <1>3, <2>1, <2>2, EnterAlone DEF OutsideStep, AcquireLock, ReleaseLock, Crash,
           Leaves
      <3>3. InnerStep(v) /\ RunMove(v)
        BY <1>1, <2>2, <3>2, Bystanders, RunMoves DEF Leaves
      <3>4. PICK t \in Steps : Edge(v, pc[v], t) /\ Goto(v, t)
        BY <1>3, <2>2, <3>3, EndRunAlone
           DEF RunMove, Leaves, LoopTails, SendListing, ApiListing
      <3>5. pc'[v] = "list_send_ready" /\ local'[v] = local[v]
        BY <2>2, <3>4, GotoAlone DEF Edge, Leaves
      <3>6. local[v].phase = "backlog"
        BY <2>2 DEF LoopInv, LoopOK, Early, Leaves
      <3> QED  BY <3>1, <3>5, <3>6, PipelineAssumption DEF ToCome, Backlog, Ids
    <2>3. CASE ~Leaves(v, {"recover_stale_sending"})
      <3>1. r \in history[v].waiting /\ r \in Ids /\ SendReady(rows[r]) /\ SendReady(rows'[r])
        BY <2>1, <2>3 DEF Waiting, HistoryOK, Record
      <3>2. \/ pc[v] = "release_lock"
            \/ /\ pc[v] \in Backlog /\ local[v].phase = "backlog"
               /\ ToCome(r, pc[v], job[v], local[v])
        BY <3>1 DEF WaitingInv, WaitingOK
      <3>3. ~OutsideStep(v)
        <4>1. ~AcquireLock(v)
          BY <3>2 DEF AcquireLock, Backlog, MailSteps
        <4> QED  BY <2>1, <4>1, GotoAlone, EnterAlone DEF OutsideStep, ReleaseLock, Crash
      <3>4. CASE InnerStep(v)
        <4>1. pc[v] # "release_lock"
          BY <3>4, StepTaken
        <4> QED  BY <1>3, <3>1, <3>2, <3>4, <4>1, WaitingMove
      <3>5. CASE pc'[v] = pc[v] /\ job'[v] = job[v] /\ local'[v] = local[v]
        BY <1>3, <3>2, <3>5
      <3> QED  BY <1>1, <3>3, <3>4, <3>5, Bystanders
    <2> QED  BY <2>2, <2>3
  <1> QED  BY <1>2, <1>3 DEF WaitingOK

\* However the operator, the clock and other runs change the queue while a run
\* goes through it in batches, it comes to every mail that stays in it: none is
\* left that has waited from the beginning.  Nothing is assumed, of the lock or of
\* what fails.
THEOREM NoMailLeft == HSpec => []NoMailPassedOver
  <1>1. HInit => WaitingInv
    <2> SUFFICES ASSUME HInit, NEW w \in Workers PROVE WaitingOK(w)
      BY DEF WaitingInv
    <2>1. local[w] = FreshLocal("backlog") /\ history[w] = NewRun
      BY DEF HInit, Init
    <2> QED  BY <2>1, NewRunRecord, FreshPhase DEF WaitingOK
  <1>2. TypeOK /\ LoopInv /\ HistoryOK /\ WaitingInv /\ [HNext]_hvars => WaitingInv'
    BY WaitingStep
  <1>3. LoopInv /\ WaitingInv => NoMailPassedOver
    <2> SUFFICES ASSUME LoopInv, WaitingInv, NEW w \in Workers, local[w].phase = "queue"
                 PROVE  history[w].waiting = {}
      BY DEF NoMailPassedOver
    <2>1. pc[w] # "release_lock"
      BY DEF LoopInv, LoopOK, Early
    <2> QED  BY <2>1 DEF WaitingInv, WaitingOK
  <1> QED  BY <1>1, <1>2, <1>3, HistoryIsSpec, TypeCorrect, LoopInvHolds, HistoryOKHolds,
              PTL DEF HSpec

\* Within a run no mail is tried twice, though a refused one is back in the queue
\* at once: the cursor has passed it; and none that waits is left out.
THEOREM TriedOnce == Undisturbed => (HSpec => []TriedOncePerRun)
  <1> SUFFICES ASSUME Undisturbed PROVE HSpec => []TriedOncePerRun
    OBVIOUS
  <1>1. HInit => TriedInv
    BY NewRunRecord, EmptyBatch DEF HInit, Init, TriedInv, TriedOK, MailSteps
  <1>2. TypeOK /\ Safe /\ LoopInv /\ HistoryOK /\ TriedInv /\ [HNext]_hvars => TriedInv'
    BY TriedStep
  <1>3. TriedInv /\ NoMailPassedOver => TriedOncePerRun
    BY DEF TriedInv, TriedOK, TriedOncePerRun
  <1> QED  BY <1>1, <1>2, <1>3, HistoryIsSpec, TypeCorrect, SafeHolds, LoopInvHolds,
              HistoryOKHolds, NoMailLeft, PTL DEF HSpec

----------------------------------------------------------------------------
(* The queue is drained.                                                    *)

\* The columns a row's place in the analysis queue depends on.
Kept(a, b) == b.route = a.route /\ b.status = a.status /\ b.retries = a.retries

LEMMA KeptReady ==
  ASSUME NEW a, NEW b, Kept(a, b)
  PROVE  ApiReady(b) = ApiReady(a)
  BY DEF Kept, ApiReady, ApiClaimable

\* The mail queue, the clock and the operator change none of them.
LEMMA KeptOperators ==
  ASSUME NEW a \in Row
  PROVE  /\ Kept(a, a) /\ Kept(a, SendRecovered(a)) /\ Kept(a, SendClaimed(a))
         /\ \A s : Kept(a, SendMarked(a, s))
         /\ Kept(a, [a EXCEPT !.old = TRUE])
  BY DEF Kept, Row, SendRecovered, SendClaimed, SendMarked

\* What a worker writes, by what it means for the analysis queue.
Rewritten(a, b) ==
  \/ Kept(a, b)
  \/ b = Claimed(a)
  \/ \E n \in Answers, on \in BOOLEAN : b = Completed(a, n, on)

LEMMA WrittenCases ==
  ASSUME TypeOK, NEW w \in Workers, NEW r \in Ids, Written(w, r),
         rows[r].status # "ABSENT"
  PROVE  \/ Rewritten(rows[r], rows'[r])
         \/ pc[w] = "ensure_schema" /\ rows'[r] = Backfilled(rows[r])
         \/ pc[w] = "recover_incomplete_requests" /\ rows'[r] = Recovered(rows[r])
         \/ MarkRetry(w) /\ rows'[r] = Retried(rows[r])
  <1>1. rows[r] \in Row /\ rows[r] # NoRow
    BY DEF TypeOK, NoRow, DefaultRow
  <1>2. \/ rows'[r] \in {rows[r], SendRecovered(rows[r]), SendClaimed(rows[r])}
        \/ \E s : rows'[r] = SendMarked(rows[r], s)
        => Kept(rows[r], rows'[r])
    BY <1>1, KeptOperators
  <1> QED  BY <1>1, <1>2 DEF Written, Rewritten

LEMMA TouchedKept ==
  ASSUME TypeOK, NEW r \in Ids, Touched(r), rows[r].status # "ABSENT"
  PROVE  Kept(rows[r], rows'[r])
  <1>1. rows[r] \in Row /\ rows[r] # NoRow
    BY DEF TypeOK, NoRow, DefaultRow
  <1>2. CASE rows'[r] \in {rows[r], [rows[r] EXCEPT !.old = TRUE]}
    BY <1>1, <1>2, KeptOperators
  <1>3. ASSUME NEW s, rows'[r] = [rows[r] EXCEPT !.send = s, !.old = FALSE]
        PROVE  Kept(rows[r], rows'[r])
    BY <1>1, <1>3 DEF Kept, Row
  <1> QED  BY <1>1, <1>2, <1>3 DEF Touched

LEMMA StatusOperators ==
  ASSUME NEW a \in Row, a.status # "ABSENT", NEW b
  PROVE  /\ Rewritten(a, b) => /\ b.status # "ABSENT"
                               /\ ~ApiReady(a) => ~ApiReady(b)
         /\ b = Backfilled(a) \/ b = Recovered(a) => b.status # "ABSENT"
         /\ b = Retried(a) => b.status # "ABSENT"
  <1>1. Kept(a, b) => b.status # "ABSENT" /\ (~ApiReady(a) => ~ApiReady(b))
    BY KeptReady DEF Kept
  <1>2. b = Claimed(a) => b.status = "PROCESSING"
    BY DEF Row, Claimed
  <1>3. ASSUME NEW n \in Answers, NEW on \in BOOLEAN, b = Completed(a, n, on)
        PROVE  b.status = "COMPLETED"
    BY <1>3 DEF Row, Completed
  <1>4. b.status \in {"PROCESSING", "COMPLETED"} => b.status # "ABSENT" /\ ~ApiReady(b)
    BY DEF ApiReady, ApiClaimable
  <1>5. b = Backfilled(a) => b.status # "ABSENT"
    BY DEF Row, Backfilled
  <1>6. b = Recovered(a) => b.status # "ABSENT"
    BY DEF Row, Recovered
  <1>7. b = Retried(a) => b.status # "ABSENT"
    <2>1. CASE a.route = "API_ANALYSIS" /\ a.retries + 1 >= MaxRetryCount
      BY <2>1 DEF Row, Retried
    <2>2. CASE a.route = "API_ANALYSIS" /\ ~(a.retries + 1 >= MaxRetryCount)
      BY <2>2 DEF Row, Retried
    <2>3. CASE a.route # "API_ANALYSIS"
      BY <2>3 DEF Retried
    <2> QED  BY <2>1, <2>2, <2>3
  <1> QED  BY <1>1, <1>2, <1>3, <1>4, <1>5, <1>6, <1>7 DEF Rewritten

\* A request once in the table stays there.
LEMMA StaysPresent ==
  ASSUME TypeOK, [Next]_vars, NEW r \in Ids, rows[r].status # "ABSENT"
  PROVE  rows'[r].status # "ABSENT"
  <1>1. rows[r] \in Row
    BY DEF TypeOK
  <1>2. CASE Touched(r)
    BY <1>2, TouchedKept DEF Kept
  <1>3. CASE \E w \in Workers : Written(w, r)
    BY <1>1, <1>3, WrittenCases, StatusOperators
  <1> QED  BY <1>2, <1>3, NextRows

\* While a worker with the lock is past the recoveries, no request comes back to
\* the analysis queue, except by the failed analysis that ends its run.
LEMMA NotReadied ==
  ASSUME TypeOK, LockInv, [Next]_vars, NEW v \in Workers,
         pc[v] \notin {"idle", "ensure_schema", "recover_incomplete_requests"},
         NEW r \in Ids, rows[r].status # "ABSENT", ~ApiReady(rows[r])
  PROVE  ~ApiReady(rows'[r]) \/ pc'[v] = "release_lock"
  <1>1. CASE Touched(r)
    BY <1>1, TouchedKept, KeptReady
  <1>2. ASSUME NEW w \in Workers, InnerStep(w), Written(w, r)
        PROVE  ~ApiReady(rows'[r]) \/ pc'[v] = "release_lock"
    <2>1. w = v
      BY <1>2, StepTaken DEF LockInv
    <2>2. CASE MarkRetry(v)
      BY <2>2, EndRunAlone DEF MarkRetry, Statement
    <2>3. CASE Rewritten(rows[r], rows'[r])
      BY <2>3, StatusOperators DEF TypeOK
    <2> QED  BY <1>2, <2>1, <2>2, <2>3, WrittenCases
  <1> QED  BY <1>1, <1>2, NextRows

\* At step p with row j and the locals l, request r is still to come, or in hand
\* to be claimed.
Ahead(r, p, j, l) == r \in ToSet(l.batch) \/ (j = r /\ p = "claim_api_request")

\* Where the loop of process_api_queue is on the last batch it lists.
LastBatch(p, l) == /\ l.phase = "queue" /\ ~l.full
                   /\ p \notin {"list_api_ready", "mark_retry"}

\* What was in the queue when the loop began is out of it or ahead, once the loop
\* is on its last batch.
DueOK(w) ==
  \A r \in history[w].due :
    /\ rows[r].status # "ABSENT"
    /\ LastBatch(pc[w], local[w]) =>
         ~ApiReady(rows[r]) \/ Ahead(r, pc[w], job[w], local[w])

DueInv == \A w \in Workers : DueOK(w)

\* Where Continue goes from a batch: the rest of it stays ahead.
LEMMA GoesOnAhead ==
  ASSUME NEW l \in Local, NEW p, NEW j, NEW m, GoesOn(l, p, j, m), LastBatch(p, m),
         NEW r, r \in ToSet(l.batch)
  PROVE  Ahead(r, p, j, m)
  <1>1. l.batch # <<>>
    BY EmptyBatch
  <1>2. /\ p = ClaimStep(l.phase) /\ j = Head(l.batch)
        /\ m.batch = Tail(l.batch) /\ m.phase = l.phase
    BY <1>1, NextInBatch DEF GoesOn
  <1>3. p = "claim_api_request"
    BY <1>2 DEF LastBatch, ClaimStep
  <1>4. ToSet(l.batch) = {Head(l.batch)} \cup ToSet(Tail(l.batch))
    BY <1>1, BatchEnds DEF Local
  <1> QED  BY <1>2, <1>3, <1>4 DEF Ahead

\* Continue comes to, or stays on, the last batch only from it.
LEMMA GoesOnLast ==
  ASSUME NEW l \in Local, NEW p, NEW j, NEW m, GoesOn(l, p, j, m), LastBatch(p, m)
  PROVE  l.phase = "queue" /\ ~l.full /\ l.batch # <<>>
  <1>1. CASE l.batch # <<>> /\ m = Advanced(l)
    BY <1>1, NextInBatch DEF LastBatch
  <1>2. CASE p = ListStep(l.phase) /\ m = [l EXCEPT !.full = FALSE]
    <2>1. m.phase = l.phase
      BY <1>2 DEF Local
    <2> QED  BY <1>2, <2>1 DEF LastBatch, ListStep
  <1>3. CASE p = "list_api_ready"
    BY <1>3 DEF LastBatch
  <1>4. CASE m = FreshLocal("backlog")
    BY <1>4, FreshPhase DEF LastBatch
  <1> QED  BY <1>1, <1>2, <1>3, <1>4 DEF GoesOn

\* The claim takes its row out of the queue.
LEMMA ClaimLeaves ==
  ASSUME TypeOK, NEW w \in Workers, InnerStep(w), pc[w] = "claim_api_request",
         NEW r \in Ids, job[w] = r, pc'[w] # "release_lock"
  PROVE  ~ApiReady(rows[r]) \/ ~ApiReady(rows'[r])
  <1>1. ClaimApiRequest(w) /\ ~EndRun(w)
    BY StepTaken, EndRunAlone
  <1>2. CASE ApiClaimable(rows[r])
    <2>1. rows' = [rows EXCEPT ![r] = Claimed(rows[r])]
      BY <1>1, <1>2 DEF ClaimApiRequest, Statement
    <2>2. rows'[r] = Claimed(rows[r]) /\ rows[r] \in Row
      BY <2>1 DEF TypeOK
    <2> QED  BY <2>2 DEF Claimed, Row, ApiReady, ApiClaimable
  <1> QED  BY <1>2 DEF ApiReady

LEMMA DueMove ==
  ASSUME TypeOK, NEW w \in Workers, InnerStep(w), LoopOK(pc[w], job[w], local[w]),
         NEW r \in Ids, LastBatch(pc'[w], local'[w]),
         LastBatch(pc[w], local[w]) =>
           ~ApiReady(rows[r]) \/ Ahead(r, pc[w], job[w], local[w])
  PROVE  ~ApiReady(rows[r]) \/ ~ApiReady(rows'[r]) \/ Ahead(r, pc'[w], job'[w], local'[w])
  <1> DEFINE l == local[w]
             goal == ~ApiReady(rows[r]) \/ ~ApiReady(rows'[r])
                       \/ Ahead(r, pc'[w], job'[w], local'[w])
  <1>0. l \in Local /\ RunMove(w)
    BY RunMoves DEF TypeOK
  <1>1. CASE EndRun(w)
    <2>1. local'[w].phase = "backlog"
      BY <1>1, EnterAlone, FreshPhase DEF EndRun
    <2> QED  BY <2>1 DEF LastBatch
  <1>2. CASE pc[w] \in LoopTails /\ Continue(w, l)
    <2>1. GoesOn(l, pc'[w], job'[w], local'[w])
      BY <1>2, ContinueGoesOn
    <2>2. l.phase = "queue" /\ ~l.full
      BY <1>0, <2>1, GoesOnLast
    <2>3. LastBatch(pc[w], l) /\ pc[w] # "claim_api_request"
      BY <1>2, <2>2 DEF LastBatch, LoopTails
    <2>4. ~ApiReady(rows[r]) \/ r \in ToSet(l.batch)
      BY <2>3 DEF Ahead
    <2> QED  BY <1>0, <2>1, <2>4, GoesOnAhead
  <1>3. CASE SendListing(w)
    <2>1. PICK b \in FirstRows(SendQueueAfter(l.cursor), MailSendBatchSize, ById) :
            Continue(w, With(l, b, MailSendBatchSize))
      BY <1>3 DEF SendListing, With
    <2>2. SendQueueAfter(l.cursor) \in SUBSET Ids
      BY DEF SendQueueAfter
    <2>3. b \in Seq(Ids)
      BY <2>1, <2>2, Listed, ListingKeys
    <2>4. l.phase = "backlog"
      BY <1>3 DEF SendListing, LoopOK, Early
    <2> DEFINE m == With(l, b, MailSendBatchSize)
    <2>5. m \in Local /\ m.phase = "backlog"
      BY <1>0, <2>3, <2>4, WithBatch
    <2>6. GoesOn(m, pc'[w], job'[w], local'[w])
      BY <2>1, ContinueGoesOn
    <2> HIDE DEF m
    <2> QED  BY <2>5, <2>6, GoesOnLast
  <1>4. CASE ApiListing(w)
    <2> DEFINE S == {i \in Ids : ApiReady(rows[i])}
    <2>1. PICK b \in FirstRows(S, MaxAnalysisPerRun, RetryFirst) :
            Continue(w, With(l, b, MaxAnalysisPerRun))
      BY <1>4 DEF ApiListing, With
    <2>2. S \in SUBSET Ids /\ (r \in S <=> ApiReady(rows[r]))
      OBVIOUS
    <2> HIDE DEF S
    <2>3. b \in Seq(Ids) /\ (Len(b) # MaxAnalysisPerRun => S \subseteq ToSet(b))
      BY <2>1, <2>2, Listed, ListingKeys
    <2> DEFINE m == With(l, b, MaxAnalysisPerRun)
    <2>4. m \in Local /\ m.batch = b /\ m.full = (Len(b) = MaxAnalysisPerRun)
      BY <1>0, <2>3, WithBatch
    <2>5. GoesOn(m, pc'[w], job'[w], local'[w])
      BY <2>1, ContinueGoesOn
    <2> HIDE DEF m
    <2>6. Len(b) # MaxAnalysisPerRun
      BY <2>4, <2>5, GoesOnLast
    <2> QED  BY <2>2, <2>3, <2>4, <2>5, <2>6, GoesOnAhead
  <1>5. ASSUME NEW t \in Steps, Edge(w, pc[w], t), Goto(w, t)
        PROVE  goal
    <2>1. pc'[w] = t /\ job'[w] = job[w] /\ local'[w] = local[w]
      BY <1>5, GotoAlone
    <2>2. pc[w] \notin {"list_api_ready", "mark_retry"} /\ t # "release_lock"
      BY <1>5 DEF Edge
    <2>3. ~ApiReady(rows[r]) \/ Ahead(r, pc[w], job[w], local[w])
      BY <2>1, <2>2 DEF LastBatch
    <2> QED  BY <2>1, <2>2, <2>3, ClaimLeaves DEF Ahead
  <1>6. CASE EnterPhase(w, "queue", "list_api_ready")
    BY <1>6, EnterAlone DEF LastBatch
  <1>7. CASE pc[w] = "collect_legacy_pop3_mail" /\ UNCHANGED <<pc, job, local>>
    BY <1>7 DEF LastBatch, LoopOK, Early
  <1>8. ASSUME pc[w] = "analyze_request", UNCHANGED job,
               pc' = [pc EXCEPT ![w] = "mark_completed"],
               NEW a, local' = [local EXCEPT ![w] = [local[w] EXCEPT !.answer = a]]
        PROVE  goal
    <2>1. local'[w] = [l EXCEPT !.answer = a]
      BY <1>8 DEF TypeOK
    <2>2. /\ local'[w].batch = l.batch /\ local'[w].phase = l.phase
          /\ local'[w].full = l.full
      BY <1>0, <2>1 DEF Local
    <2> QED  BY <1>8, <2>2 DEF LastBatch, Ahead
  <1> QED  BY <1>0, <1>1, <1>2, <1>3, <1>4, <1>5, <1>6, <1>7, <1>8 DEF RunMove

\* The schema and the recovery come before the queues.
LEMMA EarlyGoes ==
  ASSUME TypeOK, NEW w \in Workers, InnerStep(w),
         pc[w] \in {"ensure_schema", "recover_incomplete_requests"}
  PROVE  pc'[w] \in Early
  <1>1. CASE EndRun(w)
    BY <1>1, EndRunAlone DEF Early
  <1>2. CASE \E t \in Steps : Edge(w, pc[w], t) /\ Goto(w, t)
    BY <1>2, GotoAlone DEF Edge, Early
  <1> QED  BY <1>1, <1>2, RunMoves DEF RunMove, LoopTails, SendListing, ApiListing

LEMMA DueStep ==
  ASSUME TypeOK, LockInv, LoopInv, HistoryOK, DueInv, [HNext]_hvars
  PROVE  DueInv'
  <1> SUFFICES ASSUME NEW v \in Workers, NEW r \in history'[v].due
               PROVE  /\ rows'[r].status # "ABSENT"
                      /\ LastBatch(pc'[v], local'[v]) =>
                           ~ApiReady(rows'[r]) \/ Ahead(r, pc'[v], job'[v], local'[v])
    BY DEF DueInv, DueOK
  <1>1. /\ [Next]_vars /\ pc'[v] # "idle" /\ r \in Due(v)
        /\ LoopOK(pc[v], job[v], local[v]) /\ LoopOK(pc'[v], job'[v], local'[v])
    <2>1. [Next]_vars /\ pc'[v] # "idle" /\ r \in Due(v)
      BY Recorded, NewRunRecord
    <2> QED  BY <2>1, LoopInvStep DEF LoopInv
  <1>2. CASE EntersQueue(v)
    <2>1. r \in Ids /\ ApiReady(rows[r])
      BY <1>1, <1>2 DEF Due
    <2>2. rows[r].status # "ABSENT"
      BY <2>1 DEF ApiReady, ApiClaimable
    <2>3. ~LastBatch(pc'[v], local'[v])
      BY <1>2 DEF EntersQueue, LastBatch
    <2> QED  BY <1>1, <2>1, <2>2, <2>3, StaysPresent
  <1>3. CASE ~EntersQueue(v)
    <2>1. r \in history[v].due /\ r \in Ids /\ pc[v] # "idle"
      BY <1>1, <1>3, NewRunRecord DEF Due, HistoryOK, Record
    <2>2. /\ rows[r].status # "ABSENT"
          /\ LastBatch(pc[v], local[v]) =>
               ~ApiReady(rows[r]) \/ Ahead(r, pc[v], job[v], local[v])
      BY <2>1 DEF DueInv, DueOK
    <2>3. ASSUME LastBatch(pc'[v], local'[v])
          PROVE  ~ApiReady(rows'[r]) \/ Ahead(r, pc'[v], job'[v], local'[v])
      <3>1. pc'[v] \notin Early
        BY <1>1, <2>3 DEF LoopOK, LastBatch
      <3>2. pc'[v] # "release_lock" /\ ~OutsideStep(v)
        BY <3>1, OutsideMoves DEF Early
      <3>3. \/ ~ApiReady(rows[r]) \/ ~ApiReady(rows'[r])
            \/ Ahead(r, pc'[v], job'[v], local'[v])
        <4>1. CASE InnerStep(v)
          BY <1>1, <2>1, <2>2, <2>3, <4>1, DueMove
        <4>2. CASE pc'[v] = pc[v] /\ job'[v] = job[v] /\ local'[v] = local[v]
          BY <2>2, <2>3, <4>2
        <4> QED  BY <1>1, <3>2, <4>1, <4>2, Bystanders
      <3>4. pc[v] \notin {"ensure_schema", "recover_incomplete_requests"}
        <4>1. CASE InnerStep(v)
          BY <3>1, <4>1, EarlyGoes
        <4>2. CASE pc'[v] = pc[v]
          BY <3>1, <4>2 DEF Early
        <4> QED  BY <1>1, <3>2, <4>1, <4>2, Bystanders
      <3> QED  BY <1>1, <2>1, <2>2, <3>2, <3>3, <3>4, NotReadied
    <2> QED  BY <1>1, <2>1, <2>2, <2>3, StaysPresent
  <1> QED  BY <1>2, <1>3

\* A run that ends without a failure leaves nothing that was in the analysis queue
\* when process_api_queue began, in how many batches whatsoever and whatever else
\* comes meanwhile; the lock has to hold, since another run might recover a request
\* that this one has passed.
THEOREM QueueServed == LockHolds => (HSpec => QueueDrained)
  <1> SUFFICES ASSUME LockHolds PROVE HSpec => QueueDrained
    OBVIOUS
  <1>1. HInit => DueInv
    BY NewRunRecord DEF HInit, DueInv, DueOK
  <1>2. TypeOK /\ LockInv /\ LoopInv /\ HistoryOK /\ DueInv /\ [HNext]_hvars => DueInv'
    BY DueStep
  <1>3. ASSUME TypeOK, LoopInv, HistoryOK, DueInv, HNext,
               NEW w \in Workers, Leaves(w, Steps \ {"mark_retry", "idle"}),
               pc'[w] = "release_lock", UNCHANGED faults, NEW r \in history[w].due
        PROVE  ~ApiReady(rows[r])
    <2> DEFINE l == local[w]
    <2>1. /\ l \in Local /\ LoopOK(pc[w], job[w], l) /\ r \in Ids
          /\ LastBatch(pc[w], l) => ~ApiReady(rows[r]) \/ Ahead(r, pc[w], job[w], l)
      BY <1>3 DEF TypeOK, LoopInv, HistoryOK, Record, DueInv, DueOK
    <2>2. InnerStep(w)
      BY <1>3, Bystanders, OutsideMoves DEF HNext, Leaves
    <2>3. \A kind \in FaultKinds : ~Fault(kind)
      BY <1>3 DEF Fault, TypeOK
    <2>4. CASE pc[w] \in LoopTails /\ Continue(w, l)
      <3>1. l.batch = <<>> /\ ~l.full /\ l.phase = "queue"
        BY <1>3, <2>4, ContinueGoesOn DEF GoesOn, ClaimStep, ListStep
      <3>2. LastBatch(pc[w], l) /\ pc[w] # "claim_api_request"
        BY <2>4, <3>1 DEF LastBatch, LoopTails
      <3> QED  BY <2>1, <3>1, <3>2, EmptyBatch DEF Ahead
    <2>5. CASE SendListing(w)
      <3>1. PICK b : Continue(w, With(l, b, MailSendBatchSize))
        BY <2>5 DEF SendListing, With
      <3>2. l.phase = "backlog"
        BY <2>1, <2>5 DEF SendListing, LoopOK, Early
      <3>3. With(l, b, MailSendBatchSize).phase = "backlog"
        BY <2>1, <3>2 DEF With, Local
      <3> QED  BY <1>3, <3>1, <3>3, ContinueGoesOn DEF GoesOn, ClaimStep, ListStep
    <2>6. CASE ApiListing(w)
      <3> DEFINE S == {i \in Ids : ApiReady(rows[i])}
      <3>1. PICK b \in FirstRows(S, MaxAnalysisPerRun, RetryFirst) :
              Continue(w, With(l, b, MaxAnalysisPerRun))
        BY <2>6 DEF ApiListing, With
      <3>2. S \in SUBSET Ids /\ (r \in S <=> ApiReady(rows[r]))
        BY <2>1
      <3> HIDE DEF S
      <3>3. b \in Seq(Ids) /\ (b = <<>> => S = {})
        BY <1>3, <3>1, <3>2, Listed, ListingKeys
      <3>4. With(l, b, MaxAnalysisPerRun).batch = <<>>
        BY <1>3, <3>1, ContinueGoesOn DEF GoesOn, ClaimStep, ListStep
      <3> QED  BY <2>1, <3>2, <3>3, <3>4, WithBatch
    <2>7. ASSUME NEW t \in Steps, Edge(w, pc[w], t), Goto(w, t) PROVE FALSE
      BY <1>3, <2>7, GotoAlone DEF Edge
    <2>8. ~EnterPhase(w, "queue", "list_api_ready")
      BY <1>3, EnterAlone
    <2>9. pc[w] # "mark_retry" /\ pc'[w] # pc[w] /\ pc'[w] # "mark_completed"
      BY <1>3 DEF Leaves
    <2>10. pc' # [pc EXCEPT ![w] = "mark_completed"]
      BY <1>3, <2>9 DEF TypeOK
    <2> QED  BY <2>2, <2>3, <2>4, <2>5, <2>6, <2>7, <2>8, <2>9, <2>10, RunMoves
             DEF RunMove
  <1>4. TypeOK /\ LoopInv /\ HistoryOK /\ DueInv /\ [HNext]_hvars
          => [\A w \in Workers :
                /\ Leaves(w, Steps \ {"mark_retry", "idle"})
                /\ pc'[w] = "release_lock"
                /\ UNCHANGED faults
                => \A r \in history[w].due : ~ApiReady(rows[r])]_hvars
    BY <1>3
  <1> QED  BY <1>1, <1>2, <1>4, HistoryIsSpec, TypeCorrect, LockInvHolds, LoopInvHolds,
              HistoryOKHolds, PTL DEF HSpec, QueueDrained
=============================================================================
