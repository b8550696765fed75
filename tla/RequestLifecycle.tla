-------------------------- MODULE RequestLifecycle --------------------------
(***************************************************************************)
(* What the program promises to one requester, with no table, no processes  *)
(* and no failures: a request is analysed until it is answered or its       *)
(* attempts are used up, and its answer is delivered once, and once more    *)
(* only for each time a human has asked for it.  RequestRefinement.tla      *)
(* shows that RequestPipeline.tla keeps this promise.                       *)
(*                                                                          *)
(* A life is a record:                                                      *)
(*   stage     where the request stands; "none" is nobody's request (yet)   *)
(*   tries     analyses that have failed                                    *)
(*   mails     deliveries of its answer                                     *)
(*   permits   times a human has put its mail back                          *)
(***************************************************************************)
EXTENDS Integers

CONSTANTS Requests,       \* the requests there may be
          MaxRetryCount   \* MAX_RETRY_COUNT

VARIABLE life

Unanswered == {"none", "queued", "running", "failed"}
Answered   == {"ready", "sending", "sent", "in_doubt", "dropped"}

Life == [stage : Unanswered \cup Answered, tries : Nat, mails : Nat,
         permits : Nat]

\* There is a delivery left for the answer.
Unsent(a) == a.mails <= a.permits

----------------------------------------------------------------------------
(* What may happen to a request, as a relation between its lives before and *)
(* after.                                                                   *)

Becomes(a, b, from, to) == /\ a.stage \in from
                           /\ b = [a EXCEPT !.stage = b.stage]
                           /\ b.stage \in to

Enter(a, b)     == Becomes(a, b, {"none"}, {"queued"})
Begin(a, b)     == Becomes(a, b, {"queued"}, {"running"})
\* The attempt was cut short and does not count.
Interrupt(a, b) == Becomes(a, b, {"running"}, {"queued"})

\* Only the last failed attempt gives the request up.
Fail(a, b) ==
  /\ a.stage = "running"
  /\ b = [a EXCEPT !.tries = @ + 1,
                   !.stage = IF a.tries + 1 = MaxRetryCount THEN "failed"
                                                            ELSE "queued"]

Answer(a, b) == Becomes(a, b, {"running"}, {"ready"}) /\ Unsent(a)

\* The mail is taken out of the queue, and returns to it if it was surely
\* not delivered.
Take(a, b)   == Becomes(a, b, {"ready"}, {"sending"}) /\ Unsent(a)
Return(a, b) == Becomes(a, b, {"sending"}, {"ready"}) /\ Unsent(a)

\* The mail reaches the requester; a human may have moved the request on
\* while it was on its way.
Deliver(a, b) == /\ a.stage \in Answered \ {"sent"}
                 /\ Unsent(a)
                 /\ b = [a EXCEPT !.mails = @ + 1]

Confirm(a, b) == Becomes(a, b, {"sending"}, {"sent"}) /\ a.mails > 0
Doubt(a, b)   == Becomes(a, b, {"sending"}, {"in_doubt"})

\* The human's part.
Drop(a, b)   == Becomes(a, b, {"ready", "sending", "in_doubt"}, {"dropped"})
Reopen(a, b) == /\ a.stage \in {"in_doubt", "dropped"}
                /\ b = [a EXCEPT !.stage = "ready", !.permits = @ + 1]

Moves(a, b) ==
  \/ Enter(a, b) \/ Begin(a, b) \/ Interrupt(a, b) \/ Fail(a, b)
  \/ Answer(a, b) \/ Take(a, b) \/ Return(a, b) \/ Deliver(a, b)
  \/ Confirm(a, b) \/ Doubt(a, b) \/ Drop(a, b) \/ Reopen(a, b)

----------------------------------------------------------------------------
\* A request that an older release has left may start anywhere, with as many
\* attempts used up as its stage allows and no delivery of this release.
Fresh(a) ==
  /\ a \in Life
  /\ a.mails = 0 /\ a.permits = 0
  /\ a.stage \in {"none", "queued", "running"} => a.tries < MaxRetryCount
  /\ a.stage = "failed" => a.tries = MaxRetryCount
  /\ a.stage \notin {"sending", "sent", "in_doubt", "dropped"}

Init == /\ DOMAIN life = Requests
        /\ \A r \in Requests : Fresh(life[r])

\* One statement may move several requests (a recovery), each by one move.
Next == /\ life' = [r \in Requests |-> life'[r]]
        /\ \A r \in Requests : life'[r] = life[r] \/ Moves(life[r], life'[r])

Spec == Init /\ [][Next]_life

----------------------------------------------------------------------------
\* The promise, for a request: within its attempts, nothing mailed without an
\* answer, once per permit, and what counts as sent has been delivered.
Kept(a) == /\ a \in Life
           /\ a.stage \in {"none", "queued", "running"} => a.tries < MaxRetryCount
           /\ a.stage = "failed" => a.tries = MaxRetryCount
           /\ a.stage \in Unanswered => a.mails = 0
           /\ a.mails <= 1 + a.permits
           /\ a.stage = "sent" => a.mails > 0

PromiseKept == \A r \in Requests : Kept(life[r])
=============================================================================
