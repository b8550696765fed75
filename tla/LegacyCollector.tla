--------------------------- MODULE LegacyCollector ---------------------------
(***************************************************************************)
(* collect_legacy_pop3_mail (run.py) with iter_messages (mail_client.py),   *)
(* parse_mail (mail_parser.py), uidl_exists and insert_received (db.py).    *)
(* Mail stays on the POP3 server, so each run lists the whole mailbox and   *)
(* stores what the table does not know.  The central collector              *)
(* (email-ingestion) stores mail of the same mailbox beside it.             *)
(*                                                                          *)
(* RequestPipeline.tla has this component as two actions, InsertReceived    *)
(* and CollectLegacyMail; here is why they end or fail.                     *)
(***************************************************************************)
EXTENDS Integers, Sequences, FiniteSets, SequencesExt

CONSTANTS
  MailCount,    \* bound: mails that may come, in the order of the mailbox
  Workers,      \* processes that may collect (two, once the lock dropped)
  Uidl,         \* the value of a mail's UIDL in comparisons of the column
  Titled,       \* mails whose subject starts with TARGET_SUBJECT_PREFIX
  Unparsable,   \* mails at which parse_mail raises
  Uninsertable, \* mails with a value that a column refuses
  Unlabelled,   \* mails whose line of the UIDL listing has no UIDL
  Faults,       \* kinds of failure that may happen
  MaxFaults     \* bound: failures in one behaviour

Mails == 1..MailCount

FaultKinds == {"pop3", "db", "crash"}

ASSUME CollectorAssumption ==
  /\ MailCount \in Nat
  /\ DOMAIN Uidl = Mails
  /\ Titled \subseteq Mails /\ Unparsable \subseteq Mails
  /\ Uninsertable \subseteq Mails /\ Unlabelled \subseteq Mails
  /\ Faults \subseteq FaultKinds /\ MaxFaults \in Nat

VARIABLES
  mailbox,  \* the mails on the server
  arrived,  \* how many mails have come so far
  table,    \* the rows of ae_llm_agent_mail: which mail, and its status
  pc,       \* what each worker does next
  todo,     \* what is left of each worker's listing
  faults    \* failures so far

vars == <<mailbox, arrived, table, pc, todo, faults>>

Steps == {"idle", "retr", "uidl_exists", "parse_mail", "insert_received",
          "run_once"}

Known(m)  == \E row \in table : Uidl[row.mail] = Uidl[m]
Stored(m) == \E row \in table : row.mail = m

Init ==
  /\ arrived \in 0..MailCount
  /\ mailbox \in SUBSET (1..arrived)
  /\ table = {}
  /\ pc = [w \in Workers |-> "idle"]
  /\ todo = [w \in Workers |-> <<>>]
  /\ faults = 0

----------------------------------------------------------------------------
Fault(kind) == kind \in Faults /\ faults < MaxFaults /\ faults' = faults + 1

At(w, step)   == pc[w] = step
Goto(w, step) == pc' = [pc EXCEPT ![w] = step] /\ UNCHANGED todo

\* An exception ends the generator, the session and the run.
Raise(w) == /\ pc' = [pc EXCEPT ![w] = "idle"]
            /\ todo' = [todo EXCEPT ![w] = <<>>]

\* The loop goes on with the next mail, or the run with _run_once.
NextMail(w) ==
  /\ todo' = [todo EXCEPT ![w] = Tail(@)]
  /\ pc' = [pc EXCEPT ![w] = IF Len(todo[w]) > 1 THEN "retr" ELSE "run_once"]

\* A new session: its listing is that of the mails there are now, in order (there
\* is one).  A line without a UIDL is passed over.
Listings == {l \in SeqOf(mailbox \ Unlabelled, MailCount) :
               /\ \A i, j \in 1..Len(l) : i < j => l[i] < l[j]
               /\ ToSet(l) = mailbox \ Unlabelled}

ListMailbox(w) ==
  /\ At(w, "idle")
  /\ \/ /\ \E l \in Listings :
             /\ todo' = [todo EXCEPT ![w] = l]
             /\ pc' = [pc EXCEPT ![w] = IF l = <<>> THEN "run_once" ELSE "retr"]
        /\ UNCHANGED faults
     \/ Fault("pop3") /\ UNCHANGED <<pc, todo>>
  /\ UNCHANGED <<mailbox, arrived, table>>

\* Within a session message numbers do not move, but a mail may be gone.
Retr(w) ==
  /\ At(w, "retr")
  /\ \/ /\ Head(todo[w]) \in mailbox
        /\ \/ Goto(w, "uidl_exists") /\ UNCHANGED faults
           \/ Raise(w) /\ Fault("pop3")
     \/ Head(todo[w]) \notin mailbox /\ Raise(w) /\ UNCHANGED faults
  /\ UNCHANGED <<mailbox, arrived, table>>

\* Slips: the first known mail ends the loop; nothing is looked up.
UidlExistsEndsLoop(w) ==
  /\ At(w, "uidl_exists")
  /\ IF Known(Head(todo[w]))
     THEN /\ todo' = [todo EXCEPT ![w] = <<>>]
          /\ pc' = [pc EXCEPT ![w] = "run_once"]
     ELSE Goto(w, "parse_mail")
  /\ UNCHANGED <<mailbox, arrived, table, faults>>

UidlExistsNot(w) ==
  /\ At(w, "uidl_exists")
  /\ Goto(w, "parse_mail")
  /\ UNCHANGED <<mailbox, arrived, table, faults>>

UidlExists(w) ==
  /\ At(w, "uidl_exists")
  /\ \/ /\ UNCHANGED faults
        /\ IF Known(Head(todo[w])) THEN NextMail(w) ELSE Goto(w, "parse_mail")
     \/ Raise(w) /\ Fault("db")
  /\ UNCHANGED <<mailbox, arrived, table>>

\* The body is decoded before anyone asks for the title: mail of any kind can
\* fail here (an unknown charset, LookupError).
ParseMail(w) ==
  /\ At(w, "parse_mail")
  /\ CASE Head(todo[w]) \in Unparsable            -> Raise(w)
       [] Head(todo[w]) \in Titled \ Unparsable   -> Goto(w, "insert_received")
       [] Head(todo[w]) \notin Titled \cup Unparsable -> NextMail(w)
  /\ UNCHANGED <<mailbox, arrived, table, faults>>

WithRow(m) == table \cup {[mail |-> m, status |-> "ROUTED"]}

\* Slip: uidl is an index and not a unique key.
Refused(m) == m \in Uninsertable

\* The unique key on uidl, or the type of a column.
InsertFails(m) == Known(m) \/ m \in Uninsertable

InsertReceived(w) ==
  /\ At(w, "insert_received")
  /\ \/ /\ InsertFails(Head(todo[w]))
        /\ Raise(w) /\ UNCHANGED <<table, faults>>
     \/ /\ ~InsertFails(Head(todo[w]))
        /\ \/ /\ table' = WithRow(Head(todo[w]))
              /\ NextMail(w) /\ UNCHANGED faults
           \/ /\ table' \in {table, WithRow(Head(todo[w]))}
              /\ Raise(w) /\ Fault("db")
  /\ UNCHANGED <<mailbox, arrived>>

\* The rest of the run, RequestPipeline.tla.
RunOnce(w) ==
  /\ At(w, "run_once") /\ Goto(w, "idle")
  /\ UNCHANGED <<mailbox, arrived, table, faults>>

Step(w) == \/ ListMailbox(w) \/ Retr(w) \/ UidlExists(w) \/ ParseMail(w)
           \/ InsertReceived(w) \/ RunOnce(w)

Crash(w) == /\ ~At(w, "idle")
            /\ Fault("crash") /\ Raise(w)
            /\ UNCHANGED <<mailbox, arrived, table>>

\* New mail comes in behind what is there,
Arrive == /\ arrived < MailCount
          /\ arrived' = arrived + 1
          /\ mailbox' = mailbox \cup {arrived + 1}
          /\ UNCHANGED <<table, pc, todo, faults>>

\* and a sender may recall mail.
Recall(m) == /\ m \in mailbox
             /\ mailbox' = mailbox \ {m}
             /\ UNCHANGED <<arrived, table, pc, todo, faults>>

\* The central collector stores a mail, under the same unique key.
CentralInserts(m) ==
  /\ m \in mailbox \ Uninsertable /\ ~Known(m)
  /\ table' = table \cup {[mail |-> m, status |-> "RECEIVED"]}
  /\ UNCHANGED <<mailbox, arrived, pc, todo, faults>>

Next == \/ \E w \in Workers : Step(w) \/ Crash(w)
        \/ Arrive
        \/ \E m \in Mails : Recall(m) \/ CentralInserts(m)

Spec == Init /\ [][Next]_vars

\* The scheduler starts run after run, and every call of a run returns or
\* raises: the POP3 client has a timeout.
FairSpec == Spec /\ \A w \in Workers : WF_vars(Step(w))

----------------------------------------------------------------------------
(* Properties.                                                              *)

\* The type of every variable; a worker at a mail has that mail.
TypeOK ==
  /\ arrived \in 0..MailCount
  /\ mailbox \subseteq 1..arrived
  /\ table \subseteq [mail : Mails, status : {"ROUTED", "RECEIVED"}]
  /\ pc \in [Workers -> Steps]
  /\ todo \in [Workers -> Seq(Mails)]
  /\ \A w \in Workers : todo[w] = <<>> <=> pc[w] \in {"idle", "run_once"}
  /\ faults \in 0..MaxFaults

\* A mail that is collected by two processes, or again after a lost
\* acknowledgement, becomes one request: uidl_exists is asked long before the
\* INSERT, on another connection.
OneRowPerUidl == \A r, s \in table : Uidl[r.mail] = Uidl[s.mail] => r = s

\* A collection that comes to its end has stored, or found stored, every request
\* that its session listed (mail that comes later has a higher number) and that is
\* still there.
NothingSkipped ==
  [][\A w \in Workers :
       ~At(w, "run_once") /\ At(w, "run_once")' =>
         \A m \in (mailbox \cap Titled) \ Unlabelled :
           todo[w] = <<>> \/ m <= Last(todo[w]) => Known(m)']_vars

\* README, "무누락 처리 보장 방식" 1: a mail whose UIDL is not in the table is
\* stored, unless it is taken from the mailbox first.
NewMailIsStored ==
  \A m \in Titled : m \in mailbox ~> Stored(m) \/ m \notin mailbox

\* Collection comes before the queues in every run: through lost sessions, lost
\* acknowledgements, crashes, recalled mail and refused duplicates it lets a run go
\* on, again and again.  One mail that cannot be parsed or inserted ends every run
\* at the same place: then this does not hold.
RunsGoOn == []<>(\E w \in Workers : At(w, "run_once"))

\* README, "무누락 처리 보장 방식" 5: mail that is not a request is recorded as
\* IGNORED.
OtherMailIsIgnored ==
  \A m \in Mails \ Titled :
    m \in mailbox ~> \/ \E row \in table : row.mail = m /\ row.status = "IGNORED"
                     \/ m \notin mailbox
==============================================================================
