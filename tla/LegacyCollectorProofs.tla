------------------------ MODULE LegacyCollectorProofs ------------------------
(***************************************************************************)
(* Theorems about LegacyCollector.tla, for any mails, any number of         *)
(* collectors and any number of failures.                                   *)
(***************************************************************************)
EXTENDS LegacyCollector, TLAPS

LEMMA NewRowIsTheOnlyOne ==
  ASSUME OneRowPerUidl, NEW m, NEW s, ~Known(m),
         table' = table \cup {[mail |-> m, status |-> s]}
  PROVE  OneRowPerUidl'
BY DEF OneRowPerUidl, Known

\* However the look and the INSERT of several collectors interleave, and
\* whatever acknowledgement is lost, a UIDL has one row.
THEOREM CollectedOnce == Spec => []OneRowPerUidl
<1>1. Init => OneRowPerUidl
  BY DEF Init, OneRowPerUidl
<1>2. OneRowPerUidl /\ [Next]_vars => OneRowPerUidl'
  <2> SUFFICES ASSUME OneRowPerUidl, [Next]_vars PROVE OneRowPerUidl'
    OBVIOUS
  <2>1. ASSUME table' = table PROVE OneRowPerUidl'
    BY <2>1 DEF OneRowPerUidl
  <2>2. ASSUME NEW w \in Workers, InsertReceived(w) PROVE OneRowPerUidl'
    BY <2>1, <2>2, NewRowIsTheOnlyOne DEF InsertReceived, InsertFails, WithRow
  <2>3. ASSUME NEW m \in Mails, CentralInserts(m) PROVE OneRowPerUidl'
    BY <2>3, NewRowIsTheOnlyOne DEF CentralInserts
  <2>4. ASSUME NEW w \in Workers,
               \/ ListMailbox(w) \/ Retr(w) \/ UidlExists(w) \/ ParseMail(w)
               \/ RunOnce(w) \/ Crash(w)
        PROVE  table' = table
    BY <2>4 DEF ListMailbox, Retr, UidlExists, ParseMail, RunOnce, Crash
  <2>5. ASSUME Arrive \/ \E m \in Mails : Recall(m) PROVE table' = table
    BY <2>5 DEF Arrive, Recall
  <2> QED
    BY <2>1, <2>2, <2>3, <2>4, <2>5 DEF Next, Step, vars
<1> QED
  BY <1>1, <1>2, PTL DEF Spec

----------------------------------------------------------------------------
(* The state of a collector.                                                *)

LEMMA Rest ==
  ASSUME NEW s \in Seq(Mails), s # <<>>
  PROVE  /\ Head(s) \in Mails /\ Tail(s) \in Seq(Mails) /\ Last(s) \in Mails
         /\ ToSet(s) \subseteq Mails
         /\ ToSet(s) = {Head(s)} \cup ToSet(Tail(s))
         /\ Len(s) > 1 <=> Tail(s) # <<>>
         /\ Len(s) > 1 => Last(Tail(s)) = Last(s)
  <1> DEFINE n == Len(s)  t == Tail(s)
  <1>1. n \in Nat /\ n >= 1 /\ DOMAIN s = 1..n /\ \A i \in 1..n : s[i] \in Mails
    OBVIOUS
  <1>2. t \in Seq(Mails) /\ Len(t) = n - 1 /\ DOMAIN t = 1..(n - 1)
        /\ \A i \in 1..(n - 1) : t[i] = s[i + 1]
    BY <1>1
  <1>3. Head(s) = s[1] /\ Head(s) \in Mails /\ Last(s) = s[n] /\ Last(s) \in Mails
    BY <1>1 DEF Last
  <1>4. ToSet(s) \subseteq Mails
    BY <1>1 DEF ToSet
  <1>5. ToSet(s) = {Head(s)} \cup ToSet(t)
    <2>1. ASSUME NEW i \in 1..n PROVE s[i] = Head(s) \/ s[i] \in ToSet(t)
      <3>1. CASE i = 1
        BY <1>3, <3>1
      <3>2. CASE i # 1
        <4>1. i - 1 \in 1..(n - 1) /\ (i - 1) + 1 = i
          BY <1>1, <3>2
        <4>2. t[i - 1] = s[i]
          BY <1>2, <4>1
        <4> QED  BY <1>2, <4>1, <4>2 DEF ToSet
      <3> QED  BY <3>1, <3>2
    <2>2. ASSUME NEW i \in 1..(n - 1) PROVE t[i] \in ToSet(s)
      <3>1. i + 1 \in 1..n
        BY <1>1
      <3> QED  BY <1>1, <1>2, <3>1 DEF ToSet
    <2>3. 1 \in 1..n
      BY <1>1
    <2>4. Head(s) \in ToSet(s)
      BY <1>1, <1>3, <2>3 DEF ToSet
    <2>5. ToSet(s) = {s[i] : i \in 1..n} /\ ToSet(t) = {t[i] : i \in 1..(n - 1)}
      BY <1>1, <1>2 DEF ToSet
    <2> HIDE DEF n, t
    <2> QED  BY <2>1, <2>2, <2>4, <2>5
  <1>6. n > 1 <=> t # <<>>
    <2>1. t = <<>> <=> Len(t) = 0
      BY <1>2
    <2>2. n - 1 = 0 <=> ~(n > 1)
      BY <1>1
    <2> QED  BY <1>2, <2>1, <2>2
  <1>7. n > 1 => Last(t) = Last(s)
    BY <1>1, <1>2, <1>3 DEF Last
  <1> QED  BY <1>2, <1>3, <1>4, <1>5, <1>6, <1>7

\* Mail m is in the table after the step.
KnownAfter(m) == \E row \in table' : Uidl[row.mail] = Uidl[m]

\* Where a step takes collector v: it goes on, its session ends, it is done with
\* the first mail of its listing, or it gets a listing.
Continues(v) == pc'[v] # "run_once" /\ todo'[v] = todo[v]
Ends(v)      == pc'[v] = "idle" /\ todo'[v] = <<>>
Done(v)      == /\ todo[v] # <<>> /\ todo'[v] = Tail(todo[v]) /\ mailbox' = mailbox
                /\ pc'[v] = "run_once" => Len(todo[v]) = 1
                /\ Head(todo[v]) \in Titled => KnownAfter(Head(todo[v]))
Lists(v)     == /\ todo[v] = <<>> /\ todo'[v] \in Listings /\ mailbox' = mailbox
                /\ pc'[v] = "run_once" => todo'[v] = <<>>
Stays(v)     == pc'[v] = pc[v] /\ todo'[v] = todo[v]

ControlOK == /\ pc \in [Workers -> Steps] /\ todo \in [Workers -> Seq(Mails)]
             /\ \A w \in Workers : todo[w] = <<>> <=> pc[w] \in {"idle", "run_once"}

LEMMA RaiseControl ==
  ASSUME ControlOK, NEW w \in Workers, Raise(w)
  PROVE  /\ ControlOK' /\ Ends(w) /\ \A v \in Workers \ {w} : Stays(v)
  BY DEF ControlOK, Raise, Ends, Stays, Steps

LEMMA GotoControl ==
  ASSUME ControlOK, NEW w \in Workers, NEW s \in Steps \ {"run_once"}, Goto(w, s),
         s = "idle" <=> todo[w] = <<>>
  PROVE  /\ ControlOK' /\ Continues(w) /\ \A v \in Workers \ {w} : Stays(v)
  BY DEF ControlOK, Goto, Continues, Stays, Steps

LEMMA NextMailControl ==
  ASSUME ControlOK, NEW w \in Workers, todo[w] # <<>>, NextMail(w)
  PROVE  /\ ControlOK' /\ todo'[w] = Tail(todo[w]) /\ \A v \in Workers \ {w} : Stays(v)
         /\ pc'[w] = "run_once" => Len(todo[w]) = 1
  <1>1. /\ Tail(todo[w]) \in Seq(Mails) /\ Len(todo[w]) \in Nat /\ Len(todo[w]) >= 1
        /\ Len(todo[w]) > 1 <=> Tail(todo[w]) # <<>>
        /\ Len(todo[w]) > 1 \/ Len(todo[w]) = 1
    <2>1. todo[w] \in Seq(Mails)
      BY DEF ControlOK
    <2>2. \A k \in Nat : k >= 1 => k > 1 \/ k = 1
      OBVIOUS
    <2>3. Len(todo[w]) \in Nat /\ Len(todo[w]) >= 1
      BY <2>1
    <2> QED  BY <2>1, <2>2, <2>3, Rest
  <1>2. /\ todo' = [todo EXCEPT ![w] = Tail(todo[w])]
        /\ pc' = [pc EXCEPT ![w] = IF Len(todo[w]) > 1 THEN "retr" ELSE "run_once"]
    BY DEF NextMail
  <1> QED  BY <1>1, <1>2 DEF ControlOK, Stays, Steps

LEMMA ListingsType ==
  ASSUME TypeOK, NEW l \in Listings
  PROVE  /\ l \in Seq(Mails) /\ ToSet(l) = mailbox \ Unlabelled
         /\ l # <<>> => Last(l) \in ToSet(l)
  <1>1. mailbox \ Unlabelled \subseteq Mails
    BY CollectorAssumption DEF TypeOK, Mails
  <1>2. PICK n \in 0..MailCount : l \in [1..n -> mailbox \ Unlabelled]
    BY DEF Listings, SeqOf
  <1>3. n \in Nat /\ l \in [1..n -> Mails] /\ DOMAIN l = 1..n
    BY <1>1, <1>2
  <1>4. l \in Seq(Mails) /\ Len(l) = n
    BY <1>3
  <1>5. l # <<>> => n \in 1..n
    BY <1>3, <1>4
  <1>6. l # <<>> => Last(l) \in ToSet(l)
    BY <1>3, <1>4, <1>5 DEF Last, ToSet
  <1> QED  BY <1>4, <1>6 DEF Listings

\* A step of one collector, for all of them.
LEMMA StepControl ==
  ASSUME TypeOK, NEW w \in Workers, Step(w) \/ Crash(w)
  PROVE  /\ ControlOK' /\ \A v \in Workers \ {w} : Stays(v)
         /\ Continues(w) \/ Ends(w) \/ Done(w) \/ Lists(w)
  <1>0. ControlOK
    BY DEF TypeOK, ControlOK
  <1> DEFINE goal == /\ ControlOK' /\ \A v \in Workers \ {w} : Stays(v)
                     /\ Continues(w) \/ Ends(w) \/ Done(w) \/ Lists(w)
  <1>1. CASE Raise(w)
    BY <1>0, <1>1, RaiseControl
  <1>2. ASSUME pc[w] \notin {"idle", "run_once"}, NextMail(w), mailbox' = mailbox,
               Head(todo[w]) \in Titled => KnownAfter(Head(todo[w]))
        PROVE  goal
    <2>1. todo[w] # <<>>
      BY <1>0, <1>2 DEF ControlOK
    <2> QED  BY <1>0, <1>2, <2>1, NextMailControl DEF Done
  <1>3. ASSUME NEW s \in Steps \ {"idle", "run_once"}, pc[w] \notin {"idle", "run_once"},
               Goto(w, s)
        PROVE  goal
    <2>1. todo[w] # <<>>
      BY <1>0, <1>3 DEF ControlOK
    <2> QED  BY <1>0, <1>3, <2>1, GotoControl
  <1>4. CASE ListMailbox(w)
    <2>1. ASSUME NEW l \in Listings, todo' = [todo EXCEPT ![w] = l],
                 pc' = [pc EXCEPT ![w] = IF l = <<>> THEN "run_once" ELSE "retr"]
          PROVE  goal
      <3>1. l \in Seq(Mails) /\ todo[w] = <<>> /\ mailbox' = mailbox
        BY <1>0, <1>4, ListingsType DEF ListMailbox, At, ControlOK
      <3>2. ControlOK' /\ todo'[w] = l /\ (pc'[w] = "run_once" => l = <<>>)
        BY <1>0, <2>1, <3>1 DEF ControlOK, Steps
      <3>3. \A v \in Workers \ {w} : Stays(v)
        BY <1>0, <2>1 DEF ControlOK, Stays
      <3> QED  BY <2>1, <3>1, <3>2, <3>3 DEF Lists
    <2>2. CASE UNCHANGED <<pc, todo>>
      <3>1. ControlOK' /\ \A v \in Workers : Stays(v)
        BY <1>0, <2>2 DEF ControlOK, Stays
      <3>2. Continues(w)
        BY <1>4, <3>1 DEF ListMailbox, At, Continues, Stays
      <3> QED  BY <3>1, <3>2
    <2> QED  BY <1>4, <2>1, <2>2 DEF ListMailbox
  <1>5. CASE Retr(w)
    BY <1>1, <1>3, <1>5 DEF Retr, At, Steps
  <1>6. CASE UidlExists(w)
    <2>1. UNCHANGED <<mailbox, table>> /\ pc[w] = "uidl_exists"
      BY <1>6 DEF UidlExists, At
    <2>2. CASE Known(Head(todo[w])) /\ NextMail(w)
      <3>1. KnownAfter(Head(todo[w]))
        BY <2>1, <2>2 DEF Known, KnownAfter
      <3> QED  BY <1>2, <2>1, <2>2, <3>1
    <2>3. CASE Goto(w, "parse_mail")
      BY <1>3, <2>1, <2>3 DEF Steps
    <2> QED  BY <1>1, <1>6, <2>2, <2>3 DEF UidlExists
  <1>7. CASE ParseMail(w)
    <2>1. mailbox' = mailbox /\ pc[w] = "parse_mail"
      BY <1>7 DEF ParseMail, At
    <2>2. \/ Raise(w) \/ Goto(w, "insert_received")
          \/ Head(todo[w]) \notin Titled /\ NextMail(w)
      BY <1>7 DEF ParseMail
    <2> QED  BY <1>1, <1>2, <1>3, <2>1, <2>2 DEF Steps
  <1>8. CASE InsertReceived(w)
    <2>1. mailbox' = mailbox /\ pc[w] = "insert_received"
      BY <1>8 DEF InsertReceived, At
    <2>2. CASE table' = WithRow(Head(todo[w])) /\ NextMail(w)
      <3> DEFINE new == [mail |-> Head(todo[w]), status |-> "ROUTED"]
      <3>1. new \in table' /\ new.mail = Head(todo[w])
        BY <2>2 DEF WithRow
      <3>2. KnownAfter(Head(todo[w]))
        BY <3>1 DEF KnownAfter
      <3> QED  BY <1>2, <2>1, <2>2, <3>2
    <2>3. Raise(w) \/ (table' = WithRow(Head(todo[w])) /\ NextMail(w))
      BY <1>8 DEF InsertReceived
    <2> QED  BY <1>1, <2>2, <2>3
  <1>9. CASE RunOnce(w)
    <2>1. pc[w] = "run_once" /\ Goto(w, "idle") /\ todo[w] = <<>>
      BY <1>0, <1>9 DEF RunOnce, At, ControlOK
    <2> QED  BY <1>0, <2>1, GotoControl DEF Steps
  <1>10. CASE Crash(w)
    BY <1>1, <1>10 DEF Crash
  <1> QED  BY <1>4, <1>5, <1>6, <1>7, <1>8, <1>9, <1>10 DEF Step

\* What a step of anyone means for collector v, the mailbox and the table.
LEMMA Moves ==
  ASSUME TypeOK, [Next]_vars
  PROVE  /\ ControlOK'
         /\ \A v \in Workers : Continues(v) \/ Ends(v) \/ Done(v) \/ Lists(v) \/ Stays(v)
         /\ arrived' \in 0..MailCount /\ arrived <= arrived'
         /\ mailbox' \subseteq mailbox \cup {arrived + 1} /\ mailbox' \subseteq 1..arrived'
         /\ table \subseteq table'
  <1>0. /\ ControlOK /\ arrived \in Nat /\ arrived <= arrived /\ MailCount \in Nat
    BY CollectorAssumption DEF TypeOK, ControlOK
  <1>1. ASSUME NEW w \in Workers, Step(w) \/ Crash(w)
        PROVE  UNCHANGED <<mailbox, arrived>> /\ table \subseteq table'
    <2>1. CASE InsertReceived(w)
      BY <2>1 DEF InsertReceived, WithRow
    <2>2. CASE \/ ListMailbox(w) \/ Retr(w) \/ UidlExists(w) \/ ParseMail(w)
               \/ RunOnce(w) \/ Crash(w)
      BY <2>2 DEF ListMailbox, Retr, UidlExists, ParseMail, RunOnce, Crash
    <2> QED  BY <1>1, <2>1, <2>2 DEF Step
  <1>2. CASE \E w \in Workers : Step(w) \/ Crash(w)
    BY <1>0, <1>1, <1>2, StepControl DEF TypeOK
  <1>3. ASSUME UNCHANGED <<pc, todo>>
        PROVE  ControlOK' /\ \A v \in Workers : Stays(v)
    BY <1>0, <1>3 DEF ControlOK, Stays
  <1>4. CASE Arrive
    <2>1. /\ UNCHANGED <<table, pc, todo>> /\ arrived < MailCount
          /\ arrived' = arrived + 1 /\ mailbox' = mailbox \cup {arrived + 1}
      BY <1>4 DEF Arrive
    <2>2. /\ arrived + 1 \in 0..MailCount /\ arrived <= arrived + 1
          /\ 1..arrived \subseteq 1..(arrived + 1) /\ arrived + 1 \in 1..(arrived + 1)
      BY <1>0, <2>1
    <2> QED  BY <1>3, <2>1, <2>2 DEF TypeOK
  <1>5. ASSUME NEW m \in Mails, Recall(m) \/ CentralInserts(m)
        PROVE  /\ UNCHANGED <<arrived, pc, todo>> /\ mailbox' \subseteq mailbox
               /\ table \subseteq table'
    BY <1>5 DEF Recall, CentralInserts
  <1>6. CASE \E m \in Mails : Recall(m) \/ CentralInserts(m)
    BY <1>0, <1>3, <1>5, <1>6 DEF TypeOK
  <1>7. CASE UNCHANGED vars
    BY <1>0, <1>3, <1>7 DEF TypeOK, vars
  <1> QED  BY <1>2, <1>4, <1>6, <1>7 DEF Next

\* The rows, and the failures so far.
LEMMA RowsAndFaults ==
  ASSUME TypeOK, [Next]_vars
  PROVE  /\ table' \subseteq [mail : Mails, status : {"ROUTED", "RECEIVED"}]
         /\ faults' \in 0..MaxFaults
  <1> DEFINE Rows == [mail : Mails, status : {"ROUTED", "RECEIVED"}]
  <1>0. table \subseteq Rows /\ faults \in 0..MaxFaults
    BY DEF TypeOK
  <1>1. ASSUME NEW kind, Fault(kind) PROVE faults' \in 0..MaxFaults
    BY <1>1, CollectorAssumption DEF Fault, TypeOK
  <1>2. ASSUME NEW w \in Workers, InsertReceived(w)
        PROVE  table' \subseteq Rows /\ faults' \in 0..MaxFaults
    <2>1. Head(todo[w]) \in Mails
      <3>1. todo[w] \in Seq(Mails) /\ todo[w] # <<>>
        BY <1>2 DEF InsertReceived, At, TypeOK
      <3> QED  BY <3>1, Rest
    <2>2. WithRow(Head(todo[w])) \subseteq Rows
      BY <1>0, <2>1 DEF WithRow
    <2>3. table' \in {table, WithRow(Head(todo[w]))}
      BY <1>2 DEF InsertReceived
    <2>4. UNCHANGED faults \/ Fault("db")
      BY <1>2 DEF InsertReceived
    <2> QED  BY <1>0, <1>1, <2>2, <2>3, <2>4
  <1>3. ASSUME NEW w \in Workers,
               \/ ListMailbox(w) \/ Retr(w) \/ UidlExists(w) \/ ParseMail(w)
               \/ RunOnce(w) \/ Crash(w)
        PROVE  table' \subseteq Rows /\ faults' \in 0..MaxFaults
    <2>1. table' = table /\ (UNCHANGED faults \/ \E kind \in FaultKinds : Fault(kind))
      BY <1>3 DEF ListMailbox, Retr, UidlExists, ParseMail, RunOnce, Crash, FaultKinds
    <2> QED  BY <1>0, <1>1, <2>1
  <1>4. ASSUME NEW m \in Mails, CentralInserts(m)
        PROVE  table' \subseteq Rows /\ faults' = faults
    BY <1>0, <1>4 DEF CentralInserts
  <1>5. Arrive \/ (\E m \in Mails : Recall(m)) \/ UNCHANGED vars
          => table' = table /\ faults' = faults
    BY DEF Arrive, Recall, vars
  <1> QED  BY <1>0, <1>2, <1>3, <1>4, <1>5 DEF Next, Step

LEMMA TypeCorrect == Spec => []TypeOK
  <1>1. Init => TypeOK
    BY CollectorAssumption DEF Init, TypeOK, Steps
  <1>2. TypeOK /\ [Next]_vars => TypeOK'
    BY Moves, RowsAndFaults DEF TypeOK, ControlOK
  <1> QED  BY <1>1, <1>2, PTL DEF Spec

----------------------------------------------------------------------------
(* What a session leaves behind.                                            *)

\* Of the mails up to the last of the session, those that are requests and still
\* in the mailbox are in the table or still to do; what arrives comes after them.
SessionOK(w) ==
  todo[w] # <<>> =>
    /\ Last(todo[w]) <= arrived
    /\ \A m \in (mailbox \cap Titled) \ Unlabelled :
         m <= Last(todo[w]) => m \in ToSet(todo[w]) \/ Known(m)

SessionInv == \A w \in Workers : SessionOK(w)

LEMMA KnownStays ==
  ASSUME table \subseteq table', NEW m, Known(m)
  PROVE  KnownAfter(m)
  BY DEF Known, KnownAfter

\* What the loop is done with is known, and the rest of its listing is to do.
LEMMA DoneKnows ==
  ASSUME TypeOK, SessionInv, [Next]_vars, NEW v \in Workers, Done(v),
         NEW m \in (mailbox' \cap Titled) \ Unlabelled, m <= Last(todo[v])
  PROVE  m \in ToSet(Tail(todo[v])) \/ KnownAfter(m)
  <1>1. todo[v] \in Seq(Mails) /\ todo[v] # <<>> /\ mailbox' = mailbox
    BY DEF TypeOK, Done
  <1>2. m \in ToSet(todo[v]) \/ Known(m)
    BY <1>1 DEF SessionInv, SessionOK
  <1>3. m = Head(todo[v]) \/ m \in ToSet(Tail(todo[v])) \/ Known(m)
    BY <1>1, <1>2, Rest
  <1>4. m = Head(todo[v]) => KnownAfter(m)
    BY DEF Done
  <1> QED  BY <1>3, <1>4, Moves, KnownStays

LEMMA SessionStep ==
  ASSUME TypeOK, SessionInv, [Next]_vars
  PROVE  SessionInv'
  <1> SUFFICES ASSUME NEW v \in Workers, todo'[v] # <<>>
               PROVE  /\ Last(todo'[v]) <= arrived'
                      /\ \A m \in (mailbox' \cap Titled) \ Unlabelled :
                           m <= Last(todo'[v]) => m \in ToSet(todo'[v]) \/ KnownAfter(m)
    BY DEF SessionInv, SessionOK, Known, KnownAfter
  <1>0. /\ arrived \in Nat /\ arrived' \in Nat /\ arrived <= arrived'
        /\ mailbox' \subseteq mailbox \cup {arrived + 1}
        /\ Mails \subseteq Nat
    BY Moves, CollectorAssumption DEF TypeOK, Mails
  <1>1. CASE todo'[v] = todo[v]
    <2>1. Last(todo[v]) \in Nat /\ Last(todo[v]) <= arrived
      BY <1>0, <1>1, Rest DEF SessionInv, SessionOK, TypeOK
    <2>2. ASSUME NEW m \in (mailbox' \cap Titled) \ Unlabelled, m <= Last(todo[v])
          PROVE  m \in ToSet(todo[v]) \/ KnownAfter(m)
      <3>1. m # arrived + 1
        BY <1>0, <2>1, <2>2
      <3>2. m \in ToSet(todo[v]) \/ Known(m)
        BY <1>0, <1>1, <2>2, <3>1 DEF SessionInv, SessionOK
      <3> QED  BY <3>2, Moves, KnownStays
    <2> QED  BY <1>0, <1>1, <2>1, <2>2
  <1>2. CASE Done(v)
    <2>1. todo'[v] = Tail(todo[v]) /\ todo[v] # <<>> /\ todo[v] \in Seq(Mails)
      BY <1>2 DEF Done, TypeOK
    <2>2. Last(todo'[v]) = Last(todo[v]) /\ Last(todo[v]) \in Nat
      BY <1>0, <2>1, Rest
    <2>3. Last(todo[v]) <= arrived
      BY <2>1 DEF SessionInv, SessionOK
    <2> QED  BY <1>0, <1>2, <2>1, <2>2, <2>3, DoneKnows
  <1>3. CASE Lists(v)
    <2>1. ToSet(todo'[v]) = mailbox \ Unlabelled /\ Last(todo'[v]) \in ToSet(todo'[v])
      BY <1>3, ListingsType DEF Lists
    <2>2. Last(todo'[v]) \in 1..arrived
      BY <2>1 DEF TypeOK
    <2>3. mailbox' = mailbox
      BY <1>3 DEF Lists
    <2> QED  BY <1>0, <2>1, <2>2, <2>3
  <1>4. ~Ends(v)
    BY DEF Ends
  <1> QED  BY <1>1, <1>2, <1>3, <1>4, Moves DEF Continues, Stays

\* A collection that comes to its end, whatever other collectors, the central one
\* and the senders do meanwhile, has left no request of its session out: what it
\* has not stored is stored already, and what it cannot store ends the run.
THEOREM CollectionIsComplete == Spec => NothingSkipped
  <1>1. Init => SessionInv
    BY DEF Init, SessionInv, SessionOK
  <1>2. TypeOK /\ SessionInv /\ [Next]_vars => SessionInv'
    BY SessionStep
  <1>3. ASSUME TypeOK, SessionInv, Next, NEW w \in Workers,
               ~At(w, "run_once"), pc'[w] = "run_once",
               NEW m \in (mailbox \cap Titled) \ Unlabelled,
               todo[w] = <<>> \/ m <= Last(todo[w])
        PROVE  KnownAfter(m)
    <2>1. Done(w) \/ Lists(w)
      BY <1>3, Moves DEF Continues, Ends, Stays, At
    <2>2. CASE Done(w)
      <3>1. /\ todo[w] \in Seq(Mails) /\ todo[w] # <<>> /\ mailbox' = mailbox
            /\ Len(todo[w]) = 1
        BY <1>3, <2>2 DEF Done, TypeOK
      <3>2. Tail(todo[w]) = <<>>
        <4>1. ~(Len(todo[w]) > 1)
          BY <3>1
        <4> QED  BY <3>1, <4>1, Rest
      <3>3. ToSet(Tail(todo[w])) = {}
        BY <3>2 DEF ToSet
      <3> QED  BY <1>3, <2>2, <3>1, <3>3, DoneKnows
    <2>3. CASE Lists(w)
      <3>1. ToSet(todo'[w]) = mailbox \ Unlabelled /\ todo'[w] = <<>>
        BY <1>3, <2>3, ListingsType DEF Lists
      <3> QED  BY <1>3, <3>1 DEF ToSet
    <2> QED  BY <2>1, <2>2, <2>3
  <1>4. TypeOK /\ SessionInv /\ [Next]_vars =>
          [\A w \in Workers :
             ~At(w, "run_once") /\ At(w, "run_once")' =>
               \A m \in (mailbox \cap Titled) \ Unlabelled :
                 todo[w] = <<>> \/ m <= Last(todo[w]) => Known(m)']_vars
    BY <1>3 DEF At, Known, KnownAfter
  <1> QED  BY <1>1, <1>2, <1>4, TypeCorrect, PTL DEF Spec, NothingSkipped
==============================================================================
