--------------------------- MODULE MailSenderProofs ---------------------------
(***************************************************************************)
(* Who gets the mail and what the row says of it (MailSender.tla), for any  *)
(* mailboxes, lists of them, settings and requests.                         *)
(***************************************************************************)
EXTENDS MailSender, FiniteSetTheorems, TLAPS

\* Knox answers 2xx if and only if it takes the mail, its answer can be read,
\* and what fails otherwise fails before the mail has left.
RepliesAreReadable ==
  \A o \in Outcomes :
    /\ o.seen = "response" => (o.delivered <=> o.success) /\ o.body # "other_json"
    /\ o.seen = "exception" => ~o.delivered

----------------------------------------------------------------------------
(* The recipients.                                                          *)

Letters == [to : Seq(Address), mode : {"TEST", "ORIGINAL"}, meant : SUBSET Boxes]

LEMMA MeantIsOfBoxes == ASSUME NEW s, NEW r PROVE Meant(s, r) \subseteq Boxes
BY DEF Meant

\* A mail on its way was made under the settings of the process that sends it.
SettingsInv ==
  /\ settings \in Setting /\ Validate(settings)
  /\ row \in Request
  /\ letters \in Seq(Letters)
  /\ pc # "idle" => settings.mail_send_enabled /\ send = "SENDING"
  /\ pc \in {"post", "mark"} => payload \in Payloads(settings, row)

\* Where the rules give a recipient it is the one that is meant, and they give
\* one where the operator has kept the list readable.
LEMMA ResolvedIsMeant ==
  ASSUME NEW s \in Setting, NEW r \in Request, Validate(s), s.mail_send_enabled
  PROVE  /\ \A to \in ResolveRecipient(s, r) :
              /\ to \in Address /\ Meant(s, r) = {to.box}
         /\ (/\ \A a \in s.mail_allowed_recipients : a.box # "malformed"
             /\ ResolveRecipient(s, r) = {})
            => Meant(s, r) = {}
  <1> DEFINE wanted == IF s.mail_recipient_mode = "TEST" THEN s.mail_test_recipient
                                                         ELSE OriginalRecipient(r)
  <1>1. wanted \in Address
    BY DEF Setting, Request, OriginalRecipient
  <1>2. ResolveRecipient(s, r) = EnsureRecipientAllowed(s, wanted)
    BY DEF ResolveRecipient, Validate, Setting
  <1>3. Meant(s, r) = {b \in {wanted.box} :
                         /\ b \in Boxes
                         /\ \E a \in s.mail_allowed_recipients : a.box = wanted.box}
    BY DEF Meant
  <1> HIDE DEF wanted
  <1>4. ASSUME NEW to \in EnsureRecipientAllowed(s, wanted)
        PROVE  to \in Address /\ Meant(s, r) = {to.box}
    BY <1>1, <1>3, <1>4 DEF EnsureRecipientAllowed, ValidEmail, AllowedRecipientSet
  <1>5. ASSUME \A a \in s.mail_allowed_recipients : a.box # "malformed",
               EnsureRecipientAllowed(s, wanted) = {}
        PROVE  Meant(s, r) = {}
    <2>1. ASSUME wanted.box \in Boxes,
                 NEW a \in s.mail_allowed_recipients, a.box = wanted.box
          PROVE  FALSE
      <3>1. wanted.box # ""
        BY <2>1, SenderAssumption
      <3>2. wanted \in EnsureRecipientAllowed(s, wanted)
        BY <1>5, <2>1, <3>1 DEF EnsureRecipientAllowed, ValidEmail, AllowedRecipientSet
      <3> QED  BY <1>5, <3>2
    <2> QED  BY <1>3, <2>1
  <1> QED  BY <1>2, <1>4, <1>5

BoxesOf(p) == {p[i].box : i \in 1..Len(p)}

\* The Knox account is the only other recipient, and not a second time.
LEMMA RecipientsOnce ==
  ASSUME NEW s \in Setting, NEW to \in Address,
         NEW p, p = BuildRecipients(s, to)
  PROVE  /\ p \in Seq(Address) /\ p # <<>> /\ Cardinality(BoxesOf(p)) = Len(p)
         /\ to.box \in BoxesOf(p)
         /\ BoxesOf(p) \subseteq {to.box, s.knox_mail_sender_email.box}
  <1> DEFINE knox == s.knox_mail_sender_email
  <1>0. knox \in Address
    BY DEF Setting
  <1>1. CASE knox.box = to.box
    <2>1. p = <<to>>
      BY <1>1 DEF BuildRecipients
    <2>2. BoxesOf(p) = {to.box} /\ Len(p) = 1 /\ p \in Seq(Address) /\ p # <<>>
      BY <2>1 DEF BoxesOf
    <2> QED  BY <2>2, FS_Singleton
  <1>2. CASE knox.box # to.box
    <2>1. p = <<to, knox>>
      BY <1>2 DEF BuildRecipients
    <2>2. Len(p) = 2 /\ p \in Seq(Address) /\ p # <<>> /\ p[1] = to /\ p[2] = knox
      BY <1>0, <2>1
    <2>3. BoxesOf(p) = {to.box} \cup {knox.box}
      BY <2>2 DEF BoxesOf
    <2>4. Cardinality({to.box} \cup {knox.box}) = 2
      <3>1. IsFiniteSet({to.box}) /\ Cardinality({to.box}) = 1
        BY FS_Singleton
      <3>2. knox.box \notin {to.box}
        BY <1>2
      <3> HIDE DEF knox
      <3> QED  BY <3>1, <3>2, FS_AddElement
    <2> QED  BY <2>2, <2>3, <2>4
  <1> QED  BY <1>1, <1>2

LEMMA SettingsStep ==
  ASSUME SettingsInv, [Next]_vars
  PROVE  SettingsInv'
  <1> USE DEF SettingsInv
  <1>1. CASE Restart
    BY <1>1, SenderAssumption DEF Restart
  <1>2. CASE OperatorReopen
    BY <1>2 DEF OperatorReopen
  <1>3. CASE ClaimSend
    BY <1>3 DEF ClaimSend
  <1>4. CASE BuildPayload
    BY <1>4 DEF BuildPayload
  <1>5. CASE Post
    <2>1. Letter \in Letters
      <3>1. PICK to \in ResolveRecipient(settings, row) :
              payload = BuildRecipients(settings, to)
        BY <1>5 DEF Post, Payloads
      <3>2. payload \in Seq(Address)
        BY <1>5, <3>1, ResolvedIsMeant, RecipientsOnce DEF Post
      <3> QED  BY <3>2, MeantIsOfBoxes DEF Letter, Letters, Setting
    <2>2. letters' \in Seq(Letters)
      <3>1. <<Letter>> \in Seq(Letters)
        BY <2>1
      <3>2. <<Letter>> \o letters \in Seq(Letters)
        BY <3>1
      <3> QED  BY <1>5, <3>2 DEF Post
    <2> QED  BY <1>5, <2>2 DEF Post
  <1>6. CASE Mark
    BY <1>6 DEF Mark
  <1>7. CASE UNCHANGED vars
    BY <1>7 DEF vars, Validate, Payloads
  <1> QED  BY <1>1, <1>2, <1>3, <1>4, <1>5, <1>6, <1>7 DEF Next

LEMMA SettingsHold == Spec => []SettingsInv
  <1>1. Init => SettingsInv
    <2> SUFFICES ASSUME Init PROVE SettingsInv
      OBVIOUS
    <2>1. settings \in Setting /\ Validate(settings) /\ row \in Request
      BY SenderAssumption DEF Init
    <2>2. pc = "idle" /\ letters = <<>>
      BY DEF Init
    <2> QED  BY <2>1, <2>2 DEF SettingsInv
  <1> QED  BY <1>1, SettingsStep, PTL DEF Spec

\* A mail leaves only for the mailbox meant and the Knox account, whatever the
\* settings of the processes before.
THEOREM MeantRecipientsOnly == Spec => OnlyMeantRecipients
  <1> DEFINE Good == LET to    == Head(letters').to
                         boxes == {to[i].box : i \in 1..Len(to)}
                     IN  /\ Cardinality(boxes) = Len(to)
                         /\ settings.mail_send_enabled
                         /\ Meant(settings, row) # {}
                         /\ Meant(settings, row) \subseteq boxes
                         /\ boxes \subseteq Meant(settings, row) \cup
                                            {settings.knox_mail_sender_email.box}
  <1>1. SettingsInv /\ [Next]_vars => [letters' # letters => Good]_vars
    <2> SUFFICES ASSUME SettingsInv, Next, letters' # letters PROVE Good
      OBVIOUS
    <2>1. Post /\ letters' = <<Letter>> \o letters
      BY DEF Next, Restart, OperatorReopen, ClaimSend, BuildPayload, Post, Mark
    <2>2. letters \in Seq(Letters)
      BY DEF SettingsInv
    <2>3. Head(letters').to = payload
      BY <2>1, <2>2 DEF Letter
    <2>4. PICK to \in ResolveRecipient(settings, row) :
            payload = BuildRecipients(settings, to)
      BY <2>1 DEF SettingsInv, Post, Payloads
    <2>5. /\ settings \in Setting /\ row \in Request /\ settings.mail_send_enabled
          /\ Validate(settings)
      BY <2>1 DEF SettingsInv, Post
    <2>6. to \in Address /\ Meant(settings, row) = {to.box}
      BY <2>5, ResolvedIsMeant
    <2>7. /\ Cardinality(BoxesOf(payload)) = Len(payload)
          /\ to.box \in BoxesOf(payload)
          /\ BoxesOf(payload) \subseteq {to.box, settings.knox_mail_sender_email.box}
      BY <2>4, <2>5, <2>6, RecipientsOnce
    <2> QED  BY <2>3, <2>5, <2>6, <2>7 DEF BoxesOf
  <1> QED  BY <1>1, SettingsHold, PTL DEF Spec, OnlyMeantRecipients

\* With a readable list and Knox account no mailbox of the list is refused.
THEOREM ListedAreServed == Spec => ListedIsNotRefused
  <1>1. SettingsInv /\ [Next]_vars =>
          [(/\ pc = "build_payload" /\ send' = "SEND_BLOCKED"
            /\ \A a \in settings.mail_allowed_recipients : a.box # "malformed"
            /\ ValidEmail(settings.knox_mail_sender_email))
           => Meant(settings, row) = {}]_vars
    <2> SUFFICES ASSUME SettingsInv, Next, pc = "build_payload", send' = "SEND_BLOCKED",
                        \A a \in settings.mail_allowed_recipients : a.box # "malformed",
                        ValidEmail(settings.knox_mail_sender_email)
                 PROVE  Meant(settings, row) = {}
      OBVIOUS
    <2>1. BuildPayload
      BY DEF Next, SettingsInv, Restart, OperatorReopen, ClaimSend, Post, Mark
    <2>2. Payloads(settings, row) = {}
      BY <2>1 DEF BuildPayload, SettingsInv
    <2>3. ResolveRecipient(settings, row) = {}
      BY <2>2 DEF Payloads
    <2> QED  BY <2>3, ResolvedIsMeant DEF SettingsInv
  <1> QED  BY <1>1, SettingsHold, PTL DEF Spec, ListedIsNotRefused

----------------------------------------------------------------------------
(* The record.                                                              *)

\* What is queued has not been delivered by the attempt before; what has been
\* delivered is the latest letter, with the recipients in hand.
RecordInv ==
  /\ send = "SEND_BLOCKED" \/ (send = "SENDING" /\ pc # "mark") => ~outcome.delivered
  /\ pc = "mark" => outcome \in Outcomes
  /\ pc = "mark" /\ outcome.delivered => letters # <<>> /\ letters[1] = Letter
  /\ StatusTellsDelivery
  /\ RecordIsTrue

\* Where the reply holds an id, one of its ids is taken.
LEMMA MailIdIsOfTheReply ==
  ASSUME NEW o \in Outcomes
  PROVE  IF o.ids = {} THEN MailIdFromResponse(o) = "none"
                       ELSE MailIdFromResponse(o) \in o.ids
  <1>1. o.ids \subseteq {"body", "header"} /\ ("body" \in o.ids => o.body = "object")
    BY SenderAssumption DEF Outcome
  <1>2. CASE "body" \in o.ids
    BY <1>1, <1>2 DEF MailIdFromResponse
  <1>3. CASE "body" \notin o.ids /\ "header" \in o.ids
    BY <1>3 DEF MailIdFromResponse
  <1>4. CASE o.ids = {}
    BY <1>4 DEF MailIdFromResponse
  <1> QED  BY <1>1, <1>2, <1>3, <1>4

LEMMA RecordStep ==
  ASSUME RepliesAreReadable, SettingsInv, RecordInv, [Next]_vars
  PROVE  RecordInv'
  <1> USE DEF RecordInv, StatusTellsDelivery, RecordIsTrue
  <1>0. Nothing.delivered = FALSE /\ Nothing.seen = "exception"
    BY DEF Nothing
  <1>1. CASE Restart
    BY <1>0, <1>1 DEF Restart
  <1>2. CASE OperatorReopen
    BY <1>0, <1>2 DEF OperatorReopen
  <1>3. CASE ClaimSend
    BY <1>3 DEF ClaimSend
  <1>4. CASE BuildPayload
    BY <1>4 DEF BuildPayload, SettingsInv
  <1>5. CASE Post
    <2>1. letters \in Seq(Letters)
      BY DEF SettingsInv
    <2>2. UNCHANGED <<payload, settings, send>> /\ Letter' = Letter /\ send = "SENDING"
      BY <1>5 DEF Post, Letter, SettingsInv
    <2>3. outcome'.delivered => letters' # <<>> /\ letters'[1] = Letter
      BY <1>5, <2>1 DEF Post
    <2> QED  BY <1>5, <2>2, <2>3 DEF Post
  <1>6. CASE Mark
    <2>1. /\ outcome \in Outcomes /\ outcome \in Outcome /\ UNCHANGED <<outcome, letters>>
          /\ pc' = "idle" /\ send' = SendStatus(outcome)
      BY <1>6, SenderAssumption DEF Mark
    <2>2. CASE outcome.seen \in {"timeout", "connection"}
      <3>1. send' = "SEND_UNKNOWN"
        BY <2>1, <2>2 DEF SendStatus
      <3> QED  BY <2>1, <3>1
    <2>3. CASE outcome.seen = "exception" \/ (outcome.seen = "response" /\ ~outcome.success)
      <3>1. send' = "SEND_BLOCKED"
        BY <2>1, <2>3 DEF SendStatus
      <3>2. ~outcome.delivered
        BY <2>1, <2>3 DEF RepliesAreReadable
      <3> QED  BY <2>1, <3>1, <3>2
    <2>4. CASE outcome.seen = "response" /\ outcome.success
      <3>1. SendStatus(outcome) = "SENT" /\ outcome.delivered
        BY <2>1, <2>4 DEF SendStatus, RepliesAreReadable
      <3>2. letters # <<>> /\ letters[1] = Letter
        BY <1>6, <3>1 DEF Mark
      <3>3. record' = [to |-> Head(payload), mode |-> settings.mail_recipient_mode,
                       id |-> MailIdFromResponse(outcome)]
        BY <1>6, <3>1 DEF Mark
      <3>4. Meant(settings, row) = {Head(payload).box}
        <4>1. PICK to \in ResolveRecipient(settings, row) :
                payload = BuildRecipients(settings, to)
          BY <1>6 DEF Mark, Payloads, SettingsInv
        <4>2. Head(payload) = to
          BY <4>1 DEF BuildRecipients
        <4> QED  BY <1>6, <4>1, <4>2, ResolvedIsMeant DEF Mark, SettingsInv
      <3>5. letters[1].meant = {record'.to.box} /\ letters[1].mode = record'.mode
        BY <3>2, <3>3, <3>4 DEF Letter
      <3>6. IF outcome.ids = {} THEN record'.id = "none" ELSE record'.id \in outcome.ids
        BY <2>1, <3>3, MailIdIsOfTheReply
      <3> QED  BY <2>1, <3>1, <3>2, <3>5, <3>6
    <2> QED  BY <2>1, <2>2, <2>3, <2>4 DEF Outcome
  <1>7. CASE UNCHANGED vars
    BY <1>7 DEF vars, Letter
  <1> QED  BY <1>1, <1>2, <1>3, <1>4, <1>5, <1>6, <1>7 DEF Next

LEMMA RecordHolds == RepliesAreReadable => (Spec => []RecordInv)
  <1> SUFFICES ASSUME RepliesAreReadable PROVE Spec => []RecordInv
    OBVIOUS
  <1>1. Init => RecordInv
    BY DEF Init, RecordInv, StatusTellsDelivery, RecordIsTrue, Nothing
  <1>2. SettingsInv /\ RecordInv /\ [Next]_vars => RecordInv'
    BY RecordStep
  <1> QED  BY <1>1, <1>2, SettingsHold, PTL DEF Spec

\* Where Knox's replies can be read, SENT stands for a mail that has gone out,
\* and what returns to the queue has not.
THEOREM StatusTellsTruth == RepliesAreReadable => (Spec => []StatusTellsDelivery)
  <1>1. RecordInv => StatusTellsDelivery
    BY DEF RecordInv
  <1> QED  BY <1>1, RecordHolds, PTL

\* And what is recorded of that mail is true of it: the mode it went out in, the
\* mailbox it was meant for under the settings of the process that sent it, and an
\* id from the reply, in its body or in its header, wherever there is one.
THEOREM RecordTellsTruth == RepliesAreReadable => (Spec => []RecordIsTrue)
  <1>1. RecordInv => RecordIsTrue
    BY DEF RecordInv
  <1> QED  BY <1>1, RecordHolds, PTL
===============================================================================
