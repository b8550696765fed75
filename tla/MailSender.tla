------------------------------ MODULE MailSender ------------------------------
(***************************************************************************)
(* send_analysis_mail (mail_sender.py) as _send_row (run.py) uses it: who    *)
(* gets the mail, under the settings of the process that sends it, and what *)
(* the row says afterwards.  Settings are read and validated when a process *)
(* starts (config.py); another process may start with others.               *)
(*                                                                          *)
(* An address is a mailbox in some spelling: casefold gives the mailbox.    *)
(***************************************************************************)
EXTENDS Naturals, Sequences, FiniteSets

CONSTANTS
  Boxes,        \* mailboxes
  Settings,     \* settings a process may be started with
  Requests,     \* rows with an answer: the three addresses of the mail
  Outcomes      \* what Knox may do with a mail, and what requests sees of it

Address   == [box : Boxes \cup {"", "malformed"}, spelled : {"lower", "mixed"}]
Recipient == {a \in Address : a.box \in Boxes}

Setting == [mail_send_enabled : BOOLEAN, mail_recipient_mode : {"TEST", "ORIGINAL"},
            mail_test_recipient : Address, mail_allow_original_recipient : BOOLEAN,
            mail_allowed_recipients : SUBSET Address,
            knox_mail_sender_email : Address]

Request == [reply_to_email : Address, sender_email : Address,
            original_recipient_email : Address]

\* seen: requests.post raises, or returns a response, with an HTTP status
\* (2xx or not), a body that is nothing, an object, other JSON or no JSON, and
\* the places with an id of the mail: the keys mailId, mail_id, id and
\* result.mailId of an object, and the headers X-Mail-Id and Location.
Outcome == [delivered : BOOLEAN, seen : {"timeout", "connection", "exception", "response"},
            success : BOOLEAN, body : {"empty", "object", "other_json", "not_json"},
            ids : SUBSET {"body", "header"}]

ASSUME SenderAssumption ==
  /\ Boxes \cap {"", "malformed"} = {}
  /\ Settings \subseteq Setting /\ Requests \subseteq Request
  /\ Outcomes \subseteq Outcome
  /\ \A o \in Outcomes : "body" \in o.ids => o.body = "object"

VARIABLES
  settings,  \* of the process that runs
  row,       \* the request's addresses
  send,      \* its send_status
  record,    \* actual_recipient_email, recipient_mode and where the id is from
  pc,        \* what _send_row does next
  payload,   \* the recipients of the mail being made
  outcome,   \* what has become of it; of a SENT row, of the mail that was recorded
  letters    \* the mails Knox took, the latest first: their recipients, the
             \* mode, and the mailbox the operator and the requester meant

vars == <<settings, row, send, record, pc, payload, outcome, letters>>

Nobody   == [box |-> "", spelled |-> "lower"]
NoRecord == [to |-> Nobody, mode |-> "none", id |-> "none"]
Nothing  == [delivered |-> FALSE, seen |-> "exception", success |-> FALSE,
             body |-> "empty", ids |-> {}]

----------------------------------------------------------------------------
(* The recipient rules.  Where the code raises, these give the empty set.    *)

ValidEmail(a) == a.box \in Boxes

\* A blank entry is skipped, a malformed one makes the whole list unusable.
AllowedRecipientSet(s) == {a.box : a \in s.mail_allowed_recipients} \ {""}

\* Slip: an entry allows its spelling only.
EnsureAllowedAsSpelled(s, a) ==
  {b \in {a} : ValidEmail(a) /\ a \in s.mail_allowed_recipients}

EnsureRecipientAllowed(s, a) ==
  {b \in {a} : /\ ValidEmail(a)
               /\ "malformed" \notin AllowedRecipientSet(s)
               /\ a.box \in AllowedRecipientSet(s)}

\* The first of three that is not empty, malformed or not.
OriginalRecipient(r) ==
  IF r.reply_to_email.box # "" THEN r.reply_to_email
  ELSE IF r.sender_email.box # "" THEN r.sender_email
  ELSE r.original_recipient_email

\* Whom the operator means to reach, said without the code: in TEST mode the
\* test mailbox, in ORIGINAL mode the one the requester gave, and in either only a
\* mailbox of the list; besides, the Knox account.
Meant(s, r) ==
  LET wanted == IF s.mail_recipient_mode = "TEST" THEN s.mail_test_recipient
                                                  ELSE OriginalRecipient(r)
      listed == \E a \in s.mail_allowed_recipients : a.box = wanted.box
  IN  {b \in {wanted.box} : b \in Boxes /\ listed}

\* Slip: falls back to the test recipient when the requester is refused.
ResolveWithFallback(s, r) ==
  IF s.mail_recipient_mode = "ORIGINAL" /\ EnsureRecipientAllowed(s, OriginalRecipient(r)) # {}
  THEN {OriginalRecipient(r)}
  ELSE EnsureRecipientAllowed(s, s.mail_test_recipient)

ResolveRecipient(s, r) ==
  IF s.mail_recipient_mode = "TEST"
  THEN EnsureRecipientAllowed(s, s.mail_test_recipient)
  ELSE IF s.mail_allow_original_recipient
       THEN EnsureRecipientAllowed(s, OriginalRecipient(r))
       ELSE {}

\* The Knox account is a second recipient unless it is the first.
BuildRecipients(s, to) ==
  IF s.knox_mail_sender_email.box = to.box
  THEN <<to>> ELSE <<to, s.knox_mail_sender_email>>

\* build_payload, with an answer that has text.
Payloads(s, r) == {BuildRecipients(s, to) :
                     to \in {a \in ResolveRecipient(s, r) :
                               ValidEmail(s.knox_mail_sender_email)}}

----------------------------------------------------------------------------
(* The reply.                                                                *)

\* Slip: a timeout is a failure like others.
StatusOnSuccess(o) ==
  IF o.seen = "response" /\ o.success /\ o.body # "other_json"
  THEN "SENT" ELSE "SEND_BLOCKED"

\* The exceptions of send_analysis_mail and the handlers of _send_row; a 2xx
\* reply whose JSON is no object fails in _mail_id_from_response.
SendStatus(o) ==
  CASE o.seen \in {"timeout", "connection"}          -> "SEND_UNKNOWN"
    [] o.seen = "exception"                          -> "SEND_BLOCKED"
    [] o.seen = "response" /\ ~o.success             -> "SEND_BLOCKED"
    [] o.seen = "response" /\ o.success ->
         IF o.body = "other_json" THEN "SEND_BLOCKED" ELSE "SENT"

\* Slip: no key of the body is looked at.
MailIdFromHeaders(o) == IF "header" \in o.ids THEN "header" ELSE "none"

\* A key of the body comes before a header.
MailIdFromResponse(o) ==
  IF o.body = "object" /\ "body" \in o.ids THEN "body"
  ELSE IF "header" \in o.ids THEN "header" ELSE "none"

----------------------------------------------------------------------------
\* What Settings.validate asks of the settings of mail.
Validate(s) ==
  /\ s.mail_send_enabled =>
       /\ s.knox_mail_sender_email.box # ""
       /\ \E a \in s.mail_allowed_recipients : a.box # ""
       /\ s.mail_recipient_mode = "TEST" => s.mail_test_recipient.box # ""
       /\ s.mail_recipient_mode = "ORIGINAL" => s.mail_allow_original_recipient

Init ==
  /\ settings \in {s \in Settings : Validate(s)}
  /\ row \in Requests
  /\ send = "SEND_BLOCKED"
  /\ record = NoRecord
  /\ pc = "idle"
  /\ payload = <<>>
  /\ outcome = Nothing
  /\ letters = <<>>

\* The operator starts a process with other settings, possibly while the one
\* before it was sending; a row it left in SENDING is in doubt for good.
Restart ==
  /\ settings' \in {s \in Settings : Validate(s)}
  /\ pc' = "idle" /\ payload' = <<>>
  /\ send' = IF send = "SENDING" THEN "SEND_UNKNOWN" ELSE send
  /\ outcome' = IF send = "SENT" THEN outcome ELSE Nothing
  /\ UNCHANGED <<row, record, letters>>

ClaimSend ==
  /\ pc = "idle" /\ settings.mail_send_enabled /\ send = "SEND_BLOCKED"
  /\ send' = "SENDING" /\ pc' = "build_payload"
  /\ UNCHANGED <<settings, row, record, payload, outcome, letters>>

BuildPayload ==
  /\ pc = "build_payload"
  /\ \/ /\ Payloads(settings, row) = {}
        /\ send' = "SEND_BLOCKED" /\ pc' = "idle" /\ UNCHANGED payload
     \/ /\ payload' \in Payloads(settings, row)
        /\ pc' = "post" /\ UNCHANGED send
  /\ UNCHANGED <<settings, row, record, outcome, letters>>

Letter == [to |-> payload, mode |-> settings.mail_recipient_mode,
           meant |-> Meant(settings, row)]

Post ==
  /\ pc = "post"
  /\ outcome' \in Outcomes
  /\ letters' = IF outcome'.delivered THEN <<Letter>> \o letters
                                      ELSE letters
  /\ pc' = "mark"
  /\ UNCHANGED <<settings, row, send, record, payload>>

Mark ==
  /\ pc = "mark"
  /\ send' = SendStatus(outcome)
  /\ record' = IF SendStatus(outcome) = "SENT"
               THEN [to |-> Head(payload), mode |-> settings.mail_recipient_mode,
                     id |-> MailIdFromResponse(outcome)]
               ELSE record
  /\ pc' = "idle" /\ payload' = <<>>
  /\ UNCHANGED <<settings, row, outcome, letters>>

\* The operator puts a mail in doubt back, up to the bound of three mails:
\* enough to see one mode after another.
OperatorReopen ==
  /\ send = "SEND_UNKNOWN" /\ pc = "idle" /\ Len(letters) < 3
  /\ send' = "SEND_BLOCKED" /\ outcome' = Nothing
  /\ UNCHANGED <<settings, row, record, pc, payload, letters>>

Next == Restart \/ OperatorReopen \/ ClaimSend \/ BuildPayload \/ Post \/ Mark

Spec == Init /\ [][Next]_vars

----------------------------------------------------------------------------
(* Properties.                                                              *)

\* The type of every variable; a mail on its way has a recipient.
TypeOK ==
  /\ settings \in Settings /\ row \in Requests
  /\ send \in {"SEND_BLOCKED", "SENDING", "SENT", "SEND_UNKNOWN"}
  /\ record \in [to : Address, mode : {"none", "TEST", "ORIGINAL"},
                 id : {"none", "body", "header"}]
  /\ pc \in {"idle", "build_payload", "post", "mark"}
  /\ payload \in Seq(Recipient) /\ (pc \in {"post", "mark"} <=> payload # <<>>)
  /\ outcome \in Outcomes \cup {Nothing}
  /\ letters \in Seq([to : Seq(Recipient), mode : {"TEST", "ORIGINAL"},
                       meant : SUBSET Boxes])

\* docs/MAIL_DELIVERY.md, "수신자 허용목록": a mail leaves only for the mailbox
\* meant, whatever settings an earlier process had, with the Knox account as
\* the only other recipient, and nobody twice.
OnlyMeantRecipients ==
  [][letters' # letters =>
       LET to    == Head(letters').to
           boxes == {to[i].box : i \in 1..Len(to)}
       IN  /\ Cardinality(boxes) = Len(to)
           /\ settings.mail_send_enabled
           /\ Meant(settings, row) # {}
           /\ Meant(settings, row) \subseteq boxes
           /\ boxes \subseteq Meant(settings, row) \cup
                              {settings.knox_mail_sender_email.box}]_vars

\* The same list, read the other way: case makes no difference, so a mailbox
\* of a list that can be read is never refused.
ListedIsNotRefused ==
  [][(/\ pc = "build_payload" /\ send' = "SEND_BLOCKED"
      /\ \A a \in settings.mail_allowed_recipients : a.box # "malformed"
      /\ ValidEmail(settings.knox_mail_sender_email))
     => Meant(settings, row) = {}]_vars

\* send_status after Knox has answered: SENT only if it has the mail, and back
\* in the queue only if it does not.
StatusTellsDelivery ==
  /\ send = "SENT" => letters # <<>>
  /\ send = "SEND_BLOCKED" /\ outcome # Nothing => ~outcome.delivered

\* docs/MAIL_DELIVERY.md, "상태 흐름": what a SENT row records is the mail that
\* went out, whatever processes with other settings did before and after it: the
\* mode it went out in, the mailbox it was meant for and not the Knox account's
\* copy, and an id from Knox's reply to it, wherever that reply holds one.
RecordIsTrue ==
  send = "SENT" =>
    /\ letters[1].meant = {record.to.box}
    /\ letters[1].mode = record.mode
    /\ IF outcome.ids = {} THEN record.id = "none" ELSE record.id \in outcome.ids

\* docs/MAIL_DELIVERY.md, "테스트 수신처로 전체 우회": in TEST mode every mail
\* goes to MAIL_TEST_RECIPIENT alone.
TestModeOneRecipient ==
  [][letters' # letters /\ settings.mail_recipient_mode = "TEST"
     => Head(letters').to = <<settings.mail_test_recipient>>]_vars
==============================================================================
