----------------------------- MODULE MCMailSender -----------------------------
(***************************************************************************)
(* Small instances of MailSender.tla for TLC.                               *)
(***************************************************************************)
EXTENDS MailSender

MCBoxes == {"asker", "tester", "agent"}

At(box)    == [box |-> box, spelled |-> "lower"]
Mixed(box) == [box |-> box, spelled |-> "mixed"]

\* The lists an operator may keep: without entries, with one of them, with a
\* mistyped one, with the Knox account itself.
MCLists == {{}, {At("asker")}, {Mixed("tester"), At("")},
            {At("asker"), At("tester")}, {At("tester"), At("malformed")},
            {At("agent"), Mixed("asker")}}

MCSettings ==
  {[mail_send_enabled |-> e, mail_recipient_mode |-> m,
    mail_test_recipient |-> t, mail_allow_original_recipient |-> m = "ORIGINAL",
    mail_allowed_recipients |-> l, knox_mail_sender_email |-> k] :
     e \in BOOLEAN, m \in {"TEST", "ORIGINAL"},
     t \in {At("tester"), Mixed("agent")}, l \in MCLists,
     k \in {At("agent"), At("malformed")}}

MCTestSettings == {s \in MCSettings : s.mail_recipient_mode = "TEST"}

MCRequests ==
  {[reply_to_email |-> r, sender_email |-> s, original_recipient_email |-> At("tester")] :
     r \in {At(""), Mixed("asker"), At("malformed")}, s \in {At(""), At("agent")}}

\* Knox answers 2xx if and only if it takes the mail, and its answer can be
\* read; timeouts and lost connections leave it open.
MCOutcomes ==
  {o \in Outcome :
     /\ o.seen = "response" => /\ o.delivered <=> o.success
                               /\ o.body # "other_json"
     /\ o.seen = "exception" => ~o.delivered
     /\ o.seen # "response" => o.body = "empty" /\ o.ids = {} /\ ~o.success
     /\ "body" \in o.ids => o.body = "object"}
==============================================================================
