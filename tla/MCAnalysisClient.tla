--------------------------- MODULE MCAnalysisClient ---------------------------
(***************************************************************************)
(* Small instances of AnalysisClient.tla for TLC.                           *)
(***************************************************************************)
EXTENDS AnalysisClient

MCNames == {"17", "user", "email", "DEFECT_ANALYSIS_REQUEST", "compare", "carefully",
            "title", "of", "end", "prompt", "void", "see", "lot", "unknown",
            "request_id", "route_case", "requester_email", "raw_request_title",
            "request_title", "mail_body", "instruction_prompt"}

\* The fields that schema.sql sets at every start, and others that an operator may
\* have set: a spaced placeholder, one within a text, and two in a row, which render
\* to None.
MCFields ==
  [request_title      |-> <<Placeholder("request_title")>>,
   instruction_prompt |-> <<Placeholder("instruction_prompt")>>,
   mail_body          |-> <<Placeholder("mail_body")>>]
MCOtherFields ==
  [request_title |-> <<Spaced("request_title")>>,
   query         |-> <<Word("see"), Placeholder("instruction_prompt")>>,
   mail_body     |-> <<Placeholder("mail_body"), Placeholder("request_id")>>]

\* The seeded profile, and profiles that differ from it in one point.
MCSeeded ==
  [profile_key |-> "defect-analysis", enabled |-> TRUE,
   instruction_template |-> <<Word("compare"), Word("carefully")>>,
   base_url |-> FALSE, base_url_env_name |-> "URL",
   auth_header_name |-> TRUE, auth_env_name |-> "KEY",
   ca_bundle_env_name |-> "CA", verify_ssl |-> "null",
   request_template |-> MCFields,
   status_field |-> TRUE, success_values |-> TRUE, answer_field |-> TRUE]

MCTemplates ==
  {<<>>,
   <<Placeholder("raw_request_title")>>,
   <<Spaced("raw_request_title")>>,
   <<Placeholder("request_id")>>,
   <<Placeholder("route_case")>>,
   <<Placeholder("request_id"), Word("of"), Placeholder("route_case"), Word("end")>>,
   <<Word("title"), Placeholder("raw_request_title")>>,
   <<Word("title"), Spaced("raw_request_title")>>,
   <<Placeholder("raw_request_title"), Word("of"), Placeholder("mail_body")>>,
   <<Placeholder("mail_body"), Word("of"), Placeholder("raw_request_title"), Word("end")>>,
   <<Word("prompt"), Placeholder("instruction_prompt"), Word("end")>>,
   <<Placeholder("unknown")>>}

MCProfiles ==
  {MCSeeded,
   [MCSeeded EXCEPT !.enabled = FALSE],
   [MCSeeded EXCEPT !.profile_key = "other"],
   [MCSeeded EXCEPT !.profile_key = "other", !.auth_env_name = ""],
   [MCSeeded EXCEPT !.profile_key = "other", !.base_url = TRUE],
   [MCSeeded EXCEPT !.auth_env_name = "", !.verify_ssl = "true"],
   [MCSeeded EXCEPT !.profile_key = "other", !.auth_header_name = FALSE],
   [MCSeeded EXCEPT !.request_template = MCOtherFields],
   [MCSeeded EXCEPT !.answer_field = FALSE],
   [MCSeeded EXCEPT !.status_field = FALSE],
   [MCSeeded EXCEPT !.success_values = FALSE]} \cup
  {[MCSeeded EXCEPT !.instruction_template = t] : t \in MCTemplates}

\* What the operator may change it to: switched off, and other in each thing that
\* is used at another moment.
MCEdits ==
  {MCSeeded,
   [MCSeeded EXCEPT !.enabled = FALSE],
   [MCSeeded EXCEPT !.instruction_template = <<>>],
   [MCSeeded EXCEPT !.profile_key = "other", !.base_url = TRUE],
   [MCSeeded EXCEPT !.status_field = FALSE]}

MCTitles == {<<Word("void")>>, <<Word("see"), Placeholder("mail_body")>>,
             <<Word("see"), Placeholder("instruction_prompt")>>,
            <<Placeholder("requester_email")>>}
MCRoutes == {None, <<Word("DEFECT_ANALYSIS_REQUEST")>>}
MCBodies == {<<>>, <<Word("lot"), Placeholder("raw_request_title")>>}

\* Nothing; only the fallback credential; everything the seeded profile names.
MCEnvs == {{}, {"service_key"}, {"URL", "KEY", "CA"}}

\* An error may come with any body; the one that says COMPLETED is the worst.
MCReplies ==
  {r \in Reply :
     /\ r.raises => r = NoReply
     /\ r.gateway => r.code = 403
     /\ r.body # "object" => r.status = "absent" /\ r.answer = "absent"
     /\ r.code # 200 /\ ~r.raises =>
          IF r.gateway THEN r.body = "not_json"
                       ELSE r.status = "COMPLETED" /\ r.answer = "text"}
==============================================================================
