---------------------------- MODULE AnalysisClient ----------------------------
(***************************************************************************)
(* analyze_request (web_client.py), from the profile that _analyze_row      *)
(* (run.py) looks up for it to the exception or the answer that it makes of *)
(* the reply.  The operator may edit the profile at any time.               *)
(*                                                                          *)
(* A text is a sequence of tokens: words, placeholders "{{key}}" and spaced *)
(* placeholders "{{ key }}".  What requesters write may hold any of them.   *)
(* Where the code raises an operator gives the empty set.                   *)
(***************************************************************************)
EXTENDS Integers, SequencesExt, FiniteSets

CONSTANTS
  Names,      \* the words, and the names that a placeholder may hold
  Profiles,   \* what the row of the profile may be
  Edits,      \* what the operator may make of it
  MaxVersions,\* bound: versions of it while one request is served
  Titles,     \* what request_title may be, as a text
  Bodies,     \* what mail_body may be
  Routes,     \* what route_case and route_rule_key may be
  Envs,       \* environments of a process: the variables that are not blank,
              \* and "service_key" if the settings have one
  Replies     \* what may come back

\* The keys of the context, in its order, before and after the prompt.
BaseKeys == <<"request_id", "requester_user_id", "requester_email",
              "raw_request_title", "mail_body", "route_case", "route_rule_key">>
Keys     == BaseKeys \o <<"request_title", "instruction_prompt">>

Word(n)        == [kind |-> "word", name |-> n]
Placeholder(k) == [kind |-> "placeholder", name |-> k]
Spaced(k)      == [kind |-> "spaced", name |-> k]
Token          == [kind : {"word", "placeholder", "spaced"}, name : Names]

\* Values of the context that are no texts: None, and the number request_id.
None   == <<[kind |-> "none", name |-> ""]>>
Number == <<[kind |-> "number", name |-> ""]>>

Answers == {"null", "blank", "white", "text"}

\* raises: no response (timeout, connection); gateway: the marks of the
\* security gateway's page; status and answer: fields of a JSON object.
Reply == [raises : BOOLEAN, code : {200, 403, 500}, gateway : BOOLEAN,
          body : {"not_json", "other_json", "object"},
          status : {"COMPLETED", "FAILED", "absent"},
          answer : Answers \cup {"absent"}]

ASSUME ClientAssumption ==
  /\ Replies \subseteq Reply
  /\ {"17", "user", "email"} \subseteq Names
  /\ Titles \subseteq Seq(Token) /\ Bodies \subseteq Seq(Token)
  /\ Routes \subseteq Seq(Token) \cup {None}
  /\ Edits \subseteq Profiles /\ MaxVersions \in Nat
  /\ \A p \in Profiles :
       /\ p.instruction_template \in Seq(Token)
       /\ \A f \in DOMAIN p.request_template : p.request_template[f] \in Seq(Token)

VARIABLES
  env,      \* the environment and the settings of the process
  stored,   \* the profile in the table
  versions, \* what it has been since this request has its turn
  profile,  \* the copy that this request works with
  request,  \* the request: its title, its body and its route
  pc,       \* the step of analyze_request
  prompt,   \* instruction_prompt
  sent,     \* what was posted: its target and the fields of its payload
  reply,    \* what came back
  result    \* the answer handed to mark_completed

vars == <<env, stored, versions, profile, request, pc, prompt, sent, reply, result>>

Requests == [title : Titles, body : Bodies, route : Routes]
NoReply == [raises |-> TRUE, code |-> 500, gateway |-> FALSE, body |-> "not_json",
            status |-> "absent", answer |-> "absent"]
NotSent == [url |-> {}, credential |-> {}, verify |-> "", fields |-> <<>>]

----------------------------------------------------------------------------
(* Rendering.                                                                *)

IsPlaceholder(token) == token.kind \in {"placeholder", "spaced"}

\* "" for None, str(item) for everything else.
Str(value) ==
  IF value = None THEN <<>> ELSE IF value = Number THEN <<Word("17")>> ELSE value

Replace(text, key, value) ==
  FlattenSeq([i \in DOMAIN text |->
                IF text[i] = Placeholder(key) THEN value ELSE <<text[i]>>])

\* Slip: every key begins again with the text as it was.
ReplaceLast(text, keys, context) ==
  Replace(text, Last(keys), Str(context[Last(keys)]))

\* The keys one after another, each on what the ones before have made of it.
ReplaceEach(text, keys, context) ==
  LET made[n \in 0..Len(keys)] ==
        IF n = 0 THEN text
        ELSE Replace(made[n - 1], keys[n], Str(context[keys[n]]))
  IN  made[Len(keys)]

\* Slip: there is no case for a text that is one placeholder.
RenderEach(text, keys, context) == ReplaceEach(text, keys, context)

\* A text that begins with "{{" and ends with "}}" is taken for one placeholder,
\* also when it holds several.
RenderTemplate(text, keys, context) ==
  IF text # <<>> /\ IsPlaceholder(text[1]) /\ IsPlaceholder(Last(text))
  THEN IF Len(text) = 1 /\ text[1].name \in ToSet(keys) THEN context[text[1].name]
       ELSE None
  ELSE ReplaceEach(text, keys, context)

BaseContext == [request_id        |-> Number,
                requester_user_id |-> <<Word("user")>>,
                requester_email   |-> <<Word("email")>>,
                raw_request_title |-> request.title,
                mail_body         |-> request.body,
                route_case        |-> request.route,
                route_rule_key    |-> request.route]

Context(text) ==
  [key \in DOMAIN BaseContext \cup {"request_title", "instruction_prompt"} |->
     CASE key = "request_title"      -> request.title
       [] key = "instruction_prompt" -> text
       [] OTHER                      -> BaseContext[key]]

\* A template that is one placeholder may render to something else than a text.
BuildInstructionPrompt(p) ==
  IF p.instruction_template = <<>> THEN {<<>>}
  ELSE {RenderTemplate(p.instruction_template, BaseKeys, BaseContext)} \ {None, Number}

----------------------------------------------------------------------------
(* What profile p makes of a request: where it goes and what it carries.     *)

\* The environment goes before the profile, the profile before the settings.
ResolveBaseUrl(p) ==
  IF p.base_url_env_name \in env THEN {"environment"}
  ELSE IF p.base_url THEN {"profile"}
  ELSE IF p.profile_key = "defect-analysis" THEN {"settings"} ELSE {}

ResolveCredential(p) ==
  IF ~p.auth_header_name \/ p.auth_env_name = "" THEN {"none"}
  ELSE IF p.auth_env_name \in env THEN {"environment"}
  ELSE IF p.profile_key = "defect-analysis" /\ "service_key" \in env
       THEN {"settings"} ELSE {}

ResolveVerify(p) ==
  IF p.ca_bundle_env_name \in env THEN "environment"
  ELSE IF p.verify_ssl # "null" THEN p.verify_ssl ELSE "settings"

\* Each field of request_template_json; one may render to None.
Fields(p, text) == [f \in DOMAIN p.request_template |->
                      RenderTemplate(p.request_template[f], Keys, Context(text))]

Payload(p, text) == [url        |-> ResolveBaseUrl(p),
                     credential |-> ResolveCredential(p),
                     verify     |-> ResolveVerify(p),
                     fields     |-> Fields(p, text)]

----------------------------------------------------------------------------
(* The reply.                                                                *)

\* Slip: the status in the reply is not looked at.
SucceededWhatever(p, r) == r.body = "object"

Succeeded(p, r) ==
  /\ r.body = "object"
  /\ p.status_field /\ p.success_values => r.status = "COMPLETED"

\* _normalize_response: an answer that is missing is "", one that is null is
\* None.
NormalizeResponse(p, r) ==
  {IF p.answer_field /\ r.answer # "absent" THEN r.answer ELSE "blank" :
     x \in {y \in {r} : Succeeded(p, y)}}

IsGatewayBlock(r) == r.code = 403 /\ r.gateway

\* What analyze_request makes of the reply.
Answered(p, r) ==
  IF r.raises \/ IsGatewayBlock(r) \/ r.code >= 400 THEN {}
  ELSE NormalizeResponse(p, r)

----------------------------------------------------------------------------
Init ==
  /\ env \in Envs
  /\ stored \in Profiles /\ versions = {stored}
  /\ profile = stored
  /\ request \in Requests
  /\ pc = "get_api_profile"
  /\ prompt = <<>> /\ sent = NotSent /\ reply = NoReply /\ result = {}

Goto(step) == pc' = step /\ UNCHANGED <<env, stored, versions, request>>

\* The row may name no profile, the SELECT may fail, and a column may hold no JSON.
GetApiProfile ==
  /\ pc = "get_api_profile"
  /\ \/ stored.enabled /\ profile' = stored /\ Goto("build_instruction_prompt")
     \/ UNCHANGED profile /\ Goto("mark_retry")
  /\ UNCHANGED <<prompt, sent, reply, result>>

BuildPrompt ==
  /\ pc = "build_instruction_prompt"
  /\ \/ /\ prompt' \in BuildInstructionPrompt(profile)
        /\ Goto("request")
     \/ /\ BuildInstructionPrompt(profile) = {}
        /\ Goto("mark_retry") /\ UNCHANGED prompt
  /\ UNCHANGED <<profile, sent, reply, result>>

Request ==
  /\ pc = "request"
  /\ \/ /\ ResolveBaseUrl(profile) = {} \/ ResolveCredential(profile) = {}
        /\ Goto("mark_retry") /\ UNCHANGED <<sent, reply>>
     \/ /\ ResolveBaseUrl(profile) # {} /\ ResolveCredential(profile) # {}
        /\ sent' = Payload(profile, prompt)
        /\ reply' \in Replies
        /\ Goto("reply")
  /\ UNCHANGED <<profile, prompt, result>>

\* Slip: the profile's response_config_json is read when the reply is there.
TakeReplyAnew ==
  /\ pc = "reply"
  /\ result' = Answered(stored, reply)
  /\ Goto(IF Answered(stored, reply) = {} THEN "mark_retry" ELSE "mark_completed")
  /\ UNCHANGED <<profile, prompt, sent, reply>>

TakeReply ==
  /\ pc = "reply"
  /\ result' = Answered(profile, reply)
  /\ Goto(IF Answered(profile, reply) = {} THEN "mark_retry" ELSE "mark_completed")
  /\ UNCHANGED <<profile, prompt, sent, reply>>

\* The outcome is recorded (RequestPipeline.tla) and another request follows.
NextRequest ==
  /\ pc \in {"mark_retry", "mark_completed"}
  /\ request' \in Requests
  /\ pc' = "get_api_profile" /\ versions' = {stored}
  /\ prompt' = <<>> /\ sent' = NotSent /\ reply' = NoReply /\ result' = {}
  /\ UNCHANGED <<env, stored, profile>>

\* The operator edits the profile.
EditProfile ==
  /\ stored' \in Edits
  /\ versions' = versions \cup {stored'} /\ Cardinality(versions') <= MaxVersions
  /\ UNCHANGED <<env, profile, request, pc, prompt, sent, reply, result>>

Next == GetApiProfile \/ BuildPrompt \/ Request \/ TakeReply \/ NextRequest
        \/ EditProfile

Spec == Init /\ [][Next]_vars

----------------------------------------------------------------------------
(* Properties.                                                              *)

\* The type of every variable.
TypeOK ==
  /\ env \in Envs
  /\ stored \in Profiles /\ profile \in Profiles /\ versions \subseteq Profiles
  /\ request \in Requests
  /\ pc \in {"get_api_profile", "build_instruction_prompt", "request", "reply",
             "mark_retry", "mark_completed"}
  /\ reply \in Replies \cup {NoReply}
  /\ result \subseteq Answers

\* The fields whose template is one placeholder of a key and nothing else.
FieldsOf(key) == {f \in DOMAIN profile.request_template :
                    profile.request_template[f] \in {<<Placeholder(key)>>, <<Spaced(key)>>}}

\* Comment at web_client.py:161: where the request asks for the title it gets the
\* title as it was written, whatever that holds and whatever the instruction is.
TitleAsWritten ==
  pc = "reply" => \A f \in FieldsOf("request_title") : sent.fields[f] = request.title

\* Rendering as one means it: every placeholder that is known gives way to its
\* value, and the values are left alone.  A spaced one is a placeholder only where
\* it is all there is.
Means(text, token, context) ==
  /\ token.kind = "placeholder" \/ (token.kind = "spaced" /\ Len(text) = 1)
  /\ token.name \in DOMAIN context

Meaning(text, context) ==
  FlattenSeq([i \in DOMAIN text |->
                IF Means(text, text[i], context)
                THEN Str(context[text[i].name]) ELSE <<text[i]>>])

\* No value that comes with the request holds a placeholder.
NothingToReplace ==
  \A t \in ToSet(request.title) \cup ToSet(request.body) \cup ToSet(request.route) :
    ~IsPlaceholder(t)

\* web_client.py:60, _build_instruction_prompt: the prompt means what the
\* template says, if no value holds a placeholder; and a field for it carries it
\* unchanged, whatever it holds.
PromptAsMeant ==
  pc = "reply" =>
    /\ \A f \in FieldsOf("instruction_prompt") : sent.fields[f] = prompt
    /\ NothingToReplace => prompt = Meaning(profile.instruction_template, BaseContext)

\* run.py:68: however often the operator edits the profile meanwhile, a request is
\* analysed as if at one moment since it had its turn: under one version, enabled
\* then, whose prompt, target, credential and fields were posted, with nothing that
\* it asks for missing, and whose reading of the reply is recorded.
FollowsOneVersion ==
  pc \in {"reply", "mark_completed"} =>
    /\ sent.url # {} /\ sent.credential # {}
    /\ \E v \in versions :
         /\ v.enabled
         /\ \E text \in BuildInstructionPrompt(v) : sent = Payload(v, text)
         /\ pc = "mark_completed" => result = Answered(v, reply)

\* web_client.py:224-248: COMPLETED is recorded for a JSON object in a response
\* without error, with the status that the profile asks for, and with the answer of
\* that reply, which may be null or blank and is blank where the reply or the profile
\* has none; a page of the gateway, an error or another status costs an attempt, and
\* a reply that says COMPLETED does not.
CompletedIsSuccess ==
  /\ pc = "mark_completed" =>
       /\ ~reply.raises /\ reply.code = 200 /\ reply.body = "object"
       /\ profile.status_field /\ profile.success_values => reply.status = "COMPLETED"
       /\ result = IF profile.answer_field /\ reply.answer # "absent"
                   THEN {reply.answer} ELSE {"blank"}
  /\ pc = "mark_retry" /\ ~reply.raises /\ reply.code = 200 /\ reply.body = "object"
       => reply.status # "COMPLETED"
==============================================================================
