-------------------------- MODULE MCSchemaMigration --------------------------
(***************************************************************************)
(* Small instances of SchemaMigration.tla for TLC.                          *)
(***************************************************************************)
EXTENDS SchemaMigration, TLC

CONSTANTS w1, w2

MCWorkers  == {w1, w2}
MCWorker   == {w1}

\* Two of the columns and an index on them.
MCMailItems == <<"route_type", "raw_hash", "idx_mail_route_status">>

MCProfile == "api_profile" :> {INSTRUCTION}

\* Nothing yet; an older release's table under its old name, with a part of
\* the items or none; a database left by a release with profiles.
MCStart ==
  {<<>>,
   "request_mail" :> {},
   "request_mail" :> {"route_type"},
   "mail" :> {},
   MCProfile @@ "mail" :> {"raw_hash"}}

\* An operator's own text, and one with a placeholder that an older release used.
MCOwn      == {"other_words"}
MCOwnOfOld == {"other_words", "{{raw_request_title}}"}

MCOldPrompts == {NoPrompt, DEFAULT_DEFECT_INSTRUCTION_TEMPLATE,
                 {"names_in_each_rank"}, CurrentPrompt, MCOwnOfOld}
MCOperator   == {NoPrompt, MCOwn, MCOwnOfOld}
MCCollector  == {"mail", "mail_rule", "route_type", "idx_mail_route_status"}
MCNobody     == {}
MCFaults     == {"statement", "crash", "lock_drop"}
MCNoFaults   == {}

\* A release with profiles that had no instruction_template.
MCBareProfile == {"api_profile" :> {} @@ "mail" :> {"route_type"}}
==============================================================================
