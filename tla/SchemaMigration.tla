--------------------------- MODULE SchemaMigration ---------------------------
(***************************************************************************)
(* What main does to the schema before it serves a request:                 *)
(* migrate_legacy_table and ensure_schema (db.py, schema.sql).  DDL commits *)
(* by itself, so the schema changes statement by statement and a run may    *)
(* stop between any two; most statements follow a look at                   *)
(* information_schema on another connection.  The central collector         *)
(* (email-ingestion) ensures the same schema without this program's lock.   *)
(*                                                                          *)
(* The database is a function from the tables there are to the items, the   *)
(* columns and indexes that releases have added, that each has.             *)
(***************************************************************************)
EXTENDS Integers, Sequences

CONSTANTS
  Workers,         \* processes that may run the pipeline
  NoWorker,        \* the lock's holder when nobody holds it
  MailItems,       \* columns, then indexes, of _ensure_mail_route_columns
  Start,           \* databases an older release may have left
  OldPrompts,      \* what instruction_template may be at the start
  OperatorPrompts, \* what the operator may make of it
  CollectorMakes,  \* tables and items the central collector may create
  Faults,          \* kinds of failure that may happen
  MaxFaults        \* bound: failures in one behaviour

INSTRUCTION == "instruction_template"

\* Every item that is looked for, in the order of ensure_schema.
Items == Append(MailItems, INSTRUCTION)

\* The tables of schema.sql, in its order, and the one of older releases.
SchemaTables == <<"api_profile", "mail_rule", "mail">>
OurTables    == {"api_profile", "mail_rule", "mail"}
Tables       == OurTables \cup {"request_mail"}

HomeOf(item) == IF item = INSTRUCTION THEN "api_profile" ELSE "mail"

\* The items a table has when CREATE TABLE makes it.
AllItems(table) == {Items[i] : i \in {j \in 1..Len(Items) :
                                        HomeOf(Items[j]) = table}}

\* instruction_template of the defect-analysis profile: the phrases it holds, of
\* those that tell one text from another.  No phrase is NULL or blank.
NoPrompt == {}

\* The phrases that the LIKE clauses of schema.sql look for, in any text.
OldPhrases == {"below_is_a_new_title", "{{raw_request_title}}", "points_and_cautions",
               "summary_then_mechanism", "reports_common_implication", "names_in_each_rank"}

\* The text of schema.sql, and that of db.py, which is an older release's.
CurrentPrompt == {"top_three_by_report_search", "two_sections", "as_long_as_needed"}
DEFAULT_DEFECT_INSTRUCTION_TEMPLATE == {"below_is_a_new_title", "{{raw_request_title}}"}

Prompts == SUBSET (OldPhrases \cup CurrentPrompt \cup {"other_words"})

FaultKinds == {"statement", "crash", "lock_drop"}

ASSUME MigrationAssumption ==
  /\ NoWorker \notin Workers
  /\ MailItems \in Seq(STRING)
  /\ INSTRUCTION \notin {MailItems[i] : i \in 1..Len(MailItems)}
  /\ OldPrompts \subseteq Prompts /\ OperatorPrompts \subseteq Prompts
  /\ Faults \subseteq FaultKinds /\ MaxFaults \in Nat
  /\ \A d \in Start : \A t \in DOMAIN d :
       t \in Tables /\ d[t] \subseteq {Items[i] : i \in 1..Len(Items)}

VARIABLES
  db,       \* the tables there are, and the items of each
  history,  \* the table that holds the rows of the older release, if any
  prompt,   \* instruction_template
  lock,     \* the worker that holds the advisory lock
  pc,       \* the statement each worker is about to execute
  item,     \* the item each worker is at
  edited,   \* workers whose rows of schema.sql the operator has edited since
  faults    \* failures so far

vars == <<db, history, prompt, lock, pc, item, edited, faults>>

Steps == {"idle", "existing_mail_tables", "rename_table", "schema_sql",
          "item_exists", "add_item", "seed_default_instruction_template",
          "backfill_legacy_api_routes", "run_once", "release_lock"}

Exists(table) == table \in DOMAIN db
Has(i)        == Exists(HomeOf(Items[i])) /\ Items[i] \in db[HomeOf(Items[i])]
Conflict      == Exists("mail") /\ Exists("request_mail")

\* The database with another table, or with one of its items added.
With(table, set)  == [t \in DOMAIN db \cup {table} |->
                        IF t = table THEN set ELSE db[t]]
WithItem(i)       == [db EXCEPT ![HomeOf(Items[i])] = @ \cup {Items[i]}]

Init ==
  /\ db \in Start
  /\ history = IF Exists("request_mail") THEN "request_mail"
               ELSE IF Exists("mail") THEN "mail" ELSE "nowhere"
  /\ prompt \in IF Exists("api_profile") THEN OldPrompts ELSE {NoPrompt}
  /\ lock = NoWorker
  /\ pc = [w \in Workers |-> "idle"]
  /\ item = [w \in Workers |-> 1]
  /\ edited = {}
  /\ faults = 0

----------------------------------------------------------------------------
(* One worker.                                                              *)

Fault(kind) == kind \in Faults /\ faults < MaxFaults /\ faults' = faults + 1

Goto(w, step) == pc' = [pc EXCEPT ![w] = step]

\* Every exception leaves main through pipeline_lock.
Raise(w) == Goto(w, "release_lock") /\ UNCHANGED item

\* A statement, its effect and its commit; the worker goes on, or sees it
\* fail before or after it took effect.
Statement(w, effect, goOn) ==
  \/ effect /\ goOn /\ UNCHANGED faults
  \/ /\ effect \/ UNCHANGED <<db, history, prompt>>
     /\ Fault("statement") /\ Raise(w)

AcquireLock(w) ==
  /\ pc[w] = "idle" /\ lock = NoWorker
  /\ lock' = w /\ Goto(w, "existing_mail_tables")
  /\ UNCHANGED <<db, history, prompt, item, edited, faults>>

\* Slip: the tables of this release are there, so all is well.
AfterLookBlind == IF Exists("mail") THEN "schema_sql"
                  ELSE IF Exists("request_mail") THEN "rename_table"
                  ELSE "schema_sql"

\* What migrate_legacy_table does about the tables it sees.
AfterLook == IF Conflict THEN "release_lock"
             ELSE IF Exists("request_mail") THEN "rename_table"
             ELSE "schema_sql"

ExistingMailTables(w) ==
  /\ pc[w] = "existing_mail_tables"
  /\ Statement(w, UNCHANGED <<db, history, prompt>>,
               Goto(w, AfterLook) /\ UNCHANGED item)
  /\ UNCHANGED <<lock, edited>>

Renamed == [t \in (DOMAIN db \ {"request_mail"}) \cup {"mail"} |->
              IF t = "mail" THEN db["request_mail"] ELSE db[t]]

\* RENAME TABLE fails if by now there is a table of the new name, or none of
\* the old.
RenameTable(w) ==
  /\ pc[w] = "rename_table"
  /\ IF Exists("request_mail") /\ ~Exists("mail")
     THEN Statement(w,
            db' = Renamed /\ history' = "mail" /\ UNCHANGED prompt,
            Goto(w, "schema_sql") /\ UNCHANGED item)
     ELSE Raise(w) /\ UNCHANGED <<db, history, prompt, faults>>
  /\ UNCHANGED <<lock, edited>>

\* CREATE TABLE IF NOT EXISTS, for the next table that does not.
CreateTable(w) ==
  /\ pc[w] = "schema_sql"
  /\ \E n \in 1..Len(SchemaTables) :
       /\ ~Exists(SchemaTables[n])
       /\ \A m \in 1..(n - 1) : Exists(SchemaTables[m])
       /\ Statement(w, /\ db' = With(SchemaTables[n], AllItems(SchemaTables[n]))
                       /\ UNCHANGED <<history, prompt>>,
                    UNCHANGED <<pc, item>>)
  /\ UNCHANGED <<lock, edited>>

\* Slip: the prompts of older releases are not looked for.
PromptSetIfEmpty == IF prompt = NoPrompt THEN CurrentPrompt ELSE prompt

\* WHERE and SET of the second UPDATE of the profile in schema.sql.  A text of the
\* operator's that holds one of the phrases is taken for an older release's.
PromptSet == IF prompt = NoPrompt \/ prompt \cap OldPhrases # {}
             THEN CurrentPrompt ELSE prompt

\* The INSERTs and UPDATEs of schema.sql are one transaction, and the locks
\* on the profile's row keep others from it until the commit.  The UPDATE
\* fails if the column it names is not there.
SeedRows(w) ==
  /\ pc[w] = "schema_sql" /\ \A t \in OurTables : Exists(t)
  /\ IF INSTRUCTION \in db["api_profile"]
     THEN /\ Statement(w, prompt' = PromptSet /\ UNCHANGED <<db, history>>,
                    /\ Goto(w, "item_exists")
                    /\ item' = [item EXCEPT ![w] = 1])
          /\ edited' = edited \ {w}
     ELSE Raise(w) /\ UNCHANGED <<db, history, prompt, edited, faults>>
  /\ UNCHANGED lock

\* Slip: the last index is left out.
NextItemForgetsIndex(w) ==
  IF item[w] < Len(MailItems) - 1
  THEN Goto(w, "item_exists") /\ item' = [item EXCEPT ![w] = @ + 1]
  ELSE Goto(w, "seed_default_instruction_template") /\ UNCHANGED item

\* The loops of _ensure_mail_route_columns, then _ensure_api_profile_columns.
NextItem(w) ==
  IF item[w] < Len(Items)
  THEN Goto(w, "item_exists") /\ item' = [item EXCEPT ![w] = @ + 1]
  ELSE Goto(w, "seed_default_instruction_template") /\ UNCHANGED item

\* _column_exists and _index_exists look,
ItemExists(w) ==
  /\ pc[w] = "item_exists"
  /\ Statement(w, UNCHANGED <<db, history, prompt>>,
               IF Has(item[w]) THEN NextItem(w)
                               ELSE Goto(w, "add_item") /\ UNCHANGED item)
  /\ UNCHANGED <<lock, edited>>

\* and ALTER TABLE acts, which fails if someone else was faster.
AddItem(w) ==
  /\ pc[w] = "add_item"
  /\ IF Has(item[w])
     THEN Raise(w) /\ UNCHANGED <<db, history, prompt, faults>>
     ELSE Statement(w, db' = WithItem(item[w]) /\ UNCHANGED <<history, prompt>>,
                    NextItem(w))
  /\ UNCHANGED <<lock, edited>>

\* The default is that of an older release.  SeedRows has left no blank prompt,
\* but the operator may have blanked it since.
SeedDefaultInstructionTemplate(w) ==
  /\ pc[w] = "seed_default_instruction_template"
  /\ Statement(w, /\ prompt' = IF prompt = NoPrompt
                               THEN DEFAULT_DEFECT_INSTRUCTION_TEMPLATE ELSE prompt
                  /\ UNCHANGED <<db, history>>,
               Goto(w, "backfill_legacy_api_routes") /\ UNCHANGED item)
  /\ UNCHANGED <<lock, edited>>

\* What it does to the rows is EnsureSchema in RequestPipeline.tla.
BackfillLegacyApiRoutes(w) ==
  /\ pc[w] = "backfill_legacy_api_routes"
  /\ Statement(w, UNCHANGED <<db, history, prompt>>,
               Goto(w, "run_once") /\ UNCHANGED item)
  /\ UNCHANGED <<lock, edited>>

RunOnce(w) ==
  /\ pc[w] = "run_once" /\ Goto(w, "release_lock")
  /\ UNCHANGED <<db, history, prompt, lock, item, edited, faults>>

\* Slip: the connection stays open and keeps the lock.
ReleaseLockLater(w) ==
  /\ pc[w] = "release_lock" /\ Goto(w, "idle")
  /\ UNCHANGED <<db, history, prompt, lock, item, edited, faults>>

ReleaseLock(w) ==
  /\ pc[w] = "release_lock" /\ Goto(w, "idle")
  /\ lock' = IF lock = w THEN NoWorker ELSE lock
  /\ UNCHANGED <<db, history, prompt, item, edited, faults>>

Step(w) ==
  \/ AcquireLock(w) \/ ExistingMailTables(w) \/ RenameTable(w)
  \/ CreateTable(w) \/ SeedRows(w) \/ ItemExists(w) \/ AddItem(w)
  \/ SeedDefaultInstructionTemplate(w) \/ BackfillLegacyApiRoutes(w)
  \/ RunOnce(w) \/ ReleaseLock(w)

----------------------------------------------------------------------------
(* What happens around the workers.                                         *)

Crash(w) ==
  /\ pc[w] # "idle"
  /\ Fault("crash") /\ Goto(w, "idle")
  /\ lock' = IF lock = w THEN NoWorker ELSE lock
  /\ UNCHANGED <<db, history, prompt, item, edited>>

LockDrop(w) ==
  /\ lock = w /\ lock' = NoWorker
  /\ Fault("lock_drop")
  /\ UNCHANGED <<db, history, prompt, pc, item, edited>>

\* The central collector ensures the schema in its own time: it creates a
\* table,
CollectorCreates(table) ==
  /\ table \in CollectorMakes /\ ~Exists(table)
  /\ db' = With(table, AllItems(table))
  /\ UNCHANGED <<history, prompt, lock, pc, item, edited, faults>>

\* or adds an item.
CollectorAdds(i) ==
  /\ Items[i] \in CollectorMakes
  /\ Exists(HomeOf(Items[i])) /\ ~Has(i)
  /\ db' = WithItem(i)
  /\ UNCHANGED <<history, prompt, lock, pc, item, edited, faults>>

\* The operator writes a prompt into the profile, or blanks it,
OperatorWritesPrompt ==
  /\ Exists("api_profile") /\ INSTRUCTION \in db["api_profile"]
  /\ prompt' \in OperatorPrompts /\ edited' = Workers
  /\ UNCHANGED <<db, history, lock, pc, item, faults>>

\* or makes one table of two: the rows of request_mail move over.
OperatorReconciles ==
  /\ Conflict
  /\ db' = [t \in DOMAIN db \ {"request_mail"} |-> db[t]]
  /\ history' = "mail"
  /\ UNCHANGED <<prompt, lock, pc, item, edited, faults>>

Next ==
  \/ \E w \in Workers : Step(w) \/ Crash(w) \/ LockDrop(w)
  \/ \E t \in OurTables : CollectorCreates(t)
  \/ \E i \in 1..Len(Items) : CollectorAdds(i)
  \/ OperatorWritesPrompt \/ OperatorReconciles

Spec == Init /\ [][Next]_vars

\* The scheduler starts run after run.  Nobody else has to do anything.
FairSpec == Spec /\ \A w \in Workers : WF_vars(Step(w))

----------------------------------------------------------------------------
(* Properties.                                                              *)

\* The type of every variable; the rows of an older release are in a table
\* that exists.
TypeOK ==
  /\ DOMAIN db \subseteq Tables
  /\ \A t \in DOMAIN db : db[t] \subseteq {Items[i] : i \in 1..Len(Items)}
  /\ history = "nowhere" \/ history \in DOMAIN db
  /\ prompt \in Prompts
  /\ lock \in Workers \cup {NoWorker}
  /\ pc \in [Workers -> Steps]
  /\ item \in [Workers -> 1..Len(Items)]
  /\ edited \subseteq Workers
  /\ faults \in 0..MaxFaults

\* README, "테이블명과 기존 데이터 이전": what an older release has recorded is
\* kept, so no run serves the queue while those rows lie in the other table,
\* where uidl and status would not be found and mail would be collected twice.
HistoryInService ==
  \A w \in Workers : pc[w] = "run_once" /\ history # "nowhere"
                     => history = "mail"

\* Every column and index the statements of a run name is there when the run
\* begins, wherever earlier runs stopped and whoever else adds them.
SchemaInService ==
  \A w \in Workers : pc[w] = "run_once" =>
    \A t \in OurTables : Exists(t) /\ AllItems(t) \subseteq db[t]

\* tests/test_schema_prompt.py: the migration replaces the prompts of older releases
\* and not its own, so no run serves without a prompt or with an old one,
\* although _seed_default_instruction_template still writes it: unless the
\* operator has edited the profile since the start of the run, and then the next
\* start puts it right.
PromptInService ==
  \A w \in Workers \ edited :
    pc[w] = "run_once" => prompt # NoPrompt /\ prompt \cap OldPhrases = {}

\* Wherever a run was cut off, the next runs get through: the queue is served
\* again and again, unless two tables wait for the operator (README).
ServiceResumes ==
  <>[]~Conflict => []<>(\E w \in Workers : pc[w] = "run_once")

\* docs/EMAIL_INGESTION_INTEGRATION.md: each run ensures the schema, so a
\* profile table without the column gets it.
ProfileIsUpgraded ==
  Exists("api_profile") ~> (Exists("api_profile") /\ Has(Len(Items)))

==============================================================================
