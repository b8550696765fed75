------------------------ MODULE SchemaMigrationProofs ------------------------
(***************************************************************************)
(* Theorems about SchemaMigration.tla, for any number of workers, any       *)
(* columns and indexes, any databases to start from and any number of       *)
(* failures.                                                                *)
(***************************************************************************)
EXTENDS SchemaMigration, TLAPS

\* The steps after the look at the tables, after the rows of schema.sql, in
\* the loops over the items, and after them.
AfterRename == {"schema_sql", "item_exists", "add_item",
                "seed_default_instruction_template",
                "backfill_legacy_api_routes", "run_once"}
AfterRows   == AfterRename \ {"schema_sql"}
AtItem      == {"item_exists", "add_item"}
AfterItems  == AfterRows \ AtItem

\* A prompt that is there and is not an older release's.
Good      == prompt # NoPrompt /\ prompt \cap OldPhrases = {}
ItemNames  == {Items[i] : i \in 1..Len(Items)}

\* The database by itself.
DbOK ==
  /\ DOMAIN db \subseteq Tables
  /\ \A t \in DOMAIN db : db[t] \subseteq ItemNames
  /\ history \in {"nowhere", "mail", "request_mail"}
  /\ history = "mail" => Exists("mail")
  /\ Exists("request_mail") <=> history = "request_mail"
  /\ prompt \in Prompts

\* What a worker at a step relies on.
Relies(w) ==
  /\ pc[w] \in AfterRename => ~Exists("request_mail")
  /\ pc[w] \in AfterRows   => /\ \A t \in OurTables : Exists(t)
                              /\ w \in edited \/ Good
  /\ pc[w] \in AtItem      => \A i \in 1..(item[w] - 1) : Has(i)
  /\ pc[w] \in AfterItems  => \A i \in 1..Len(Items) : Has(i)

Inv == /\ DbOK
       /\ lock \in Workers \cup {NoWorker}
       /\ pc \in [Workers -> Steps]
       /\ item \in [Workers -> 1..Len(Items)]
       /\ edited \subseteq Workers
       /\ faults \in 0..MaxFaults
       /\ \A w \in Workers : Relies(w)

\* What no step takes away from another worker.
Keeps ==
  /\ Exists("request_mail")' => Exists("request_mail")
  /\ \A t \in OurTables : Exists(t) => Exists(t)'
  /\ \A i \in 1..Len(Items) : Has(i) => Has(i)'
  /\ Good => Good' \/ edited' = Workers

LEMMA ItemsAreASequence ==
  /\ Len(Items) \in Nat \ {0}
  /\ \A i \in 1..Len(Items) : HomeOf(Items[i]) \in OurTables
  /\ \A t : AllItems(t) \subseteq ItemNames
<1>1. MailItems \in Seq(STRING \cup {INSTRUCTION})
  BY MigrationAssumption
<1>2. Len(Items) = Len(MailItems) + 1 /\ Len(MailItems) \in Nat
  BY <1>1 DEF Items
<1>3. \A x : HomeOf(x) \in OurTables
  BY DEF HomeOf, OurTables
<1>4. \A t : AllItems(t) \subseteq ItemNames
  BY DEF AllItems, ItemNames
<1> QED
  BY <1>2, <1>3, <1>4

\* The texts of this release and of db.py are prompts; schema.sql looks for no
\* phrase of the former.
LEMMA PromptsTellApart ==
  /\ NoPrompt \in Prompts
  /\ CurrentPrompt \in Prompts /\ DEFAULT_DEFECT_INSTRUCTION_TEMPLATE \in Prompts
  /\ CurrentPrompt # NoPrompt /\ CurrentPrompt \cap OldPhrases = {}
BY DEF NoPrompt, CurrentPrompt, OldPhrases, Prompts,
       DEFAULT_DEFECT_INSTRUCTION_TEMPLATE

----------------------------------------------------------------------------
(* What happens to the database, one way after the other.                   *)

LEMMA DbUnchanged ==
  ASSUME DbOK, db' = db, history' = history, prompt' = prompt
  PROVE  Keeps /\ DbOK'
BY DEF Keeps, DbOK, Exists, Has, Good

\* The prompt is written: a good one is followed by a good one, or by any of
\* the operator's.
LEMMA PromptWritten ==
  ASSUME DbOK, db' = db, history' = history, prompt' \in Prompts,
         Good => Good' \/ edited' = Workers
  PROVE  Keeps /\ DbOK'
BY DEF Keeps, DbOK, Exists, Has

\* A table is made.
LEMMA TableMade ==
  ASSUME DbOK, NEW t \in OurTables, ~Exists(t), db' = With(t, AllItems(t)),
         history' = history, prompt' = prompt
  PROVE  Keeps /\ DbOK'
<1>1. /\ DOMAIN db' = DOMAIN db \cup {t}
      /\ \A u \in DOMAIN db' : db'[u] = IF u = t THEN AllItems(t) ELSE db[u]
  BY DEF With
<1>2. t # "request_mail" /\ t \in Tables
  BY DEF OurTables, Tables
<1>3. \A u \in DOMAIN db : u \in DOMAIN db' /\ db'[u] = db[u]
  BY <1>1 DEF Exists
<1>4. Keeps
  BY <1>1, <1>2, <1>3 DEF Keeps, Exists, Has, Good
<1>5. \A u \in DOMAIN db' : db'[u] \subseteq ItemNames
  BY <1>1, ItemsAreASequence DEF DbOK
<1> QED
  BY <1>1, <1>2, <1>4, <1>5 DEF DbOK, Exists

\* An item is added.
LEMMA ItemAdded ==
  ASSUME DbOK, NEW i \in 1..Len(Items), Exists(HomeOf(Items[i])),
         db' = WithItem(i), history' = history, prompt' = prompt
  PROVE  Keeps /\ DbOK' /\ Has(i)'
<1> DEFINE h == HomeOf(Items[i])
<1>1. /\ DOMAIN db' = DOMAIN db
      /\ h \in DOMAIN db
      /\ db'[h] = db[h] \cup {Items[i]}
      /\ \A u \in DOMAIN db : u # h => db'[u] = db[u]
  BY DEF WithItem, Exists
<1>2. \A u \in DOMAIN db : db[u] \subseteq db'[u]
  BY <1>1
<1>3. Keeps
  BY <1>1, <1>2 DEF Keeps, Exists, Has, Good
<1>4. Has(i)'
  BY <1>1 DEF Has, Exists
<1>5. \A u \in DOMAIN db' : db'[u] \subseteq ItemNames
  BY <1>1 DEF DbOK, ItemNames
<1> QED
  BY <1>1, <1>3, <1>4, <1>5 DEF DbOK, Exists

\* The old table gets the new name.
LEMMA TableRenamed ==
  ASSUME DbOK, Exists("request_mail"), ~Exists("mail"), db' = Renamed,
         history' = "mail", prompt' = prompt
  PROVE  Keeps /\ DbOK' /\ ~Exists("request_mail")'
<1>1. /\ DOMAIN db' = (DOMAIN db \ {"request_mail"}) \cup {"mail"}
      /\ \A u \in DOMAIN db' :
           db'[u] = IF u = "mail" THEN db["request_mail"] ELSE db[u]
  BY DEF Renamed
<1>2. \A u \in OurTables : u \in DOMAIN db => u \in DOMAIN db' /\ db'[u] = db[u]
  BY <1>1 DEF OurTables, Exists
<1>3. Keeps
  BY <1>1, <1>2, ItemsAreASequence DEF Keeps, Exists, Has, Good
<1>4. \A u \in DOMAIN db' : db'[u] \subseteq ItemNames
  BY <1>1 DEF DbOK, Exists
<1> QED
  BY <1>1, <1>3, <1>4 DEF DbOK, Exists, Tables, OurTables

\* The operator makes one table of two.
LEMMA TablesReconciled ==
  ASSUME DbOK, Conflict, history' = "mail", prompt' = prompt,
         db' = [t \in DOMAIN db \ {"request_mail"} |-> db[t]]
  PROVE  Keeps /\ DbOK'
<1>1. /\ DOMAIN db' = DOMAIN db \ {"request_mail"}
      /\ \A u \in DOMAIN db' : db'[u] = db[u]
  OBVIOUS
<1>2. Keeps
  BY <1>1, ItemsAreASequence DEF Keeps, Exists, Has, Good, OurTables
<1> QED
  BY <1>1, <1>2 DEF DbOK, Exists, Conflict

----------------------------------------------------------------------------
(* What a step leaves of the invariant.                                     *)

\* A worker that does not move still has what it relies on.
LEMMA OthersRely ==
  ASSUME Inv, Keeps, NEW v \in Workers, pc'[v] = pc[v], item'[v] = item[v],
         v \in edited => v \in edited'
  PROVE  Relies(v)'
<1>1. Relies(v) /\ item[v] \in 1..Len(Items)
  BY DEF Inv
<1>2. \A i \in 1..(item[v] - 1) : i \in 1..Len(Items)
  BY <1>1, ItemsAreASequence
<1> QED
  BY <1>1, <1>2 DEF Relies, Keeps

\* One worker moves.
LEMMA WorkerMoves ==
  ASSUME Inv, Keeps, DbOK', lock' \in Workers \cup {NoWorker},
         faults' \in 0..MaxFaults, edited' \subseteq Workers,
         NEW w \in Workers, edited \ {w} \subseteq edited', NEW s \in Steps, pc' = [pc EXCEPT ![w] = s],
         item' \in [Workers -> 1..Len(Items)],
         \A v \in Workers \ {w} : item'[v] = item[v],
         Relies(w)'
  PROVE  Inv'
<1>1. /\ pc' \in [Workers -> Steps]
      /\ \A v \in Workers \ {w} : pc'[v] = pc[v]
  BY DEF Inv
<1>2. \A v \in Workers \ {w} : Relies(v)'
  BY <1>1, OthersRely
<1> QED
  BY <1>1, <1>2 DEF Inv

\* It ends its run, or begins one.
LEMMA WorkerLeaves ==
  ASSUME Inv, Keeps, DbOK', lock' \in Workers \cup {NoWorker},
         faults' \in 0..MaxFaults, edited' \subseteq Workers, item' = item,
         NEW w \in Workers, edited \ {w} \subseteq edited', NEW s \in Steps \ AfterRename,
         pc' = [pc EXCEPT ![w] = s]
  PROVE  Inv'
<1>1. pc'[w] = s /\ s \in Steps
  BY DEF Inv
<1>2. Relies(w)'
  BY <1>1 DEF Relies, AfterRename, AfterRows, AtItem, AfterItems
<1> QED
  BY <1>1, <1>2, WorkerMoves DEF Inv

\* No worker moves.
LEMMA NobodyMoves ==
  ASSUME Inv, Keeps, DbOK', pc' = pc, item' = item,
         lock' \in Workers \cup {NoWorker}, faults' \in 0..MaxFaults,
         edited \subseteq edited', edited' \subseteq Workers
  PROVE  Inv'
BY OthersRely DEF Inv

----------------------------------------------------------------------------
(* The steps of a worker.                                                   *)

\* A fault is one of those there may be.
LEMMA FaultCounts ==
  ASSUME Inv, NEW kind, Fault(kind)
  PROVE  faults' \in 0..MaxFaults
BY MigrationAssumption DEF Fault, Inv

\* Whatever a statement did before it failed, the worker leaves.
LEMMA StatementFails ==
  ASSUME Inv, Keeps, DbOK', NEW w \in Workers, lock' = lock,
         edited' \in {edited, edited \ {w}}, Fault("statement"), Raise(w)
  PROVE  Inv'
<1>1. "release_lock" \in Steps \ AfterRename
  BY DEF Steps, AfterRename
<1> QED
  BY <1>1, FaultCounts, WorkerLeaves DEF Raise, Goto, Inv

LEMMA AcquireLockStep ==
  ASSUME Inv, NEW w \in Workers, AcquireLock(w) PROVE Inv'
<1>1. "existing_mail_tables" \in Steps \ AfterRename
  BY DEF Steps, AfterRename
<1>2. Keeps /\ DbOK'
  BY DbUnchanged DEF AcquireLock, Inv
<1> QED
  BY <1>1, <1>2, WorkerLeaves DEF AcquireLock, Goto, Inv

LEMMA ExistingMailTablesStep ==
  ASSUME Inv, NEW w \in Workers, ExistingMailTables(w) PROVE Inv'
<1>1. db' = db /\ history' = history /\ prompt' = prompt /\ lock' = lock
      /\ edited' = edited
  BY DEF ExistingMailTables, Statement
<1>2. Keeps /\ DbOK'
  BY <1>1, DbUnchanged DEF Inv
<1>3. CASE Fault("statement") /\ Raise(w)
  BY <1>1, <1>2, <1>3, StatementFails
<1>4. CASE Goto(w, AfterLook) /\ item' = item /\ faults' = faults
  <2>1. AfterLook \in Steps
    BY DEF AfterLook, Steps
  <2>2. pc'[w] = AfterLook /\ pc' = [pc EXCEPT ![w] = AfterLook]
    BY <1>4 DEF Goto, Inv
  <2>3. AfterLook \in AfterRename =>
          AfterLook = "schema_sql" /\ ~Exists("request_mail")
    BY DEF AfterLook, AfterRename, Conflict
  <2>4. Relies(w)'
    BY <1>1, <2>2, <2>3
       DEF Relies, AfterRename, AfterRows, AtItem, AfterItems, Exists
  <2> QED
    BY <1>1, <1>2, <1>4, <2>1, <2>2, <2>4, WorkerMoves DEF Inv
<1> QED
  BY <1>3, <1>4 DEF ExistingMailTables, Statement

LEMMA RenameTableStep ==
  ASSUME Inv, NEW w \in Workers, RenameTable(w) PROVE Inv'
<1>1. CASE ~(Exists("request_mail") /\ ~Exists("mail"))
  <2>1. Keeps /\ DbOK'
    BY <1>1, DbUnchanged DEF RenameTable, Inv
  <2>2. "release_lock" \in Steps \ AfterRename
    BY DEF Steps, AfterRename
  <2> QED
    BY <1>1, <2>1, <2>2, WorkerLeaves DEF RenameTable, Raise, Goto, Inv
<1>2. CASE Exists("request_mail") /\ ~Exists("mail")
  <2>1. CASE db' = Renamed /\ history' = "mail" /\ prompt' = prompt
    <3>1. Keeps /\ DbOK' /\ ~Exists("request_mail")'
      BY <1>2, <2>1, TableRenamed DEF Inv
    <3>2. CASE Fault("statement") /\ Raise(w)
      BY <3>1, <3>2, StatementFails DEF RenameTable
    <3>3. CASE Goto(w, "schema_sql") /\ item' = item /\ faults' = faults
      <4>1. pc'[w] = "schema_sql" /\ "schema_sql" \in Steps
        BY <3>3 DEF Goto, Inv, Steps
      <4>2. Relies(w)'
        BY <3>1, <4>1 DEF Relies, AfterRows, AtItem, AfterItems, AfterRename
      <4> QED
        BY <3>1, <3>3, <4>1, <4>2, WorkerMoves DEF RenameTable, Goto, Inv
    <3> QED
      BY <1>2, <3>2, <3>3 DEF RenameTable, Statement
  <2>2. CASE db' = db /\ history' = history /\ prompt' = prompt
             /\ Fault("statement") /\ Raise(w)
    BY <2>2, DbUnchanged, StatementFails DEF RenameTable, Inv
  <2> QED
    BY <1>2, <2>1, <2>2 DEF RenameTable, Statement
<1> QED
  BY <1>1, <1>2

LEMMA CreateTableStep ==
  ASSUME Inv, NEW w \in Workers, CreateTable(w) PROVE Inv'
<1>1. PICK n \in 1..Len(SchemaTables) :
        /\ ~Exists(SchemaTables[n])
        /\ Statement(w, /\ db' = With(SchemaTables[n], AllItems(SchemaTables[n]))
                        /\ UNCHANGED <<history, prompt>>,
                     UNCHANGED <<pc, item>>)
  BY DEF CreateTable
<1>2. SchemaTables[n] \in OurTables
  BY DEF SchemaTables, OurTables
<1>3. Keeps /\ DbOK'
  BY <1>1, <1>2, TableMade, DbUnchanged DEF Statement, Inv
<1>4. CASE Fault("statement") /\ Raise(w)
  BY <1>3, <1>4, StatementFails DEF CreateTable
<1>5. CASE pc' = pc /\ item' = item /\ faults' = faults
  BY <1>3, <1>5, NobodyMoves DEF CreateTable, Inv
<1> QED
  BY <1>1, <1>4, <1>5 DEF Statement

LEMMA SeedRowsStep ==
  ASSUME Inv, NEW w \in Workers, SeedRows(w) PROVE Inv'
<1>1. CASE INSTRUCTION \notin db["api_profile"]
  <2>1. Keeps /\ DbOK'
    BY <1>1, DbUnchanged DEF SeedRows, Inv
  <2>2. "release_lock" \in Steps \ AfterRename
    BY DEF Steps, AfterRename
  <2> QED
    BY <1>1, <2>1, <2>2, WorkerLeaves DEF SeedRows, Raise, Goto, Inv
<1>2. CASE INSTRUCTION \in db["api_profile"]
  <2>1. CASE prompt' = PromptSet /\ db' = db /\ history' = history
    <3>1. Good' /\ prompt' \in Prompts
      BY <2>1, PromptsTellApart DEF PromptSet, Good, Inv, DbOK
    <3>2. Keeps /\ DbOK'
      BY <2>1, <3>1, PromptWritten DEF Inv
    <3>3. CASE Fault("statement") /\ Raise(w)
      BY <3>2, <3>3, StatementFails DEF SeedRows
    <3>4. CASE /\ Goto(w, "item_exists") /\ item' = [item EXCEPT ![w] = 1]
               /\ faults' = faults
      <4>1. /\ pc'[w] = "item_exists" /\ "item_exists" \in Steps
            /\ item'[w] = 1 /\ item' \in [Workers -> 1..Len(Items)]
            /\ \A v \in Workers \ {w} : item'[v] = item[v]
        BY <3>4, ItemsAreASequence DEF Goto, Inv, Steps
      <4>2. (\A t \in OurTables : Exists(t)')
            /\ Exists("request_mail")' = Exists("request_mail")
        BY <2>1 DEF SeedRows, Exists
      <4>3. ~Exists("request_mail")
        BY DEF SeedRows, Inv, Relies, AfterRename
      <4>4. Relies(w)'
        BY <3>1, <3>2, <4>1, <4>2, <4>3
           DEF Relies, AfterRows, AtItem, AfterItems, AfterRename
      <4> QED
        BY <3>2, <3>4, <4>1, <4>4, WorkerMoves DEF SeedRows, Goto, Inv
    <3> QED
      BY <1>2, <3>3, <3>4 DEF SeedRows, Statement
  <2>2. CASE db' = db /\ history' = history /\ prompt' = prompt
             /\ Fault("statement") /\ Raise(w)
    BY <2>2, DbUnchanged, StatementFails DEF SeedRows, Inv
  <2> QED
    BY <1>2, <2>1, <2>2 DEF SeedRows, Statement
<1> QED
  BY <1>1, <1>2

\* The item is there: the next one, or the end of the loops.
LEMMA NextItemStep ==
  ASSUME Inv, Keeps, DbOK', NEW w \in Workers, pc[w] \in AtItem,
         NEW k \in 1..Len(Items), k = item[w], Has(k)', NextItem(w),
         lock' = lock, edited' = edited, faults' \in 0..MaxFaults
  PROVE  Inv'
<1>1. /\ item[w] \in 1..Len(Items) /\ Len(Items) \in Nat
      /\ ~Exists("request_mail") /\ (w \in edited \/ Good)
      /\ \A t \in OurTables : Exists(t)
      /\ \A i \in 1..(item[w] - 1) : Has(i)
  BY ItemsAreASequence DEF Inv, Relies, AfterRename, AfterRows, AtItem
<1>2. \A i \in 1..item[w] : Has(i)'
  <2> SUFFICES ASSUME NEW i \in 1..item[w] PROVE Has(i)'
    OBVIOUS
  <2>1. CASE i = item[w]
    BY <2>1
  <2>2. CASE i # item[w]
    <3>1. i \in 1..(item[w] - 1) /\ i \in 1..Len(Items)
      BY <1>1, <2>2
    <3> QED
      BY <1>1, <3>1 DEF Keeps
  <2> QED
    BY <2>1, <2>2
<1>3. /\ ~Exists("request_mail")' /\ (w \in edited' \/ Good')
      /\ \A t \in OurTables : Exists(t)'
  BY <1>1 DEF Keeps
<1>4. CASE item[w] < Len(Items)
  <2>1. /\ pc' = [pc EXCEPT ![w] = "item_exists"] /\ pc'[w] = "item_exists"
        /\ "item_exists" \in Steps
        /\ item'[w] = item[w] + 1 /\ item' \in [Workers -> 1..Len(Items)]
        /\ \A v \in Workers \ {w} : item'[v] = item[v]
    BY <1>1, <1>4 DEF NextItem, Goto, Inv, Steps
  <2>2. 1..(item'[w] - 1) = 1..item[w]
    BY <1>1, <2>1
  <2>3. Relies(w)'
    BY <1>2, <1>3, <2>1, <2>2
       DEF Relies, AfterRename, AfterRows, AtItem, AfterItems
  <2> QED
    BY <2>1, <2>3, WorkerMoves DEF Inv
<1>5. CASE ~(item[w] < Len(Items))
  <2>1. /\ pc' = [pc EXCEPT ![w] = "seed_default_instruction_template"]
        /\ pc'[w] = "seed_default_instruction_template"
        /\ "seed_default_instruction_template" \in Steps
        /\ item' = item /\ item[w] = Len(Items)
    BY <1>1, <1>5 DEF NextItem, Goto, Inv, Steps
  <2>2. Relies(w)'
    BY <1>2, <1>3, <2>1 DEF Relies, AfterRename, AfterRows, AtItem, AfterItems
  <2> QED
    BY <2>1, <2>2, WorkerMoves DEF Inv
<1> QED
  BY <1>4, <1>5

LEMMA ItemExistsStep ==
  ASSUME Inv, NEW w \in Workers, ItemExists(w) PROVE Inv'
<1>1. db' = db /\ history' = history /\ prompt' = prompt /\ lock' = lock
      /\ edited' = edited
  BY DEF ItemExists, Statement
<1>2. Keeps /\ DbOK'
  BY <1>1, DbUnchanged DEF Inv
<1>3. CASE Fault("statement") /\ Raise(w)
  BY <1>1, <1>2, <1>3, StatementFails
<1>4. CASE Has(item[w]) /\ NextItem(w) /\ faults' = faults
  <2>1. PICK k \in 1..Len(Items) : k = item[w]
    BY DEF Inv
  <2>2. Has(k)'
    BY <1>2, <1>4, <2>1 DEF Keeps
  <2> QED
    BY <1>1, <1>2, <1>4, <2>1, <2>2, NextItemStep DEF ItemExists, AtItem, Inv
<1>5. CASE ~Has(item[w]) /\ Goto(w, "add_item") /\ item' = item
           /\ faults' = faults
  <2>1. pc'[w] = "add_item" /\ "add_item" \in Steps
    BY <1>5 DEF Goto, Inv, Steps
  <2>2. Relies(w) /\ pc[w] = "item_exists" /\ item[w] \in 1..Len(Items)
    BY DEF Inv, ItemExists
  <2>3. Relies(w)'
    BY <1>1, <1>5, <2>1, <2>2
       DEF Relies, AfterRename, AfterRows, AtItem, AfterItems, Exists, Has, Good
  <2> QED
    BY <1>1, <1>2, <1>5, <2>1, <2>3, WorkerMoves DEF Goto, Inv
<1> QED
  BY <1>3, <1>4, <1>5 DEF ItemExists, Statement

LEMMA AddItemStep ==
  ASSUME Inv, NEW w \in Workers, AddItem(w) PROVE Inv'
<1>1. CASE Has(item[w])
  <2>1. Keeps /\ DbOK'
    BY <1>1, DbUnchanged DEF AddItem, Inv
  <2>2. "release_lock" \in Steps \ AfterRename
    BY DEF Steps, AfterRename
  <2> QED
    BY <1>1, <2>1, <2>2, WorkerLeaves DEF AddItem, Raise, Goto, Inv
<1>2. CASE ~Has(item[w])
  <2>1. CASE db' = WithItem(item[w]) /\ history' = history /\ prompt' = prompt
    <3>1. PICK k \in 1..Len(Items) : k = item[w]
      BY DEF Inv
    <3>2. Exists(HomeOf(Items[k]))
      BY ItemsAreASequence
         DEF AddItem, Inv, Relies, AfterRename, AfterRows, AtItem
    <3>3. Keeps /\ DbOK' /\ Has(k)'
      BY <2>1, <3>1, <3>2, ItemAdded DEF Inv
    <3>4. CASE Fault("statement") /\ Raise(w)
      BY <3>3, <3>4, StatementFails DEF AddItem
    <3>5. CASE NextItem(w) /\ faults' = faults
      BY <3>1, <3>3, <3>5, NextItemStep DEF AddItem, AtItem, Inv
    <3> QED
      BY <1>2, <3>4, <3>5 DEF AddItem, Statement
  <2>2. CASE db' = db /\ history' = history /\ prompt' = prompt
             /\ Fault("statement") /\ Raise(w)
    BY <2>2, DbUnchanged, StatementFails DEF AddItem, Inv
  <2> QED
    BY <1>2, <2>1, <2>2 DEF AddItem, Statement
<1> QED
  BY <1>1, <1>2

LEMMA SeedTemplateStep ==
  ASSUME Inv, NEW w \in Workers, SeedDefaultInstructionTemplate(w) PROVE Inv'
<1>1. db' = db /\ history' = history /\ lock' = lock /\ edited' = edited
      /\ prompt' \in {prompt, DEFAULT_DEFECT_INSTRUCTION_TEMPLATE}
      /\ (prompt # NoPrompt => prompt' = prompt)
  BY DEF SeedDefaultInstructionTemplate, Statement
<1>2. Keeps /\ DbOK'
  BY <1>1, PromptsTellApart, PromptWritten DEF Inv, DbOK, Good
<1>3. CASE Fault("statement") /\ Raise(w)
  BY <1>1, <1>2, <1>3, StatementFails
<1>4. CASE Goto(w, "backfill_legacy_api_routes") /\ item' = item
           /\ faults' = faults
  <2>1. /\ pc'[w] = "backfill_legacy_api_routes"
        /\ "backfill_legacy_api_routes" \in Steps
    BY <1>4 DEF Goto, Inv, Steps
  <2>2. Relies(w)'
    BY <1>1, <1>2, <2>1
       DEF SeedDefaultInstructionTemplate, Inv, Relies, Keeps, AfterRename,
           AfterRows, AtItem, AfterItems
  <2> QED
    BY <1>1, <1>2, <1>4, <2>1, <2>2, WorkerMoves DEF Goto, Inv
<1> QED
  BY <1>3, <1>4 DEF SeedDefaultInstructionTemplate, Statement

LEMMA BackfillStep ==
  ASSUME Inv, NEW w \in Workers, BackfillLegacyApiRoutes(w) PROVE Inv'
<1>1. db' = db /\ history' = history /\ prompt' = prompt /\ lock' = lock
      /\ edited' = edited
  BY DEF BackfillLegacyApiRoutes, Statement
<1>2. Keeps /\ DbOK'
  BY <1>1, DbUnchanged DEF Inv
<1>3. CASE Fault("statement") /\ Raise(w)
  BY <1>1, <1>2, <1>3, StatementFails
<1>4. CASE Goto(w, "run_once") /\ item' = item /\ faults' = faults
  <2>1. pc'[w] = "run_once" /\ "run_once" \in Steps
    BY <1>4 DEF Goto, Inv, Steps
  <2>2. Relies(w)'
    BY <1>1, <1>2, <2>1
       DEF BackfillLegacyApiRoutes, Inv, Relies, Keeps, AfterRename,
           AfterRows, AtItem, AfterItems
  <2> QED
    BY <1>1, <1>2, <1>4, <2>1, <2>2, WorkerMoves DEF Goto, Inv
<1> QED
  BY <1>3, <1>4 DEF BackfillLegacyApiRoutes, Statement

\* The steps that end a run, well or not.
LEMMA LeavingSteps ==
  ASSUME Inv, NEW w \in Workers, RunOnce(w) \/ ReleaseLock(w) \/ Crash(w)
  PROVE  Inv'
<1>1. /\ Keeps /\ DbOK'
      /\ item' = item /\ lock' \in Workers \cup {NoWorker}
      /\ edited' = edited /\ edited \subseteq Workers
  BY DbUnchanged DEF RunOnce, ReleaseLock, Crash, Inv
<1>2. faults' \in 0..MaxFaults
  BY FaultCounts DEF RunOnce, ReleaseLock, Crash, Inv
<1>3. {"idle", "release_lock"} \subseteq Steps \ AfterRename
  BY DEF Steps, AfterRename
<1> QED
  BY <1>1, <1>2, <1>3, WorkerLeaves DEF RunOnce, ReleaseLock, Crash, Goto

\* The steps of the others.
LEMMA SurroundingSteps ==
  ASSUME Inv,
         \/ \E w \in Workers : LockDrop(w)
         \/ \E t \in OurTables : CollectorCreates(t)
         \/ \E i \in 1..Len(Items) : CollectorAdds(i)
         \/ OperatorWritesPrompt \/ OperatorReconciles
  PROVE  Inv'
<1>1. CASE \E w \in Workers : LockDrop(w)
  BY <1>1, DbUnchanged, FaultCounts, NobodyMoves DEF LockDrop, Inv
<1>2. CASE \E t \in OurTables : CollectorCreates(t)
  BY <1>2, TableMade, NobodyMoves DEF CollectorCreates, Inv
<1>3. CASE \E i \in 1..Len(Items) : CollectorAdds(i)
  BY <1>3, ItemAdded, NobodyMoves DEF CollectorAdds, Inv
<1>4. CASE OperatorWritesPrompt
  <2>1. prompt' \in Prompts /\ edited' = Workers
    BY <1>4, MigrationAssumption DEF OperatorWritesPrompt
  <2> QED
    BY <1>4, <2>1, PromptWritten, NobodyMoves DEF OperatorWritesPrompt, Inv
<1>5. CASE OperatorReconciles
  BY <1>5, TablesReconciled, NobodyMoves DEF OperatorReconciles, Inv
<1> QED
  BY <1>1, <1>2, <1>3, <1>4, <1>5

LEMMA MigrationStep == Inv /\ [Next]_vars => Inv'
<1> SUFFICES ASSUME Inv, [Next]_vars PROVE Inv'
  OBVIOUS
<1>1. ASSUME NEW w \in Workers, Step(w) PROVE Inv'
  BY <1>1, AcquireLockStep, ExistingMailTablesStep, RenameTableStep,
     CreateTableStep, SeedRowsStep, ItemExistsStep, AddItemStep,
     SeedTemplateStep, BackfillStep, LeavingSteps DEF Step
<1>2. CASE UNCHANGED vars
  BY <1>2, DbUnchanged, NobodyMoves DEF vars, Inv
<1> QED
  BY <1>1, <1>2, LeavingSteps, SurroundingSteps DEF Next

LEMMA MigrationInit == Init => Inv
<1> SUFFICES ASSUME Init PROVE Inv
  OBVIOUS
<1>1. DbOK
  BY MigrationAssumption, PromptsTellApart
     DEF Init, DbOK, Exists, ItemNames, Tables
<1>2. \A w \in Workers : Relies(w)
  BY DEF Init, Relies, AfterRename, AfterRows, AtItem, AfterItems
<1> QED
  BY <1>1, <1>2, ItemsAreASequence, MigrationAssumption DEF Init, Inv, Steps

LEMMA MigrationInv == Spec => []Inv
BY MigrationInit, MigrationStep, PTL DEF Spec

----------------------------------------------------------------------------
(* The theorems.                                                            *)

\* Every variable keeps its type, and the rows of an older release are never
\* in a table that is gone.
THEOREM MigrationType == Spec => []TypeOK
<1>1. Inv => TypeOK
  BY DEF Inv, DbOK, TypeOK, ItemNames, Exists
<1> QED
  BY <1>1, MigrationInv, PTL

\* No run serves the queue beside the rows of an older release
\* (migrate_legacy_table), whatever fails and whoever creates tables.
THEOREM MigrationKeepsHistory == Spec => []HistoryInService
<1>1. Inv => HistoryInService
  BY DEF Inv, DbOK, Relies, AfterRename, HistoryInService, Exists, Tables,
         OurTables
<1> QED
  BY <1>1, MigrationInv, PTL

\* A run finds every table, column and index it needs (ensure_schema).
THEOREM MigrationCompletesSchema == Spec => []SchemaInService
<1>1. Inv => SchemaInService
  <2> SUFFICES ASSUME Inv, NEW w \in Workers, pc[w] = "run_once",
                      NEW t \in OurTables
               PROVE  Exists(t) /\ AllItems(t) \subseteq db[t]
    BY DEF SchemaInService
  <2>1. Exists(t) /\ \A i \in 1..Len(Items) : Has(i)
    BY DEF Inv, Relies, AfterRename, AfterRows, AtItem, AfterItems
  <2> QED
    BY <2>1 DEF AllItems, Has
<1> QED
  BY <1>1, MigrationInv, PTL

\* No run serves without a prompt or with one that schema.sql takes for an older
\* release's, whatever the operator writes before the run's transaction, wherever
\* earlier runs stopped, and although _seed_default_instruction_template writes
\* such a text; only what the operator writes after that transaction waits for
\* the next start.
THEOREM MigrationUpdatesPrompt == Spec => []PromptInService
<1>1. Inv => PromptInService
  BY DEF Inv, Relies, AfterRename, AfterRows, Good, PromptInService
<1> QED
  BY <1>1, MigrationInv, PTL
==============================================================================
