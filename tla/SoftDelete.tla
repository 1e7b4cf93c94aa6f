----------------------------- MODULE SoftDelete -----------------------------
(***************************************************************************)
(* toolset.django.soft_delete: a model's table in schema public and its    *)
(* twin in schema deleted, the three triggers that move rows between them, *)
(* the router that decides where migrations and queries go, and the two    *)
(* `migrate` commands that may run while the program is at work.           *)
(*                                                                         *)
(* A statement is one step: PostgreSQL makes it atomic with its triggers   *)
(* and serialises writers of a row.  Model.save() is two statements, and   *)
(* an instance may be much older than the save.                            *)
(***************************************************************************)
EXTENDS Naturals, Sequences, FiniteSets

CONSTANTS
  Tables,    \* db_table of each soft deleted model, as a sequence of parts
  MaxId,     \* bound on the primary keys the sequence of each table hands out
  Codes,     \* values of a field that is unique in the model
  Clients,   \* program threads that hold a model instance
  Nothing    \* stands for "no instance"

Prefix == "deleted_"
Twin(t) == <<Prefix>> \o t

\* replace(tg_table_name, 'deleted_', ''): every occurrence goes.
Original(n) == SelectSeq(n, LAMBDA part : part # Prefix)

Ids == UNION {1..MaxId[t] : t \in Tables}
Rows == [id : Ids, code : Codes, deleted_at : BOOLEAN]
Instances == [table : Tables, row : Rows]

\* A model's own table does not look like a twin.
ASSUME NamesAssumption ==
  \A t \in Tables : t \in Seq(STRING) /\ t # <<>> /\ Head(t) # Prefix

ASSUME SoftDeleteAssumption ==
  /\ MaxId \in [Tables -> Nat]
  /\ Nothing \notin Instances

\* A table whose trigger finds the way back to it.
Returns(t) == Original(Twin(t)) = t

VARIABLES
  migrated,   \* the databases whose tables are migrated
  schema,     \* the tables that exist in each schema
  triggers,   \* the triggers that are installed, for all tables alike
  public,     \* the rows of each table
  deleted,    \* the rows of its twin
  serial,     \* keys handed out for each table
  inst,       \* the instance each client holds, and the table it is of
  step,       \* "idle", or "insert": between the two statements of save()
  last,       \* history: the latest statement and how it ended
  reborn      \* history: keys inserted while their row was in the twin

data == <<public, deleted, serial, inst, step, reborn>>
setup == <<migrated, schema, triggers>>
vars == <<setup, data, last>>

Ops == {"none", "migrate", "create", "update", "save", "delete", "restore", "edit", "purge"}
Results == {"ok", "undefined", "unique", "forbidden"}

Databases == {"default", "deleted"}
AllTriggers == {"soft_delete", "soft_restore", "prevent_deletion"}

TypeOK ==
  /\ migrated \subseteq Databases
  /\ schema \in [{"public", "deleted"} -> SUBSET (Tables \cup {Twin(t) : t \in Tables})]
  /\ triggers \subseteq AllTriggers
  /\ public \in [Tables -> SUBSET Rows]
  /\ deleted \in [Tables -> SUBSET Rows]
  /\ serial \in [Tables -> Nat] /\ \A t \in Tables : serial[t] <= MaxId[t]
  /\ inst \in [Clients -> Instances \cup {Nothing}]
  /\ step \in [Clients -> {"idle", "insert"}]
  /\ \A c \in Clients : step[c] = "insert" => inst[c] # Nothing
  /\ last \in [op : Ops, table : Tables \cup {<<>>}, result : Results]
  /\ reborn \subseteq Tables \X Ids

Init ==
  /\ migrated = {}
  /\ schema = [s \in {"public", "deleted"} |-> {}]
  /\ triggers = {}
  /\ public = [t \in Tables |-> {}]
  /\ deleted = [t \in Tables |-> {}]
  /\ serial = [t \in Tables |-> 0]
  /\ inst = [c \in Clients |-> Nothing]
  /\ step = [c \in Clients |-> "idle"]
  /\ last = [op |-> "none", table |-> <<>>, result |-> "ok"]
  /\ reborn = {}

-----------------------------------------------------------------------------
(* Router and migrations. *)

\* db_for_read and db_for_write.  The schema is the search_path of the connection.
DbFor(n) == IF Head(n) = Prefix THEN "deleted" ELSE "default"
SchemaOf(db) == IF db = "default" THEN "public" ELSE "deleted"
Exists(n) == n \in schema[SchemaOf(DbFor(n))]

\* The twins belong to the app that the router calls soft_deleted.
AppOf(n) == IF n \in Tables THEN "models" ELSE "soft_deleted"

\* allow_migrate for operations on a model, and for RunSQL with a using_db hint.
AllowModel(db, app) == IF db = "default" THEN app # "soft_deleted" ELSE app = "soft_deleted"
AllowSQL(db, using) == db = using

Ended(op, t, result) == last' = [op |-> op, table |-> t, result |-> result]

\* `migrate` and `migrate --database=deleted`: first the tables.
MigrateModels(db) ==
  LET made == {n \in Tables \cup {Twin(t) : t \in Tables} : AllowModel(db, AppOf(n))}
  IN /\ db \notin migrated
     /\ migrated' = migrated \cup {db}
     /\ schema' = [schema EXCEPT ![SchemaOf(db)] = @ \cup made]
     /\ Ended("migrate", <<>>, "ok")
     /\ UNCHANGED <<triggers, data>>

\* get_soft_delete_sql_triggers, the list for a database, and the tables it names.
TriggerList(db) ==
  IF db = "default" THEN {"soft_delete"} ELSE {"soft_restore", "prevent_deletion"}
Named(db) == IF db = "default" THEN Tables ELSE {Twin(t) : t \in Tables}

\* Then the triggers; the migration fails, and changes nothing, while one of the
\* tables is missing.
MigrateTriggers(db) ==
  LET lists == {using \in Databases : AllowSQL(db, using)}
      new == UNION {TriggerList(using) : using \in lists}
  IN /\ db \in migrated
     /\ ~ new \subseteq triggers
     /\ \A using \in lists : Named(using) \subseteq schema[SchemaOf(using)]
     /\ triggers' = triggers \cup new
     /\ Ended("migrate", <<>>, "ok")
     /\ UNCHANGED <<migrated, schema, data>>

\* The release that restores rows is rolled out after both commands.
Released == triggers = AllTriggers

-----------------------------------------------------------------------------
(* Constraints. *)

Keys(R) == {r.id : r \in R}

\* The primary key and the unique field of the model.
Fits(T, R) ==
  /\ Keys(T) \cap Keys(R) = {}
  /\ \A r \in R, s \in T \cup R : r.code = s.code => r = s

\* Mutant: the twin keeps `unique`.
TwinFitsUnique(T, R) == Fits(T, R)

\* _copy_fields: the twin keeps the primary key and drops `unique`.
TwinFits(T, R) == Keys(T) \cap Keys(R) = {}

-----------------------------------------------------------------------------
(* The model's own table. *)

Create(t, code) ==
  LET row == [id |-> serial[t] + 1, code |-> code, deleted_at |-> FALSE]
      ok == Fits(public[t], {row})
  IN /\ Exists(t) /\ serial[t] < MaxId[t]
     /\ serial' = [serial EXCEPT ![t] = @ + 1]
     /\ public' = [public EXCEPT ![t] = @ \cup {r \in {row} : ok}]
     /\ reborn' = reborn \cup {<<t, i>> : i \in Keys({row}) \cap Keys(deleted[t])}
     /\ Ended("create", t, IF ok THEN "ok" ELSE "unique")
     /\ UNCHANGED <<setup, deleted, inst, step>>

\* Writes `row` over the row with its key, and says how that ended.
Overwrite(op, t, row) ==
  LET others == {r \in public[t] : r.id # row.id}
      ok == Fits(others, {row})
  IN /\ public' = IF ok THEN [public EXCEPT ![t] = others \cup {row}] ELSE public
     /\ Ended(op, t, IF ok THEN "ok" ELSE "unique")

\* UpdatedAtQueryset.update.
Update(t, row, code) ==
  /\ Exists(t) /\ row \in public[t]
  /\ Overwrite("update", t, [row EXCEPT !.code = code])
  /\ UNCHANGED <<setup, deleted, serial, inst, step, reborn>>

Load(c, t) ==
  /\ Exists(t) /\ step[c] = "idle"
  /\ \E row \in public[t] : inst' = [inst EXCEPT ![c] = [table |-> t, row |-> row]]
  /\ Ended("none", t, "ok")
  /\ UNCHANGED <<setup, public, deleted, serial, step, reborn>>

\* The first statement of save(): an UPDATE of the row with the instance's key.
SaveUpdate(c, code) ==
  /\ step[c] = "idle" /\ inst[c] # Nothing
  /\ inst' = [inst EXCEPT ![c].row.code = code]
  /\ LET t == inst[c].table
         row == inst'[c].row
     IN IF row.id \in Keys(public[t])
        THEN Overwrite("save", t, row) /\ UNCHANGED step
        ELSE /\ step' = [step EXCEPT ![c] = "insert"]
             /\ Ended("save", t, "ok") /\ UNCHANGED public
  /\ UNCHANGED <<setup, deleted, serial, reborn>>

\* The second: it met no row, so save() inserts one with the key of the old one.
SaveInsert(c) ==
  /\ step[c] = "insert"
  /\ step' = [step EXCEPT ![c] = "idle"]
  /\ LET t == inst[c].table
         row == inst[c].row
         ok == Fits(public[t], {row})
     IN /\ public' = [public EXCEPT ![t] = @ \cup {r \in {row} : ok}]
        /\ reborn' = reborn \cup {<<t, i>> : i \in Keys({row}) \cap Keys(deleted[t])}
        /\ Ended("save", t, IF ok THEN "ok" ELSE "unique")
  /\ UNCHANGED <<setup, deleted, serial, inst>>

\* Mutants: the date is not set, or lost with its column.
CopiesUndated(R) == IF "soft_delete" \in triggers THEN R ELSE {}
CopiesDateless(R) ==
  IF "soft_delete" \in triggers THEN {[id |-> r.id, code |-> r.code] : r \in R} ELSE {}

\* The rows soft_delete puts into the twin when those of R are deleted.
Copies(R) ==
  IF "soft_delete" \in triggers THEN {[r EXCEPT !.deleted_at = TRUE] : r \in R} ELSE {}

\* Mutant: the trigger returns NULL, which calls the deletion off.
GoneNone(R) == IF "soft_delete" \in triggers THEN {} ELSE R

\* The rows that go: soft_delete returns old for each.
Gone(R) == R

\* A DELETE of the rows in R.  The trigger runs before each of them goes.
Delete(t, R) ==
  LET result == IF Copies(R) # {} /\ Twin(t) \notin schema["deleted"] THEN "undefined"
                ELSE IF TwinFits(deleted[t], Copies(R)) THEN "ok" ELSE "unique"
      ok == result = "ok"
  IN /\ Exists(t)
     /\ public' = IF ok THEN [public EXCEPT ![t] = @ \ Gone(R)] ELSE public
     /\ deleted' = IF ok THEN [deleted EXCEPT ![t] = @ \cup Copies(R)] ELSE deleted
     /\ Ended("delete", t, result)
     /\ UNCHANGED <<setup, serial, inst, step, reborn>>

-----------------------------------------------------------------------------
(* The twin. *)

\* Mutant: the trigger lets everything pass.
PreventedNever(R) == FALSE

\* prevent_deletion raises for a row that is still marked as deleted.
Prevented(R) == "prevent_deletion" \in triggers /\ \E r \in R : r.deleted_at

\* The rows soft_restore moves, of those an UPDATE has written.
Freed(R) == IF "soft_restore" \in triggers THEN {r \in R : ~ r.deleted_at} ELSE {}

\* An UPDATE of the twin that turns the rows in R into those in new.  The trigger
\* inserts into the table it takes for the original and deletes from the twin.
TwinUpdate(op, t, R, new) ==
  LET back == Freed(new)
      to == Original(Twin(t))
      result == IF back = {} THEN "ok"
                ELSE IF to \notin Tables THEN "undefined"
                ELSE IF ~ Fits(public[to], back) THEN "unique"
                ELSE IF Prevented(back) THEN "forbidden" ELSE "ok"
      ok == result = "ok"
  IN /\ Exists(Twin(t)) /\ Released
     /\ public' = IF ok /\ back # {} THEN [public EXCEPT ![to] = @ \cup back] ELSE public
     /\ deleted' = IF ok THEN [deleted EXCEPT ![t] = (@ \ R) \cup (new \ back)] ELSE deleted
     /\ reborn' = reborn \cup {<<to, i>> : i \in IF to \in Tables \ {t} THEN Keys(back) ELSE {}}
     /\ Ended(op, t, result)
     /\ UNCHANGED <<setup, serial, inst, step>>

\* SoftDeletableABC.restore for the rows its query selects.
Restore(t, R) == TwinUpdate("restore", t, R, {[r EXCEPT !.deleted_at = FALSE] : r \in R})

\* Any other update of a deleted row.
Edit(t, row, code) == TwinUpdate("edit", t, {row}, {[row EXCEPT !.code = code]})

\* A DELETE on the twin.
Purge(t, R) ==
  /\ Exists(Twin(t)) /\ Released
  /\ deleted' = IF Prevented(R) THEN deleted ELSE [deleted EXCEPT ![t] = @ \ R]
  /\ Ended("purge", t, IF Prevented(R) THEN "forbidden" ELSE "ok")
  /\ UNCHANGED <<setup, public, serial, inst, step, reborn>>

-----------------------------------------------------------------------------
Migrate == \E db \in Databases : MigrateModels(db) \/ MigrateTriggers(db)

Statement(t) ==
  \/ \E code \in Codes : Create(t, code)
  \/ \E row \in public[t], code \in Codes : Update(t, row, code)
  \/ \E R \in (SUBSET public[t]) \ {{}} : Delete(t, R)
  \/ \E R \in (SUBSET deleted[t]) \ {{}} : Restore(t, R) \/ Purge(t, R)
  \/ \E row \in deleted[t], code \in Codes : Edit(t, row, code)

Instance(c) ==
  \/ \E t \in Tables : Load(c, t)
  \/ \E code \in Codes : SaveUpdate(c, code)
  \/ SaveInsert(c)

Next ==
  \/ Migrate
  \/ \E t \in Tables : Statement(t)
  \/ \E c \in Clients : Instance(c)

Spec == Init /\ [][Next]_vars

-----------------------------------------------------------------------------
(* Properties. *)

\* A row rests in the twin only with its deletion date, and in public only without:
\* no statement leaves a row half moved, and prevent_deletion protects every row.  It
\* rests on Released: a restore before soft_restore exists would leave a row without
\* its date in the twin.
TwinStamped ==
  \A t \in Tables : /\ \A r \in deleted[t] : r.deleted_at
                    /\ \A r \in public[t] : ~ r.deleted_at

\* A key is in both tables only if its row was deleted and then inserted again, by
\* the save() of an instance loaded before or by a restore into the wrong table.
OnlyRebornCollide ==
  \A t \in Tables : \A i \in Keys(public[t]) \cap Keys(deleted[t]) : <<t, i>> \in reborn

\* A row of the table is still there, or its stamped copy is in the twin.
RowsKept(t) ==
  \A r \in public[t] :
    r.id \in Keys(public'[t]) \/ [r EXCEPT !.deleted_at = TRUE] \in deleted'[t]

\* A row of the twin is still there, or back in the table its trigger names.
TwinRowsKept(t) ==
  \A r \in deleted[t] :
    \/ r.id \in Keys(deleted'[t])
    \/ /\ Original(Twin(t)) \in Tables
       /\ [r EXCEPT !.deleted_at = FALSE] \in public'[Original(Twin(t))]

\* Once soft_delete is installed nothing destroys a row: what leaves the table
\* arrives in the twin with its values, and what leaves the twin arrives with its
\* values in the table the restore names.
RowsOnlyMove ==
  [][\A t \in Tables : ("soft_delete" \in triggers => RowsKept(t)) /\ TwinRowsKept(t)]_vars

\* Rows come back from the twin through restore() alone, however they are edited.
OnlyRestoreBringsBack ==
  [][\A t \in Tables : Keys(deleted[t]) \subseteq Keys(deleted'[t]) \/ last'.op = "restore"]_vars

\* What makes a statement fail.  A delete: the twin is not migrated yet, or the key
\* was reborn; never a value some deleted row has.  A restore: a reborn key, a unique
\* value that is taken, by a live row or by another of the deleted ones, or a name
\* that leads to another table.  And no statement deletes from the twin.
FailsForAReason ==
  LET t == last.table
      reborns == {i \in Keys(public[t]) \cap Keys(deleted[t]) : <<t, i>> \in reborn}
      taken == \E r \in deleted[t], s \in deleted[t] \cup public[t] : r.id # s.id /\ r.code = s.code
      failed(op, result) == last.op = op /\ last.result = result
  IN /\ failed("delete", "undefined") => "deleted" \notin migrated
     /\ failed("delete", "unique") => reborns # {}
     /\ failed("restore", "unique") => reborns # {} \/ taken \/ ~ Returns(t)
     /\ ~ failed("restore", "forbidden")
     /\ last.op = "purge" => last.result = "forbidden"
=============================================================================
