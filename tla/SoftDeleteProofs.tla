-------------------------- MODULE SoftDeleteProofs --------------------------
(***************************************************************************)
(* Theorems about SoftDelete for every value of its constants: any tables  *)
(* of any names, any keys, any values of the unique field, any clients.    *)
(***************************************************************************)
EXTENDS SoftDelete, TLAPS

USE SoftDeleteAssumption

-----------------------------------------------------------------------------
(* Type correctness. *)

\* Marking, unmarking and editing a row gives a row with the same key.
LEMMA MarkType ==
  ASSUME NEW r \in Rows, NEW b \in BOOLEAN
  PROVE  /\ [r EXCEPT !.deleted_at = b] \in Rows
         /\ [r EXCEPT !.deleted_at = b].id = r.id
         /\ [r EXCEPT !.deleted_at = b].code = r.code
         /\ [r EXCEPT !.deleted_at = b].deleted_at = b
BY DEF Rows

\* The same for the rows of a statement.
LEMMA MarkedType ==
  ASSUME NEW R \in SUBSET Rows, NEW b \in BOOLEAN
  PROVE  {[r EXCEPT !.deleted_at = b] : r \in R} \in SUBSET Rows
<1>1. \A r \in R : [r EXCEPT !.deleted_at = b] \in Rows
  BY MarkType
<1>2. QED
  BY <1>1

\* Each of them is one of the rows, marked.
LEMMA MarkedRows ==
  ASSUME NEW R \in SUBSET Rows, NEW b \in BOOLEAN
  PROVE  \A s \in {[r EXCEPT !.deleted_at = b] : r \in R} :
           /\ s.deleted_at = b
           /\ \E r \in R : s = [r EXCEPT !.deleted_at = b] /\ s.id = r.id /\ s.code = r.code
<1>1. SUFFICES ASSUME NEW r \in R
               PROVE  LET s == [r EXCEPT !.deleted_at = b]
                      IN s.deleted_at = b /\ s.id = r.id /\ s.code = r.code
  OBVIOUS
<1>2. QED
  BY MarkType

\* The rows a restore writes.
LEMMA FreeRows ==
  ASSUME NEW R \in SUBSET Rows
  PROVE  \A s \in {[r EXCEPT !.deleted_at = FALSE] : r \in R} :
           ~ s.deleted_at /\ \E r \in R : r.id = s.id /\ r.code = s.code
<1>1. SUFFICES ASSUME NEW q \in R
               PROVE  LET s == [q EXCEPT !.deleted_at = FALSE]
                      IN ~ s.deleted_at /\ \E r \in R : r.id = s.id /\ r.code = s.code
  OBVIOUS
<1>2. QED
  BY MarkType

\* Distinct rows have distinct keys after as before.
LEMMA MarkedKeyed ==
  ASSUME NEW R \in SUBSET Rows, NEW b \in BOOLEAN, \A r, s \in R : r.id = s.id => r = s
  PROVE  \A r, s \in {[q EXCEPT !.deleted_at = b] : q \in R} : r.id = s.id => r = s
BY MarkedRows

LEMMA EditType ==
  ASSUME NEW r \in Rows, NEW v \in Codes
  PROVE  /\ [r EXCEPT !.code = v] \in Rows
         /\ [r EXCEPT !.code = v].id = r.id
         /\ [r EXCEPT !.code = v].deleted_at = r.deleted_at
BY DEF Rows

LEMMA KeysType == ASSUME NEW R \in SUBSET Rows PROVE Keys(R) \subseteq Ids
BY DEF Keys, Rows

LEMMA RebornType ==
  ASSUME TypeOK, NEW t \in Tables, NEW S \in SUBSET Ids
  PROVE  reborn \cup {<<t, i>> : i \in S} \subseteq Tables \X Ids
<1>1. \A i \in S : <<t, i>> \in Tables \X Ids
  OBVIOUS
<1>2. QED
  BY <1>1 DEF TypeOK

LEMMA TypeInit == Init => TypeOK
BY DEF Init, TypeOK, Ops, Results

LEMMA EndedType ==
  ASSUME NEW op \in Ops, NEW t \in Tables \cup {<<>>}, NEW result \in Results,
         Ended(op, t, result)
  PROVE  last' \in [op : Ops, table : Tables \cup {<<>>}, result : Results]
BY DEF Ended

LEMMA MigrateType == TypeOK /\ Migrate => TypeOK'
<1>1. SUFFICES ASSUME TypeOK, Migrate PROVE TypeOK'
  OBVIOUS
<1>2. last' \in [op : Ops, table : Tables \cup {<<>>}, result : Results]
  BY <1>1, EndedType DEF Migrate, MigrateModels, MigrateTriggers, Ops, Results
<1>3. ASSUME NEW db \in Databases, MigrateModels(db)
      PROVE  TypeOK'
  BY <1>1, <1>2, <1>3 DEF TypeOK, MigrateModels, data, Databases, SchemaOf
<1>4. ASSUME NEW db \in Databases, MigrateTriggers(db)
      PROVE  TypeOK'
  <2>1. UNION {TriggerList(using) : using \in {u \in Databases : AllowSQL(db, u)}} \subseteq AllTriggers
    BY DEF TriggerList, AllTriggers
  <2>2. triggers' \subseteq AllTriggers
    BY <1>1, <1>4, <2>1 DEF TypeOK, MigrateTriggers
  <2>3. QED
    BY <1>1, <1>2, <1>4, <2>2 DEF TypeOK, MigrateTriggers, data
<1>5. QED
  BY <1>1, <1>3, <1>4 DEF Migrate

LEMMA CreateType ==
  ASSUME TypeOK, NEW t \in Tables, NEW code \in Codes, Create(t, code)
  PROVE  TypeOK'
<1> DEFINE row == [id |-> serial[t] + 1, code |-> code, deleted_at |-> FALSE]
<1>1. serial[t] + 1 \in 1..MaxId[t] /\ serial[t] + 1 \in Nat
  BY DEF TypeOK, Create
<1>2. row \in Rows
  BY <1>1 DEF Rows, Ids
<1>3. serial' \in [Tables -> Nat] /\ \A u \in Tables : serial'[u] <= MaxId[u]
  BY <1>1 DEF TypeOK, Create
<1>4. public' \in [Tables -> SUBSET Rows]
  BY <1>2 DEF TypeOK, Create
<1>5. reborn' \subseteq Tables \X Ids
  <2>1. Keys({row}) \subseteq Ids
    BY <1>2, KeysType
  <2>2. QED
    BY <2>1, RebornType DEF Create
<1>6. last' \in [op : Ops, table : Tables \cup {<<>>}, result : Results]
  BY EndedType DEF Create, Ops, Results
<1>7. QED
  BY <1>3, <1>4, <1>5, <1>6 DEF TypeOK, Create, setup

LEMMA OverwriteType ==
  ASSUME TypeOK, NEW op \in Ops, NEW t \in Tables, NEW row \in Rows, Overwrite(op, t, row)
  PROVE  /\ public' \in [Tables -> SUBSET Rows]
         /\ last' \in [op : Ops, table : Tables \cup {<<>>}, result : Results]
<1>1. last' \in [op : Ops, table : Tables \cup {<<>>}, result : Results]
  BY EndedType DEF Overwrite, Results
<1>2. {r \in public[t] : r.id # row.id} \cup {row} \in SUBSET Rows
  BY DEF TypeOK
<1>3. QED
  BY <1>1, <1>2 DEF TypeOK, Overwrite

LEMMA InstanceType ==
  ASSUME TypeOK, NEW c \in Clients, Instance(c)
  PROVE  TypeOK'
<1>1. ASSUME NEW t \in Tables, Load(c, t)
      PROVE  TypeOK'
  <2>1. PICK row \in public[t] : inst' = [inst EXCEPT ![c] = [table |-> t, row |-> row]]
    BY <1>1 DEF Load
  <2>2. [table |-> t, row |-> row] \in Instances
    BY <2>1 DEF TypeOK, Instances
  <2>3. last' \in [op : Ops, table : Tables \cup {<<>>}, result : Results]
    BY <1>1, EndedType DEF Load, Ops, Results
  <2>4. QED
    BY <1>1, <2>1, <2>2, <2>3 DEF TypeOK, Load, setup
<1>2. ASSUME NEW code \in Codes, SaveUpdate(c, code)
      PROVE  TypeOK'
  <2> DEFINE t == inst[c].table
             row == [inst[c].row EXCEPT !.code = code]
  <2>1. inst[c] \in Instances
    BY <1>2 DEF TypeOK, SaveUpdate
  <2>2. t \in Tables /\ inst[c].row \in Rows
    BY <2>1 DEF Instances
  <2>3. row \in Rows
    BY <1>2, <2>2, EditType
  <2>4. inst' = [inst EXCEPT ![c] = [table |-> t, row |-> row]]
    <3>1. inst' = [inst EXCEPT ![c] = [inst[c] EXCEPT !.row = [inst[c].row EXCEPT !.code = code]]]
      BY <1>2 DEF SaveUpdate
    <3>2. [inst[c] EXCEPT !.row = row] = [table |-> t, row |-> row]
      BY <2>1 DEF Instances
    <3>3. QED
      BY <3>1, <3>2
  <2>5. inst' \in [Clients -> Instances \cup {Nothing}] /\ inst'[c].row = row /\ inst'[c] # Nothing
    <3>1. [table |-> t, row |-> row] \in Instances
      BY <2>2, <2>3 DEF Instances
    <3>2. QED
      BY <2>4, <3>1 DEF TypeOK
  <2>6. CASE row.id \in Keys(public[t])
    <3>1. Overwrite("save", t, row) /\ UNCHANGED step
      BY <1>2, <2>5, <2>6 DEF SaveUpdate
    <3>2. QED
      BY <1>2, <2>2, <2>3, <2>4, <2>5, <3>1, OverwriteType DEF TypeOK, SaveUpdate, setup, Ops
  <2>7. CASE row.id \notin Keys(public[t])
    <3>1. step' = [step EXCEPT ![c] = "insert"] /\ Ended("save", t, "ok") /\ UNCHANGED public
      BY <1>2, <2>5, <2>7 DEF SaveUpdate
    <3>2. last' \in [op : Ops, table : Tables \cup {<<>>}, result : Results]
      BY <2>2, <3>1, EndedType DEF Ops, Results
    <3>3. QED
      BY <1>2, <2>4, <2>5, <3>1, <3>2 DEF TypeOK, SaveUpdate, setup
  <2>8. QED
    BY <2>6, <2>7
<1>3. ASSUME SaveInsert(c)
      PROVE  TypeOK'
  <2>1. inst[c] \in Instances
    BY <1>3 DEF TypeOK, SaveInsert
  <2>2. inst[c].table \in Tables /\ inst[c].row \in Rows
    BY <2>1 DEF Instances
  <2>3. Keys({inst[c].row}) \subseteq Ids
    BY <2>2, KeysType
  <2>4. public' \in [Tables -> SUBSET Rows] /\ reborn' \subseteq Tables \X Ids
    BY <1>3, <2>2, <2>3, RebornType DEF TypeOK, SaveInsert
  <2>5. last' \in [op : Ops, table : Tables \cup {<<>>}, result : Results]
    BY <1>3, <2>2, EndedType DEF SaveInsert, Ops, Results
  <2>6. QED
    BY <1>3, <2>4, <2>5 DEF TypeOK, SaveInsert, setup
<1>4. QED
  BY <1>1, <1>2, <1>3 DEF Instance

LEMMA DeleteType ==
  ASSUME TypeOK, NEW t \in Tables, NEW R \in SUBSET public[t], Delete(t, R)
  PROVE  TypeOK'
<1>1. Copies(R) \in SUBSET Rows
  BY MarkedType DEF TypeOK, Copies
<1>2. public' \in [Tables -> SUBSET Rows] /\ deleted' \in [Tables -> SUBSET Rows]
  BY <1>1 DEF TypeOK, Delete
<1>3. last' \in [op : Ops, table : Tables \cup {<<>>}, result : Results]
  BY EndedType DEF Delete, Ops, Results
<1>4. QED
  BY <1>2, <1>3 DEF TypeOK, Delete, setup

LEMMA TwinUpdateType ==
  ASSUME TypeOK, NEW op \in Ops, NEW t \in Tables, NEW R, NEW new \in SUBSET Rows,
         TwinUpdate(op, t, R, new)
  PROVE  TypeOK'
<1> DEFINE to == Original(Twin(t))
           back == Freed(new)
<1>1. back \in SUBSET Rows
  BY DEF Freed
<1>2. public' \in [Tables -> SUBSET Rows] /\ deleted' \in [Tables -> SUBSET Rows]
  <2> HIDE DEF back
  <2>1. public' = public \/ (to \in Tables /\ public' = [public EXCEPT ![to] = @ \cup back])
    BY DEF TwinUpdate, back
  <2>2. deleted' = deleted \/ deleted' = [deleted EXCEPT ![t] = (@ \ R) \cup (new \ back)]
    BY DEF TwinUpdate, back
  <2>3. public' \in [Tables -> SUBSET Rows]
    <3>1. CASE to \in Tables /\ public' = [public EXCEPT ![to] = @ \cup back]
      <4>1. public[to] \cup back \in SUBSET Rows
        BY <1>1, <3>1 DEF TypeOK
      <4>2. QED
        BY <3>1, <4>1 DEF TypeOK
    <3>2. QED
      BY <2>1, <3>1 DEF TypeOK
  <2>4. (deleted[t] \ R) \cup (new \ back) \in SUBSET Rows
    BY DEF TypeOK
  <2>5. deleted' \in [Tables -> SUBSET Rows]
    BY <2>2, <2>4 DEF TypeOK
  <2>6. QED
    BY <2>3, <2>5
<1>3. reborn' \subseteq Tables \X Ids
  <2>1. Keys(back) \in SUBSET Ids
    BY <1>1, KeysType
  <2>2. CASE to \in Tables \ {t}
    <3>1. reborn' = reborn \cup {<<to, i>> : i \in Keys(back)}
      BY <2>2 DEF TwinUpdate
    <3>2. QED
      BY <2>1, <2>2, <3>1, RebornType
  <2>3. CASE to \notin Tables \ {t}
    <3>1. reborn' = reborn
      BY <2>3 DEF TwinUpdate
    <3>2. QED
      BY <3>1 DEF TypeOK
  <2>4. QED
    BY <2>2, <2>3
<1>4. last' \in [op : Ops, table : Tables \cup {<<>>}, result : Results]
  BY EndedType DEF TwinUpdate, Results
<1>5. QED
  BY <1>2, <1>3, <1>4 DEF TypeOK, TwinUpdate, setup

LEMMA StatementType ==
  ASSUME TypeOK, NEW t \in Tables, Statement(t)
  PROVE  TypeOK'
<1>1. ASSUME NEW code \in Codes, Create(t, code)
      PROVE  TypeOK'
  BY <1>1, CreateType
<1>2. ASSUME NEW row \in public[t], NEW code \in Codes, Update(t, row, code)
      PROVE  TypeOK'
  <2>1. [row EXCEPT !.code = code] \in Rows
    BY <1>2, EditType DEF TypeOK
  <2>2. QED
    BY <1>2, <2>1, OverwriteType DEF TypeOK, Update, setup, Ops
<1>3. ASSUME NEW R \in SUBSET public[t], Delete(t, R)
      PROVE  TypeOK'
  BY <1>3, DeleteType
<1>4. ASSUME NEW R \in SUBSET deleted[t], Restore(t, R)
      PROVE  TypeOK'
  <2>1. {[r EXCEPT !.deleted_at = FALSE] : r \in R} \in SUBSET Rows
    BY <1>4, MarkedType DEF TypeOK
  <2>2. QED
    BY <1>4, <2>1, TwinUpdateType DEF Restore, Ops
<1>5. ASSUME NEW R \in SUBSET deleted[t], Purge(t, R)
      PROVE  TypeOK'
  <2>1. last' \in [op : Ops, table : Tables \cup {<<>>}, result : Results]
    BY <1>5, EndedType DEF Purge, Ops, Results
  <2>2. QED
    BY <1>5, <2>1 DEF TypeOK, Purge, setup
<1>6. ASSUME NEW row \in deleted[t], NEW code \in Codes, Edit(t, row, code)
      PROVE  TypeOK'
  <2>1. {[row EXCEPT !.code = code]} \in SUBSET Rows
    BY <1>6, EditType DEF TypeOK
  <2>2. QED
    BY <1>6, <2>1, TwinUpdateType DEF Edit, Ops
<1>7. QED
  BY <1>1, <1>2, <1>3, <1>4, <1>5, <1>6 DEF Statement

LEMMA TypeNext == TypeOK /\ [Next]_vars => TypeOK'
<1>1. SUFFICES ASSUME TypeOK, [Next]_vars
               PROVE  TypeOK'
  OBVIOUS
<1>2. CASE UNCHANGED vars
  BY <1>1, <1>2 DEF TypeOK, vars, setup, data
<1>3. QED
  BY <1>1, <1>2, MigrateType, StatementType, InstanceType DEF Next

\* The tables, the twins and the instances keep their types.
THEOREM TypeCorrect == Spec => []TypeOK
<1>1. Init => TypeOK
  BY TypeInit
<1>2. TypeOK /\ [Next]_vars => TypeOK'
  BY TypeNext
<1>3. QED
  BY <1>1, <1>2, PTL DEF Spec

-----------------------------------------------------------------------------
(***************************************************************************)
(* The inductive invariant.  That a row is stamped in the twin and nowhere *)
(* else makes prevent_deletion protect every row and restore free every    *)
(* row it touches; that a key names one row makes a move leave no second   *)
(* row with the key behind; that instances come from the model's own table *)
(* makes save() write rows without a deletion date.                        *)
(***************************************************************************)

Keyed ==
  \A t \in Tables : /\ \A r, s \in public[t] : r.id = s.id => r = s
                    /\ \A r, s \in deleted[t] : r.id = s.id => r = s

InstancesLive == \A c \in Clients : inst[c] # Nothing => ~ inst[c].row.deleted_at

IInv == TypeOK /\ Keyed /\ TwinStamped /\ OnlyRebornCollide /\ InstancesLive

\* Without InstancesLive and the types, which the statements below do not touch.
Store == Keyed /\ TwinStamped /\ OnlyRebornCollide

LEMMA InsertStore ==
  ASSUME IInv, NEW t \in Tables, NEW row \in Rows, ~ row.deleted_at,
         NEW ok \in BOOLEAN, ok => Fits(public[t], {row}),
         public' = [public EXCEPT ![t] = @ \cup {r \in {row} : ok}],
         reborn' = reborn \cup {<<t, i>> : i \in Keys({row}) \cap Keys(deleted[t])},
         deleted' = deleted
  PROVE  Store'
<1>1. ok => row.id \notin Keys(public[t])
  BY DEF Fits, Keys
<1>2. \A u \in Tables : \A r \in public'[u] : r \in public[u] \/ (u = t /\ r = row /\ ok)
  BY DEF IInv, TypeOK
<1>3. Keyed'
  BY <1>1, <1>2 DEF IInv, Keyed, Keys
<1>4. TwinStamped'
  BY <1>2 DEF IInv, TwinStamped
<1>5. OnlyRebornCollide'
  <2>1. SUFFICES ASSUME NEW u \in Tables, NEW i \in Keys(public'[u]), i \in Keys(deleted[u])
                 PROVE  <<u, i>> \in reborn'
    BY DEF OnlyRebornCollide
  <2>2. i \in Keys(public[u]) \/ (u = t /\ i = row.id)
    BY <1>2 DEF Keys
  <2>3. CASE i \in Keys(public[u])
    BY <2>1, <2>3 DEF IInv, OnlyRebornCollide
  <2>4. CASE u = t /\ i = row.id
    <3>1. i \in Keys({row}) \cap Keys(deleted[t])
      BY <2>1, <2>4 DEF Keys
    <3>2. QED
      BY <2>4, <3>1
  <2>5. QED
    BY <2>2, <2>3, <2>4
<1>6. QED
  BY <1>3, <1>4, <1>5 DEF Store

LEMMA OverwriteStore ==
  ASSUME IInv, NEW op, NEW t \in Tables, NEW row \in Rows, ~ row.deleted_at,
         row.id \in Keys(public[t]), Overwrite(op, t, row),
         deleted' = deleted, reborn' = reborn
  PROVE  Store'
<1>1. CASE public' = public
  BY <1>1 DEF IInv, Store, Keyed, TwinStamped, OnlyRebornCollide
<1>2. CASE public' = [public EXCEPT ![t] = {r \in public[t] : r.id # row.id} \cup {row}]
  <2>1. \A u \in Tables : \A r \in public'[u] :
          (r \in public[u] /\ (u = t => r.id # row.id)) \/ (u = t /\ r = row)
    BY <1>2 DEF IInv, TypeOK
  <2>2. Keyed'
    BY <2>1 DEF IInv, Keyed
  <2>3. TwinStamped'
    BY <2>1 DEF IInv, TwinStamped
  <2>4. \A u \in Tables : Keys(public'[u]) \subseteq Keys(public[u])
    BY <2>1 DEF Keys
  <2>5. OnlyRebornCollide'
    BY <2>4 DEF IInv, OnlyRebornCollide
  <2>6. QED
    BY <2>2, <2>3, <2>5 DEF Store
<1>3. QED
  BY <1>1, <1>2 DEF Overwrite

LEMMA DeleteStore ==
  ASSUME IInv, NEW t \in Tables, NEW R \in SUBSET public[t], Delete(t, R)
  PROVE  Store'
<1>1. CASE public' = public /\ deleted' = deleted
  BY <1>1 DEF IInv, Store, Keyed, TwinStamped, OnlyRebornCollide, Delete
<1>2. CASE /\ public' = [public EXCEPT ![t] = @ \ R]
           /\ deleted' = [deleted EXCEPT ![t] = @ \cup Copies(R)]
           /\ Keys(deleted[t]) \cap Keys(Copies(R)) = {}
  <2>1. \A s \in Copies(R) : s.deleted_at /\ \E r \in R : s = [r EXCEPT !.deleted_at = TRUE] /\ s.id = r.id
    <3>1. R \in SUBSET Rows
      BY DEF IInv, TypeOK
    <3>2. SUFFICES ASSUME NEW s \in {[r EXCEPT !.deleted_at = TRUE] : r \in R}
                   PROVE  s.deleted_at /\ \E r \in R : s = [r EXCEPT !.deleted_at = TRUE] /\ s.id = r.id
      BY DEF Copies
    <3>3. PICK r \in R : s = [r EXCEPT !.deleted_at = TRUE]
      BY <3>2
    <3>4. r \in Rows
      BY <3>1
    <3>5. [r EXCEPT !.deleted_at = TRUE].deleted_at = TRUE /\ [r EXCEPT !.deleted_at = TRUE].id = r.id
      BY <3>4 DEF Rows
    <3>6. s.deleted_at = TRUE /\ s.id = r.id
      BY <3>3, <3>5
    <3>7. QED
      BY <3>3, <3>6
  <2>2. \A u \in Tables : \A r \in public'[u] : r \in public[u] /\ (u = t => r \notin R)
    BY <1>2 DEF IInv, TypeOK
  <2>3. \A u \in Tables : \A r \in deleted'[u] : r \in deleted[u] \/ (u = t /\ r \in Copies(R))
    BY <1>2 DEF IInv, TypeOK
  <2>4. TwinStamped'
    BY <2>1, <2>2, <2>3 DEF IInv, TwinStamped
  <2>5. \A r, s \in Copies(R) : r.id = s.id => r = s
    BY MarkedKeyed DEF Copies, IInv, TypeOK, Keyed
  <2>6. Keyed'
    <3>1. \A u \in Tables : \A r, s \in public'[u] : r.id = s.id => r = s
      BY <2>2 DEF IInv, Keyed
    <3>2. \A r \in deleted[t], s \in Copies(R) : r.id # s.id
      BY <1>2 DEF Keys
    <3>3. \A u \in Tables : \A r, s \in deleted'[u] : r.id = s.id => r = s
      BY <2>3, <2>5, <3>2 DEF IInv, Keyed
    <3>4. QED
      BY <3>1, <3>3 DEF Keyed
  <2>7. OnlyRebornCollide'
    <3>1. SUFFICES ASSUME NEW u \in Tables, NEW r \in public'[u], NEW s \in deleted'[u], r.id = s.id
                   PROVE  <<u, r.id>> \in reborn'
      BY DEF OnlyRebornCollide, Keys
    <3>2. r \in public[u] /\ (u = t => r \notin R)
      BY <2>2, <3>1
    <3>3. s \in deleted[u]
      BY <2>1, <2>3, <3>1, <3>2 DEF IInv, Keyed
    <3>4. r.id \in Keys(public[u]) \cap Keys(deleted[u])
      BY <3>1, <3>2, <3>3 DEF Keys
    <3>5. QED
      BY <3>4 DEF IInv, OnlyRebornCollide, Delete
  <2>8. QED
    BY <2>4, <2>6, <2>7 DEF Store
<1>3. QED
  BY <1>1, <1>2 DEF Delete, Gone, TwinFits

LEMMA RestoreStore ==
  ASSUME IInv, NEW t \in Tables, NEW R \in SUBSET deleted[t], Restore(t, R)
  PROVE  Store'
<1> DEFINE new == {[r EXCEPT !.deleted_at = FALSE] : r \in R}
           to == Original(Twin(t))
<1>1. R \in SUBSET Rows
  BY DEF IInv, TypeOK
<1>2. \A s \in new : ~ s.deleted_at /\ \E r \in R : s.id = r.id
  BY <1>1, FreeRows
<1>3. Freed(new) = new
  BY <1>2 DEF Restore, TwinUpdate, Released, AllTriggers, Freed
<1>4. reborn \subseteq reborn'
  BY DEF Restore, TwinUpdate
<1>5. CASE public' = public /\ deleted' = deleted
  BY <1>4, <1>5 DEF IInv, Store, Keyed, TwinStamped, OnlyRebornCollide
<1>6. CASE /\ to \in Tables
           /\ public' = [public EXCEPT ![to] = @ \cup new]
           /\ deleted' = [deleted EXCEPT ![t] = @ \ R]
           /\ Fits(public[to], new)
  <2> HIDE DEF new, to
  <2>1. \A u \in Tables : \A r \in public'[u] : r \in public[u] \/ (u = to /\ r \in new)
    BY <1>6 DEF IInv, TypeOK
  <2>2. \A u \in Tables : \A r \in deleted'[u] : r \in deleted[u] /\ (u = t => r \notin R)
    BY <1>6 DEF IInv, TypeOK
  <2>3. TwinStamped'
    BY <1>2, <2>1, <2>2 DEF IInv, TwinStamped
  <2>4. Keyed'
    <3>1. \A r, s \in new : r.id = s.id => r = s
      BY <1>1, MarkedKeyed DEF IInv, Keyed, new
    <3>2. \A r \in public[to], s \in new : r.id # s.id
      BY <1>6 DEF Fits, Keys
    <3>3. \A u \in Tables : \A r, s \in public'[u] : r.id = s.id => r = s
      BY <2>1, <3>1, <3>2 DEF IInv, Keyed
    <3>4. \A u \in Tables : \A r, s \in deleted'[u] : r.id = s.id => r = s
      BY <2>2 DEF IInv, Keyed
    <3>5. QED
      BY <3>3, <3>4 DEF Keyed
  <2>5. OnlyRebornCollide'
    <3>1. SUFFICES ASSUME NEW u \in Tables, NEW r \in public'[u], NEW s \in deleted'[u], r.id = s.id
                   PROVE  <<u, r.id>> \in reborn'
      BY DEF OnlyRebornCollide, Keys
    <3>2. s \in deleted[u] /\ (u = t => s \notin R)
      BY <2>2, <3>1
    <3>3. CASE r \in public[u]
      <4>1. r.id \in Keys(public[u]) \cap Keys(deleted[u])
        BY <3>1, <3>2, <3>3 DEF Keys
      <4>2. QED
        BY <1>4, <4>1 DEF IInv, OnlyRebornCollide
    <3>4. CASE u = to /\ r \in new
      <4>1. PICK q \in R : q.id = r.id
        BY <1>2, <3>4
      <4>2. u # t
        BY <3>1, <3>2, <4>1 DEF IInv, Keyed
      <4>3. r.id \in Keys(new)
        BY <3>4 DEF Keys
      <4>4. reborn' = reborn \cup {<<to, i>> : i \in Keys(new)}
        BY <1>3, <1>6, <3>4, <4>2 DEF Restore, TwinUpdate, new, to
      <4>5. QED
        BY <3>4, <4>3, <4>4
    <3>5. QED
      BY <2>1, <3>1, <3>3, <3>4
  <2>6. QED
    BY <2>3, <2>4, <2>5 DEF Store
<1>7. QED
  <2>1. TwinUpdate("restore", t, R, new)
    BY DEF Restore
  <2> HIDE DEF new
  <2>2. new \ new = {}
    OBVIOUS
  <2>3. CASE new = {}
    <3>1. R = {}
      BY <2>3 DEF new
    <3>2. public' = public /\ deleted' = [deleted EXCEPT ![t] = @]
      BY <1>3, <2>1, <2>3, <3>1 DEF TwinUpdate
    <3>3. QED
      BY <1>5, <3>2 DEF IInv, TypeOK
  <2>4. CASE new # {}
    BY <1>3, <1>5, <1>6, <2>1, <2>2, <2>4 DEF TwinUpdate
  <2>5. QED
    BY <2>3, <2>4

LEMMA EditStore ==
  ASSUME IInv, NEW t \in Tables, NEW row \in deleted[t], NEW code \in Codes, Edit(t, row, code)
  PROVE  /\ Store'
         /\ \A u \in Tables : Keys(deleted'[u]) = Keys(deleted[u])
         /\ public' = public
<1> DEFINE edited == [row EXCEPT !.code = code]
<1>1. row \in Rows /\ row.deleted_at
  BY DEF IInv, TypeOK, TwinStamped
<1>2. edited.id = row.id /\ edited.deleted_at
  BY <1>1, EditType
<1> HIDE DEF edited
<1>3. Freed({edited}) = {}
  BY <1>2 DEF Freed
<1>4. TwinUpdate("edit", t, {row}, {edited})
  BY DEF Edit, edited
<1>5. /\ public' = public
      /\ deleted' = [deleted EXCEPT ![t] = (@ \ {row}) \cup {edited}]
      /\ reborn \subseteq reborn'
  BY <1>3, <1>4 DEF TwinUpdate
<1>6. \A u \in Tables : \A r \in deleted'[u] :
         (r \in deleted[u] /\ (u = t => r # row)) \/ (u = t /\ r = edited)
  BY <1>5 DEF IInv, TypeOK
<1>7. \A u \in Tables : \A r \in deleted[u] : r \in deleted'[u] \/ (r = row /\ edited \in deleted'[u])
  BY <1>5 DEF IInv, TypeOK
<1>8. \A u \in Tables : Keys(deleted'[u]) = Keys(deleted[u])
  BY <1>2, <1>6, <1>7 DEF Keys
<1>9. Store'
  <2>1. TwinStamped'
    BY <1>2, <1>5, <1>6 DEF IInv, TwinStamped
  <2>2. Keyed'
    BY <1>2, <1>5, <1>6 DEF IInv, Keyed
  <2>3. OnlyRebornCollide'
    BY <1>5, <1>8 DEF IInv, OnlyRebornCollide
  <2>4. QED
    BY <2>1, <2>2, <2>3 DEF Store
<1>10. QED
  BY <1>5, <1>8, <1>9

LEMMA PurgeStore ==
  ASSUME IInv, NEW t \in Tables, NEW R \in (SUBSET deleted[t]) \ {{}}, Purge(t, R)
  PROVE  public' = public /\ deleted' = deleted /\ reborn' = reborn /\ last'.result = "forbidden"
<1>1. PICK r \in R : r \in deleted[t]
  OBVIOUS
<1>2. Prevented(R)
  BY <1>1 DEF IInv, TwinStamped, Purge, Released, AllTriggers, Prevented
<1>3. QED
  BY <1>2 DEF Purge, Ended

LEMMA InvInit == Init => IInv
BY TypeInit DEF Init, IInv, Keyed, TwinStamped, OnlyRebornCollide, InstancesLive, Keys

LEMMA StatementInv ==
  ASSUME IInv, TypeOK', NEW t \in Tables, Statement(t)
  PROVE  IInv'
<1>1. Store'
  <2>1. ASSUME NEW code \in Codes, Create(t, code)
        PROVE  Store'
    <3> DEFINE row == [id |-> serial[t] + 1, code |-> code, deleted_at |-> FALSE]
    <3>1. serial[t] + 1 \in 1..MaxId[t]
      BY <2>1 DEF IInv, TypeOK, Create
    <3>2. row \in Rows /\ ~ row.deleted_at
      BY <3>1 DEF Rows, Ids
    <3> HIDE DEF row
    <3>3. public' = [public EXCEPT ![t] = @ \cup {r \in {row} : Fits(public[t], {row})}]
      BY <2>1 DEF Create, row
    <3>4. reborn' = reborn \cup {<<t, i>> : i \in Keys({row}) \cap Keys(deleted[t])}
      BY <2>1 DEF Create, row
    <3>5. deleted' = deleted
      BY <2>1 DEF Create
    <3>6. Fits(public[t], {row}) \in BOOLEAN
      BY DEF Fits
    <3>7. QED
      BY <3>2, <3>3, <3>4, <3>5, <3>6, InsertStore
  <2>2. ASSUME NEW row \in public[t], NEW code \in Codes, Update(t, row, code)
        PROVE  Store'
    <3> DEFINE new == [row EXCEPT !.code = code]
    <3>1. row \in Rows /\ ~ row.deleted_at /\ row.id \in Keys(public[t])
      BY <2>2 DEF IInv, TypeOK, TwinStamped, Keys
    <3>2. new \in Rows /\ new.id = row.id /\ ~ new.deleted_at
      BY <2>2, <3>1, EditType
    <3>3. Overwrite("update", t, new) /\ deleted' = deleted /\ reborn' = reborn
      BY <2>2 DEF Update
    <3> HIDE DEF new
    <3>4. QED
      BY <3>1, <3>2, <3>3, OverwriteStore
  <2>3. ASSUME NEW R \in SUBSET public[t], Delete(t, R)
        PROVE  Store'
    BY <2>3, DeleteStore
  <2>4. ASSUME NEW R \in SUBSET deleted[t], Restore(t, R)
        PROVE  Store'
    BY <2>4, RestoreStore
  <2>5. ASSUME NEW R \in (SUBSET deleted[t]) \ {{}}, Purge(t, R)
        PROVE  Store'
    BY <2>5, PurgeStore DEF IInv, Store, Keyed, TwinStamped, OnlyRebornCollide
  <2>6. ASSUME NEW row \in deleted[t], NEW code \in Codes, Edit(t, row, code)
        PROVE  Store'
    BY <2>6, EditStore
  <2>7. QED
    BY <2>1, <2>2, <2>3, <2>4, <2>5, <2>6 DEF Statement
<1>2. UNCHANGED inst
  BY DEF Statement, Create, Update, Delete, Restore, Edit, TwinUpdate, Purge
<1>3. InstancesLive'
  BY <1>2 DEF IInv, InstancesLive
<1>4. QED
  BY <1>1, <1>3 DEF IInv, Store

LEMMA InstanceInv ==
  ASSUME IInv, TypeOK', NEW c \in Clients, Instance(c)
  PROVE  IInv'
<1>1. ASSUME NEW t \in Tables, Load(c, t)
      PROVE  IInv'
  <2>1. PICK row \in public[t] : inst' = [inst EXCEPT ![c] = [table |-> t, row |-> row]]
    BY <1>1 DEF Load
  <2>2. ~ row.deleted_at
    BY <2>1 DEF IInv, TwinStamped
  <2>3. InstancesLive'
    BY <2>1, <2>2 DEF IInv, TypeOK, InstancesLive
  <2>4. Store'
    BY <1>1 DEF Load, IInv, Store, Keyed, TwinStamped, OnlyRebornCollide
  <2>5. QED
    BY <2>3, <2>4 DEF IInv, Store
<1>2. ASSUME NEW code \in Codes, SaveUpdate(c, code)
      PROVE  IInv'
  <2> DEFINE t == inst[c].table
             row == inst'[c].row
  <2>1. inst[c] \in Instances /\ inst[c] # Nothing
    BY <1>2 DEF IInv, TypeOK, SaveUpdate
  <2>2. t \in Tables /\ inst[c].row \in Rows /\ ~ inst[c].row.deleted_at
    BY <2>1 DEF IInv, InstancesLive, Instances
  <2>3. inst' = [inst EXCEPT ![c] = [inst[c] EXCEPT !.row = [inst[c].row EXCEPT !.code = code]]]
    BY <1>2 DEF SaveUpdate
  <2>4. row = [inst[c].row EXCEPT !.code = code]
    BY <2>1, <2>3 DEF IInv, TypeOK, Instances
  <2>5. row \in Rows /\ ~ row.deleted_at
    BY <1>2, <2>2, <2>4, EditType
  <2>6. InstancesLive'
    BY <2>3, <2>5 DEF IInv, TypeOK, InstancesLive
  <2>7. CASE row.id \in Keys(public[t])
    <3>1. Overwrite("save", t, row) /\ deleted' = deleted /\ reborn' = reborn
      BY <1>2, <2>7 DEF SaveUpdate
    <3> HIDE DEF row, t
    <3>2. Store'
      BY <2>2, <2>5, <2>7, <3>1, OverwriteStore
    <3>3. QED
      BY <2>6, <3>2 DEF IInv, Store
  <2>8. CASE row.id \notin Keys(public[t])
    <3>1. UNCHANGED <<public, deleted, reborn>>
      BY <1>2, <2>8 DEF SaveUpdate
    <3>2. QED
      BY <2>6, <3>1 DEF IInv, Keyed, TwinStamped, OnlyRebornCollide
  <2>9. QED
    BY <2>7, <2>8
<1>3. ASSUME SaveInsert(c)
      PROVE  IInv'
  <2> DEFINE t == inst[c].table
             row == inst[c].row
             ok == Fits(public[t], {row})
  <2>1. inst[c] \in Instances /\ inst[c] # Nothing
    BY <1>3 DEF IInv, TypeOK, SaveInsert
  <2>2. t \in Tables /\ row \in Rows /\ ~ row.deleted_at
    BY <2>1 DEF IInv, InstancesLive, Instances
  <2>3. ok \in BOOLEAN
    BY DEF Fits
  <2>4. /\ public' = [public EXCEPT ![t] = @ \cup {r \in {row} : ok}]
        /\ reborn' = reborn \cup {<<t, i>> : i \in Keys({row}) \cap Keys(deleted[t])}
        /\ deleted' = deleted /\ inst' = inst
    BY <1>3 DEF SaveInsert
  <2>5. ok => Fits(public[t], {row})
    OBVIOUS
  <2> HIDE DEF t, row, ok
  <2>6. Store'
    BY <2>2, <2>3, <2>4, <2>5, InsertStore
  <2>7. InstancesLive'
    BY <2>4 DEF IInv, InstancesLive
  <2>8. QED
    BY <2>6, <2>7 DEF IInv, Store
<1>4. QED
  BY <1>1, <1>2, <1>3 DEF Instance

LEMMA InvNext == IInv /\ [Next]_vars => IInv'
<1>1. SUFFICES ASSUME IInv, [Next]_vars
               PROVE  IInv'
  OBVIOUS
<1>2. TypeOK'
  BY <1>1, TypeNext DEF IInv
<1>3. CASE Migrate
  <2>1. UNCHANGED data
    BY <1>3 DEF Migrate, MigrateModels, MigrateTriggers
  <2>2. QED
    BY <1>1, <1>2, <2>1 DEF data, IInv, Keyed, TwinStamped, OnlyRebornCollide, InstancesLive
<1>4. CASE UNCHANGED vars
  BY <1>1, <1>2, <1>4
     DEF vars, data, IInv, Keyed, TwinStamped, OnlyRebornCollide, InstancesLive
<1>5. QED
  BY <1>1, <1>2, <1>3, <1>4, StatementInv, InstanceInv DEF Next

\* The inductive invariant: keys are unique, and a row is where its deletion date says.
THEOREM Invariance == Spec => []IInv
<1>1. Init => IInv
  BY InvInit
<1>2. IInv /\ [Next]_vars => IInv'
  BY InvNext
<1>3. QED
  BY <1>1, <1>2, PTL DEF Spec

\* Whatever statements and stale saves interleave, on the table also with the
\* migrations, on the twin after both, the deletion date is set in the twin and only
\* there.
THEOREM RowsStamped == Spec => []TwinStamped
<1>1. IInv => TwinStamped
  BY DEF IInv
<1>2. QED
  BY <1>1, Invariance, PTL

\* Only a stale save, or a restore into the wrong table, puts a key into both tables.
THEOREM CollisionsExplained == Spec => []OnlyRebornCollide
<1>1. IInv => OnlyRebornCollide
  BY DEF IInv
<1>2. QED
  BY <1>1, Invariance, PTL

-----------------------------------------------------------------------------
(* What a step may do to the rows. *)

KeysStay ==
  \A u \in Tables : /\ Keys(public[u]) \subseteq Keys(public'[u])
                    /\ Keys(deleted[u]) \subseteq Keys(deleted'[u])

LEMMA SameKeysStay == UNCHANGED <<public, deleted>> => KeysStay
BY DEF KeysStay

LEMMA InsertKeysStay ==
  ASSUME TypeOK, NEW t \in Tables, NEW R, public' = [public EXCEPT ![t] = @ \cup R],
         deleted' = deleted
  PROVE  KeysStay
<1>1. \A u \in Tables : public[u] \subseteq public'[u]
  BY DEF TypeOK
<1>2. QED
  BY <1>1 DEF KeysStay, Keys

LEMMA OverwriteKeysStay ==
  ASSUME TypeOK, NEW op, NEW t \in Tables, NEW row, Overwrite(op, t, row), deleted' = deleted
  PROVE  KeysStay
<1>1. CASE public' = public
  BY <1>1, SameKeysStay
<1>2. CASE public' = [public EXCEPT ![t] = {r \in public[t] : r.id # row.id} \cup {row}]
  <2>1. \A u \in Tables : \A r \in public[u] : \E s \in public'[u] : s.id = r.id
    BY <1>2 DEF TypeOK
  <2>2. QED
    BY <2>1 DEF KeysStay, Keys
<1>3. QED
  BY <1>1, <1>2 DEF Overwrite

\* Only a delete takes a key from a table, and only a restore one from a twin.
LEMMA OthersKeepKeys ==
  ASSUME IInv, [Next]_vars
  PROVE  \/ KeysStay
         \/ \E t \in Tables : \E R \in SUBSET public[t] : Delete(t, R)
         \/ \E t \in Tables : \E R \in SUBSET deleted[t] : Restore(t, R)
<1>1. TypeOK
  BY DEF IInv
<1>2. CASE UNCHANGED vars
  BY <1>2, SameKeysStay DEF vars, data
<1>3. CASE Migrate
  BY <1>3, SameKeysStay DEF Migrate, MigrateModels, MigrateTriggers, data
<1>4. ASSUME NEW c \in Clients, Instance(c)
      PROVE  KeysStay
  <2>1. ASSUME NEW t \in Tables, Load(c, t)
        PROVE  KeysStay
    BY <2>1, SameKeysStay DEF Load
  <2>2. ASSUME NEW code \in Codes, SaveUpdate(c, code)
        PROVE  KeysStay
    <3>1. inst[c] \in Instances
      BY <1>1, <2>2 DEF TypeOK, SaveUpdate
    <3>2. inst[c].table \in Tables
      BY <3>1 DEF Instances
    <3>3. deleted' = deleted
      BY <2>2 DEF SaveUpdate
    <3>4. Overwrite("save", inst[c].table, inst'[c].row) \/ UNCHANGED public
      BY <2>2 DEF SaveUpdate
    <3>5. QED
      BY <1>1, <3>2, <3>3, <3>4, SameKeysStay, OverwriteKeysStay
  <2>3. ASSUME SaveInsert(c)
        PROVE  KeysStay
    <3>1. inst[c] \in Instances
      BY <1>1, <2>3 DEF TypeOK, SaveInsert
    <3>2. inst[c].table \in Tables
      BY <3>1 DEF Instances
    <3>3. QED
      BY <1>1, <2>3, <3>2, InsertKeysStay DEF SaveInsert
  <2>4. QED
    BY <1>4, <2>1, <2>2, <2>3 DEF Instance
<1>5. ASSUME NEW t \in Tables, Statement(t)
      PROVE  \/ KeysStay
             \/ \E R \in SUBSET public[t] : Delete(t, R)
             \/ \E R \in SUBSET deleted[t] : Restore(t, R)
  <2>1. ASSUME NEW code \in Codes, Create(t, code)
        PROVE  KeysStay
    BY <1>1, <2>1, InsertKeysStay DEF Create
  <2>2. ASSUME NEW row \in public[t], NEW code \in Codes, Update(t, row, code)
        PROVE  KeysStay
    BY <1>1, <2>2, OverwriteKeysStay DEF Update
  <2>3. ASSUME NEW R \in (SUBSET deleted[t]) \ {{}}, Purge(t, R)
        PROVE  KeysStay
    BY <2>3, PurgeStore, SameKeysStay
  <2>4. ASSUME NEW row \in deleted[t], NEW code \in Codes, Edit(t, row, code)
        PROVE  KeysStay
    BY <2>4, EditStore DEF KeysStay
  <2>5. QED
    BY <1>5, <2>1, <2>2, <2>3, <2>4 DEF Statement
<1>6. QED
  BY <1>2, <1>3, <1>4, <1>5 DEF Next

\* A delete keeps the twin's rows and moves the table's.
LEMMA DeleteMoves ==
  ASSUME IInv, NEW t \in Tables, NEW R \in SUBSET public[t], Delete(t, R), NEW u \in Tables
  PROVE  /\ "soft_delete" \in triggers => RowsKept(u)
         /\ Keys(deleted[u]) \subseteq Keys(deleted'[u])
<1>1. CASE UNCHANGED <<public, deleted>>
  BY <1>1 DEF RowsKept, Keys
<1>2. CASE /\ public' = [public EXCEPT ![t] = @ \ R]
           /\ deleted' = [deleted EXCEPT ![t] = @ \cup Copies(R)]
  <2>1. deleted[u] \subseteq deleted'[u] /\ (u = t => Copies(R) \subseteq deleted'[u])
    BY <1>2 DEF IInv, TypeOK
  <2>2. \A r \in public[u] : r \in public'[u] \/ (u = t /\ r \in R)
    BY <1>2 DEF IInv, TypeOK
  <2>3. ASSUME "soft_delete" \in triggers, NEW r \in R
        PROVE  [r EXCEPT !.deleted_at = TRUE] \in Copies(R)
    BY <2>3 DEF Copies
  <2>4. QED
    BY <2>1, <2>2, <2>3 DEF RowsKept, Keys
<1>3. QED
  BY <1>1, <1>2 DEF Delete, Gone

\* A restore keeps the table's rows and moves the twin's.
LEMMA RestoreMoves ==
  ASSUME IInv, NEW t \in Tables, NEW R \in SUBSET deleted[t], Restore(t, R), NEW u \in Tables
  PROVE  /\ RowsKept(u)
         /\ TwinRowsKept(u)
         /\ last'.op = "restore"
<1> DEFINE new == {[r EXCEPT !.deleted_at = FALSE] : r \in R}
           to == Original(Twin(t))
<1>1. R \in SUBSET Rows
  BY DEF IInv, TypeOK
<1>2. Freed(new) = new
  <2>1. \A s \in new : ~ s.deleted_at
    BY <1>1, MarkedRows
  <2>2. QED
    BY <2>1 DEF Restore, TwinUpdate, Released, AllTriggers, Freed
<1>3. TwinUpdate("restore", t, R, new)
  BY DEF Restore
<1>4. last'.op = "restore"
  BY <1>3 DEF TwinUpdate, Ended
<1>5. \A r \in R : [r EXCEPT !.deleted_at = FALSE] \in new
  OBVIOUS
<1>6. CASE UNCHANGED <<public, deleted>>
  BY <1>4, <1>6 DEF RowsKept, TwinRowsKept, Keys
<1>7. CASE /\ to \in Tables
           /\ public' = [public EXCEPT ![to] = @ \cup new]
           /\ deleted' = [deleted EXCEPT ![t] = @ \ R]
  <2> HIDE DEF new
  <2>1. public[u] \subseteq public'[u] /\ new \subseteq public'[to]
    BY <1>7 DEF IInv, TypeOK
  <2>2. \A r \in deleted[u] : r \in deleted'[u] \/ (u = t /\ r \in R)
    BY <1>7 DEF IInv, TypeOK
  <2>3. RowsKept(u)
    BY <2>1 DEF RowsKept, Keys
  <2>4. TwinRowsKept(u)
    BY <1>5, <1>7, <2>1, <2>2 DEF TwinRowsKept, Keys
  <2>5. QED
    BY <1>4, <2>3, <2>4
<1>8. QED
  <2> HIDE DEF new
  <2>1. CASE new = {}
    <3>1. R = {}
      BY <2>1 DEF new
    <3>2. public' = public /\ deleted' = [deleted EXCEPT ![t] = @]
      BY <1>2, <1>3, <2>1, <3>1 DEF TwinUpdate
    <3>3. QED
      BY <1>6, <3>2 DEF IInv, TypeOK
  <2>2. CASE new # {}
    <3>1. new \ new = {}
      OBVIOUS
    <3>2. QED
      BY <1>2, <1>3, <1>6, <1>7, <2>2, <3>1 DEF TwinUpdate
  <2>3. QED
    BY <2>1, <2>2

LEMMA StepMoves ==
  ASSUME IInv, [Next]_vars, NEW u \in Tables
  PROVE  /\ "soft_delete" \in triggers => RowsKept(u)
         /\ TwinRowsKept(u)
         /\ Keys(deleted[u]) \subseteq Keys(deleted'[u]) \/ last'.op = "restore"
<1>1. CASE KeysStay
  BY <1>1 DEF KeysStay, RowsKept, TwinRowsKept, Keys
<1>2. ASSUME NEW t \in Tables, NEW R \in SUBSET public[t], Delete(t, R)
      PROVE  /\ "soft_delete" \in triggers => RowsKept(u)
             /\ TwinRowsKept(u)
             /\ Keys(deleted[u]) \subseteq Keys(deleted'[u])
  <2>1. /\ "soft_delete" \in triggers => RowsKept(u)
        /\ Keys(deleted[u]) \subseteq Keys(deleted'[u])
    BY <1>2, DeleteMoves
  <2>2. QED
    BY <2>1 DEF TwinRowsKept, Keys
<1>3. ASSUME NEW t \in Tables, NEW R \in SUBSET deleted[t], Restore(t, R)
      PROVE  RowsKept(u) /\ TwinRowsKept(u) /\ last'.op = "restore"
  BY <1>3, RestoreMoves
<1>4. QED
  BY <1>1, <1>2, <1>3, OthersKeepKeys

\* Deleting, restoring, editing, purging and saving, in any order and from any number
\* of threads, lose no row and none of its values.
THEOREM NothingDestroyed == Spec => RowsOnlyMove
<1>1. IInv /\ [Next]_vars =>
        [\A t \in Tables : ("soft_delete" \in triggers => RowsKept(t)) /\ TwinRowsKept(t)]_vars
  BY StepMoves
<1>2. QED
  BY <1>1, Invariance, PTL DEF Spec, RowsOnlyMove

\* A deleted row comes back through restore() or not at all.
THEOREM OnlyRestore == Spec => OnlyRestoreBringsBack
<1>1. IInv /\ [Next]_vars =>
        [\A t \in Tables : Keys(deleted[t]) \subseteq Keys(deleted'[t]) \/ last'.op = "restore"]_vars
  BY StepMoves
<1>2. QED
  BY <1>1, Invariance, PTL DEF Spec, OnlyRestoreBringsBack

-----------------------------------------------------------------------------
(* Why statements fail. *)

\* Once the deleted database is migrated every twin exists.
TwinsMade == "deleted" \in migrated => \A t \in Tables : Twin(t) \in schema["deleted"]

LEMMA TwinApart == ASSUME NEW t \in Tables PROVE Twin(t) \notin Tables
<1>1. t \in Seq(STRING)
  BY NamesAssumption
<1>2. Head(Twin(t)) = Prefix
  BY <1>1 DEF Twin, Prefix
<1>3. QED
  BY <1>2, NamesAssumption

LEMMA TwinsMadeNext == TypeOK /\ TwinsMade /\ [Next]_vars => TwinsMade'
<1>1. SUFFICES ASSUME TypeOK, TwinsMade, [Next]_vars, "deleted" \in migrated', NEW t \in Tables
               PROVE  Twin(t) \in schema'["deleted"]
  BY DEF TwinsMade
<1>2. ASSUME NEW db \in Databases, MigrateModels(db)
      PROVE  Twin(t) \in schema'["deleted"]
  <2>1. CASE db = "deleted"
    <3>1. AllowModel(db, AppOf(Twin(t)))
      BY <2>1, TwinApart DEF AllowModel, AppOf
    <3>2. QED
      BY <1>1, <1>2, <2>1, <3>1 DEF MigrateModels, TypeOK, SchemaOf
  <2>2. CASE db = "default"
    BY <1>1, <1>2, <2>2 DEF MigrateModels, TypeOK, TwinsMade, SchemaOf
  <2>3. QED
    BY <2>1, <2>2 DEF Databases
<1>3. CASE UNCHANGED <<migrated, schema>>
  BY <1>1, <1>3 DEF TwinsMade
<1>4. CASE UNCHANGED setup
  BY <1>3, <1>4 DEF setup
<1>5. ASSUME NEW u \in Tables, Statement(u)
      PROVE  UNCHANGED setup
  BY <1>5 DEF Statement, Create, Update, Delete, Restore, Edit, TwinUpdate, Purge
<1>6. ASSUME NEW c \in Clients, Instance(c)
      PROVE  UNCHANGED setup
  BY <1>6 DEF Instance, Load, SaveUpdate, SaveInsert
<1>7. QED
  BY <1>1, <1>2, <1>3, <1>4, <1>5, <1>6 DEF Next, Migrate, MigrateTriggers, vars

\* A delete that fails leaves all as it was, and its reason in view.
LEMMA DeleteReason ==
  ASSUME IInv, TwinsMade, NEW t \in Tables, NEW R \in SUBSET public[t], Delete(t, R)
  PROVE  FailsForAReason'
<1>1. last' = [op |-> "delete", table |-> t, result |-> last'.result]
  BY DEF Delete, Ended
<1>2. CASE last'.result = "undefined"
  <2>1. "deleted" \notin migrated'
    BY <1>2 DEF Delete, Ended, TwinsMade, setup
  <2>2. QED
    BY <1>1, <1>2, <2>1 DEF FailsForAReason
<1>3. CASE last'.result = "unique"
  <2>1. UNCHANGED <<public, deleted, reborn>> /\ ~ TwinFits(deleted[t], Copies(R))
    BY <1>3 DEF Delete, Ended
  <2>2. PICK i : i \in Keys(deleted[t]) /\ i \in Keys(Copies(R))
    BY <2>1 DEF TwinFits
  <2>3. R \in SUBSET Rows
    BY DEF IInv, TypeOK
  <2>4. PICK s \in Copies(R) : s.id = i
    BY <2>2 DEF Keys
  <2>5. PICK r \in R : r.id = i
    <3>1. s \in {[r EXCEPT !.deleted_at = TRUE] : r \in R}
      BY <2>4 DEF Copies
    <3>2. PICK r \in R : s = [r EXCEPT !.deleted_at = TRUE]
      BY <3>1
    <3>3. r \in Rows
      BY <2>3
    <3>4. [r EXCEPT !.deleted_at = TRUE].id = r.id
      BY <3>3 DEF Rows
    <3>5. QED
      BY <2>4, <3>2, <3>4
  <2>6. i \in Keys(public[t]) \cap Keys(deleted[t])
    BY <2>2, <2>5 DEF Keys
  <2>7. <<t, i>> \in reborn
    BY <2>6 DEF IInv, OnlyRebornCollide
  <2>8. {j \in Keys(public'[t]) \cap Keys(deleted'[t]) : <<t, j>> \in reborn'} # {}
    BY <2>1, <2>6, <2>7
  <2>9. QED
    BY <1>1, <1>3, <2>8 DEF FailsForAReason
<1>4. CASE last'.result = "ok"
  BY <1>1, <1>4 DEF FailsForAReason
<1>5. QED
  BY <1>2, <1>3, <1>4 DEF Delete, Ended

\* So does a restore.
LEMMA RestoreReason ==
  ASSUME IInv, NEW t \in Tables, NEW R \in SUBSET deleted[t], Restore(t, R)
  PROVE  FailsForAReason'
<1> DEFINE new == {[r EXCEPT !.deleted_at = FALSE] : r \in R}
           to == Original(Twin(t))
<1>1. R \in SUBSET Rows
  BY DEF IInv, TypeOK
<1>2. \A s \in new : ~ s.deleted_at
  BY <1>1, FreeRows
<1>3. Freed(new) = new
  BY <1>2 DEF Restore, TwinUpdate, Released, AllTriggers, Freed
<1>4. ~ Prevented(new)
  BY <1>2 DEF Prevented
<1>5. TwinUpdate("restore", t, R, new)
  BY DEF Restore
<1> HIDE DEF new
<1>6. last' = [op |-> "restore", table |-> t, result |-> last'.result] /\ last'.result # "forbidden"
  BY <1>3, <1>4, <1>5 DEF TwinUpdate, Ended
<1>7. CASE last'.result = "unique" /\ Returns(t)
  <2>1. UNCHANGED <<public, deleted>> /\ reborn \subseteq reborn' /\ ~ Fits(public[t], new)
    BY <1>3, <1>5, <1>7 DEF TwinUpdate, Ended, Returns
  <2>2. ASSUME NEW i \in Keys(public[t]) \cap Keys(deleted[t])
        PROVE  {j \in Keys(public'[t]) \cap Keys(deleted'[t]) : <<t, j>> \in reborn'} # {}
    BY <2>1, <2>2 DEF IInv, OnlyRebornCollide
  <2>3. \A s \in new : \E r \in R : r.id = s.id /\ r.code = s.code
    BY <1>1, FreeRows DEF new
  <2>4. CASE Keys(public[t]) \cap Keys(new) # {}
    <3>1. PICK i \in Keys(public[t]) : i \in Keys(new)
      BY <2>4
    <3>2. i \in Keys(deleted[t])
      BY <2>3, <3>1 DEF Keys
    <3>3. QED
      BY <1>6, <2>2, <3>1, <3>2 DEF FailsForAReason
  <2>5. CASE \E r \in new, s \in public[t] \cup new : r.code = s.code /\ r # s
    <3>1. PICK r \in new, s \in public[t] \cup new : r.code = s.code /\ r # s
      BY <2>5
    <3>2. PICK q \in R : q.id = r.id /\ q.code = r.code
      BY <2>3, <3>1
    <3>3. CASE s \in public[t]
      <4>1. CASE s.id = q.id
        <5>1. q.id \in Keys(public[t]) \cap Keys(deleted[t])
          BY <3>2, <3>3, <4>1 DEF Keys
        <5>2. QED
          BY <1>6, <2>2, <5>1 DEF FailsForAReason
      <4>2. CASE s.id # q.id
        <5>1. q \in deleted'[t] /\ s \in public'[t] /\ q.id # s.id /\ q.code = s.code
          BY <2>1, <3>1, <3>2, <3>3, <4>2
        <5>2. QED
          BY <1>6, <5>1 DEF FailsForAReason
      <4>3. QED
        BY <4>1, <4>2
    <3>4. CASE s \in new
      <4>1. PICK p \in R : p.id = s.id /\ p.code = s.code
        BY <2>3, <3>4
      <4>2. r.id # s.id
        BY <1>1, <3>1, <3>4, MarkedKeyed DEF new, IInv, Keyed
      <4>3. q \in deleted'[t] /\ p \in deleted'[t] /\ q.id # p.id /\ q.code = p.code
        BY <2>1, <3>1, <3>2, <4>1, <4>2
      <4>4. QED
        BY <1>6, <4>3 DEF FailsForAReason
    <3>5. QED
      BY <3>1, <3>3, <3>4
  <2>6. QED
    BY <2>1, <2>4, <2>5 DEF Fits
<1>8. CASE ~ (last'.result = "unique" /\ Returns(t))
  BY <1>6, <1>8 DEF FailsForAReason
<1>9. QED
  BY <1>7, <1>8

LEMMA ReasonNext == IInv /\ TwinsMade /\ FailsForAReason /\ [Next]_vars => FailsForAReason'
<1>1. SUFFICES ASSUME IInv, TwinsMade, FailsForAReason, [Next]_vars
               PROVE  FailsForAReason'
  OBVIOUS
<1>2. CASE UNCHANGED vars
  BY <1>1, <1>2 DEF vars, setup, data, FailsForAReason
<1>3. CASE last'.op \notin {"delete", "restore", "purge"}
  BY <1>3 DEF FailsForAReason
<1>4. CASE Migrate
  BY <1>3, <1>4 DEF Migrate, MigrateModels, MigrateTriggers, Ended
<1>5. ASSUME NEW c \in Clients, Instance(c)
      PROVE  FailsForAReason'
  <2>1. ASSUME NEW t \in Tables, Load(c, t)
        PROVE  last'.op = "none"
    BY <2>1 DEF Load, Ended
  <2>2. ASSUME NEW code \in Codes, SaveUpdate(c, code)
        PROVE  last'.op = "save"
    <3>1. \/ Overwrite("save", inst[c].table, inst'[c].row)
          \/ Ended("save", inst[c].table, "ok")
      BY <2>2 DEF SaveUpdate
    <3>2. QED
      BY <3>1 DEF Overwrite, Ended
  <2>3. ASSUME SaveInsert(c)
        PROVE  last'.op = "save"
    BY <2>3 DEF SaveInsert, Ended
  <2>4. QED
    BY <1>3, <1>5, <2>1, <2>2, <2>3 DEF Instance
<1>6. ASSUME NEW t \in Tables, Statement(t)
      PROVE  FailsForAReason'
  <2>1. ASSUME NEW R \in SUBSET public[t], Delete(t, R)
        PROVE  FailsForAReason'
    BY <1>1, <2>1, DeleteReason
  <2>2. ASSUME NEW R \in SUBSET deleted[t], Restore(t, R)
        PROVE  FailsForAReason'
    BY <1>1, <2>2, RestoreReason
  <2>3. ASSUME NEW R \in (SUBSET deleted[t]) \ {{}}, Purge(t, R)
        PROVE  FailsForAReason'
    <3>1. last'.op = "purge" /\ last'.result = "forbidden"
      BY <1>1, <2>3, PurgeStore DEF Purge, Ended
    <3>2. QED
      BY <3>1 DEF FailsForAReason
  <2>4. ASSUME NEW code \in Codes, Create(t, code)
        PROVE  FailsForAReason'
    BY <1>3, <2>4 DEF Create, Ended
  <2>5. ASSUME NEW row \in public[t], NEW code \in Codes, Update(t, row, code)
        PROVE  FailsForAReason'
    BY <1>3, <2>5 DEF Update, Overwrite, Ended
  <2>6. ASSUME NEW row \in deleted[t], NEW code \in Codes, Edit(t, row, code)
        PROVE  FailsForAReason'
    BY <1>3, <2>6 DEF Edit, TwinUpdate, Ended
  <2>7. QED
    BY <1>6, <2>1, <2>2, <2>3, <2>4, <2>5, <2>6 DEF Statement
<1>7. QED
  BY <1>1, <1>2, <1>4, <1>5, <1>6 DEF Next

\* A delete or restore raises only for a reason a reader of the tables can see.
THEOREM FailuresExplained == Spec => []FailsForAReason
<1>1. Init => TwinsMade /\ FailsForAReason
  BY DEF Init, TwinsMade, FailsForAReason
<1>2. IInv /\ TwinsMade /\ FailsForAReason /\ [Next]_vars => (TwinsMade /\ FailsForAReason)'
  BY ReasonNext, TwinsMadeNext DEF IInv
<1>3. QED
  BY <1>1, <1>2, Invariance, PTL DEF Spec
=============================================================================
