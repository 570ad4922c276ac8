-------------------------- MODULE MigrationProofs --------------------------
(***************************************************************************)
(* Theorems about Migration: no process, crash, failing statement or       *)
(* rollback leaves a database file half migrated or loses one, for every   *)
(* set of processes and tasks and every supported version.                 *)
(***************************************************************************)
EXTENDS Migration, TLAPS

(* A row before and after the move into sessions. *)
IsLegacy(row) == ~row.session /\ row.effect = None /\ row.migrated = 0

IsMigrated(row) ==
    /\ row.session
    /\ row.migrated <= 1
    /\ row.slot = (row.status \notin Final)
    /\ (row.condition = "ended") = (row.status \in Final)
    /\ row.call # None => row.effect = LegacyEffect(row.call)
    /\ row.checkpoint # "legacy"

(* A database between migrations, and one a transaction works on: version  *)
(* 1 may have moved some of the tasks.                                     *)
Whole(d) ==
    \A t \in Task :
        d.rows[t] # None =>
            IF d.schema < 2 THEN IsLegacy(d.rows[t]) ELSE IsMigrated(d.rows[t])

Halfway(d) ==
    \A t \in Task :
        d.rows[t] # None =>
            \/ d.schema < 2 /\ IsLegacy(d.rows[t])
            \/ d.schema > 0 /\ IsMigrated(d.rows[t])

(* The write lock and the transaction go together, and what a transaction  *)
(* has not changed yet is the committed database.                          *)
Transactions ==
    \A p \in Process :
        /\ pc[p] \in Opening <=> lock = p
        /\ txn[p] # None <=> lock = p
        /\ pc[p] \in {"begun", "copied"} => txn[p] = db
        /\ lock = p => txn[p].schema >= db.schema /\ Halfway(txn[p])
        /\ pc[p] = "copied" => NeedsBackup(p)
        /\ pc[p] = "migrating" /\ db.schema < Supported /\ db.tables =>
               [content |-> db, manifest |-> db.schema] \in backups

(* Files are whole; a manifest names the schema of its backup. *)
WholeFiles ==
    /\ Whole(db)
    /\ \A d \in preserved : Whole(d)
    /\ \A b \in backups : Whole(b.content)
    /\ \A b \in backups : b.manifest # None => b.manifest = b.content.schema
    /\ (\E p \in Process : pc[p] = "open") => db.schema = Supported /\ db.memory = 1

(* A rollback runs alone, on a backup that is older than the database. *)
Rollbacks ==
    /\ rollback.at # "idle" =>
           /\ WritersStopped
           /\ rollback.backup \in backups
           /\ rollback.backup.manifest # None
           /\ db.schema > rollback.backup.manifest
    /\ rollback.at = "preserved" => db \in preserved

IInv == TypeOK /\ Transactions /\ WholeFiles /\ Rollbacks
-----------------------------------------------------------------------------
(* Rows and databases. *)

LEMMA RowMoves ==
    ASSUME NEW row \in Row, IsLegacy(row)
    PROVE  MigratedRow(row) \in Row /\ IsMigrated(MigratedRow(row))
<1> DEFINE m == MigratedRow(row)
<1>1. /\ m.status = row.status /\ m.call = row.call
      /\ m.session = TRUE /\ m.slot = (row.status \notin Final)
      /\ m.condition = MigratedCondition(row.status)
      /\ m.effect = LegacyEffect(row.call)
      /\ m.checkpoint = IF row.checkpoint = None THEN None ELSE "adapted"
      /\ m.migrated = row.migrated + 1
  BY DEF MigratedRow, Row
<1>2. m \in Row
  <2>1. MigratedCondition(row.status) \in {None, "idle", "recovery_required", "ended"}
    BY DEF MigratedCondition
  <2>2. LegacyEffect(row.call) \in {None, "succeeded", "failed"}
    BY DEF LegacyEffect
  <2>3. row.migrated + 1 \in Nat
    BY DEF Row
  <2>4. m = [status |-> row.status, call |-> row.call, checkpoint |-> m.checkpoint,
             session |-> m.session, slot |-> m.slot, condition |-> m.condition,
             effect |-> m.effect, migrated |-> m.migrated]
    <3>1. PICK slot : slot = (row.status \notin Final)
      OBVIOUS
    <3>2. PICK yes : yes = TRUE
      OBVIOUS
    <3>3. m = [row EXCEPT !.session = yes, !.slot = slot,
                          !.condition = MigratedCondition(row.status),
                          !.effect = LegacyEffect(row.call),
                          !.checkpoint = IF row.checkpoint = None THEN None ELSE "adapted",
                          !.migrated = row.migrated + 1]
      BY <3>1, <3>2 DEF MigratedRow
    <3> QED BY <3>3 DEF Row
  <2>5. /\ row.status \in {"created", "running", "completed"}
        /\ row.call \in {None, "passed", "failed"}
        /\ m.checkpoint \in {None, "legacy", "adapted"}
        /\ m.condition \in {None, "idle", "recovery_required", "ended"}
        /\ m.effect \in {None, "succeeded", "failed"}
        /\ m.migrated \in Nat
    BY <1>1, <2>1, <2>2, <2>3 DEF Row
  <2>6. m.session \in BOOLEAN /\ m.slot \in BOOLEAN
    BY <1>1
  <2> HIDE DEF m
  <2> QED BY <2>4, <2>5, <2>6 DEF Row
<1>3. m.migrated <= 1
  BY <1>1 DEF IsLegacy
<1>4. m.condition = "ended" <=> row.status \in Final
  BY <1>1 DEF MigratedCondition, Final, Row
<1>5. m.checkpoint # "legacy"
  BY <1>1, NoneAssumption
<1> QED BY <1>1, <1>2, <1>3, <1>4, <1>5 DEF IsMigrated

LEMMA WholeIsHalfway ==
    ASSUME NEW d \in Database, Whole(d)
    PROVE  Halfway(d)
BY SupportedAssumption DEF Whole, Halfway, Database

LEMMA MovedIsWhole ==
    ASSUME NEW d \in Database, Halfway(d), d.schema >= 2
    PROVE  Whole(d)
BY SupportedAssumption DEF Whole, Halfway, Database

(* One task of version 1 is moved. *)
LEMMA TaskMoves ==
    ASSUME NEW d \in Database, Halfway(d), d.schema = 1, NEW t \in Unmigrated(d)
    PROVE  LET n == [d EXCEPT !.rows[t] = MigratedRow(@)]
           IN  n \in Database /\ n.schema = d.schema /\ Halfway(n)
<1> DEFINE n == [d EXCEPT !.rows[t] = MigratedRow(@)]
<1>1. t \in Task /\ d.rows[t] \in Row /\ d.rows[t] # None /\ ~d.rows[t].session
  BY DEF Unmigrated, Database
<1>2. IsLegacy(d.rows[t])
  BY <1>1 DEF Halfway, IsMigrated
<1>3. MigratedRow(d.rows[t]) \in Row /\ IsMigrated(MigratedRow(d.rows[t]))
  BY <1>1, <1>2, RowMoves
<1>4. /\ n.schema = d.schema /\ n.memory = d.memory /\ n.tables = d.tables
      /\ n.rows = [d.rows EXCEPT ![t] = MigratedRow(d.rows[t])]
      /\ n \in Database
  BY <1>1, <1>3 DEF Database
<1>5. Halfway(n)
  BY <1>1, <1>3, <1>4 DEF Halfway, Database
<1> QED BY <1>4, <1>5

(* The next version: from version 1 only when every task was moved. *)
LEMMA VersionMoves ==
    ASSUME NEW d \in Database, Halfway(d), d.schema < Supported,
           d.schema = 1 => Unmigrated(d) = {}
    PROVE  LET n == [d EXCEPT !.schema = @ + 1, !.tables = TRUE]
           IN  n \in Database /\ n.schema = d.schema + 1 /\ Halfway(n)
<1> DEFINE n == [d EXCEPT !.schema = @ + 1, !.tables = TRUE]
<1>0. d.schema \in Nat /\ d.schema + 1 \in 0..(Supported + 1)
  BY SupportedAssumption DEF Database
<1>1. n.schema = d.schema + 1 /\ n.rows = d.rows /\ n \in Database
  BY <1>0 DEF Database
<1>2. ASSUME NEW t \in Task, d.rows[t] # None
      PROVE  \/ n.schema < 2 /\ IsLegacy(d.rows[t])
             \/ n.schema > 0 /\ IsMigrated(d.rows[t])
  <2>1. CASE d.schema = 1
    <3>1. t \notin Unmigrated(d)
      BY <2>1
    <3>2. ~IsLegacy(d.rows[t])
      BY <1>2, <3>1 DEF Unmigrated, IsLegacy
    <3> QED BY <1>1, <1>2, <2>1, <3>2 DEF Halfway
  <2>2. CASE d.schema # 1
    BY <1>0, <1>1, <1>2, <2>2 DEF Halfway
  <2> QED BY <2>1, <2>2
<1> QED BY <1>1, <1>2 DEF Halfway

(* A write to a row between migrations. *)
LEMMA RowWritten ==
    ASSUME NEW d \in Database, Whole(d), NEW t \in Task, NEW row \in Row,
           IF d.schema < 2 THEN IsLegacy(row) ELSE IsMigrated(row)
    PROVE  LET n == [d EXCEPT !.rows[t] = row]
           IN  /\ n \in Database /\ Whole(n)
               /\ n.schema = d.schema /\ n.memory = d.memory
<1> DEFINE n == [d EXCEPT !.rows[t] = row]
<1>1. /\ n.schema = d.schema /\ n.memory = d.memory
      /\ n.rows = [d.rows EXCEPT ![t] = row]
      /\ n \in Database
  BY DEF Database
<1>2. Whole(n)
  BY <1>1 DEF Whole, Database
<1> QED BY <1>1, <1>2

-----------------------------------------------------------------------------
(* IInv is inductive. *)

LEMMA InitInv == Init => IInv
<1> SUFFICES ASSUME Init PROVE IInv
  OBVIOUS
<1>1. ASSUME NEW s \in {0, 1}, NEW d \in Legacy(s) PROVE d \in Database /\ Whole(d)
  <2>1. PICK rows \in LegacyRows :
            d = [schema |-> s, memory |-> 0, tables |-> TRUE, rows |-> rows]
    BY <1>1 DEF Legacy
  <2>2. \A t \in Task : rows[t] # None => rows[t] \in LegacyRow
    BY <2>1 DEF LegacyRows
  <2>3. ASSUME NEW r \in LegacyRow PROVE r \in Row /\ IsLegacy(r)
    <3>1. r.session = FALSE /\ r.slot = FALSE /\ r.effect = None /\ r.migrated = 0
      BY DEF LegacyRow
    <3>2. r \in Row
      <4>1. r = [status |-> r.status, call |-> r.call, checkpoint |-> r.checkpoint,
                 session |-> r.session, slot |-> r.slot, condition |-> r.condition,
                 effect |-> r.effect, migrated |-> r.migrated]
        BY DEF LegacyRow
      <4>2. /\ r.status \in {"created", "running", "completed"}
            /\ r.call \in {None, "passed", "failed"}
            /\ r.checkpoint \in {None, "legacy", "adapted"}
            /\ r.condition = None
        BY DEF LegacyRow
      <4>3. r.session \in BOOLEAN /\ r.slot \in BOOLEAN
        BY <3>1
      <4> QED BY <3>1, <4>1, <4>2, <4>3 DEF Row
    <3> QED BY <3>1, <3>2 DEF IsLegacy
  <2>4. rows \in [Task -> Row \cup {None}]
    BY <2>1, <2>3 DEF LegacyRows
  <2>5. d \in Database
    BY <2>1, <2>4, SupportedAssumption DEF Database
  <2> QED BY <2>1, <2>2, <2>3, <2>5 DEF Whole
<1>2. ASSUME NEW s \in 2..(Supported + 1), NEW d \in Earlier(s)
      PROVE  d \in Database /\ Whole(d)
  <2>1. PICK o \in Legacy(1) :
            d = [o EXCEPT !.schema = s, !.memory = 1,
                          !.rows = [t \in Task |-> IF @[t] = None THEN None
                                                   ELSE MigratedRow(@[t])]]
    BY <1>2 DEF Earlier
  <2>2. o \in Database /\ Whole(o) /\ o.schema = 1
    BY <1>1 DEF Legacy
  <2>3. /\ d.schema = s
        /\ d.rows = [t \in Task |-> IF o.rows[t] = None THEN None ELSE MigratedRow(o.rows[t])]
    BY <2>1, <2>2 DEF Database
  <2>4. ASSUME NEW t \in Task, o.rows[t] # None
        PROVE  MigratedRow(o.rows[t]) \in Row /\ IsMigrated(MigratedRow(o.rows[t]))
    BY <2>2, <2>4, RowMoves DEF Whole, Database
  <2>5. d.rows \in [Task -> Row \cup {None}]
    BY <2>3, <2>4
  <2>6. d \in Database
    <3>1. d = [schema |-> s, memory |-> 1, tables |-> o.tables, rows |-> d.rows]
      BY <2>1, <2>2 DEF Database
    <3>2. s \in 0..(Supported + 1) /\ o.tables \in BOOLEAN
      BY <2>2, SupportedAssumption DEF Database
    <3> QED BY <2>5, <3>1, <3>2 DEF Database
  <2>7. Whole(d)
    BY <2>3, <2>4 DEF Whole
  <2> QED BY <2>6, <2>7
<1>3. Fresh \in Database /\ Whole(Fresh)
  BY SupportedAssumption DEF Fresh, Database, Whole
<1>4. db \in Database /\ Whole(db)
  BY <1>1, <1>2, <1>3 DEF Init
<1>5. TypeOK
  BY <1>4 DEF Init, TypeOK
<1>6. Transactions
  BY NoneAssumption DEF Init, Transactions, Opening
<1>7. WholeFiles
  BY <1>4 DEF Init, WholeFiles
<1>8. Rollbacks
  BY DEF Init, Rollbacks
<1> QED BY <1>5, <1>6, <1>7, <1>8 DEF IInv
(* A process that migrates is alone with the database. *)
LEMMA MigratesAlone ==
    ASSUME IInv, NEW p \in Process, pc[p] \in Opening
    PROVE  /\ lock = p /\ rollback.at = "idle"
           /\ txn[p] \in Database /\ Halfway(txn[p]) /\ txn[p].schema >= db.schema
           /\ \A q \in Process \ {p} : pc[q] \notin Opening /\ lock # q /\ txn[q] = None
<1> USE DEF IInv
<1>1. lock = p
  BY DEF Transactions
<1>2. rollback.at = "idle"
  BY DEF Rollbacks, WritersStopped, Opening
<1>3. txn[p] \in Database
  BY <1>1 DEF TypeOK, Transactions
<1> QED BY <1>1, <1>2, <1>3 DEF Transactions

(* The transaction of a process begins, or the backup is written. *)
LEMMA BeginInv ==
    ASSUME IInv, NEW p \in Process, Begin(p)
    PROVE  IInv'
<1> USE DEF IInv
<1>1. TypeOK'
  BY DEF Begin, TypeOK, bounds, Opening
<1>2. Transactions'
  <2>1. lock = None /\ lock' = p /\ pc'[p] = "begun" /\ txn'[p] = db /\ db' = db
    BY DEF Begin, TypeOK
  <2>2. ASSUME NEW q \in Process, q # p
        PROVE  pc'[q] = pc[q] /\ txn'[q] = txn[q] /\ pc[q] \notin Opening /\ txn[q] = None
    BY <2>1, <2>2, NoneAssumption DEF Begin, TypeOK, Transactions
  <2>3. Halfway(db) /\ db # None /\ db.schema \in Nat
    BY WholeIsHalfway, NoneAssumption DEF TypeOK, WholeFiles, Database
  <2> QED BY <2>1, <2>2, <2>3 DEF Transactions, Opening
<1>3. WholeFiles' /\ Rollbacks'
  BY DEF Begin, TypeOK, WholeFiles, Rollbacks
<1> QED BY <1>1, <1>2, <1>3

LEMMA BackupInv ==
    ASSUME IInv, NEW p \in Process, CopyBackup(p) \/ WriteManifest(p) \/ SkipBackup(p)
    PROVE  IInv'
<1> USE DEF IInv
<1>0. pc[p] \in {"begun", "copied"} /\ pc[p] \in Opening
  BY DEF CopyBackup, WriteManifest, SkipBackup, Opening
<1>1. /\ lock = p /\ rollback.at = "idle" /\ txn[p] = db
      /\ \A q \in Process \ {p} : pc[q] \notin Opening /\ lock # q /\ txn[q] = None
  BY <1>0, MigratesAlone DEF Transactions
<1>2. /\ db' = db /\ lock' = lock /\ txn' = txn /\ preserved' = preserved
      /\ rollback' = rollback /\ UNCHANGED bounds
  BY DEF CopyBackup, WriteManifest, SkipBackup, store
<1>3. /\ pc' \in [Process -> Opening \cup {"closed", "failed", "open"}]
      /\ \A q \in Process \ {p} : pc'[q] = pc[q]
      /\ pc'[p] \in {"copied", "migrating"}
  BY DEF CopyBackup, WriteManifest, SkipBackup, TypeOK, Opening
<1>4. ASSUME pc'[p] = "copied" PROVE NeedsBackup(p)'
  BY <1>2, <1>4 DEF CopyBackup, WriteManifest, SkipBackup, NeedsBackup, TypeOK
<1>5. /\ backups' \subseteq Backup
      /\ \A b \in backups' : Whole(b.content)
      /\ \A b \in backups' : b.manifest # None => b.manifest = b.content.schema
      /\ pc'[p] = "migrating" /\ db.schema < Supported /\ db.tables =>
             [content |-> db, manifest |-> db.schema] \in backups'
  <2>1. CASE CopyBackup(p)
    <3>1. /\ backups' = backups \cup {[content |-> db, manifest |-> None]}
          /\ pc'[p] = "copied"
      BY <2>1 DEF CopyBackup, TypeOK
    <3>2. [content |-> db, manifest |-> None] \in Backup
      BY DEF TypeOK, Backup
    <3> QED BY <3>1, <3>2 DEF TypeOK, WholeFiles
  <2>2. CASE WriteManifest(p)
    <3>1. PICK b \in backups :
              /\ b = [content |-> db, manifest |-> None]
              /\ backups' = (backups \ {b}) \cup {[b EXCEPT !.manifest = txn[p].schema]}
      BY <2>2 DEF WriteManifest
    <3>2. [b EXCEPT !.manifest = txn[p].schema] = [content |-> db, manifest |-> db.schema]
      BY <1>1, <3>1
    <3>3. db.schema < Supported /\ db.schema \in 0..(Supported + 1)
      BY <1>1, <2>2 DEF WriteManifest, Transactions, NeedsBackup, TypeOK, Database
    <3>4. [content |-> db, manifest |-> db.schema] \in Backup
      BY <3>3, SupportedAssumption DEF TypeOK, Backup
    <3> QED BY <3>1, <3>2, <3>4 DEF TypeOK, WholeFiles
  <2>3. CASE SkipBackup(p)
    <3>1. backups' = backups /\ ~NeedsBackup(p)
      BY <2>3 DEF SkipBackup, store
    <3> QED BY <1>1, <3>1 DEF NeedsBackup, TypeOK, WholeFiles
  <2> QED BY <2>1, <2>2, <2>3
<1>6. TypeOK'
  BY <1>2, <1>3, <1>5 DEF TypeOK, bounds
<1>7. Transactions'
  <2>1. db.schema \in Nat
    BY DEF TypeOK, Database
  <2>2. Halfway(db) /\ db # None
    BY <1>0, <1>1, MigratesAlone, NoneAssumption DEF TypeOK
  <2> QED BY <1>0, <1>1, <1>2, <1>3, <1>4, <1>5, <2>1, <2>2 DEF Transactions, Opening
<1>8. WholeFiles' /\ Rollbacks'
  BY <1>1, <1>2, <1>3, <1>5 DEF WholeFiles, Rollbacks
<1> QED BY <1>6, <1>7, <1>8

(* The migrations work on the transaction only. *)
LEMMA MigrateInv ==
    ASSUME IInv, NEW p \in Process,
           (\E t \in Task : MigrateTask(p, t)) \/ NextVersion(p)
    PROVE  IInv'
<1> USE DEF IInv
<1>0. pc[p] = "migrating" /\ pc[p] \in Opening
  BY DEF MigrateTask, NextVersion, Opening
<1>1. /\ lock = p /\ txn[p] \in Database /\ Halfway(txn[p]) /\ txn[p].schema >= db.schema
      /\ \A q \in Process \ {p} : pc[q] \notin Opening /\ lock # q /\ txn[q] = None
  BY <1>0, MigratesAlone
<1>2. /\ db' = db /\ lock' = lock /\ pc' = pc /\ backups' = backups /\ preserved' = preserved
      /\ rollback' = rollback /\ UNCHANGED bounds
  BY DEF MigrateTask, NextVersion
<1> DEFINE Moves(n) == /\ txn' = [txn EXCEPT ![p] = n]
                       /\ Halfway(n) /\ n.schema >= txn[p].schema
<1>a. \E n \in Database : Moves(n)
  <2>0. txn[p].schema \in Nat
    BY <1>1 DEF Database
  <2>1. ASSUME NEW t \in Task, MigrateTask(p, t) PROVE \E n \in Database : Moves(n)
    <3>1. PICK n : n = [txn[p] EXCEPT !.rows[t] = MigratedRow(@)]
      OBVIOUS
    <3>2. n \in Database /\ n.schema = txn[p].schema /\ Halfway(n)
      BY <1>1, <2>1, <3>1, TaskMoves DEF MigrateTask
    <3>3. txn' = [txn EXCEPT ![p] = n]
      BY <2>1, <3>1 DEF MigrateTask, TypeOK
    <3>4. Moves(n)
      BY <2>0, <3>2, <3>3
    <3> HIDE DEF Moves
    <3> QED BY <3>2, <3>4
  <2>2. CASE NextVersion(p)
    <3>1. PICK n : n = [txn[p] EXCEPT !.schema = @ + 1, !.tables = TRUE]
      OBVIOUS
    <3>2. n \in Database /\ n.schema = txn[p].schema + 1 /\ Halfway(n)
      BY <1>1, <2>2, <3>1, VersionMoves DEF NextVersion
    <3>3. txn' = [txn EXCEPT ![p] = n]
      BY <2>2, <3>1 DEF NextVersion, TypeOK
    <3>4. Moves(n)
      BY <2>0, <3>2, <3>3
    <3> HIDE DEF Moves
    <3> QED BY <3>2, <3>4
  <2> QED BY <2>1, <2>2
<1>3. PICK n \in Database : Moves(n)
  BY <1>a
<1>4. TypeOK'
  BY <1>2, <1>3 DEF TypeOK, bounds
<1>5. Transactions'
  <2>1. txn[p].schema \in Nat /\ n.schema \in Nat /\ db.schema \in Nat /\ n # None
    BY <1>1, <1>3, NoneAssumption DEF TypeOK, Database
  <2>2. /\ txn'[p] = n /\ \A q \in Process \ {p} : txn'[q] = txn[q]
    BY <1>3 DEF TypeOK
  <2> QED BY <1>0, <1>1, <1>2, <1>3, <2>1, <2>2 DEF Transactions, Opening
<1>6. WholeFiles' /\ Rollbacks'
  BY <1>2 DEF WholeFiles, Rollbacks, WritersStopped
<1> QED BY <1>4, <1>5, <1>6
(* The transaction ends: nobody has one afterwards, and its process is not *)
(* left open with another database than a supported one.                   *)
LEMMA NoTransaction ==
    ASSUME TypeOK', lock' = None, \A q \in Process : pc'[q] \notin Opening /\ txn'[q] = None
    PROVE  Transactions'
BY NoneAssumption DEF Transactions, Opening

LEMMA CommitInv ==
    ASSUME IInv, NEW p \in Process, Commit(p)
    PROVE  IInv'
<1> USE DEF IInv
<1>0. pc[p] \in Opening
  BY DEF Commit, Opening
<1>1. /\ lock = p /\ rollback.at = "idle" /\ txn[p] \in Database /\ Halfway(txn[p])
      /\ \A q \in Process \ {p} : pc[q] \notin Opening /\ lock # q /\ txn[q] = None
  BY <1>0, MigratesAlone
<1>2. txn[p].schema = Supported
  BY <1>1, SupportedAssumption DEF Commit, TooNew, Database
<1>3. /\ db' \in Database /\ db'.schema = Supported /\ db'.memory = 1
      /\ db'.rows = txn[p].rows
  BY <1>1, <1>2 DEF Commit, Database
<1>4. Whole(db')
  <2>1. Whole(txn[p])
    BY <1>1, <1>2, MovedIsWhole, SupportedAssumption
  <2> QED BY <1>2, <1>3, <2>1 DEF Whole
<1>5. /\ lock' = None /\ backups' = backups /\ preserved' = preserved
      /\ rollback' = rollback /\ UNCHANGED bounds
      /\ txn' = [txn EXCEPT ![p] = None] /\ pc' = [pc EXCEPT ![p] = "open"]
  BY <1>1 DEF Commit, Released
<1>6. TypeOK'
  BY <1>3, <1>5 DEF TypeOK, bounds
<1>7. Transactions'
  BY <1>1, <1>5, <1>6, NoTransaction DEF TypeOK, Opening
<1>8. WholeFiles' /\ Rollbacks'
  BY <1>1, <1>3, <1>4, <1>5 DEF WholeFiles, Rollbacks
<1> QED BY <1>6, <1>7, <1>8

(* An exception, a crash, a close: the process is gone from the database. *)
LEMMA LeaveInv ==
    ASSUME IInv, NEW p \in Process, NEW out \in {"closed", "failed"},
           db' = db, backups' = backups, preserved' = preserved, rollback' = rollback,
           {crashes', failures', writes', rollbacks'} \subseteq Nat,
           lock' = Released(p), txn' = [txn EXCEPT ![p] = None],
           pc' = [pc EXCEPT ![p] = out]
    PROVE  IInv'
<1> USE DEF IInv
<1>1. TypeOK'
  BY DEF TypeOK, Released
<1>2. Transactions'
  <2>1. pc'[p] = out /\ txn'[p] = None /\ lock' # p
    BY NoneAssumption DEF TypeOK, Released
  <2>2. \A q \in Process \ {p} : pc'[q] = pc[q] /\ txn'[q] = txn[q] /\ (lock' = q <=> lock = q)
    BY NoneAssumption DEF TypeOK, Released
  <2> QED BY <2>1, <2>2 DEF Transactions, Opening, NeedsBackup
<1>3. WholeFiles' /\ Rollbacks'
  BY DEF TypeOK, WholeFiles, Rollbacks, WritersStopped
<1> QED BY <1>1, <1>2, <1>3

LEMMA OutInv ==
    ASSUME IInv, NEW p \in Process,
           Refuse(p) \/ Fail(p) \/ Busy(p) \/ Crash(p) \/ Close(p)
    PROVE  IInv'
<1> USE DEF IInv
<1>0. crashes \in Nat /\ failures \in Nat /\ writes \in Nat /\ rollbacks \in Nat
  BY DEF TypeOK
<1>1. CASE Refuse(p)
  BY <1>0, <1>1, LeaveInv DEF Refuse, Raise, RolledBack, bounds
<1>2. CASE Fail(p)
  <2>1. {crashes', failures', writes', rollbacks'} \subseteq Nat
    BY <1>0, <1>2 DEF Fail
  <2> QED BY <1>2, <2>1, LeaveInv DEF Fail, Raise, RolledBack
<1>3. CASE Crash(p)
  <2>1. {crashes', failures', writes', rollbacks'} \subseteq Nat
    BY <1>0, <1>3 DEF Crash
  <2> QED BY <1>3, <2>1, LeaveInv DEF Crash, Released
<1>4. ASSUME pc[p] \notin Opening PROVE Released(p) = lock /\ [txn EXCEPT ![p] = None] = txn
  BY <1>4 DEF Transactions, Released, TypeOK
<1>5. CASE Busy(p)
  <2>1. {crashes', failures', writes', rollbacks'} \subseteq Nat
    BY <1>0, <1>5 DEF Busy
  <2> QED BY <1>4, <1>5, <2>1, LeaveInv DEF Busy, store, Opening
<1>6. CASE Close(p)
  BY <1>0, <1>4, <1>6, LeaveInv DEF Close, store, bounds, Opening
<1> QED BY <1>1, <1>2, <1>3, <1>5, <1>6

(* A write to the database, while nobody migrates it. *)
LEMMA WrittenInv ==
    ASSUME IInv, NEW t \in Task, NEW row \in Row, Written(t, row),
           rollback.at = "idle",
           IF db.schema < 2 THEN IsLegacy(row) ELSE IsMigrated(row)
    PROVE  IInv'
<1> USE DEF IInv
<1>1. /\ lock = None /\ lock' = lock /\ pc' = pc /\ txn' = txn /\ backups' = backups
      /\ preserved' = preserved /\ rollback' = rollback
      /\ {crashes', failures', writes', rollbacks'} \subseteq Nat
  BY DEF Written, TypeOK
<1>2. /\ db' \in Database /\ Whole(db')
      /\ db'.schema = db.schema /\ db'.memory = db.memory
  <2>1. db \in Database /\ Whole(db) /\ db' = [db EXCEPT !.rows[t] = row]
    BY DEF Written, TypeOK, WholeFiles
  <2> QED BY <2>1, RowWritten
<1>3. TypeOK'
  BY <1>1, <1>2 DEF TypeOK
<1>4. Transactions'
  <2>1. \A q \in Process : pc[q] \notin Opening /\ txn[q] = None
    BY <1>1, NoneAssumption DEF Transactions
  <2> QED BY <1>1, <1>3, <2>1, NoTransaction
<1>5. WholeFiles' /\ Rollbacks'
  BY <1>1, <1>2 DEF WholeFiles, Rollbacks
<1> QED BY <1>3, <1>4, <1>5

LEMMA ProgramInv ==
    ASSUME IInv, NEW t \in Task,
           \/ \E p \in Process : CreateTask(p, t) \/ EndTask(p, t)
           \/ OldProgramWrites(t)
    PROVE  IInv'
<1> USE DEF IInv
<1>1. ASSUME NEW p \in Process, pc[p] = "open"
      PROVE  rollback.at = "idle" /\ db.schema = Supported /\ ~(db.schema < 2)
  BY <1>1, SupportedAssumption DEF WholeFiles, Rollbacks, WritersStopped
<1>2. db.rows[t] \in Row \cup {None} /\ Whole(db)
  BY DEF TypeOK, Database, WholeFiles
<1>3. ASSUME NEW p \in Process, CreateTask(p, t) PROVE IInv'
  <2> DEFINE row == [status |-> "created", call |-> None, checkpoint |-> None,
                     session |-> TRUE, slot |-> TRUE, condition |-> "idle",
                     effect |-> None, migrated |-> 0]
  <2>1. row \in Row
    BY DEF Row
  <2>3. Written(t, row) /\ pc[p] = "open"
    BY <1>3 DEF CreateTask
  <2>4. /\ row.status = "created" /\ row.session = TRUE /\ row.slot = TRUE
        /\ row.condition = "idle" /\ row.call = None /\ row.checkpoint = None
        /\ row.migrated = 0
    OBVIOUS
  <2> HIDE DEF row
  <2>2. IsMigrated(row)
    <3>1. row.status \notin Final /\ row.condition # "ended"
      BY <2>4 DEF Final
    <3>2. row.slot = (row.status \notin Final)
      BY <2>4, <3>1
    <3>3. (row.condition = "ended") = (row.status \in Final)
      BY <3>1
    <3>4. row.migrated <= 1 /\ row.checkpoint # "legacy" /\ row.call = None /\ row.session
      BY <2>4, NoneAssumption
    <3> QED BY <3>2, <3>3, <3>4 DEF IsMigrated
  <2> QED BY <1>1, <2>1, <2>2, <2>3, WrittenInv
<1>4. ASSUME NEW p \in Process, EndTask(p, t) PROVE IInv'
  <2>1. PICK row : row = [db.rows[t] EXCEPT !.status = "completed", !.slot = FALSE,
                                            !.condition = "ended"]
    OBVIOUS
  <2>2. Written(t, row) /\ pc[p] = "open" /\ db.rows[t] \in Row /\ db.rows[t] # None
    BY <1>2, <1>4, <2>1 DEF EndTask
  <2>3. IsMigrated(db.rows[t])
    BY <1>1, <1>2, <2>2 DEF Whole
  <2>4. row \in Row
    BY <2>1, <2>2 DEF Row
  <2>5. /\ row.status = "completed" /\ row.slot = FALSE /\ row.condition = "ended"
        /\ row.session = db.rows[t].session /\ row.migrated = db.rows[t].migrated
        /\ row.call = db.rows[t].call /\ row.effect = db.rows[t].effect
        /\ row.checkpoint = db.rows[t].checkpoint
    BY <2>1, <2>2 DEF Row
  <2>6. IsMigrated(row)
    BY <2>3, <2>5 DEF IsMigrated, Final
  <2> QED BY <1>1, <2>2, <2>4, <2>6, WrittenInv
<1>5. CASE OldProgramWrites(t)
  <2>1. PICK row : row = [db.rows[t] EXCEPT !.status = "running"]
    OBVIOUS
  <2>2. /\ Written(t, row) /\ rollback.at = "idle" /\ db.schema < 2
        /\ db.rows[t] \in Row /\ db.rows[t] # None
    BY <1>2, <1>5, <2>1 DEF OldProgramWrites
  <2>3. IsLegacy(db.rows[t])
    BY <1>2, <2>2 DEF Whole
  <2>4. row \in Row /\ IsLegacy(row)
    BY <2>1, <2>2, <2>3 DEF Row, IsLegacy
  <2> QED BY <2>2, <2>4, WrittenInv
<1> QED BY <1>3, <1>4, <1>5

(* restore_migration_backup. *)
LEMMA RollbackInv ==
    ASSUME IInv,
           \/ \E b \in backups : ValidateBackup(b)
           \/ PreserveUpgraded \/ RestoreBackup \/ CrashRollback
    PROVE  IInv'
<1> USE DEF IInv
<1>1. ASSUME NEW b \in backups, ValidateBackup(b) PROVE IInv'
  <2>1. TypeOK'
    BY <1>1 DEF ValidateBackup, TypeOK, store
  <2>2. Transactions' /\ WholeFiles'
    BY <1>1 DEF ValidateBackup, Transactions, WholeFiles, store, NeedsBackup
  <2>3. Rollbacks'
    BY <1>1 DEF ValidateBackup, Rollbacks, WritersStopped, store
  <2> QED BY <2>1, <2>2, <2>3
<1>2. CASE PreserveUpgraded
  <2>1. TypeOK'
    BY <1>2 DEF PreserveUpgraded, TypeOK, bounds
  <2>2. Transactions' /\ WholeFiles'
    BY <1>2 DEF PreserveUpgraded, Transactions, WholeFiles, NeedsBackup
  <2>3. Rollbacks'
    BY <1>2 DEF PreserveUpgraded, Rollbacks, WritersStopped, TypeOK
  <2> QED BY <2>1, <2>2, <2>3
<1>3. CASE RestoreBackup
  <2>1. /\ rollback.backup \in backups /\ rollback.backup \in Backup
        /\ WritersStopped /\ lock = None
    BY <1>3 DEF RestoreBackup, Rollbacks, TypeOK
  <2>2. db' \in Database /\ Whole(db')
    BY <1>3, <2>1 DEF RestoreBackup, WholeFiles, Backup
  <2>3. TypeOK'
    BY <1>3, <2>2 DEF RestoreBackup, TypeOK, bounds
  <2>4. Transactions'
    <3>1. \A q \in Process : pc[q] \notin Opening /\ txn[q] = None
      BY <2>1, NoneAssumption DEF Transactions
    <3> QED BY <1>3, <2>1, <2>3, <3>1, NoTransaction DEF RestoreBackup
  <2>5. WholeFiles' /\ Rollbacks'
    BY <1>3, <2>1, <2>2 DEF RestoreBackup, WholeFiles, Rollbacks, WritersStopped
  <2> QED BY <2>3, <2>4, <2>5
<1>4. CASE CrashRollback
  <2>1. TypeOK'
    BY <1>4 DEF CrashRollback, TypeOK, store
  <2>2. Transactions' /\ WholeFiles' /\ Rollbacks'
    BY <1>4 DEF CrashRollback, Transactions, WholeFiles, Rollbacks, store, NeedsBackup
  <2> QED BY <2>1, <2>2
<1> QED BY <1>1, <1>2, <1>3, <1>4

LEMMA NextInv == IInv /\ [Next]_vars => IInv'
<1> SUFFICES ASSUME IInv, [Next]_vars PROVE IInv'
  OBVIOUS
<1>1. CASE UNCHANGED vars
  BY <1>1 DEF vars, store, bounds, IInv, TypeOK, Transactions, WholeFiles, Rollbacks,
              NeedsBackup, WritersStopped
<1>2. ASSUME NEW p \in Process, Step(p) PROVE IInv'
  BY <1>2, BeginInv, BackupInv, MigrateInv, CommitInv, OutInv DEF Step
<1>3. CASE Next
  BY <1>2, <1>3, OutInv, ProgramInv, RollbackInv DEF Next, RollbackStep
<1> QED BY <1>1, <1>3

-----------------------------------------------------------------------------
(* The theorems. *)

(* What holds of the files, the transactions and the rollback at any time. *)
THEOREM MigrationInvariant == Spec => []IInv
<1> QED BY InitInv, NextInv, PTL DEF Spec

(* Every variable keeps the values the code gives it. *)
THEOREM TypeCorrect == Spec => []TypeOK
<1>1. IInv => TypeOK
  BY DEF IInv
<1> QED BY <1>1, MigrationInvariant, PTL

(* _initialize, initialize_runtime_schema and _migrate_legacy_runtime_v0:  *)
(* neither the database nor a backup nor a preserved file is ever half     *)
(* migrated, and the schema does not change under an open program.         *)
THEOREM NeverHalf == Spec => []NeverHalfMigrated
<1>1. IInv => NeverHalfMigrated
  <2> SUFFICES ASSUME IInv PROVE NeverHalfMigrated
    OBVIOUS
  <2>1. \A d \in Files : Whole(d)
    BY DEF IInv, WholeFiles, Files
  <2>2. (\E p \in Process : pc[p] = "open") => db.schema = Supported /\ db.memory = 1
    BY DEF IInv, WholeFiles
  <2> QED BY <2>1, <2>2 DEF NeverHalfMigrated, Whole, IsLegacy, IsMigrated
<1> QED BY <1>1, MigrationInvariant, PTL

(* Only a commit raises the schema and only a restore lowers it. *)
LEMMA SchemaSteps ==
    ASSUME IInv, [Next]_vars
    PROVE  \/ db'.schema = db.schema
           \/ \E p \in Process : Commit(p)
           \/ RestoreBackup
<1>1. ASSUME NEW t, NEW row, Written(t, row) PROVE db'.schema = db.schema
  BY <1>1 DEF Written, IInv, TypeOK, Database
<1>2. ASSUME NEW p \in Process, Step(p) PROVE db' = db \/ Commit(p)
  BY <1>2 DEF Step, Begin, CopyBackup, WriteManifest, SkipBackup, MigrateTask, NextVersion,
              Refuse, Raise, RolledBack, store
<1>3. ASSUME NEW p \in Process, Fail(p) \/ Busy(p) \/ Crash(p) \/ Close(p) PROVE db' = db
  BY <1>3 DEF Fail, Raise, RolledBack, Busy, Crash, Close, store
<1>4. ASSUME NEW t \in Task,
             \/ \E p \in Process : CreateTask(p, t) \/ EndTask(p, t)
             \/ OldProgramWrites(t)
      PROVE  db'.schema = db.schema
  BY <1>1, <1>4 DEF CreateTask, EndTask, OldProgramWrites
<1>5. ASSUME (\E b \in backups : ValidateBackup(b)) \/ PreserveUpgraded \/ CrashRollback
      PROVE  db' = db
  BY <1>5 DEF ValidateBackup, PreserveUpgraded, CrashRollback, store
<1> QED BY <1>2, <1>3, <1>4, <1>5 DEF Next, RollbackStep, vars, store

(* create_migration_backup and restore_migration_backup: an upgrade that   *)
(* commits leaves a backup of exactly the state it replaced, and a         *)
(* rollback preserves the database it replaces and installs a backup that  *)
(* its manifest describes.                                                 *)
THEOREM NoLoss == Spec => NothingLost
<1>1. ASSUME IInv, [Next]_vars, db'.schema > db.schema, db.tables
      PROVE  [content |-> db, manifest |-> db.schema] \in backups'
  <2>0. db.schema \in 0..(Supported + 1)
    BY <1>1 DEF IInv, TypeOK, Database
  <2>1. ASSUME NEW p \in Process, Commit(p)
        PROVE  [content |-> db, manifest |-> db.schema] \in backups'
    <3>1. pc[p] = "migrating" /\ pc[p] \in Opening /\ backups' = backups
      BY <2>1 DEF Commit, Opening
    <3>2. txn[p] \in Database /\ txn[p].schema = db'.schema /\ ~(txn[p].schema > Supported)
      BY <1>1, <2>1, <3>1, MigratesAlone DEF Commit, TooNew, Database
    <3>3. db.schema < Supported
      BY <1>1, <2>0, <3>2, SupportedAssumption DEF Database
    <3> QED BY <1>1, <3>1, <3>3 DEF IInv, Transactions
  <2>2. ~RestoreBackup
    <3>1. ASSUME RestoreBackup PROVE FALSE
      <4>1. /\ rollback.backup \in backups /\ rollback.backup.manifest # None
            /\ db.schema > rollback.backup.manifest /\ db' = rollback.backup.content
        BY <1>1, <3>1 DEF RestoreBackup, IInv, Rollbacks
      <4>2. rollback.backup.manifest = db'.schema /\ db'.schema \in 0..(Supported + 1)
        BY <1>1, <4>1 DEF IInv, WholeFiles, TypeOK, Backup, Database
      <4> QED BY <1>1, <2>0, <4>1, <4>2, SupportedAssumption
    <3> QED BY <3>1
  <2>3. db'.schema # db.schema
    BY <1>1, <2>0
  <2> QED BY <1>1, <2>1, <2>2, <2>3, SchemaSteps
<1>2. ASSUME IInv, [Next]_vars, db'.schema < db.schema
      PROVE  db \in preserved /\ [content |-> db', manifest |-> db'.schema] \in backups
  <2>0. db.schema \in 0..(Supported + 1)
    BY <1>2 DEF IInv, TypeOK, Database
  <2>1. ASSUME NEW p \in Process, Commit(p) PROVE FALSE
    <3>1. pc[p] \in Opening
      BY <2>1 DEF Commit, Opening
    <3>2. /\ txn[p] \in Database /\ txn[p].schema = db'.schema
          /\ txn[p].schema >= db.schema
      BY <1>2, <2>1, <3>1, MigratesAlone DEF Commit, Database
    <3> QED BY <1>2, <2>0, <3>2, SupportedAssumption DEF Database
  <2>2. RestoreBackup
    BY <1>2, <2>0, <2>1, SchemaSteps
  <2>3. /\ rollback.backup \in backups /\ rollback.backup.manifest # None
        /\ db' = rollback.backup.content /\ db \in preserved
    BY <1>2, <2>2 DEF RestoreBackup, IInv, Rollbacks
  <2>4. rollback.backup = [content |-> db', manifest |-> db'.schema]
    <3>1. rollback.backup.manifest = db'.schema /\ rollback.backup \in Backup
      BY <1>2, <2>3 DEF IInv, WholeFiles, TypeOK
    <3> QED BY <2>3, <3>1 DEF Backup
  <2> QED BY <2>3, <2>4
<1> QED BY <1>1, <1>2, MigrationInvariant, PTL DEF Spec, NothingLost
=============================================================================
