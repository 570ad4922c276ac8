----------------------------- MODULE Migration -----------------------------
(***************************************************************************)
(* Opening a database (SQLiteStore._initialize), its schema migrations     *)
(* with their backups, and the rollback to a backup                        *)
(* (persistence.py, sqlite_support.py, memory/store.py).                   *)
(*                                                                         *)
(* Processes open one database concurrently; a process or the rollback may *)
(* die at any step and a migration statement may fail.  SQLite is external *)
(* and modelled by what the code relies on: BEGIN IMMEDIATE admits one     *)
(* writer, a transaction is private until it commits and is undone by a    *)
(* crash, and the backup call copies a committed state as one.             *)
(*                                                                         *)
(* A task's row keeps what the legacy migration reads and writes: status,  *)
(* recorded tool call, checkpoint; session, condition, effect.  Schemas    *)
(* below 2 have no sessions.                                               *)
(***************************************************************************)
EXTENDS Integers, FiniteSets, Sequences

CONSTANTS
    Process,           \* the processes that open the database
    Task,
    Supported,         \* RUNTIME_SCHEMA_VERSION
    MaxCrashes,        \* bound on crashes
    MaxFailures,       \* bound on failing statements and busy timeouts
    MaxWrites,         \* bound on writes, of this program or the older one
    MaxRollbacks,      \* bound on rollbacks
    None

ASSUME SupportedAssumption == Supported \in Nat /\ Supported >= 2

VARIABLES
    db,                \* the committed database
    lock,              \* the process in a write transaction, or None
    pc,                \* pc[p]: how far p is with opening
    txn,               \* txn[p]: the database as p's transaction sees it
    backups,           \* [content, manifest]: the files under backups/
    preserved,         \* upgraded databases kept by rollbacks
    rollback,          \* the rollback under way: [at, backup]
    crashes, failures, writes, rollbacks

store == <<db, lock, txn, backups, preserved>>
bounds == <<crashes, failures, writes, rollbacks>>
vars == <<store, pc, rollback, bounds>>

Final == {"completed"}

Opening == {"begun", "copied", "migrating"}

Row ==
    [status : {"created", "running", "completed"}, call : {None, "passed", "failed"},
     checkpoint : {None, "legacy", "adapted"}, session : BOOLEAN, slot : BOOLEAN,
     condition : {None, "idle", "recovery_required", "ended"},
     effect : {None, "succeeded", "failed"}, migrated : Nat]

Database ==
    [schema : 0..(Supported + 1), memory : {0, 1}, tables : BOOLEAN,
     rows : [Task -> Row \cup {None}]]

Backup == [content : Database, manifest : 0..Supported \cup {None}]

ASSUME NoneAssumption ==
    /\ None \notin Process
    /\ None \notin Row
    /\ None \notin Database
    /\ None \notin 0..Supported
    /\ None \notin {"passed", "failed", "legacy", "ended"}

(* A row of a program before sessions. *)
LegacyRow ==
    [status : {"created", "running", "completed"}, call : {None, "passed", "failed"},
     checkpoint : {None, "legacy"}, session : {FALSE}, slot : {FALSE}, condition : {None},
     effect : {None}, migrated : {0}]

(* The condition a migrated task is left in: one that was running needs a  *)
(* review before it may go on.                                             *)
MigratedCondition(status) ==
    IF status = "created" THEN "idle"
    ELSE IF status = "running" THEN "recovery_required"
    ELSE "ended"

(* _legacy_effects: one settled effect per recorded call. *)
LegacyEffect(call) ==
    IF call = None THEN None ELSE IF call = "passed" THEN "succeeded" ELSE "failed"

(* Mutant: the migrated task gets no session. *)
MigratedSessionless(row) ==
    [row EXCEPT !.slot       = row.status \notin Final,
                !.condition  = MigratedCondition(row.status),
                !.effect     = LegacyEffect(row.call)]

(* _migrate_legacy_runtime_v0 for one task without a session. *)
MigratedRow(row) ==
    [row EXCEPT !.session    = TRUE,
                !.slot       = row.status \notin Final,
                !.condition  = MigratedCondition(row.status),
                !.effect     = LegacyEffect(row.call),
                !.checkpoint = IF row.checkpoint = None THEN None ELSE "adapted",
                !.migrated   = @ + 1]

(* The tasks version 2 has still to move into sessions. *)
Unmigrated(d) == {t \in Task : d.rows[t] # None /\ ~d.rows[t].session}

(* Databases the program may find: none yet, one of an earlier program, or *)
(* one of a later program.                                                 *)
Fresh == [schema |-> 0, memory |-> 0, tables |-> FALSE, rows |-> [t \in Task |-> None]]

(* A call is recorded after the first checkpoint of its task. *)
LegacyRows == [Task -> {None} \cup {r \in LegacyRow : r.checkpoint = None => r.call = None}]

Legacy(schema) ==
    {[schema |-> schema, memory |-> 0, tables |-> TRUE, rows |-> rows] : rows \in LegacyRows}

Earlier(schema) ==
    {[d EXCEPT !.schema = schema, !.memory = 1,
               !.rows = [t \in Task |-> IF @[t] = None THEN None ELSE MigratedRow(@[t])]] :
        d \in Legacy(1)}

Init ==
    /\ db \in {Fresh} \cup Legacy(0) \cup Legacy(1)
              \cup UNION {Earlier(s) : s \in 2..(Supported + 1)}
    /\ lock = None
    /\ pc = [p \in Process |-> "closed"]
    /\ txn = [p \in Process |-> None]
    /\ backups = {}
    /\ preserved = {}
    /\ rollback = [at |-> "idle", backup |-> None]
    /\ crashes = 0 /\ failures = 0 /\ writes = 0 /\ rollbacks = 0

----------------------------------------------------------------------------
(* Opening: SQLiteStore._initialize, then the memory store. *)

(* What a process leaves behind when its transaction is undone. *)
Released(p) == IF lock = p THEN None ELSE lock

(* Mutant: the transaction takes no write lock. *)
BeginDeferred(p) ==
    /\ rollback.at = "idle"
    /\ pc[p] \in {"closed", "failed"}
    /\ pc' = [pc EXCEPT ![p] = "begun"]
    /\ txn' = [txn EXCEPT ![p] = db]
    /\ UNCHANGED <<db, lock, backups, preserved, rollback, bounds>>

(* BEGIN IMMEDIATE: the version is read inside the write transaction. *)
Begin(p) ==
    /\ rollback.at = "idle"
    /\ pc[p] \in {"closed", "failed"}
    /\ lock = None
    /\ lock' = p
    /\ pc' = [pc EXCEPT ![p] = "begun"]
    /\ txn' = [txn EXCEPT ![p] = db]
    /\ UNCHANGED <<db, backups, preserved, rollback, bounds>>

NeedsBackup(p) == txn[p].schema < Supported /\ txn[p].tables

(* create_migration_backup reads through a connection of its own, which    *)
(* sees the committed database.                                            *)
CopyBackup(p) ==
    /\ pc[p] = "begun"
    /\ NeedsBackup(p)
    /\ backups' = backups \cup {[content |-> db, manifest |-> None]}
    /\ pc' = [pc EXCEPT ![p] = "copied"]
    /\ UNCHANGED <<db, lock, txn, preserved, rollback, bounds>>

(* The manifest is moved into place once it is complete. *)
WriteManifest(p) ==
    /\ pc[p] = "copied"
    /\ \E b \in backups :
        /\ b = [content |-> db, manifest |-> None]
        /\ backups' = (backups \ {b}) \cup {[b EXCEPT !.manifest = txn[p].schema]}
    /\ pc' = [pc EXCEPT ![p] = "migrating"]
    /\ UNCHANGED <<db, lock, txn, preserved, rollback, bounds>>

SkipBackup(p) ==
    /\ pc[p] = "begun"
    /\ ~NeedsBackup(p)
    /\ pc' = [pc EXCEPT ![p] = "migrating"]
    /\ UNCHANGED <<store, rollback, bounds>>

(* Within the transaction, task by task ... *)
MigrateTask(p, t) ==
    /\ pc[p] = "migrating"
    /\ txn[p].schema = 1
    /\ t \in Unmigrated(txn[p])
    /\ txn' = [txn EXCEPT ![p].rows[t] = MigratedRow(@)]
    /\ UNCHANGED <<db, lock, backups, preserved, pc, rollback, bounds>>

(* ... and version by version: versions 1, 3 and 4 add tables and columns. *)
NextVersion(p) ==
    /\ pc[p] = "migrating"
    /\ txn[p].schema < Supported
    /\ txn[p].schema = 1 => Unmigrated(txn[p]) = {}
    /\ txn' = [txn EXCEPT ![p].schema = @ + 1, ![p].tables = TRUE]
    /\ UNCHANGED <<db, lock, backups, preserved, pc, rollback, bounds>>

TooNew(p) == txn[p].schema > Supported

(* initialize_memory_schema is the last part of the transaction; the       *)
(* memory store then runs it again and finds nothing to do.                *)
Commit(p) ==
    /\ pc[p] = "migrating"
    /\ txn[p].schema >= Supported
    /\ ~TooNew(p)
    /\ db' = [txn[p] EXCEPT !.memory = 1]
    /\ lock' = Released(p)
    /\ txn' = [txn EXCEPT ![p] = None]
    /\ pc' = [pc EXCEPT ![p] = "open"]
    /\ UNCHANGED <<backups, preserved, rollback, bounds>>

(* Mutant: an exception commits what was done so far. *)
CommitPartly(p) == IF txn[p] = None THEN db ELSE txn[p]

RolledBack(p) == db

(* An exception undoes the transaction and is raised to the caller. *)
Raise(p) ==
    /\ db' = RolledBack(p)
    /\ lock' = Released(p)
    /\ txn' = [txn EXCEPT ![p] = None]
    /\ pc' = [pc EXCEPT ![p] = "failed"]
    /\ UNCHANGED <<backups, preserved, rollback>>

(* RuntimeSchemaError: the schema is newer than supported. *)
Refuse(p) ==
    /\ pc[p] = "migrating"
    /\ TooNew(p)
    /\ Raise(p)
    /\ UNCHANGED bounds

(* A copy, an integrity check or a statement fails. *)
Fail(p) ==
    /\ pc[p] \in Opening
    /\ failures < MaxFailures
    /\ failures' = failures + 1
    /\ Raise(p)
    /\ UNCHANGED <<crashes, writes, rollbacks>>

(* The busy timeout of a process that waits for the writer. *)
Busy(p) ==
    /\ pc[p] = "closed"
    /\ lock \notin {None, p}
    /\ failures < MaxFailures
    /\ failures' = failures + 1
    /\ pc' = [pc EXCEPT ![p] = "failed"]
    /\ UNCHANGED <<store, rollback, crashes, writes, rollbacks>>

Crash(p) ==
    /\ pc[p] \in Opening \cup {"open"}
    /\ crashes < MaxCrashes
    /\ crashes' = crashes + 1
    /\ lock' = IF lock = p THEN None ELSE lock
    /\ txn' = [txn EXCEPT ![p] = None]
    /\ pc' = [pc EXCEPT ![p] = "closed"]
    /\ UNCHANGED <<db, backups, preserved, rollback, failures, writes, rollbacks>>

Close(p) ==
    /\ pc[p] = "open"
    /\ pc' = [pc EXCEPT ![p] = "closed"]
    /\ UNCHANGED <<store, rollback, bounds>>

----------------------------------------------------------------------------
(* Writes to the database once it is open. *)

Written(t, row) ==
    /\ lock = None
    /\ writes < MaxWrites
    /\ writes' = writes + 1
    /\ db' = [db EXCEPT !.rows[t] = row]
    /\ UNCHANGED <<lock, pc, txn, backups, preserved, rollback, crashes, failures, rollbacks>>

(* A task is created in its session, or ended. *)
CreateTask(p, t) ==
    /\ pc[p] = "open"
    /\ db.rows[t] = None
    /\ Written(t, [status |-> "created", call |-> None, checkpoint |-> None, session |-> TRUE,
                   slot |-> TRUE, condition |-> "idle", effect |-> None, migrated |-> 0])

EndTask(p, t) ==
    /\ pc[p] = "open"
    /\ db.rows[t] # None
    /\ db.rows[t].status \notin Final
    /\ Written(t, [db.rows[t] EXCEPT !.status = "completed", !.slot = FALSE,
                                     !.condition = "ended"])

(* The program of an earlier schema, before an upgrade or after a          *)
(* rollback: external.                                                     *)
OldProgramWrites(t) ==
    /\ rollback.at = "idle"
    /\ db.tables /\ db.schema < 2
    /\ db.rows[t] # None
    /\ db.rows[t].status = "created"
    /\ Written(t, [db.rows[t] EXCEPT !.status = "running"])

----------------------------------------------------------------------------
(* restore_migration_backup, by an operator. *)

(* The caller states that execution and writers are stopped. *)
WritersStopped == \A p \in Process : pc[p] \in {"closed", "failed"}

ValidateBackup(b) ==
    /\ rollback.at = "idle"
    /\ rollbacks < MaxRollbacks
    /\ WritersStopped
    /\ b \in backups
    /\ b.manifest # None
    /\ db.schema > b.manifest
    /\ rollback' = [at |-> "validated", backup |-> b]
    /\ rollbacks' = rollbacks + 1
    /\ UNCHANGED <<store, pc, crashes, failures, writes>>

PreserveUpgraded ==
    /\ rollback.at = "validated"
    /\ lock = None
    /\ preserved' = preserved \cup {db}
    /\ rollback' = [rollback EXCEPT !.at = "preserved"]
    /\ UNCHANGED <<db, lock, txn, backups, pc, bounds>>

RestoreBackup ==
    /\ rollback.at = "preserved"
    /\ lock = None
    /\ db' = rollback.backup.content
    /\ rollback' = [at |-> "idle", backup |-> None]
    /\ UNCHANGED <<lock, txn, backups, preserved, pc, bounds>>

CrashRollback ==
    /\ rollback.at # "idle"
    /\ crashes < MaxCrashes
    /\ crashes' = crashes + 1
    /\ rollback' = [at |-> "idle", backup |-> None]
    /\ UNCHANGED <<store, pc, failures, writes, rollbacks>>

----------------------------------------------------------------------------
Step(p) ==
    \/ Begin(p)
    \/ CopyBackup(p)
    \/ WriteManifest(p)
    \/ SkipBackup(p)
    \/ \E t \in Task : MigrateTask(p, t)
    \/ NextVersion(p)
    \/ Commit(p)
    \/ Refuse(p)

RollbackStep ==
    \/ PreserveUpgraded
    \/ RestoreBackup

Next ==
    \/ \E p \in Process :
        \/ Step(p)
        \/ Fail(p)
        \/ Busy(p)
        \/ Crash(p)
        \/ Close(p)
        \/ \E t \in Task : CreateTask(p, t) \/ EndTask(p, t)
    \/ \E t \in Task : OldProgramWrites(t)
    \/ \E b \in backups : ValidateBackup(b)
    \/ RollbackStep
    \/ CrashRollback

Spec == Init /\ [][Next]_vars

(* Code that runs is scheduled, a user opens the database again after a    *)
(* failure or a crash, and the lock is fair; faults, writes and closing    *)
(* the program are not.                                                    *)
FairSpec ==
    /\ Spec
    /\ \A p \in Process : WF_vars(Step(p))
    /\ WF_vars(RollbackStep)

----------------------------------------------------------------------------
Files == {db} \cup preserved \cup {b.content : b \in backups}

(* The variables have the values the code gives them. *)
TypeOK ==
    /\ db \in Database
    /\ lock \in Process \cup {None}
    /\ pc \in [Process -> Opening \cup {"closed", "failed", "open"}]
    /\ txn \in [Process -> Database \cup {None}]
    /\ backups \subseteq Backup
    /\ preserved \subseteq Database
    /\ rollback \in [at : {"idle", "validated", "preserved"}, backup : Backup \cup {None}]
    /\ {crashes, failures, writes, rollbacks} \subseteq Nat

(* No database file is half migrated: with sessions every task has one,    *)
(* created once, whose slot is held exactly while the task is active, and  *)
(* every call recorded before sessions is a settled effect; without        *)
(* sessions no task was touched.  This holds of the database, its backups  *)
(* and what rollbacks preserve, whatever fails or dies in a migration      *)
(* (_initialize, initialize_runtime_schema, _migrate_legacy_runtime_v0).   *)
(* And no migration or rollback of another process changes the schema or   *)
(* the memory tables under an open program.                                *)
NeverHalfMigrated ==
    /\ (\E p \in Process : pc[p] = "open") => db.schema = Supported /\ db.memory = 1
    /\ \A d \in Files : \A t \in Task :
        LET row == d.rows[t]
        IN row # None =>
            IF d.schema < 2
            THEN ~row.session /\ row.effect = None /\ row.migrated = 0
            ELSE /\ row.session
                 /\ row.migrated <= 1
                 /\ row.slot = (row.status \notin Final)
                 /\ (row.condition = "ended") = (row.status \in Final)
                 /\ row.call # None => row.effect = LegacyEffect(row.call)
                 /\ row.checkpoint # "legacy"

(* No change of schema loses anything, although processes write, migrate   *)
(* and die meanwhile.  A committed upgrade of a database with data leaves  *)
(* a backup with a manifest of exactly the state it replaced               *)
(* (create_migration_backup under the writer lock); a rollback preserves   *)
(* the database it replaces with its latest writes, and installs a backup  *)
(* whose manifest names its schema (restore_migration_backup).             *)
NothingLost ==
    [][/\ db'.schema > db.schema /\ db.tables =>
            [content |-> db, manifest |-> db.schema] \in backups'
       /\ db'.schema < db.schema =>
            db \in preserved /\ [content |-> db', manifest |-> db'.schema] \in backups]_vars

(* A database the program supports is opened in the end: no crash, failure *)
(* or other process leaves it locked or in a state that cannot be          *)
(* migrated.                                                               *)
OpensInTheEnd == db.schema <= Supported ~> \E p \in Process : pc[p] = "open"
============================================================================
