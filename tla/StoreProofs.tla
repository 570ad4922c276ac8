---------------------------- MODULE StoreProofs ----------------------------
(***************************************************************************)
(* Theorems about Store, the in-memory store that the service tests run    *)
(* against: the journal, the versions of the rows, and that it keeps what  *)
(* the SQLite store promises about effects and leases, for any number of   *)
(* tasks, executions, effects and events.                                  *)
(***************************************************************************)
EXTENDS Store, TLAPS

(* A row that is not there yet has no version, and nothing refers to it. *)
TasksBlank ==
    \A t \in Task : tasks[t].outcome = "absent" => tasks[t].version = 0 /\ tasks[t].cond = "idle"

ControlsBlank == \A c \in Control : ctls[c].status = "absent" => ctls[c].version = 0

EffectsBlank ==
    \A e \in Effect :
        /\ effs[e].status = "absent" => effs[e].version = 0 /\ apps[e].status = "absent"
        /\ apps[e].status = "absent" => apps[e].version = 0

(* An effect is one of a task that was started. *)
EffectsHome ==
    \A e \in Effect : effs[e].status # "absent" => tasks[Home[e]].outcome # "absent"

(* An approval is pending exactly as long as its effect waits for it. *)
ApprovalsOpen ==
    \A e \in Effect :
        apps[e].status = "pending" => effs[e].status = "waiting_for_approval" /\ effs[e].approval

(* An execution has a task that was started, and one holds the session. *)
ExecsBlank ==
    \A x \in Exec :
        /\ execs[x].status = "absent" =>
               execs[x].version = 0 /\ execs[x].task = None /\ cmd[x] = "none"
        /\ execs[x].status # "absent" =>
               execs[x].task \in Task /\ tasks[execs[x].task].outcome # "absent"

OneActive == \A x, y \in Exec : IsActive(x) /\ IsActive(y) => x = y

(* The generations of a task have a greatest one. *)
OfTask(f, t) == {x \in Exec : f[x].task = t}
LatestIn(f, t, g) ==
    /\ g \in Nat
    /\ g = 0 \/ \E x \in OfTask(f, t) : f[x].gen = g
    /\ \A x \in OfTask(f, t) : f[x].gen <= g
Numbered == \A t \in Task : \E g : LatestIn(execs, t, g)

(* The contents of the tables, and the references between them. *)
TablesInv ==
    TasksBlank /\ ControlsBlank /\ EffectsBlank /\ EffectsHome /\ ApprovalsOpen /\ ExecsBlank

IInv == TypeOK /\ TablesInv /\ OneActive /\ Numbered /\ JournalExact
-----------------------------------------------------------------------------
(* The session row and the journal. *)

SessionStep ==
    /\ sess' \in SessionRow /\ rows' \in Nat
    /\ sess'.seq = rows' /\ sess.seq <= sess'.seq
    /\ [sess' EXCEPT !.seq = sess.seq] # sess => sess'.version = sess.version + 1

LEMMA JournalWrites ==
    ASSUME TypeOK, sess.seq = rows, NEW s \in SessionRow, s.seq = sess.seq,
           s = sess \/ s.version = sess.version + 1, NEW n \in Nat, Journal(s, n)
    PROVE  SessionStep
<1>1. sess \in SessionRow /\ rows \in Nat
  BY DEF TypeOK
<1>2. sess' = [s EXCEPT !.seq = s.seq + n] /\ rows' = rows + n
  BY DEF Journal
<1>3. sess' \in SessionRow /\ sess'.seq = s.seq + n /\ sess'.version = s.version
  BY <1>2 DEF SessionRow
<1>4. s = sess => [sess' EXCEPT !.seq = sess.seq] = sess
  BY <1>1, <1>2 DEF SessionRow
<1>5. sess.seq \in Nat /\ sess'.seq = rows' /\ sess.seq <= sess'.seq /\ rows' \in Nat
  BY <1>1, <1>2, <1>3 DEF SessionRow
<1> QED BY <1>3, <1>4, <1>5 DEF SessionStep

LEMMA SameSession ==
    ASSUME TypeOK, sess.seq = rows, UNCHANGED <<sess, rows>>
    PROVE  SessionStep
BY DEF TypeOK, SessionStep, SessionRow

(* The session row as a method writes it before it journals. *)
LEMMA SessionWrites ==
    ASSUME TypeOK, NEW a \in Task \cup {None}
    PROVE  /\ [sess EXCEPT !.status = "closed", !.version = @ + 1] \in SessionRow
           /\ [sess EXCEPT !.status = "closed", !.version = @ + 1].seq = sess.seq
           /\ [sess EXCEPT !.status = "closed", !.version = @ + 1].version = sess.version + 1
           /\ [sess EXCEPT !.version = @ + 1] \in SessionRow
           /\ [sess EXCEPT !.version = @ + 1].seq = sess.seq
           /\ [sess EXCEPT !.version = @ + 1].version = sess.version + 1
           /\ [sess EXCEPT !.active = a, !.version = @ + 1] \in SessionRow
           /\ [sess EXCEPT !.active = a, !.version = @ + 1].seq = sess.seq
           /\ [sess EXCEPT !.active = a, !.version = @ + 1].version = sess.version + 1
<1>1. PICK r \in SessionRow : r = sess
  BY DEF TypeOK
<1>2. r.version + 1 \in Nat
  BY <1>1 DEF SessionRow
<1>3. PICK q, p, o : /\ q = [r EXCEPT !.status = "closed", !.version = r.version + 1]
                     /\ p = [r EXCEPT !.version = r.version + 1]
                     /\ o = [r EXCEPT !.active = a, !.version = r.version + 1]
  OBVIOUS
<1>4. /\ q \in SessionRow /\ q.seq = r.seq /\ q.version = r.version + 1
      /\ p \in SessionRow /\ p.seq = r.seq /\ p.version = r.version + 1
  BY <1>2, <1>3 DEF SessionRow
<1>5. o \in SessionRow /\ o.seq = r.seq /\ o.version = r.version + 1
  BY <1>2, <1>3 DEF SessionRow
<1>6. /\ q = [sess EXCEPT !.status = "closed", !.version = @ + 1]
      /\ p = [sess EXCEPT !.version = @ + 1]
      /\ o = [sess EXCEPT !.active = a, !.version = @ + 1]
  BY <1>1, <1>3, <1>4, <1>5 DEF SessionRow
<1> QED BY <1>1, <1>3, <1>4, <1>5, <1>6

LEMMA PlainJournal ==
    ASSUME TypeOK, sess.seq = rows, NEW n \in Nat, Journal(sess, n)
    PROVE  SessionStep
BY JournalWrites DEF TypeOK

LEMMA NextSession ==
    ASSUME TypeOK, sess.seq = rows, [Next]_vars
    PROVE  SessionStep
<1>1. CASE SessionOp
  <2>1. CASE CloseSession
    <3>1. PICK s : s = [sess EXCEPT !.status = "closed", !.version = @ + 1]
      OBVIOUS
    <3>2. Journal(s, 1)
      BY <2>1, <3>1 DEF CloseSession
    <3> QED BY <3>1, <3>2, SessionWrites, JournalWrites
  <2>2. CASE AppendTurn
    <3>1. PICK s : s = [sess EXCEPT !.version = @ + 1]
      OBVIOUS
    <3>2. Journal(s, 1)
      BY <2>2, <3>1 DEF AppendTurn
    <3> QED BY <3>1, <3>2, SessionWrites, JournalWrites
  <2>3. CASE \E t \in Task : StartTask(t)
    <3>1. PICK t \in Task : StartTask(t)
      BY <2>3
    <3>2. PICK s : s = [sess EXCEPT !.active = t, !.version = @ + 1]
      OBVIOUS
    <3>3. Journal(s, 1)
      BY <3>1, <3>2 DEF StartTask
    <3> QED BY <3>2, <3>3, SessionWrites, JournalWrites
  <2>4. CASE Journal(sess, 1)
    BY <2>4, PlainJournal
  <2> QED BY <1>1, <2>1, <2>2, <2>3, <2>4
       DEF SessionOp, AppendEvent, RequestControl, SettleControl
<1>2. CASE LeaseOp
  <2>1. ASSUME NEW x \in Exec, NEW t \in Task, NEW outcome, NEW cond, UpdateTask(x, t, outcome, cond)
        PROVE  SessionStep
    <3>1. PICK s : /\ Journal(s, 1)
                   /\ s = sess \/ s = [sess EXCEPT !.active = None, !.version = @ + 1]
      BY <2>1 DEF UpdateTask
    <3>2. sess \in SessionRow
      BY DEF TypeOK
    <3> QED BY <3>1, <3>2, SessionWrites, JournalWrites
  <2>2. CASE Journal(sess, 1) \/ NoJournal
    BY <2>2, PlainJournal, SameSession DEF NoJournal
  <2> QED BY <1>2, <2>1, <2>2
       DEF Owners, LeaseOp, ClaimExecution, ClaimRefused, WorkspaceExpires, RenewExecution, ReleaseExecution,
           LeaseExpires, AcquireWorkspace, ReleaseWorkspace, RegisterCommand, MarkRecoveryRequired,
           FinishCommand
<1>3. CASE EffectOp
  <2>1. ASSUME NEW e \in Effect, NEW kind, Disposed(e, kind) PROVE SessionStep
    <3>1. PICK s : /\ Journal(s, 1)
                   /\ s = sess \/ s = [sess EXCEPT !.active = None, !.version = @ + 1]
      BY <2>1 DEF Disposed
    <3>2. sess \in SessionRow
      BY DEF TypeOK
    <3> QED BY <3>1, <3>2, SessionWrites, JournalWrites
  <2>2. CASE Journal(sess, 1) \/ Journal(sess, 2) \/ NoJournal
    BY <2>2, PlainJournal, SameSession DEF NoJournal
  <2>3. ASSUME NEW x \in Exec, NEW e \in Effect,
               \/ RequestAgain(x, e) \/ RequestApproval(x, e) \/ MarkUnknown(x, e)
               \/ CommitToolResult(x, e)
               \/ \E input \in 0..MaxTurns \cup {None} : ClaimEffect(x, e, input)
               \/ \E status \in {"succeeded", "failed", "unknown"}, observed \in BOOLEAN :
                      CommitEffect(x, e, status, observed)
               \/ \E status \in {"denied", "cancelled"} : SettleUnexecuted(x, e, status)
        PROVE  Journal(sess, 1) \/ Journal(sess, 2) \/ NoJournal
    BY <2>3 DEF RequestAgain, RequestApproval, MarkUnknown, CommitToolResult,
                ClaimEffect, CommitEffect, SettleUnexecuted
  <2>4. ASSUME NEW e \in Effect,
               \/ \E verdict \in {"approved", "denied", "expired"} : ResolveApproval(e, verdict)
               \/ \E status \in {"succeeded", "failed"} : ConfirmResult(e, status)
               \/ \E r \in Effect : CreateRetry(e, r)
               \/ Abandon(e)
        PROVE  Journal(sess, 1) \/ \E kind : Disposed(e, kind)
    BY <2>4 DEF ResolveApproval, ConfirmResult, CreateRetry, Abandon
  <2>5. ASSUME NEW x, NEW t, NEW new, PrepareEffects(x, t, new)
        PROVE  Journal(sess, 1)
    BY <2>5 DEF PrepareEffects
  <2> QED BY <1>3, <2>1, <2>2, <2>3, <2>4, <2>5 DEF Owners, EffectOp
<1>4. CASE CheckpointOp
  BY <1>4, PlainJournal DEF Owners, CheckpointOp, CommitCheckpoint
<1>5. CASE UNCHANGED vars
  BY <1>5, SameSession DEF vars
<1> QED BY <1>1, <1>2, <1>3, <1>4, <1>5 DEF Next
-----------------------------------------------------------------------------
(* The tasks. *)

TasksStep ==
    /\ tasks' \in [Task -> TaskRow] /\ TasksBlank'
    /\ Versioned(tasks, tasks')
    /\ \A t \in Task : tasks[t].outcome # "absent" => tasks'[t].outcome # "absent"

LEMMA SameTasks ==
    ASSUME TypeOK, TasksBlank, tasks' = tasks
    PROVE  TasksStep
BY DEF TypeOK, TasksStep, TasksBlank, Versioned

LEMMA TaskWrite ==
    ASSUME TypeOK, TasksBlank, NEW t \in Task, NEW r \in TaskRow,
           r.version = tasks[t].version + 1, r.outcome # "absent",
           tasks' = [tasks EXCEPT ![t] = r]
    PROVE  TasksStep
<1>1. tasks \in [Task -> TaskRow]
  BY DEF TypeOK
<1>2. tasks' \in [Task -> TaskRow] /\ tasks'[t] = r /\ \A u \in Task \ {t} : tasks'[u] = tasks[u]
  BY <1>1
<1>3. TasksBlank'
  BY <1>2 DEF TasksBlank
<1>4. DOMAIN tasks = Task
  BY <1>1
<1>5. Versioned(tasks, tasks')
  BY <1>2, <1>4 DEF Versioned
<1> QED BY <1>2, <1>3, <1>5 DEF TasksStep

LEMMA CondRow ==
    ASSUME NEW r \in TaskRow, NEW c \in Condition
    PROVE  /\ Cond(r, c) \in TaskRow /\ Cond(r, c).version = r.version + 1
           /\ Cond(r, c).outcome = r.outcome /\ Cond(r, c).cond = c
<1>1. r.version + 1 \in Nat
  BY DEF TaskRow
<1>2. PICK q : q = [r EXCEPT !.cond = c, !.version = r.version + 1]
  OBVIOUS
<1>3. q \in TaskRow /\ q.version = r.version + 1 /\ q.outcome = r.outcome /\ q.cond = c
  BY <1>1, <1>2 DEF TaskRow
<1>4. q = Cond(r, c)
  BY <1>2 DEF Cond, TaskRow
<1> QED BY <1>3, <1>4

LEMMA CondWrite ==
    ASSUME TypeOK, TasksBlank, NEW t \in Task, NEW c \in Condition,
           tasks[t].outcome # "absent", tasks' = [tasks EXCEPT ![t] = Cond(@, c)]
    PROVE  TasksStep
<1>1. tasks[t] \in TaskRow
  BY DEF TypeOK
<1>2. PICK q : q = Cond(tasks[t], c)
  OBVIOUS
<1>3. q \in TaskRow /\ q.version = tasks[t].version + 1 /\ q.outcome # "absent"
  BY <1>1, <1>2, CondRow
<1>4. tasks' = [tasks EXCEPT ![t] = q]
  BY <1>2 DEF TypeOK
<1> QED BY <1>3, <1>4, TaskWrite

LEMMA SessionTasks ==
    ASSUME TypeOK, TablesInv, SessionOp
    PROVE  TasksStep
<1>0. TasksBlank
  BY DEF TablesInv
<1>1. CASE \E t \in Task : StartTask(t)
  <2>1. PICK t \in Task : StartTask(t)
    BY <1>1
  <2>2. PICK r : r = [outcome |-> "active", cond |-> "idle", version |-> 1]
    OBVIOUS
  <2>3. r \in TaskRow /\ r.version = 1 /\ r.outcome # "absent"
    BY <2>2 DEF TaskRow, Outcome, Condition
  <2>4. tasks[t].version = 0 /\ tasks' = [tasks EXCEPT ![t] = r]
    BY <1>0, <2>1, <2>2 DEF StartTask, TasksBlank
  <2>5. r.version = tasks[t].version + 1
    BY <2>3, <2>4
  <2> QED BY <1>0, <2>3, <2>4, <2>5, TaskWrite
<1>2. CASE tasks' = tasks
  BY <1>0, <1>2, SameTasks
<1> QED BY <1>1, <1>2
     DEF SessionOp, AppendEvent, CloseSession, AppendTurn, RequestControl, SettleControl

(* A guarded execution has a started task. *)
LEMMA GuardedTask ==
    ASSUME TypeOK, TablesInv, NEW x \in Exec, execs[x].status # "absent"
    PROVE  execs[x].task \in Task /\ tasks[execs[x].task].outcome # "absent"
BY DEF TablesInv, ExecsBlank

LEMMA ActiveThere ==
    ASSUME NEW x \in Exec, IsActive(x)
    PROVE  execs[x].status # "absent"
BY DEF IsActive, ActiveStatus

LEMMA WaitTask ==
    ASSUME TypeOK, TablesInv, NEW x \in Exec, NEW t \in Task, GuardFor(x, t), Wait(x, t)
    PROVE  TasksStep
<1>1. tasks[t].outcome # "absent"
  BY GuardedTask, ActiveThere DEF GuardFor, Guard
<1> QED BY <1>1, CondWrite DEF Wait, TablesInv, Condition

LEMMA LeaseTasks ==
    ASSUME TypeOK, TablesInv, LeaseOp
    PROVE  TasksStep
<1>0. TasksBlank
  BY DEF TablesInv
<1>1. ASSUME NEW x \in Exec, NEW t \in Task, NEW outcome \in Outcome \ {"absent"},
             NEW cond \in Condition, UpdateTask(x, t, outcome, cond)
      PROVE  TasksStep
  <2>1. PICK n \in Nat : n = tasks[t].version
    BY DEF TypeOK, TaskRow
  <2>2. PICK r : r = [outcome |-> outcome, cond |-> cond, version |-> n + 1]
    OBVIOUS
  <2>3. r \in TaskRow /\ r.version = n + 1 /\ r.outcome # "absent"
    BY <2>2 DEF TaskRow
  <2>4. tasks' = [tasks EXCEPT ![t] = r]
    BY <1>1, <2>1, <2>2 DEF UpdateTask, TypeOK
  <2> QED BY <1>0, <2>1, <2>3, <2>4, TaskWrite
<1>2. ASSUME NEW x \in Exec, NEW t \in Task, ClaimExecution(x, t)
      PROVE  TasksStep
  BY <1>0, <1>2, CondWrite DEF ClaimExecution, Condition
<1>3. ASSUME NEW x \in Exec, ReleaseExecution(x)
      PROVE  TasksStep
  <2>1. execs[x].task \in Task /\ tasks[execs[x].task].outcome # "absent"
    BY <1>3, GuardedTask, ActiveThere DEF ReleaseExecution, Guard
  <2>2. tasks' = tasks \/ tasks' = [tasks EXCEPT ![execs[x].task] = Cond(@, "idle")]
    BY <1>3 DEF ReleaseExecution
  <2> QED BY <1>0, <2>1, <2>2, CondWrite, SameTasks DEF Condition
<1>4. ASSUME NEW x \in Exec, MarkRecoveryRequired(x)
      PROVE  TasksStep
  <2>1. execs[x].status # "absent"
    BY <1>4 DEF MarkRecoveryRequired, RecoveryCommands, TablesInv, ExecsBlank
  <2>2. tasks' = [tasks EXCEPT ![execs[x].task] = Cond(@, "recovery_required")]
    BY <1>4 DEF MarkRecoveryRequired
  <2> QED BY <1>0, <2>1, <2>2, GuardedTask, CondWrite DEF Condition
<1>5. CASE tasks' = tasks
  BY <1>0, <1>5, SameTasks
<1> QED BY <1>1, <1>2, <1>3, <1>4, <1>5
     DEF Owners, LeaseOp, ClaimRefused, WorkspaceExpires, RenewExecution,
         LeaseExpires, AcquireWorkspace, ReleaseWorkspace, RegisterCommand, FinishCommand

LEMMA EffectTasks ==
    ASSUME TypeOK, TablesInv, EffectOp
    PROVE  TasksStep
<1>0. TasksBlank
  BY DEF TablesInv
<1>1. ASSUME NEW x \in Exec, NEW e \in Effect, RequestAgain(x, e) \/ RequestApproval(x, e)
      PROVE  TasksStep
  <2>1. Home[e] \in Task
    BY StoreAssumption
  <2> QED BY <1>1, <2>1, WaitTask DEF RequestAgain, RequestApproval
<1>2. ASSUME NEW x \in Exec, NEW e \in Effect, MarkUnknown(x, e)
      PROVE  TasksStep
  <2>1. Home[e] \in Task /\ tasks[Home[e]].outcome # "absent"
    BY <1>2, StoreAssumption DEF MarkUnknown, TablesInv, EffectsHome
  <2>2. tasks' = tasks \/ tasks' = [tasks EXCEPT ![Home[e]] = Cond(@, "recovery_required")]
    BY <1>2 DEF MarkUnknown
  <2> QED BY <1>0, <2>1, <2>2, CondWrite, SameTasks DEF Condition
<1>3. ASSUME NEW e \in Effect, NEW verdict, ResolveApproval(e, verdict)
      PROVE  TasksStep
  <2>1. Home[e] \in Task
    BY StoreAssumption
  <2>2. CASE tasks' = tasks
    BY <1>0, <2>2, SameTasks
  <2>3. CASE tasks[Home[e]].cond = "waiting_for_approval"
             /\ tasks' = [tasks EXCEPT ![Home[e]] = Cond(@, "idle")]
    <3>1. tasks[Home[e]].outcome # "absent"
      BY <1>0, <2>1, <2>3 DEF TasksBlank
    <3> QED BY <1>0, <2>1, <2>3, <3>1, CondWrite DEF Condition
  <2> QED BY <1>3, <2>2, <2>3 DEF ResolveApproval
<1>4. ASSUME NEW e \in Effect, Disposable(e)
      PROVE  Home[e] \in Task /\ tasks[Home[e]].outcome # "absent"
  BY <1>0, <1>4, StoreAssumption DEF Disposable, TasksBlank
<1>5. ASSUME NEW e \in Effect, NEW status, ConfirmResult(e, status)
      PROVE  TasksStep
  <2>1. PICK c \in {"idle", "ended"} : tasks' = [tasks EXCEPT ![Home[e]] = Cond(@, c)]
    BY <1>4, <1>5 DEF ConfirmResult, TypeOK
  <2> QED BY <1>0, <1>4, <1>5, <2>1, CondWrite DEF Condition, ConfirmResult
<1>6. ASSUME NEW e \in Effect, NEW r \in Effect, CreateRetry(e, r)
      PROVE  TasksStep
  BY <1>0, <1>4, <1>6, CondWrite DEF CreateRetry, Condition
<1>7. ASSUME NEW e \in Effect, Abandon(e)
      PROVE  TasksStep
  <2>1. Home[e] \in Task /\ tasks[Home[e]] \in TaskRow
    BY <1>4, <1>7 DEF Abandon, TypeOK
  <2>2. PICK p, q : p = Cond(tasks[Home[e]], "ended") /\ q = [p EXCEPT !.outcome = "cancelled"]
    OBVIOUS
  <2>3. p \in TaskRow /\ p.version = tasks[Home[e]].version + 1
    BY <2>1, <2>2, CondRow DEF Condition
  <2>4. q \in TaskRow /\ q.version = p.version /\ q.outcome # "absent"
    BY <2>2, <2>3 DEF TaskRow, Outcome
  <2>5. tasks' = [tasks EXCEPT ![Home[e]] = q]
    BY <1>7, <2>1, <2>2 DEF Abandon, TypeOK
  <2> QED BY <1>0, <2>1, <2>3, <2>4, <2>5, TaskWrite
<1>8. CASE tasks' = tasks
  BY <1>0, <1>8, SameTasks
<1>9. ASSUME NEW x \in Exec, NEW e \in Effect,
             \/ CommitToolResult(x, e)
             \/ \E input \in 0..MaxTurns \cup {None} : ClaimEffect(x, e, input)
             \/ \E status \in {"succeeded", "failed", "unknown"}, observed \in BOOLEAN :
                    CommitEffect(x, e, status, observed)
             \/ \E status \in {"denied", "cancelled"} : SettleUnexecuted(x, e, status)
      PROVE  tasks' = tasks
  BY <1>9 DEF CommitToolResult, ClaimEffect, CommitEffect, SettleUnexecuted
<1>10. ASSUME NEW x, NEW t, NEW new, PrepareEffects(x, t, new)
       PROVE  tasks' = tasks
  BY <1>10 DEF PrepareEffects
<1> QED BY <1>1, <1>2, <1>3, <1>5, <1>6, <1>7, <1>8, <1>9, <1>10 DEF Owners, EffectOp

LEMMA NextTasks ==
    ASSUME TypeOK, TablesInv, [Next]_vars
    PROVE  TasksStep
<1>1. CASE CheckpointOp \/ UNCHANGED vars
  BY <1>1, SameTasks DEF Owners, TablesInv, CheckpointOp, CommitCheckpoint, vars
<1> QED BY <1>1, SessionTasks, LeaseTasks, EffectTasks DEF Next
-----------------------------------------------------------------------------
(* The control requests. *)

ControlsStep == ctls' \in [Control -> ControlRow] /\ ControlsBlank' /\ Versioned(ctls, ctls')

LEMMA ControlWrite ==
    ASSUME TypeOK, ControlsBlank, NEW c \in Control, NEW r \in ControlRow,
           r.version = ctls[c].version + 1, r.status # "absent", ctls' = [ctls EXCEPT ![c] = r]
    PROVE  ControlsStep
<1>1. ctls \in [Control -> ControlRow]
  BY DEF TypeOK
<1>2. /\ ctls' \in [Control -> ControlRow] /\ ctls'[c] = r
      /\ \A d \in Control \ {c} : ctls'[d] = ctls[d]
  BY <1>1
<1>3. DOMAIN ctls = Control
  BY <1>1
<1> QED BY <1>2, <1>3 DEF ControlsStep, ControlsBlank, Versioned

LEMMA NextControls ==
    ASSUME TypeOK, ControlsBlank, [Next]_vars
    PROVE  ControlsStep
<1>1. ASSUME NEW c \in Control, NEW t \in Task, RequestControl(c, t)
      PROVE  ControlsStep
  <2>1. PICK r : r = [status |-> "requested", task |-> t, version |-> 1]
    OBVIOUS
  <2>2. r \in ControlRow /\ r.version = 1 /\ r.status # "absent"
    BY <2>1 DEF ControlRow, ControlStatus
  <2>3. ctls[c].version = 0 /\ ctls' = [ctls EXCEPT ![c] = r]
    BY <1>1, <2>1 DEF RequestControl, ControlsBlank
  <2>4. r.version = ctls[c].version + 1
    BY <2>2, <2>3
  <2> QED BY <2>2, <2>3, <2>4, ControlWrite
<1>2. ASSUME NEW c \in Control, NEW status \in ControlStatus, SettleControl(c, status)
      PROVE  ControlsStep
  <2>1. PICK r \in ControlRow : r = ctls[c]
    BY DEF TypeOK
  <2>2. r.version + 1 \in Nat
    BY DEF ControlRow
  <2>3. PICK q : q = [r EXCEPT !.status = status, !.version = r.version + 1]
    OBVIOUS
  <2>4. q \in ControlRow /\ q.version = r.version + 1 /\ q.status = status
    BY <2>2, <2>3 DEF ControlRow
  <2>5. q = Stat(r, status)
    BY <2>3 DEF Stat, ControlRow
  <2>6. ctls' = [ctls EXCEPT ![c] = q] /\ status # "absent"
    BY <1>2, <2>1, <2>5 DEF SettleControl, TypeOK
  <2> QED BY <2>1, <2>4, <2>6, ControlWrite
<1>3. CASE ctls' = ctls
  BY <1>3 DEF ControlsStep, ControlsBlank, Versioned, TypeOK
<1>4. LeaseOp => ctls' = ctls
  BY DEF Owners, LeaseOp, UpdateTask, ClaimExecution, ClaimRefused, WorkspaceExpires, RenewExecution,
         ReleaseExecution, LeaseExpires, AcquireWorkspace, ReleaseWorkspace, RegisterCommand,
         MarkRecoveryRequired, FinishCommand
<1>5. EffectOp => ctls' = ctls
  <2>1. ASSUME NEW x \in Exec, NEW e \in Effect,
             \/ RequestAgain(x, e) \/ RequestApproval(x, e) \/ MarkUnknown(x, e)
             \/ CommitToolResult(x, e)
             \/ \E input \in 0..MaxTurns \cup {None} : ClaimEffect(x, e, input)
             \/ \E status \in {"succeeded", "failed", "unknown"}, observed \in BOOLEAN :
                    CommitEffect(x, e, status, observed)
             \/ \E status \in {"denied", "cancelled"} : SettleUnexecuted(x, e, status)
        PROVE  ctls' = ctls
    BY <2>1 DEF RequestAgain, RequestApproval, MarkUnknown, CommitToolResult, ClaimEffect,
                CommitEffect, SettleUnexecuted
  <2>2. ASSUME NEW e \in Effect,
               \/ \E verdict \in {"approved", "denied", "expired"} : ResolveApproval(e, verdict)
               \/ \E status \in {"succeeded", "failed"} : ConfirmResult(e, status)
               \/ \E r \in Effect : CreateRetry(e, r)
               \/ Abandon(e)
        PROVE  ctls' = ctls
    BY <2>2 DEF ResolveApproval, ConfirmResult, CreateRetry, Abandon
  <2>3. ASSUME NEW x, NEW t, NEW new, PrepareEffects(x, t, new)
        PROVE  ctls' = ctls
    BY <2>3 DEF PrepareEffects
  <2> QED BY <2>1, <2>2, <2>3 DEF Owners, EffectOp
<1>6. CheckpointOp \/ UNCHANGED vars => ctls' = ctls
  BY DEF Owners, CheckpointOp, CommitCheckpoint, vars
<1> QED BY <1>1, <1>2, <1>3, <1>4, <1>5, <1>6
     DEF Next, SessionOp, AppendEvent, CloseSession, AppendTurn, StartTask
-----------------------------------------------------------------------------
(* The effects and their approvals. *)

Unclaimed == {"prepared", "waiting_for_approval"}

MayBecome(from, to) ==
    \/ from = to
    \/ from \in Unclaimed /\ to \in Unclaimed \cup {"executing", "denied", "cancelled"}
    \/ from = "executing" /\ to \in {"succeeded", "failed", "unknown"}
    \/ from = "unknown" /\ to \in {"succeeded", "failed"}

(* New effects, or another status of one. *)
StatusStep ==
    \/ \A e \in Effect :
           \/ effs'[e] = effs[e]
           \/ effs[e].status = "absent" /\ effs'[e].status \in Unclaimed
    \/ \E e \in Effect :
           /\ MayBecome(effs[e].status, effs'[e].status)
           /\ \A d \in Effect \ {e} : effs'[d] = effs[d]

EffectsStep ==
    /\ effs' \in [Effect -> EffectRow] /\ apps' \in [Effect -> ApprovalRow]
    /\ EffectsBlank' /\ ApprovalsOpen'
    /\ Versioned(effs, effs') /\ Versioned(apps, apps')
    /\ \A e \in Effect : effs[e].status # "absent" => effs'[e].status # "absent"
    /\ StatusStep

LEMMA SameEffects ==
    ASSUME TypeOK, TablesInv, UNCHANGED <<effs, apps>>
    PROVE  EffectsStep
BY DEF TypeOK, TablesInv, EffectsStep, EffectsBlank, ApprovalsOpen, Versioned, StatusStep

LEMMA EffectWrite ==
    ASSUME TypeOK, TablesInv, NEW e \in Effect, NEW q \in EffectRow, NEW a \in ApprovalRow,
           effs[e].status # "absent", q.status # "absent",
           MayBecome(effs[e].status, q.status),
           q = effs[e] \/ q.version = effs[e].version + 1,
           a = apps[e] \/ (a.version = apps[e].version + 1 /\ a.status # "absent"),
           a.status = "pending" => q.status = "waiting_for_approval" /\ q.approval,
           effs' = [effs EXCEPT ![e] = q], apps' = [apps EXCEPT ![e] = a]
    PROVE  EffectsStep
<1>1. effs \in [Effect -> EffectRow] /\ apps \in [Effect -> ApprovalRow]
      /\ EffectsBlank /\ ApprovalsOpen
  BY DEF TypeOK, TablesInv
<1>2. /\ effs' \in [Effect -> EffectRow] /\ effs'[e] = q
      /\ \A d \in Effect \ {e} : effs'[d] = effs[d]
  BY <1>1
<1>3. /\ apps' \in [Effect -> ApprovalRow] /\ apps'[e] = a
      /\ \A d \in Effect \ {e} : apps'[d] = apps[d]
  BY <1>1
<1>4. EffectsBlank'
  BY <1>1, <1>2, <1>3 DEF EffectsBlank
<1>5. ApprovalsOpen'
  BY <1>1, <1>2, <1>3 DEF ApprovalsOpen
<1>6. DOMAIN effs = Effect /\ DOMAIN apps = Effect
  BY <1>1
<1>7. Versioned(effs, effs') /\ Versioned(apps, apps')
  BY <1>2, <1>3, <1>6 DEF Versioned
<1>8. StatusStep
  BY <1>2 DEF StatusStep
<1>9. \A d \in Effect : effs[d].status # "absent" => effs'[d].status # "absent"
  BY <1>2
<1> QED BY <1>2, <1>3, <1>4, <1>5, <1>7, <1>8, <1>9 DEF EffectsStep

(* The same where the approvals are left alone. *)
LEMMA EffectAlone ==
    ASSUME TypeOK, TablesInv, NEW e \in Effect, NEW q \in EffectRow,
           effs[e].status # "absent", q.status # "absent", MayBecome(effs[e].status, q.status),
           q = effs[e] \/ q.version = effs[e].version + 1, apps[e].status # "pending",
           effs' = [effs EXCEPT ![e] = q], apps' = apps
    PROVE  EffectsStep
<1>1. apps \in [Effect -> ApprovalRow] /\ apps[e] \in ApprovalRow
  BY DEF TypeOK
<1>2. apps' = [apps EXCEPT ![e] = apps[e]]
  BY <1>1
<1>3. PICK a \in ApprovalRow : a = apps[e]
  BY <1>1
<1>4. apps' = [apps EXCEPT ![e] = a]
  BY <1>2, <1>3
<1> QED BY <1>3, <1>4, EffectWrite

LEMMA StatEffect ==
    ASSUME NEW r \in EffectRow, NEW s \in EffectStatus
    PROVE  /\ Stat(r, s) \in EffectRow /\ Stat(r, s).version = r.version + 1
           /\ Stat(r, s).status = s /\ Stat(r, s).approval = r.approval
<1>1. r.version + 1 \in Nat
  BY DEF EffectRow
<1>2. PICK q : q = [r EXCEPT !.status = s, !.version = r.version + 1]
  OBVIOUS
<1>3. q \in EffectRow /\ q.version = r.version + 1 /\ q.status = s /\ q.approval = r.approval
  BY <1>1, <1>2 DEF EffectRow
<1>4. q = Stat(r, s)
  BY <1>2 DEF Stat, EffectRow
<1> QED BY <1>3, <1>4

LEMMA StatApproval ==
    ASSUME NEW r \in ApprovalRow, NEW s \in ApprovalStatus
    PROVE  /\ Stat(r, s) \in ApprovalRow /\ Stat(r, s).version = r.version + 1
           /\ Stat(r, s).status = s
<1>1. r.version + 1 \in Nat
  BY DEF ApprovalRow
<1>2. PICK q : q = [r EXCEPT !.status = s, !.version = r.version + 1]
  OBVIOUS
<1>3. q \in ApprovalRow /\ q.version = r.version + 1 /\ q.status = s
  BY <1>1, <1>2 DEF ApprovalRow
<1>4. q = Stat(r, s)
  BY <1>2 DEF Stat, ApprovalRow
<1> QED BY <1>3, <1>4

(* What is not waiting has no open approval. *)
LEMMA NotPending ==
    ASSUME TablesInv, NEW e \in Effect, effs[e].status # "waiting_for_approval"
    PROVE  apps[e].status # "pending"
BY DEF TablesInv, ApprovalsOpen

LEMMA RequestEffect ==
    ASSUME TypeOK, TablesInv, NEW x \in Exec, NEW e \in Effect, RequestApproval(x, e)
    PROVE  EffectsStep
<1>1. effs[e] \in EffectRow /\ apps[e] \in ApprovalRow /\ apps[e].version = 0
  BY DEF TypeOK, RequestApproval, TablesInv, EffectsBlank
<1>2. PICK p, q, a : /\ p = Stat(effs[e], "waiting_for_approval")
                     /\ q = [p EXCEPT !.approval = TRUE]
                     /\ a = [status |-> "pending", version |-> 1]
  OBVIOUS
<1>3. p \in EffectRow /\ p.version = effs[e].version + 1 /\ p.status = "waiting_for_approval"
  BY <1>1, <1>2, StatEffect DEF EffectStatus
<1>4. q \in EffectRow /\ q.version = p.version /\ q.status = p.status /\ q.approval
  BY <1>2, <1>3 DEF EffectRow
<1>5. a \in ApprovalRow /\ a.version = apps[e].version + 1 /\ a.status = "pending"
  BY <1>1, <1>2 DEF ApprovalRow, ApprovalStatus
<1>6. effs' = [effs EXCEPT ![e] = q] /\ apps' = [apps EXCEPT ![e] = a]
      /\ effs[e].status = "prepared"
  BY <1>2 DEF RequestApproval, TypeOK
<1>7. MayBecome(effs[e].status, q.status)
  BY <1>3, <1>4, <1>6 DEF MayBecome, Unclaimed
<1> QED BY <1>3, <1>4, <1>5, <1>6, <1>7, EffectWrite

LEMMA ResolveEffect ==
    ASSUME TypeOK, TablesInv, NEW e \in Effect, NEW verdict \in {"approved", "denied", "expired"},
           ResolveApproval(e, verdict)
    PROVE  EffectsStep
<1>1. effs[e] \in EffectRow /\ apps[e] \in ApprovalRow /\ effs[e].status = "waiting_for_approval"
  BY DEF TypeOK, ResolveApproval, TablesInv, ApprovalsOpen
<1>2. PICK s \in {"denied", "prepared"} : s = IF verdict = "denied" THEN "denied" ELSE "prepared"
  OBVIOUS
<1>3. PICK p, a : p = Stat(effs[e], s) /\ a = Stat(apps[e], verdict)
  OBVIOUS
<1>4. p \in EffectRow /\ p.version = effs[e].version + 1 /\ p.status = s
  BY <1>1, <1>2, <1>3, StatEffect DEF EffectStatus
<1>5. PICK q : q = [p EXCEPT !.approval = @ /\ ~(verdict = "expired")]
  OBVIOUS
<1>6. q \in EffectRow /\ q.version = p.version /\ q.status = s
  <2>1. PICK b : b = (p.approval /\ ~(verdict = "expired"))
    OBVIOUS
  <2>2. q = [p EXCEPT !.approval = b] /\ b \in BOOLEAN
    BY <1>5, <2>1
  <2> QED BY <1>4, <2>2 DEF EffectRow
<1>7. a \in ApprovalRow /\ a.version = apps[e].version + 1 /\ a.status = verdict
  BY <1>1, <1>3, StatApproval DEF ApprovalStatus
<1>8. apps' = [apps EXCEPT ![e] = a]
  BY <1>3 DEF ResolveApproval, TypeOK
<1>9. effs' = [effs EXCEPT ![e] = q]
  BY <1>2, <1>3, <1>5 DEF ResolveApproval, TypeOK
<1>10. MayBecome(effs[e].status, q.status)
  BY <1>1, <1>2, <1>6 DEF MayBecome, Unclaimed
<1> QED BY <1>1, <1>2, <1>4, <1>6, <1>7, <1>8, <1>9, <1>10, EffectWrite

LEMMA ClaimsEffect ==
    ASSUME TypeOK, TablesInv, NEW x \in Exec, NEW e \in Effect, NEW input, ClaimEffect(x, e, input)
    PROVE  EffectsStep
<1>1. effs[e] \in EffectRow /\ apps[e] \in ApprovalRow /\ effs[e].status = "prepared"
  BY DEF TypeOK, ClaimEffect, ClaimAllowed
<1>2. PICK p, b : p = Stat(effs[e], "executing") /\ b = effs[e].approval
  OBVIOUS
<1>3. p \in EffectRow /\ p.version = effs[e].version + 1 /\ p.status = "executing"
  BY <1>1, <1>2, StatEffect DEF EffectStatus
<1>4. b \in BOOLEAN
  BY <1>1, <1>2 DEF EffectRow
<1>5. PICK q : q = [p EXCEPT !.approval = FALSE, !.consumed = b]
  OBVIOUS
<1>6. q \in EffectRow /\ q.version = p.version /\ q.status = "executing"
  BY <1>3, <1>4, <1>5 DEF EffectRow
<1>7. effs' = [effs EXCEPT ![e] = q]
  BY <1>2, <1>5 DEF ClaimEffect, TypeOK
<1>8. MayBecome(effs[e].status, q.status) /\ apps[e].status # "pending"
  BY <1>1, <1>6, NotPending DEF MayBecome, Unclaimed
<1>9. CASE apps' = apps
  BY <1>1, <1>3, <1>6, <1>7, <1>8, <1>9, EffectAlone
<1>10. CASE apps' = [apps EXCEPT ![e] = Stat(@, "consumed")]
  <2>1. PICK a : a = Stat(apps[e], "consumed")
    OBVIOUS
  <2>2. a \in ApprovalRow /\ a.version = apps[e].version + 1 /\ a.status = "consumed"
    BY <1>1, <2>1, StatApproval DEF ApprovalStatus
  <2>3. apps' = [apps EXCEPT ![e] = a]
    BY <1>10, <2>1 DEF TypeOK
  <2> QED BY <1>1, <1>3, <1>6, <1>7, <1>8, <2>2, <2>3, EffectWrite
<1> QED BY <1>9, <1>10 DEF ClaimEffect

(* The steps that write one status and no approval. *)
LEMMA StatusWrite ==
    ASSUME TypeOK, TablesInv, NEW e \in Effect, NEW s \in EffectStatus \ {"absent"},
           effs[e].status \notin {"absent", "waiting_for_approval"},
           MayBecome(effs[e].status, s), effs' = [effs EXCEPT ![e] = Stat(@, s)], apps' = apps
    PROVE  EffectsStep
<1>1. effs[e] \in EffectRow
  BY DEF TypeOK
<1>2. PICK q : q = Stat(effs[e], s)
  OBVIOUS
<1>3. q \in EffectRow /\ q.version = effs[e].version + 1 /\ q.status = s
  BY <1>1, <1>2, StatEffect
<1>4. effs' = [effs EXCEPT ![e] = q]
  BY <1>2 DEF TypeOK
<1> QED BY <1>3, <1>4, NotPending, EffectAlone

LEMMA SettlesEffect ==
    ASSUME TypeOK, TablesInv, NEW x \in Exec, NEW e \in Effect, NEW s \in {"denied", "cancelled"},
           SettleUnexecuted(x, e, s)
    PROVE  EffectsStep
<1>1. effs[e] \in EffectRow /\ apps[e] \in ApprovalRow /\ ApprovalsOpen
      /\ effs[e].status \in {"prepared", "waiting_for_approval", s}
  BY DEF TypeOK, TablesInv, SettleUnexecuted
<1>2. PICK q, a : q = Stat(effs[e], s) /\ a = Stat(apps[e], "expired")
  OBVIOUS
<1>3. q \in EffectRow /\ q.version = effs[e].version + 1 /\ q.status = s
  BY <1>1, <1>2, StatEffect DEF EffectStatus
<1>4. a \in ApprovalRow /\ a.version = apps[e].version + 1 /\ a.status = "expired"
  BY <1>1, <1>2, StatApproval DEF ApprovalStatus
<1>5. effs' = [effs EXCEPT ![e] = q]
  BY <1>2 DEF SettleUnexecuted, TypeOK
<1>6. MayBecome(effs[e].status, q.status)
  BY <1>1, <1>3 DEF MayBecome, Unclaimed
<1>7. CASE effs[e].approval /\ apps[e].status = "pending"
  <2>1. apps' = [apps EXCEPT ![e] = a]
    BY <1>2, <1>7 DEF SettleUnexecuted, TypeOK
  <2> QED BY <1>1, <1>3, <1>4, <1>5, <1>6, <2>1, EffectWrite
<1>8. CASE ~(effs[e].approval /\ apps[e].status = "pending")
  <2>1. apps' = apps /\ apps[e].status # "pending"
    BY <1>1, <1>8 DEF SettleUnexecuted, ApprovalsOpen
  <2> QED BY <1>1, <1>3, <1>5, <1>6, <2>1, EffectAlone
<1> QED BY <1>7, <1>8

(* A batch of effects, or a retry, with or without a request. *)
LEMMA NewEffects ==
    ASSUME TypeOK, TablesInv, NEW new \in SUBSET Effect, NEW q \in EffectRow, q.version = 1,
           \A e \in new : effs[e].status = "absent",
           effs' = [e \in Effect |-> IF e \in new THEN q ELSE effs[e]],
           \/ q.status = "prepared" /\ apps' = apps
           \/ /\ q.status = "waiting_for_approval" /\ q.approval
              /\ apps' = [e \in Effect |->
                     IF e \in new THEN [status |-> "pending", version |-> 1] ELSE apps[e]]
    PROVE  EffectsStep
<1>1. effs \in [Effect -> EffectRow] /\ apps \in [Effect -> ApprovalRow]
      /\ EffectsBlank /\ ApprovalsOpen
  BY DEF TypeOK, TablesInv
<1>2. /\ effs' \in [Effect -> EffectRow] /\ \A e \in new : effs'[e] = q
      /\ \A d \in Effect \ new : effs'[d] = effs[d]
  BY <1>1
<1>3. /\ apps' \in [Effect -> ApprovalRow]
      /\ \A d \in Effect \ new : apps'[d] = apps[d]
      /\ \A e \in new : \/ q.status = "prepared" /\ apps'[e] = apps[e]
                        \/ /\ q.status = "waiting_for_approval" /\ q.approval
                           /\ apps'[e].status = "pending" /\ apps'[e].version = 1
  <2>1. [status |-> "pending", version |-> 1] \in ApprovalRow
    BY DEF ApprovalRow, ApprovalStatus
  <2>2. CASE q.status = "prepared" /\ apps' = apps
    BY <1>1, <2>2
  <2>3. CASE /\ q.status = "waiting_for_approval" /\ q.approval
             /\ apps' = [e \in Effect |->
                    IF e \in new THEN [status |-> "pending", version |-> 1] ELSE apps[e]]
    BY <1>1, <2>1, <2>3
  <2> QED BY <2>2, <2>3
<1>4. \A e \in new : effs[e].version = 0 /\ apps[e].status = "absent" /\ apps[e].version = 0
  BY <1>1 DEF EffectsBlank
<1>5. EffectsBlank'
  BY <1>1, <1>2, <1>3 DEF EffectsBlank
<1>6. ApprovalsOpen'
  BY <1>1, <1>2, <1>3, <1>4 DEF ApprovalsOpen
<1>7. DOMAIN effs = Effect /\ DOMAIN apps = Effect
  BY <1>1
<1>8. Versioned(effs, effs')
  BY <1>2, <1>4, <1>7 DEF Versioned
<1>9. Versioned(apps, apps')
  BY <1>3, <1>4, <1>7 DEF Versioned
<1>10. StatusStep
  BY <1>2 DEF StatusStep, Unclaimed
<1>11. \A d \in Effect : effs[d].status # "absent" => effs'[d].status # "absent"
  BY <1>2
<1> QED BY <1>2, <1>3, <1>5, <1>6, <1>8, <1>9, <1>10, <1>11 DEF EffectsStep

LEMMA EffectEffects ==
    ASSUME TypeOK, TablesInv, EffectOp
    PROVE  EffectsStep
<1>1. ASSUME NEW x \in Exec, NEW e \in Effect, NEW s \in {"succeeded", "failed", "unknown"},
             NEW observed, CommitEffect(x, e, s, observed)
      PROVE  EffectsStep
  <2>1. effs[e].status = "executing" /\ effs' = [effs EXCEPT ![e] = Stat(@, s)] /\ apps' = apps
    BY <1>1 DEF CommitEffect
  <2>2. MayBecome(effs[e].status, s) /\ s \in EffectStatus \ {"absent"}
    BY <2>1 DEF MayBecome, EffectStatus
  <2> QED BY <2>1, <2>2, StatusWrite
<1>2. ASSUME NEW e \in Effect, NEW s \in {"succeeded", "failed"}, ConfirmResult(e, s)
      PROVE  EffectsStep
  <2>1. effs[e].status = "unknown" /\ effs' = [effs EXCEPT ![e] = Stat(@, s)] /\ apps' = apps
    BY <1>2 DEF ConfirmResult, Disposable
  <2>2. MayBecome(effs[e].status, s) /\ s \in EffectStatus \ {"absent"}
    BY <2>1 DEF MayBecome, EffectStatus
  <2> QED BY <2>1, <2>2, StatusWrite
<1>3. ASSUME NEW x \in Exec, NEW e \in Effect, MarkUnknown(x, e)
      PROVE  EffectsStep
  <2>1. CASE effs[e].status = "executing"
    <3>1. effs' = [effs EXCEPT ![e] = Stat(@, "unknown")] /\ apps' = apps
      BY <1>3, <2>1 DEF MarkUnknown, TypeOK
    <3>2. MayBecome(effs[e].status, "unknown") /\ "unknown" \in EffectStatus \ {"absent"}
      BY <2>1 DEF MayBecome, EffectStatus
    <3> QED BY <2>1, <3>1, <3>2, StatusWrite
  <2>2. CASE effs[e].status # "executing"
    <3>1. UNCHANGED <<effs, apps>>
      BY <1>3, <2>2 DEF MarkUnknown, TypeOK
    <3> QED BY <3>1, SameEffects
  <2> QED BY <2>1, <2>2
<1>4. ASSUME NEW x, NEW t, NEW new \in SUBSET Effect, PrepareEffects(x, t, new)
      PROVE  EffectsStep
  <2>1. PICK q : q = [status |-> "prepared", approval |-> FALSE, consumed |-> FALSE, version |-> 1]
    OBVIOUS
  <2>2. q \in EffectRow /\ q.version = 1 /\ q.status = "prepared"
    BY <2>1 DEF EffectRow, EffectStatus
  <2>3. /\ effs' = [e \in Effect |-> IF e \in new THEN q ELSE effs[e]] /\ apps' = apps
        /\ \A e \in new : effs[e].status = "absent"
    BY <1>4, <2>1 DEF PrepareEffects
  <2> QED BY <2>2, <2>3, NewEffects
<1>5. ASSUME NEW e \in Effect, NEW r \in Effect, CreateRetry(e, r)
      PROVE  EffectsStep
  <2>1. PICK q : q = [status |-> "waiting_for_approval", approval |-> TRUE, consumed |-> FALSE,
                      version |-> 1]
    OBVIOUS
  <2>2. q \in EffectRow /\ q.version = 1 /\ q.status = "waiting_for_approval" /\ q.approval
    BY <2>1 DEF EffectRow, EffectStatus
  <2>3. PICK new : new = {r}
    OBVIOUS
  <2>4. /\ effs' = [d \in Effect |-> IF d \in new THEN q ELSE effs[d]]
        /\ new \in SUBSET Effect /\ \A d \in new : effs[d].status = "absent"
    BY <1>5, <2>1, <2>3 DEF CreateRetry, TypeOK
  <2>5. apps' = [d \in Effect |-> IF d \in new THEN [status |-> "pending", version |-> 1] ELSE apps[d]]
    BY <1>5, <2>3 DEF CreateRetry, TypeOK
  <2> QED BY <2>2, <2>4, <2>5, NewEffects
<1>6. CASE UNCHANGED <<effs, apps>>
  BY <1>6, SameEffects
<1>7. ASSUME NEW x \in Exec, NEW e \in Effect, RequestAgain(x, e) \/ CommitToolResult(x, e) \/ Abandon(e)
      PROVE  UNCHANGED <<effs, apps>>
  BY <1>7 DEF RequestAgain, CommitToolResult, Abandon
<1>8. ASSUME NEW e \in Effect, Abandon(e)
      PROVE  UNCHANGED <<effs, apps>>
  BY <1>8 DEF Abandon
<1> QED BY <1>1, <1>2, <1>3, <1>4, <1>5, <1>6, <1>7, <1>8, RequestEffect, ResolveEffect,
           ClaimsEffect, SettlesEffect DEF Owners, EffectOp

(* A new effect is one of a started task: a batch needs an execution of    *)
(* the task, and a retry a task that is active.                            *)
LEMMA NewHome ==
    ASSUME TypeOK, TablesInv, EffectOp, NEW e \in Effect,
           effs[e].status = "absent", effs'[e].status # "absent"
    PROVE  tasks[Home[e]].outcome # "absent"
<1>1. ASSUME NEW x \in Exec, NEW t \in Task, NEW new \in SUBSET Effect, PrepareEffects(x, t, new)
      PROVE  tasks[Home[e]].outcome # "absent"
  <2>1. e \in new
    BY <1>1 DEF PrepareEffects
  <2>2. Home[e] = t /\ IsActive(x) /\ execs[x].task = t
    BY <1>1, <2>1 DEF PrepareEffects, GuardFor, Guard
  <2> QED BY <2>2, ActiveThere, GuardedTask
<1>2. ASSUME NEW d \in Effect, NEW r \in Effect, CreateRetry(d, r)
      PROVE  tasks[Home[e]].outcome # "absent"
  <2>1. e = r
    BY <1>2 DEF CreateRetry, TypeOK
  <2> QED BY <1>2, <2>1 DEF CreateRetry
<1>3. ASSUME NEW d \in Effect, NEW q, effs[d].status # "absent", effs' = [effs EXCEPT ![d] = q]
      PROVE  FALSE
  BY <1>3 DEF TypeOK
<1>4. ASSUME NEW x \in Exec, NEW d \in Effect,
             \/ RequestApproval(x, d) \/ MarkUnknown(x, d)
             \/ \E input \in 0..MaxTurns \cup {None} : ClaimEffect(x, d, input)
             \/ \E status \in {"succeeded", "failed", "unknown"}, observed \in BOOLEAN :
                    CommitEffect(x, d, status, observed)
      PROVE  FALSE
  BY <1>3, <1>4 DEF RequestApproval, MarkUnknown, ClaimEffect, ClaimAllowed, CommitEffect
<1>5. ASSUME NEW x \in Exec, NEW d \in Effect, NEW status \in {"denied", "cancelled"},
             SettleUnexecuted(x, d, status)
      PROVE  FALSE
  BY <1>3, <1>5 DEF SettleUnexecuted
<1>6. ASSUME NEW d \in Effect,
             \/ \E verdict \in {"approved", "denied", "expired"} : ResolveApproval(d, verdict)
             \/ \E status \in {"succeeded", "failed"} : ConfirmResult(d, status)
      PROVE  FALSE
  BY <1>3, <1>6 DEF ResolveApproval, ConfirmResult, Disposable, TablesInv, ApprovalsOpen
<1>7. ASSUME NEW x \in Exec, NEW d \in Effect,
             RequestAgain(x, d) \/ CommitToolResult(x, d) \/ Abandon(d)
      PROVE  FALSE
  BY <1>7 DEF RequestAgain, CommitToolResult, Abandon
<1>8. ASSUME NEW d \in Effect, Abandon(d)
      PROVE  FALSE
  BY <1>8 DEF Abandon
<1> QED BY <1>1, <1>2, <1>4, <1>5, <1>6, <1>7, <1>8 DEF Owners, EffectOp

LEMMA NextEffects ==
    ASSUME TypeOK, TablesInv, [Next]_vars
    PROVE  EffectsStep
<1>1. SessionOp \/ CheckpointOp \/ UNCHANGED vars => UNCHANGED <<effs, apps>>
  BY DEF Owners, SessionOp, AppendEvent, CloseSession, AppendTurn, StartTask, RequestControl, SettleControl,
         CheckpointOp, CommitCheckpoint, vars
<1>2. LeaseOp => UNCHANGED <<effs, apps>>
  BY DEF Owners, LeaseOp, UpdateTask, ClaimExecution, ClaimRefused, WorkspaceExpires, RenewExecution,
         ReleaseExecution, LeaseExpires, AcquireWorkspace, ReleaseWorkspace, RegisterCommand,
         MarkRecoveryRequired, FinishCommand
<1> QED BY <1>1, <1>2, SameEffects, EffectEffects DEF Next

LEMMA NextEffectsHome ==
    ASSUME TypeOK, TablesInv, [Next]_vars
    PROVE  EffectsHome'
<1>1. TasksStep /\ EffectsHome
  BY NextTasks DEF TablesInv
<1>2. EffectOp \/ effs' = effs
  BY DEF Owners, Next, SessionOp, AppendEvent, CloseSession, AppendTurn, StartTask, RequestControl,
         SettleControl, CheckpointOp, CommitCheckpoint, vars, LeaseOp, UpdateTask, ClaimExecution,
         ClaimRefused, WorkspaceExpires, RenewExecution, ReleaseExecution, LeaseExpires,
         AcquireWorkspace, ReleaseWorkspace, RegisterCommand, MarkRecoveryRequired, FinishCommand
<1>3. ASSUME NEW e \in Effect, effs'[e].status # "absent"
      PROVE  tasks'[Home[e]].outcome # "absent"
  <2>1. tasks[Home[e]].outcome # "absent"
    BY <1>1, <1>2, <1>3, NewHome DEF EffectsHome
  <2> QED BY <1>1, <2>1, StoreAssumption DEF TasksStep
<1> QED BY <1>3 DEF EffectsHome
-----------------------------------------------------------------------------
(* The executions. *)

(* What every step but a claim may do to a row. *)
RowMove(r, q) ==
    /\ q.task = r.task /\ q.gen = r.gen
    /\ q.status = "absent" <=> r.status = "absent"
    /\ q.status \in ActiveStatus => r.status \in ActiveStatus
    /\ r.status = "absent" => q.version = r.version
    /\ \/ [q EXCEPT !.live = TRUE] = [r EXCEPT !.live = TRUE]
       \/ q.version = r.version + 1

ExecsMove ==
    /\ execs' \in [Exec -> ExecRow]
    /\ \A x \in Exec : RowMove(execs[x], execs'[x])

LEMMA SameExecs ==
    ASSUME TypeOK, execs' = execs
    PROVE  ExecsMove
BY DEF TypeOK, ExecsMove, RowMove

LEMMA StatExec ==
    ASSUME NEW r \in ExecRow, NEW s \in ExecStatus
    PROVE  /\ Stat(r, s) \in ExecRow /\ Stat(r, s).version = r.version + 1
           /\ Stat(r, s).status = s /\ Stat(r, s).task = r.task /\ Stat(r, s).gen = r.gen
<1>1. r.version + 1 \in Nat
  BY DEF ExecRow
<1>2. PICK q : q = [r EXCEPT !.status = s, !.version = r.version + 1]
  OBVIOUS
<1>3. /\ q \in ExecRow /\ q.version = r.version + 1 /\ q.status = s
      /\ q.task = r.task /\ q.gen = r.gen
  BY <1>1, <1>2 DEF ExecRow
<1>4. q = Stat(r, s)
  BY <1>2 DEF Stat, ExecRow
<1> QED BY <1>3, <1>4

LEMMA ExecWrite ==
    ASSUME TypeOK, NEW x \in Exec, NEW q \in ExecRow, RowMove(execs[x], q),
           execs' = [execs EXCEPT ![x] = q]
    PROVE  ExecsMove
<1>1. execs \in [Exec -> ExecRow]
  BY DEF TypeOK
<1>2. execs' \in [Exec -> ExecRow] /\ execs'[x] = q /\ \A y \in Exec \ {x} : execs'[y] = execs[y]
  BY <1>1
<1>3. \A y \in Exec \ {x} : RowMove(execs[y], execs'[y])
  BY <1>2 DEF RowMove
<1> QED BY <1>2, <1>3 DEF ExecsMove

LEMMA ExecStatWrite ==
    ASSUME TypeOK, NEW x \in Exec, execs[x].status # "absent", NEW s \in ExecStatus \ {"absent"},
           s \in ActiveStatus => IsActive(x), execs' = [execs EXCEPT ![x] = Stat(@, s)]
    PROVE  ExecsMove
<1>1. execs[x] \in ExecRow
  BY DEF TypeOK
<1>2. PICK q : q = Stat(execs[x], s)
  OBVIOUS
<1>3. /\ q \in ExecRow /\ q.version = execs[x].version + 1 /\ q.status = s
      /\ q.task = execs[x].task /\ q.gen = execs[x].gen
  BY <1>1, <1>2, StatExec
<1>4. RowMove(execs[x], q)
  BY <1>3 DEF RowMove, IsActive
<1>5. execs' = [execs EXCEPT ![x] = q]
  BY <1>2 DEF TypeOK
<1> QED BY <1>3, <1>4, <1>5, ExecWrite

LEMMA ExpiredRows ==
    ASSUME TypeOK
    PROVE  /\ Expired \in [Exec -> ExecRow]
           /\ \A y \in Exec : RowMove(execs[y], Expired[y]) /\ Expired[y].status \notin ActiveStatus
<1>1. ASSUME NEW y \in Exec
      PROVE  /\ Expired[y] \in ExecRow
             /\ RowMove(execs[y], Expired[y]) /\ Expired[y].status \notin ActiveStatus
  <2>1. execs[y] \in ExecRow
    BY DEF TypeOK
  <2>2. CASE IsActive(y)
    <3>1. PICK q : q = Stat(execs[y], "released")
      OBVIOUS
    <3>2. /\ q \in ExecRow /\ q.version = execs[y].version + 1 /\ q.status = "released"
          /\ q.task = execs[y].task /\ q.gen = execs[y].gen
      BY <2>1, <3>1, StatExec DEF ExecStatus
    <3>3. Expired[y] = q
      BY <2>2, <3>1 DEF Expired
    <3> QED BY <2>2, <3>2, <3>3 DEF RowMove, IsActive, ActiveStatus
  <2>3. CASE ~IsActive(y)
    <3>1. Expired[y] = execs[y]
      BY <2>3 DEF Expired
    <3> QED BY <2>1, <2>3, <3>1 DEF RowMove, IsActive
  <2> QED BY <2>2, <2>3
<1>2. Expired \in [Exec -> ExecRow]
  BY <1>1 DEF Expired
<1> QED BY <1>1, <1>2

LEMMA WaitExec ==
    ASSUME TypeOK, NEW x \in Exec, NEW t \in Task, GuardFor(x, t), Wait(x, t)
    PROVE  ExecsMove
<1>1. IsActive(x) /\ execs' = [execs EXCEPT ![x] = Stat(@, "waiting_for_approval")]
  BY DEF GuardFor, Guard, Wait
<1> QED BY <1>1, ActiveThere, ExecStatWrite DEF ExecStatus, ActiveStatus

LEMMA LeaseExecs ==
    ASSUME TypeOK, TablesInv, LeaseOp
    PROVE  ExecsMove \/ \E x \in Exec, t \in Task : ClaimExecution(x, t)
<1>1. CASE ClaimRefused
  <2>1. execs' = Expired
    BY <1>1 DEF ClaimRefused
  <2> QED BY <2>1, ExpiredRows DEF ExecsMove
<1>2. ASSUME NEW x \in Exec, RenewExecution(x) PROVE ExecsMove
  <2>1. PICK r \in ExecRow : r = execs[x]
    BY DEF TypeOK
  <2>2. r.version + 1 \in Nat
    BY DEF ExecRow
  <2>3. PICK q : q = [r EXCEPT !.version = r.version + 1]
    OBVIOUS
  <2>4. /\ q \in ExecRow /\ q.version = r.version + 1 /\ q.status = r.status
        /\ q.task = r.task /\ q.gen = r.gen
    BY <2>2, <2>3 DEF ExecRow
  <2>5. execs' = [execs EXCEPT ![x] = q]
    BY <1>2, <2>1, <2>3 DEF RenewExecution, TypeOK, ExecRow
  <2>6. r.status # "absent"
    BY <1>2, <2>1, ActiveThere DEF RenewExecution, Guard
  <2>7. RowMove(r, q)
    BY <2>4, <2>6 DEF RowMove
  <2> QED BY <2>1, <2>4, <2>5, <2>7, ExecWrite
<1>3. ASSUME NEW x \in Exec, ReleaseExecution(x) PROVE ExecsMove
  <2>1. IsActive(x) /\ execs' = [execs EXCEPT ![x] = Stat(@, "released")]
    BY <1>3 DEF ReleaseExecution, Guard
  <2> QED BY <2>1, ActiveThere, ExecStatWrite DEF ExecStatus, ActiveStatus
<1>4. ASSUME NEW x \in Exec, LeaseExpires(x) PROVE ExecsMove
  <2>1. PICK r \in ExecRow : r = execs[x]
    BY DEF TypeOK
  <2>2. PICK q : q = [r EXCEPT !.live = FALSE]
    OBVIOUS
  <2>3. /\ q \in ExecRow /\ q.version = r.version /\ q.status = r.status
        /\ q.task = r.task /\ q.gen = r.gen
    BY <2>2 DEF ExecRow
  <2>4. [q EXCEPT !.live = TRUE] = [r EXCEPT !.live = TRUE]
    BY <2>2 DEF ExecRow
  <2>5. execs' = [execs EXCEPT ![x] = q]
    BY <1>4, <2>1, <2>2 DEF LeaseExpires, TypeOK
  <2>6. RowMove(r, q)
    BY <2>3, <2>4 DEF RowMove
  <2> QED BY <2>1, <2>3, <2>5, <2>6, ExecWrite
<1>5. ASSUME NEW x \in Exec, MarkRecoveryRequired(x) PROVE ExecsMove
  <2>1. execs[x].status # "absent"
    BY <1>5 DEF MarkRecoveryRequired, RecoveryCommands, TablesInv, ExecsBlank
  <2>2. execs' = [execs EXCEPT ![x] = Stat(@, "recovery_required")]
    BY <1>5 DEF MarkRecoveryRequired
  <2> QED BY <2>1, <2>2, ExecStatWrite DEF ExecStatus, ActiveStatus
<1>6. CASE execs' = execs
  BY <1>6, SameExecs
<1> QED BY <1>1, <1>2, <1>3, <1>4, <1>5, <1>6
     DEF Owners, LeaseOp, UpdateTask, WorkspaceExpires, AcquireWorkspace, ReleaseWorkspace, RegisterCommand,
         FinishCommand

LEMMA NextExecs ==
    ASSUME TypeOK, TablesInv, [Next]_vars
    PROVE  ExecsMove \/ \E x \in Exec, t \in Task : ClaimExecution(x, t)
<1>1. CASE execs' = execs
  BY <1>1, SameExecs
<1>2. SessionOp \/ CheckpointOp \/ UNCHANGED vars => execs' = execs
  BY DEF Owners, SessionOp, AppendEvent, CloseSession, AppendTurn, StartTask, RequestControl, SettleControl,
         CheckpointOp, CommitCheckpoint, vars
<1>3. ASSUME NEW x \in Exec, NEW e \in Effect, RequestAgain(x, e) \/ RequestApproval(x, e)
      PROVE  ExecsMove
  <2>1. Home[e] \in Task
    BY StoreAssumption
  <2> QED BY <1>3, <2>1, WaitExec DEF RequestAgain, RequestApproval
<1>4. ASSUME NEW x \in Exec, NEW e \in Effect,
             \/ MarkUnknown(x, e) \/ CommitToolResult(x, e)
             \/ \E input \in 0..MaxTurns \cup {None} : ClaimEffect(x, e, input)
             \/ \E status \in {"succeeded", "failed", "unknown"}, observed \in BOOLEAN :
                    CommitEffect(x, e, status, observed)
             \/ \E status \in {"denied", "cancelled"} : SettleUnexecuted(x, e, status)
      PROVE  execs' = execs
  BY <1>4 DEF MarkUnknown, CommitToolResult, ClaimEffect, CommitEffect, SettleUnexecuted
<1>5. ASSUME NEW e \in Effect,
             \/ \E verdict \in {"approved", "denied", "expired"} : ResolveApproval(e, verdict)
             \/ \E status \in {"succeeded", "failed"} : ConfirmResult(e, status)
             \/ \E r \in Effect : CreateRetry(e, r)
             \/ Abandon(e)
      PROVE  execs' = execs
  BY <1>5 DEF ResolveApproval, ConfirmResult, CreateRetry, Abandon
<1>6. ASSUME NEW x, NEW t, NEW new, PrepareEffects(x, t, new)
      PROVE  execs' = execs
  BY <1>6 DEF PrepareEffects
<1>7. EffectOp => ExecsMove \/ execs' = execs
  BY <1>3, <1>4, <1>5, <1>6 DEF Owners, EffectOp
<1> QED BY <1>1, <1>2, <1>7, LeaseExecs DEF Next

(* The executions that hold the session, the ones that were ever there,   *)
(* and the latest generation of each task, in a table f.                  *)
HoldersIn(f) == [k \in {"session"} |-> {x \in Exec : f[x].status \in ActiveStatus}]
UsedIn(f) == {x \in Exec : f[x].status # "absent"}
LatestOf(f, t) ==
    LET gens == {f[y].gen : y \in {z \in Exec : f[z].task = t}} \cup {0}
    IN  CHOOSE g \in gens : \A h \in gens : h <= g
GensIn(f) == [t \in Task |-> LatestOf(f, t)]

(* CHOOSE finds the greatest generation where there is one. *)
LEMMA LatestUnique ==
    ASSUME NEW f \in [Exec -> ExecRow], NEW t \in Task, NEW g, LatestIn(f, t, g)
    PROVE  GensIn(f)[t] = g
<1> DEFINE gens == {f[y].gen : y \in {z \in Exec : f[z].task = t}} \cup {0}
<1>1. gens \subseteq Nat
  BY DEF ExecRow
<1>2. g \in gens /\ \A h \in gens : h <= g
  BY DEF LatestIn, OfTask
<1>3. \A i \in gens : (\A h \in gens : h <= i) => i = g
  BY <1>1, <1>2, SMTT(40)
<1>4. GensIn(f)[t] = CHOOSE i \in gens : \A h \in gens : h <= i
  BY DEF GensIn, LatestOf
<1> HIDE DEF gens
<1> QED BY <1>2, <1>3, <1>4

LEMMA LatestNow ==
    ASSUME TypeOK, Numbered, NEW t \in Task
    PROVE  LatestGeneration(t) \in Nat /\ LatestIn(execs, t, LatestGeneration(t))
<1>1. LatestGeneration(t) = GensIn(execs)[t]
  BY DEF LatestGeneration, GensIn, LatestOf
<1>2. PICK g : LatestIn(execs, t, g)
  BY DEF Numbered
<1>3. execs \in [Exec -> ExecRow]
  BY DEF TypeOK
<1> QED BY <1>1, <1>2, <1>3, LatestUnique DEF LatestIn

(* A claim inserts one row and ends the others. *)
LEMMA ClaimTable ==
    ASSUME TypeOK, Numbered, NEW x \in Exec, NEW t \in Task, ClaimExecution(x, t)
    PROVE  /\ execs' \in [Exec -> ExecRow] /\ execs[x].status = "absent"
           /\ execs'[x].status = "running" /\ execs'[x].task = t
           /\ execs'[x].gen = LatestGeneration(t) + 1 /\ execs'[x].version = 1
           /\ \A y \in Exec \ {x} : /\ RowMove(execs[y], execs'[y])
                                    /\ execs'[y].status \notin ActiveStatus
<1>1. PICK f, n : f = Expired /\ n = LatestGeneration(t) + 1
  OBVIOUS
<1>2. /\ f \in [Exec -> ExecRow] /\ n \in Nat
      /\ \A y \in Exec : RowMove(execs[y], f[y]) /\ f[y].status \notin ActiveStatus
  BY <1>1, ExpiredRows, LatestNow
<1>3. PICK q : q = [status |-> "running", task |-> t, gen |-> n, live |-> TRUE, version |-> 1]
  OBVIOUS
<1>4. q \in ExecRow /\ q.status = "running" /\ q.task = t /\ q.gen = n /\ q.version = 1
  BY <1>2, <1>3 DEF ExecRow, ExecStatus
<1>5. execs' = [f EXCEPT ![x] = q] /\ execs[x].status = "absent"
  BY <1>1, <1>3 DEF ClaimExecution
<1>6. /\ execs' \in [Exec -> ExecRow] /\ execs'[x] = q
      /\ \A y \in Exec \ {x} : execs'[y] = f[y]
  BY <1>2, <1>4, <1>5
<1> QED BY <1>1, <1>2, <1>4, <1>5, <1>6

LEMMA ClaimGens ==
    ASSUME TypeOK, TablesInv, Numbered, NEW x \in Exec, NEW t \in Task, ClaimExecution(x, t)
    PROVE  /\ LatestIn(execs, t, LatestGeneration(t))
           /\ LatestIn(execs', t, LatestGeneration(t) + 1)
           /\ \A u \in Task \ {t} : \A g : LatestIn(execs, u, g) => LatestIn(execs', u, g)
<1>1. PICK n \in Nat : n = LatestGeneration(t) /\ LatestIn(execs, t, n)
  BY LatestNow
<1>2. execs[x].task = None /\ None \notin Task
  BY ClaimTable, StoreAssumption DEF TablesInv, ExecsBlank
<1>3. /\ execs'[x].task = t /\ execs'[x].gen = n + 1
      /\ \A y \in Exec \ {x} : execs'[y].task = execs[y].task /\ execs'[y].gen = execs[y].gen
  BY <1>1, ClaimTable DEF RowMove
<1>4. \A y \in Exec : execs[y].gen \in Nat
  BY DEF TypeOK, ExecRow
<1>5. LatestIn(execs', t, n + 1)
  <2>1. x \in OfTask(execs', t)
    BY <1>3 DEF OfTask
  <2>2. ASSUME NEW y \in OfTask(execs', t) PROVE execs'[y].gen <= n + 1
    <3>1. CASE y = x
      BY <1>1, <1>3, <3>1
    <3>2. CASE y # x
      <4>1. y \in OfTask(execs, t) /\ execs'[y].gen = execs[y].gen
        BY <1>3, <3>2 DEF OfTask
      <4>2. execs[y].gen <= n /\ execs[y].gen \in Nat
        BY <1>1, <1>4, <4>1 DEF LatestIn, OfTask
      <4> QED BY <4>1, <4>2
    <3> QED BY <3>1, <3>2
  <2> QED BY <1>3, <2>1, <2>2 DEF LatestIn
<1>6. ASSUME NEW u \in Task \ {t} PROVE OfTask(execs', u) = OfTask(execs, u)
  BY <1>2, <1>3 DEF OfTask
<1>7. ASSUME NEW u \in Task \ {t}, NEW y \in OfTask(execs, u) PROVE execs'[y].gen = execs[y].gen
  BY <1>2, <1>3 DEF OfTask
<1>8. ASSUME NEW u \in Task \ {t}, NEW g, LatestIn(execs, u, g) PROVE LatestIn(execs', u, g)
  BY <1>6, <1>7, <1>8 DEF LatestIn
<1> QED BY <1>1, <1>5, <1>8

LEMMA SameGens ==
    ASSUME TypeOK, Numbered, ExecsMove
    PROVE  /\ UsedIn(execs') = UsedIn(execs) /\ GensIn(execs') = GensIn(execs)
           /\ \A t, g : LatestIn(execs, t, g) => LatestIn(execs', t, g)
<1>1. \A x \in Exec : /\ execs'[x].task = execs[x].task /\ execs'[x].gen = execs[x].gen
                      /\ execs'[x].status = "absent" <=> execs[x].status = "absent"
  BY DEF ExecsMove, RowMove
<1>2. UsedIn(execs') = UsedIn(execs)
  BY <1>1 DEF UsedIn
<1>3. \A t : OfTask(execs', t) = OfTask(execs, t)
  BY <1>1 DEF OfTask
<1>4. \A t, g : LatestIn(execs, t, g) => LatestIn(execs', t, g)
  BY <1>1, <1>3 DEF LatestIn, OfTask
<1>5. ASSUME NEW t \in Task PROVE GensIn(execs')[t] = GensIn(execs)[t]
  <2>1. PICK g : LatestIn(execs, t, g)
    BY DEF Numbered
  <2>2. LatestIn(execs', t, g)
    BY <1>4, <2>1
  <2>3. execs \in [Exec -> ExecRow] /\ execs' \in [Exec -> ExecRow]
    BY DEF TypeOK, ExecsMove
  <2> QED BY <2>1, <2>2, <2>3, LatestUnique
<1>6. GensIn(execs') = GensIn(execs)
  BY <1>5 DEF GensIn
<1> QED BY <1>2, <1>4, <1>6

LEMMA NextNumbered ==
    ASSUME TypeOK, TablesInv, Numbered, [Next]_vars
    PROVE  execs' \in [Exec -> ExecRow] /\ Numbered'
<1>1. CASE ExecsMove
  BY <1>1, SameGens DEF ExecsMove, Numbered
<1>2. ASSUME NEW x \in Exec, NEW t \in Task, ClaimExecution(x, t)
      PROVE  execs' \in [Exec -> ExecRow] /\ Numbered'
  <2>1. \A u \in Task : \E g : LatestIn(execs', u, g)
    BY <1>2, ClaimGens DEF Numbered
  <2> QED BY <1>2, <2>1, ClaimTable DEF Numbered
<1> QED BY <1>1, <1>2, NextExecs

LEMMA NextOneActive ==
    ASSUME TypeOK, TablesInv, Numbered, OneActive, [Next]_vars
    PROVE  OneActive'
<1>1. CASE ExecsMove
  BY <1>1 DEF ExecsMove, RowMove, OneActive, IsActive
<1>2. ASSUME NEW x \in Exec, NEW t \in Task, ClaimExecution(x, t)
      PROVE  OneActive'
  BY <1>2, ClaimTable DEF OneActive, IsActive
<1> QED BY <1>1, <1>2, NextExecs

(* A command is registered by an execution that is there. *)
LEMMA NextCommands ==
    ASSUME TypeOK, [Next]_vars
    PROVE  \/ cmd' = cmd
           \/ /\ execs' = execs
              /\ \E x \in Exec, s \in {"running", "finished", "cleanup_failed"} :
                     /\ cmd' = [cmd EXCEPT ![x] = s]
                     /\ cmd[x] # "none" \/ IsActive(x)
<1>1. ASSUME NEW x \in Exec,
             RegisterCommand(x) \/ \E status \in {"finished", "cleanup_failed"} : FinishCommand(x, status)
      PROVE  /\ execs' = execs
             /\ \E s \in {"running", "finished", "cleanup_failed"} :
                    /\ cmd' = [cmd EXCEPT ![x] = s]
                    /\ cmd[x] # "none" \/ IsActive(x)
  BY <1>1 DEF RegisterCommand, FinishCommand, Guard
<1>2. LeaseOp => cmd' = cmd \/ \E x \in Exec :
             RegisterCommand(x) \/ \E status \in {"finished", "cleanup_failed"} : FinishCommand(x, status)
  BY DEF Owners, LeaseOp, UpdateTask, ClaimExecution, ClaimRefused, WorkspaceExpires, RenewExecution,
         ReleaseExecution, LeaseExpires, AcquireWorkspace, ReleaseWorkspace, MarkRecoveryRequired
<1>3. SessionOp \/ CheckpointOp \/ UNCHANGED vars => cmd' = cmd
  BY DEF Owners, SessionOp, AppendEvent, CloseSession, AppendTurn, StartTask, RequestControl, SettleControl,
         CheckpointOp, CommitCheckpoint, vars
<1>4. ASSUME NEW x \in Exec, NEW e \in Effect,
             \/ RequestAgain(x, e) \/ RequestApproval(x, e) \/ MarkUnknown(x, e)
             \/ CommitToolResult(x, e)
             \/ \E input \in 0..MaxTurns \cup {None} : ClaimEffect(x, e, input)
             \/ \E status \in {"succeeded", "failed", "unknown"}, observed \in BOOLEAN :
                    CommitEffect(x, e, status, observed)
             \/ \E status \in {"denied", "cancelled"} : SettleUnexecuted(x, e, status)
      PROVE  cmd' = cmd
  BY <1>4 DEF RequestAgain, RequestApproval, MarkUnknown, CommitToolResult, ClaimEffect,
              CommitEffect, SettleUnexecuted
<1>5. ASSUME NEW e \in Effect,
             \/ \E verdict \in {"approved", "denied", "expired"} : ResolveApproval(e, verdict)
             \/ \E status \in {"succeeded", "failed"} : ConfirmResult(e, status)
             \/ \E r \in Effect : CreateRetry(e, r)
             \/ Abandon(e)
      PROVE  cmd' = cmd
  BY <1>5 DEF ResolveApproval, ConfirmResult, CreateRetry, Abandon
<1>6. ASSUME NEW x, NEW t, NEW new, PrepareEffects(x, t, new)
      PROVE  cmd' = cmd
  BY <1>6 DEF PrepareEffects
<1>7. EffectOp => cmd' = cmd
  BY <1>4, <1>5, <1>6 DEF Owners, EffectOp
<1> QED BY <1>1, <1>2, <1>3, <1>7 DEF Next

LEMMA NextExecsBlank ==
    ASSUME TypeOK, TablesInv, Numbered, [Next]_vars
    PROVE  ExecsBlank' /\ cmd' \in [Exec -> {"none", "running", "cleanup_failed", "finished"}]
<1>1. /\ TasksStep /\ ExecsBlank /\ cmd \in [Exec -> {"none", "running", "cleanup_failed", "finished"}]
      /\ execs \in [Exec -> ExecRow]
  BY NextTasks DEF TypeOK, TablesInv
<1>2. ASSUME NEW x \in Exec, NEW s \in {"running", "finished", "cleanup_failed"},
             execs' = execs, cmd' = [cmd EXCEPT ![x] = s], cmd[x] # "none" \/ IsActive(x)
      PROVE  ExecsBlank' /\ cmd' \in [Exec -> {"none", "running", "cleanup_failed", "finished"}]
  <2>1. execs[x].status # "absent"
    BY <1>1, <1>2, ActiveThere DEF ExecsBlank
  <2>2. cmd' \in [Exec -> {"none", "running", "cleanup_failed", "finished"}]
        /\ \A y \in Exec \ {x} : cmd'[y] = cmd[y]
    BY <1>1, <1>2
  <2>3. ASSUME NEW y \in Exec
        PROVE  /\ execs'[y].status = "absent" =>
                      execs'[y].version = 0 /\ execs'[y].task = None /\ cmd'[y] = "none"
               /\ execs'[y].status # "absent" =>
                      execs'[y].task \in Task /\ tasks'[execs'[y].task].outcome # "absent"
    <3>1. execs'[y] = execs[y]
      BY <1>2
    <3> QED BY <1>1, <2>1, <2>2, <3>1 DEF ExecsBlank, TasksStep
  <2> QED BY <2>2, <2>3 DEF ExecsBlank
<1>3. CASE cmd' = cmd /\ ExecsMove
  <2>1. ASSUME NEW y \in Exec
        PROVE  /\ execs'[y].status = "absent" =>
                      execs'[y].version = 0 /\ execs'[y].task = None /\ cmd'[y] = "none"
               /\ execs'[y].status # "absent" =>
                      execs'[y].task \in Task /\ tasks'[execs'[y].task].outcome # "absent"
    <3>1. RowMove(execs[y], execs'[y]) /\ cmd'[y] = cmd[y]
      BY <1>3 DEF ExecsMove
    <3> QED BY <1>1, <3>1 DEF ExecsBlank, TasksStep, RowMove
  <2> QED BY <1>1, <1>3, <2>1 DEF ExecsBlank
<1>4. ASSUME cmd' = cmd, NEW x \in Exec, NEW t \in Task, ClaimExecution(x, t)
      PROVE  ExecsBlank' /\ cmd' \in [Exec -> {"none", "running", "cleanup_failed", "finished"}]
  <2>0. tasks'[t].outcome # "absent"
    BY <1>1, <1>4 DEF ClaimExecution, TasksStep
  <2>1. ASSUME NEW y \in Exec
        PROVE  /\ execs'[y].status = "absent" =>
                      execs'[y].version = 0 /\ execs'[y].task = None /\ cmd'[y] = "none"
               /\ execs'[y].status # "absent" =>
                      execs'[y].task \in Task /\ tasks'[execs'[y].task].outcome # "absent"
    <3>1. CASE y = x
      BY <1>4, <2>0, <3>1, ClaimTable
    <3>2. CASE y # x
      <4>1. RowMove(execs[y], execs'[y]) /\ cmd'[y] = cmd[y]
        BY <1>4, <3>2, ClaimTable
      <4> QED BY <1>1, <4>1 DEF ExecsBlank, TasksStep, RowMove
    <3> QED BY <3>1, <3>2
  <2> QED BY <1>1, <1>4, <2>1 DEF ExecsBlank
<1>5. execs' = execs => ExecsMove
  BY SameExecs
<1> QED BY <1>2, <1>3, <1>4, <1>5, NextExecs, NextCommands
-----------------------------------------------------------------------------
(* The turns, the workspace, the observations, the recoveries and the      *)
(* checkpoints.                                                            *)

RestTyped ==
    /\ turns' \in 0..MaxTurns /\ turns <= turns'
    /\ ws' \in [exec : Exec \cup {None}, gen : Nat, live : BOOLEAN]
    /\ results' \subseteq Effect /\ done' \subseteq Effect

(* A checkpoint of a task refers to a position of the journal, to turns    *)
(* and to effects of the task that exist.                                  *)
Refers(c, t) ==
    /\ c.cursor <= sess.seq
    /\ c.consumed <= turns
    /\ \A e \in c.pending : Home[e] = t /\ effs[e].status # "absent"

CheckpointsStep ==
    /\ ckpt' \in [Task -> Checkpoint]
    /\ \A t \in Task :
           \/ Refers(ckpt'[t], t)
           \/ \E e : ckpt'[t] = [ckpt[t] EXCEPT !.cursor = sess'.seq, !.pending = @ \ {e}]

LEMMA AdvanceStep ==
    ASSUME TypeOK, JournalExact, SessionStep, NEW e \in Effect, ckpt' = Advanced(e, sess'.seq)
    PROVE  CheckpointsStep
<1>1. ckpt \in [Task -> Checkpoint] /\ Home[e] \in Task /\ sess'.seq \in Nat
  BY StoreAssumption DEF TypeOK, SessionStep, SessionRow
<1>2. \A t \in Task : Refers(ckpt[t], t)
  BY DEF JournalExact, Refers
<1>3. CASE ckpt' = ckpt
  BY <1>1, <1>2, <1>3 DEF CheckpointsStep
<1>4. CASE ckpt' = [ckpt EXCEPT ![Home[e]].cursor = sess'.seq, ![Home[e]].pending = @ \ {e}]
  <2>1. PICK c \in Checkpoint : c = ckpt[Home[e]]
    BY <1>1
  <2>2. PICK q, n : n = sess'.seq /\ q = [c EXCEPT !.cursor = n, !.pending = c.pending \ {e}]
    OBVIOUS
  <2>3. q \in Checkpoint
    BY <1>1, <2>2 DEF Checkpoint
  <2>4. ckpt' = [ckpt EXCEPT ![Home[e]] = q]
    BY <1>1, <1>4, <2>1, <2>2 DEF Checkpoint
  <2>5. ckpt' \in [Task -> Checkpoint] /\ ckpt'[Home[e]] = q
        /\ \A t \in Task \ {Home[e]} : ckpt'[t] = ckpt[t]
    BY <1>1, <2>3, <2>4
  <2>6. q = [ckpt[Home[e]] EXCEPT !.cursor = sess'.seq, !.pending = @ \ {e}]
    BY <2>1, <2>2 DEF Checkpoint
  <2> QED BY <1>2, <2>5, <2>6 DEF CheckpointsStep
<1> QED BY <1>3, <1>4 DEF Advanced

LEMMA NextCheckpoints ==
    ASSUME TypeOK, JournalExact, [Next]_vars
    PROVE  CheckpointsStep
<1>0. SessionStep
  BY NextSession DEF JournalExact
<1>1. CASE ckpt' = ckpt
  BY <1>1 DEF CheckpointsStep, TypeOK, JournalExact, Refers
<1>2. ASSUME NEW x \in Exec, NEW t \in Task, NEW cursor \in {0, sess.seq}, NEW consumed \in 0..MaxTurns,
             NEW pending \in SUBSET Effect, CommitCheckpoint(x, t, cursor, consumed, pending)
      PROVE  CheckpointsStep
  <2>1. ckpt \in [Task -> Checkpoint] /\ cursor \in Nat
    BY DEF TypeOK, SessionRow
  <2>2. PICK q : q = [saved |-> TRUE, cursor |-> cursor, consumed |-> consumed, pending |-> pending]
    OBVIOUS
  <2>3. q \in Checkpoint /\ Refers(q, t)
    BY <1>2, <2>1, <2>2 DEF Checkpoint, Refers, CommitCheckpoint
  <2>4. ckpt' = [ckpt EXCEPT ![t] = q]
    BY <1>2, <2>2 DEF CommitCheckpoint
  <2>5. ckpt' \in [Task -> Checkpoint] /\ ckpt'[t] = q /\ \A u \in Task \ {t} : ckpt'[u] = ckpt[u]
    BY <2>1, <2>3, <2>4
  <2>6. \A u \in Task : Refers(ckpt[u], u)
    BY DEF JournalExact, Refers
  <2> QED BY <2>3, <2>5, <2>6 DEF CheckpointsStep
<1>3. SessionOp \/ LeaseOp \/ UNCHANGED vars => ckpt' = ckpt
  BY DEF Owners, SessionOp, AppendEvent, CloseSession, AppendTurn, StartTask, RequestControl, SettleControl,
         vars, LeaseOp, UpdateTask, ClaimExecution, ClaimRefused, WorkspaceExpires, RenewExecution,
         ReleaseExecution, LeaseExpires, AcquireWorkspace, ReleaseWorkspace, RegisterCommand,
         MarkRecoveryRequired, FinishCommand
<1>4. ASSUME NEW x \in Exec, NEW e \in Effect,
             \/ RequestAgain(x, e) \/ RequestApproval(x, e) \/ MarkUnknown(x, e)
             \/ CommitToolResult(x, e)
             \/ \E input \in 0..MaxTurns \cup {None} : ClaimEffect(x, e, input)
             \/ \E status \in {"succeeded", "failed", "unknown"}, observed \in BOOLEAN :
                    CommitEffect(x, e, status, observed)
             \/ \E status \in {"denied", "cancelled"} : SettleUnexecuted(x, e, status)
      PROVE  ckpt' = ckpt \/ ckpt' = Advanced(e, sess'.seq)
  BY <1>4 DEF RequestAgain, RequestApproval, MarkUnknown, CommitToolResult, ClaimEffect,
              CommitEffect, SettleUnexecuted
<1>5. ASSUME NEW e \in Effect,
             \/ \E verdict \in {"approved", "denied", "expired"} : ResolveApproval(e, verdict)
             \/ \E status \in {"succeeded", "failed"} : ConfirmResult(e, status)
             \/ \E r \in Effect : CreateRetry(e, r)
             \/ Abandon(e)
      PROVE  ckpt' = ckpt
  BY <1>5 DEF ResolveApproval, ConfirmResult, CreateRetry, Abandon
<1>6. ASSUME NEW x, NEW t, NEW new, PrepareEffects(x, t, new)
      PROVE  ckpt' = ckpt
  BY <1>6 DEF PrepareEffects
<1>7. CASE EffectOp
  <2>1. ckpt' = ckpt \/ \E e \in Effect : ckpt' = Advanced(e, sess'.seq)
    BY <1>4, <1>5, <1>6, <1>7 DEF Owners, EffectOp
  <2> QED BY <1>0, <1>1, <2>1, AdvanceStep
<1>8. CASE CheckpointOp
  BY <1>2, <1>8 DEF Owners, CheckpointOp
<1> QED BY <1>1, <1>3, <1>7, <1>8 DEF Next

LEMMA NextRest ==
    ASSUME TypeOK, [Next]_vars
    PROVE  RestTyped
<1>0. /\ turns \in 0..MaxTurns /\ ws \in [exec : Exec \cup {None}, gen : Nat, live : BOOLEAN]
      /\ results \subseteq Effect /\ done \subseteq Effect /\ MaxTurns \in Nat
  BY StoreAssumption DEF TypeOK
<1>1. CASE UNCHANGED <<turns, ws, results, done>>
  BY <1>0, <1>1 DEF RestTyped
<1>2. CASE AppendTurn
  BY <1>0, <1>2 DEF AppendTurn, RestTyped
<1>3. SessionOp \/ CheckpointOp \/ UNCHANGED vars =>
          UNCHANGED <<turns, ws, results, done>> \/ AppendTurn
  BY DEF Owners, SessionOp, AppendEvent, CloseSession, StartTask, RequestControl, SettleControl,
         CheckpointOp, CommitCheckpoint, vars
<1>4. CASE LeaseOp
  <2>1. CASE \/ WorkspaceExpires \/ \E x \in Exec : ReleaseWorkspace(x)
    <3>1. ws' = [ws EXCEPT !.live = FALSE] /\ UNCHANGED <<turns, results, done>>
      BY <2>1 DEF WorkspaceExpires, ReleaseWorkspace
    <3>2. ws' \in [exec : Exec \cup {None}, gen : Nat, live : BOOLEAN]
      BY <1>0, <3>1
    <3> QED BY <1>0, <3>1, <3>2 DEF RestTyped
  <2>2. ASSUME NEW x \in Exec, AcquireWorkspace(x) PROVE RestTyped
    <3>1. ws' = [exec |-> x, gen |-> ws.gen + 1, live |-> TRUE] /\ UNCHANGED <<turns, results, done>>
      BY <2>2 DEF AcquireWorkspace
    <3> QED BY <1>0, <3>1 DEF RestTyped
  <2> QED BY <1>1, <1>4, <2>1, <2>2, ZenonT(60)
       DEF Owners, LeaseOp, UpdateTask, ClaimExecution, ClaimRefused, RenewExecution, ReleaseExecution,
           LeaseExpires, RegisterCommand, MarkRecoveryRequired, FinishCommand
<1>5. ASSUME NEW x \in Exec, NEW e \in Effect,
             \/ RequestAgain(x, e) \/ RequestApproval(x, e) \/ MarkUnknown(x, e)
             \/ CommitToolResult(x, e)
             \/ \E input \in 0..MaxTurns \cup {None} : ClaimEffect(x, e, input)
             \/ \E status \in {"succeeded", "failed", "unknown"}, observed \in BOOLEAN :
                    CommitEffect(x, e, status, observed)
             \/ \E status \in {"denied", "cancelled"} : SettleUnexecuted(x, e, status)
      PROVE  UNCHANGED <<turns, ws, done>> /\ results' \subseteq results \cup {e}
  BY <1>5 DEF RequestAgain, RequestApproval, MarkUnknown, CommitToolResult, ClaimEffect,
              CommitEffect, SettleUnexecuted
<1>6. ASSUME NEW e \in Effect,
             \/ \E verdict \in {"approved", "denied", "expired"} : ResolveApproval(e, verdict)
             \/ \E status \in {"succeeded", "failed"} : ConfirmResult(e, status)
             \/ \E r \in Effect : CreateRetry(e, r)
             \/ Abandon(e)
      PROVE  /\ UNCHANGED <<turns, ws>> /\ results' \subseteq results \cup {e}
             /\ done' \subseteq done \cup {e}
  BY <1>6 DEF ResolveApproval, ConfirmResult, CreateRetry, Abandon, Disposed
<1>7. ASSUME NEW x, NEW t, NEW new, PrepareEffects(x, t, new)
      PROVE  UNCHANGED <<turns, ws, results, done>>
  BY <1>7 DEF PrepareEffects
<1>8. CASE EffectOp
  <2>1. \/ UNCHANGED <<turns, ws, results, done>>
        \/ \E e \in Effect : /\ UNCHANGED <<turns, ws>> /\ results' \subseteq results \cup {e}
                             /\ done' \subseteq done \cup {e}
    BY <1>5, <1>6, <1>7, <1>8 DEF Owners, EffectOp
  <2> QED BY <1>0, <1>1, <2>1 DEF RestTyped
<1> QED BY <1>1, <1>2, <1>3, <1>4, <1>8 DEF Next
-----------------------------------------------------------------------------
LEMMA InitIInv == Init => IInv
<1> SUFFICES ASSUME Init PROVE IInv
  OBVIOUS
<1>1. MaxTurns \in Nat
  BY StoreAssumption
<1>2. /\ sess \in SessionRow /\ tasks \in [Task -> TaskRow] /\ turns \in 0..MaxTurns
      /\ execs \in [Exec -> ExecRow]
  BY <1>1 DEF Init, SessionRow, TaskRow, ExecRow, Outcome, Condition, ExecStatus
<1>3. /\ ws \in [exec : Exec \cup {None}, gen : Nat, live : BOOLEAN]
      /\ cmd \in [Exec -> {"none", "running", "cleanup_failed", "finished"}]
      /\ effs \in [Effect -> EffectRow] /\ apps \in [Effect -> ApprovalRow]
  BY DEF Init, EffectRow, ApprovalRow, EffectStatus, ApprovalStatus
<1>4. /\ results \subseteq Effect /\ ctls \in [Control -> ControlRow] /\ done \subseteq Effect
      /\ ckpt \in [Task -> Checkpoint] /\ rows \in Nat
  BY <1>1 DEF Init, ControlRow, ControlStatus, Checkpoint
<1>5. TypeOK
  BY <1>2, <1>3, <1>4 DEF TypeOK
<1>6. TablesInv
  BY DEF Init, TablesInv, TasksBlank, ControlsBlank, EffectsBlank, EffectsHome, ApprovalsOpen,
         ExecsBlank
<1>7. OneActive
  BY DEF Init, OneActive, IsActive, ActiveStatus
<1>8. Numbered
  <2>1. ASSUME NEW t \in Task PROVE LatestIn(execs, t, 0)
    BY <2>1 DEF Init, LatestIn, OfTask
  <2> QED BY <2>1 DEF Numbered
<1>9. JournalExact
  BY DEF Init, JournalExact
<1> QED BY <1>5, <1>6, <1>7, <1>8, <1>9 DEF IInv

(* What a checkpoint refers to stays, and a commit moves its cursor to the *)
(* end of the journal.                                                     *)
LEMMA NextJournal ==
    ASSUME IInv, [Next]_vars
    PROVE  JournalExact'
<1>1. /\ TypeOK /\ TablesInv /\ JournalExact /\ SessionStep /\ EffectsStep /\ RestTyped
      /\ CheckpointsStep
  BY NextSession, NextEffects, NextRest, NextCheckpoints DEF IInv, JournalExact
<1>2. /\ sess.seq \in Nat /\ sess'.seq \in Nat /\ sess.seq <= sess'.seq
      /\ turns \in Nat /\ turns' \in Nat /\ turns <= turns'
      /\ \A e \in Effect : effs[e].status # "absent" => effs'[e].status # "absent"
  BY <1>1, StoreAssumption DEF TypeOK, SessionRow, SessionStep, RestTyped, EffectsStep
<1>3. ASSUME NEW t \in Task
      PROVE  /\ ckpt'[t].cursor <= sess'.seq
             /\ ckpt'[t].consumed <= turns'
             /\ \A e \in ckpt'[t].pending : Home[e] = t /\ effs'[e].status # "absent"
  <2>1. PICK c \in Checkpoint, d \in Checkpoint : c = ckpt[t] /\ d = ckpt'[t]
    BY <1>1 DEF TypeOK, CheckpointsStep
  <2>2. Refers(c, t)
    BY <1>1, <2>1 DEF JournalExact, Refers
  <2>3. CASE Refers(d, t)
    BY <1>2, <2>1, <2>3 DEF Refers, Checkpoint
  <2>4. CASE \E e : d = [c EXCEPT !.cursor = sess'.seq, !.pending = @ \ {e}]
    <3>1. PICK e : d = [c EXCEPT !.cursor = sess'.seq, !.pending = @ \ {e}]
      BY <2>4
    <3>2. d.cursor = sess'.seq /\ d.consumed = c.consumed /\ d.pending \subseteq c.pending
      BY <3>1 DEF Checkpoint
    <3> QED BY <1>2, <2>1, <2>2, <3>2 DEF Refers, Checkpoint
  <2> QED BY <1>1, <2>1, <2>3, <2>4 DEF CheckpointsStep
<1> QED BY <1>1, <1>3 DEF JournalExact, SessionStep

LEMMA NextIInv ==
    ASSUME IInv, [Next]_vars
    PROVE  IInv'
<1>1. TypeOK /\ TablesInv /\ OneActive /\ Numbered /\ JournalExact /\ sess.seq = rows
  BY DEF IInv, JournalExact
<1>2. /\ SessionStep /\ TasksStep /\ ControlsStep /\ EffectsStep /\ RestTyped /\ CheckpointsStep
      /\ execs' \in [Exec -> ExecRow] /\ Numbered' /\ OneActive' /\ ExecsBlank'
      /\ EffectsHome'
      /\ cmd' \in [Exec -> {"none", "running", "cleanup_failed", "finished"}]
  BY <1>1, NextSession, NextTasks, NextControls, NextEffects, NextRest, NextCheckpoints,
     NextNumbered, NextOneActive, NextExecsBlank, NextEffectsHome DEF TablesInv
<1>3. TypeOK'
  BY <1>2 DEF TypeOK, SessionStep, TasksStep, ControlsStep, EffectsStep, RestTyped, CheckpointsStep
<1>4. TablesInv'
  BY <1>2 DEF TablesInv, TasksStep, ControlsStep, EffectsStep
<1> QED BY <1>2, <1>3, <1>4, NextJournal DEF IInv

(* The tables of FakeStore refer to one another as its methods expect: an  *)
(* approval is pending only while its effect waits, one execution is       *)
(* active, the generations of a task have a latest one, and the journal    *)
(* and the checkpoints agree.                                              *)
THEOREM StoreInvariant == Spec => []IInv
<1>1. IInv /\ UNCHANGED vars => IInv'
  BY NextIInv
<1> QED BY <1>1, InitIInv, NextIInv, PTL DEF Spec

(* Every row that a method of FakeStore writes is one of its table. *)
THEOREM TypeCorrect == Spec => []TypeOK
<1>1. IInv => TypeOK
  BY DEF IInv
<1> QED BY <1>1, StoreInvariant, PTL

(* event_sequence counts the rows of the journal, and no checkpoint is     *)
(* ahead of the journal, of the turns or of the effects, whichever methods *)
(* number the events and move the cursors.                                 *)
THEOREM JournalHolds == Spec => []JournalExact
<1>1. IInv => JournalExact
  BY DEF IInv
<1> QED BY <1>1, StoreInvariant, PTL

LEMMA ExecVersions ==
    ASSUME IInv, [Next]_vars
    PROVE  Versioned([x \in Exec |-> [execs[x] EXCEPT !.live = TRUE]],
                     [x \in Exec |-> [execs'[x] EXCEPT !.live = TRUE]])
<1>1. TypeOK /\ TablesInv /\ Numbered
  BY DEF IInv
<1>2. execs \in [Exec -> ExecRow] /\ execs' \in [Exec -> ExecRow]
  BY <1>1, NextNumbered DEF TypeOK
<1>3. ASSUME NEW x \in Exec
      PROVE  [execs'[x] EXCEPT !.live = TRUE] # [execs[x] EXCEPT !.live = TRUE] =>
                 execs'[x].version = execs[x].version + 1
  <2>1. CASE ExecsMove
    BY <2>1 DEF ExecsMove, RowMove
  <2>2. ASSUME NEW y \in Exec, NEW t \in Task, ClaimExecution(y, t)
        PROVE  \/ [execs'[x] EXCEPT !.live = TRUE] = [execs[x] EXCEPT !.live = TRUE]
               \/ execs'[x].version = execs[x].version + 1
    <3>1. CASE x = y
      BY <1>1, <2>2, <3>1, ClaimTable DEF TablesInv, ExecsBlank
    <3>2. CASE x # y
      BY <1>1, <2>2, <3>2, ClaimTable DEF RowMove
    <3> QED BY <3>1, <3>2
  <2> QED BY <1>1, <2>1, <2>2, NextExecs
<1>4. ASSUME NEW x \in Exec
      PROVE  /\ [execs'[x] EXCEPT !.live = TRUE].version = execs'[x].version
             /\ [execs[x] EXCEPT !.live = TRUE].version = execs[x].version
  BY <1>2 DEF ExecRow
<1> QED BY <1>3, <1>4 DEF Versioned

(* Whatever a method changes in a row moves the version that its callers   *)
(* compare by one: no write of FakeStore goes unseen by the optimistic     *)
(* concurrency check.                                                      *)
THEOREM VersionsHold == Spec => RowsVersioned
<1>1. ASSUME IInv, [Next]_vars
      PROVE  /\ Versioned(tasks, tasks')
             /\ Versioned(effs, effs')
             /\ Versioned(apps, apps')
             /\ Versioned(ctls, ctls')
             /\ Versioned([x \in Exec |-> [execs[x] EXCEPT !.live = TRUE]],
                          [x \in Exec |-> [execs'[x] EXCEPT !.live = TRUE]])
             /\ [sess' EXCEPT !.seq = sess.seq] # sess => sess'.version = sess.version + 1
  <2>1. TypeOK /\ TablesInv /\ sess.seq = rows /\ ControlsBlank
    BY <1>1 DEF IInv, JournalExact, TablesInv
  <2>2. SessionStep /\ TasksStep /\ ControlsStep /\ EffectsStep
    BY <1>1, <2>1, NextSession, NextTasks, NextControls, NextEffects
  <2> QED BY <1>1, <2>2, ExecVersions DEF SessionStep, TasksStep, ControlsStep, EffectsStep
<1> QED BY <1>1, StoreInvariant, PTL DEF Spec, RowsVersioned

LEMMA LifeValues ==
    /\ LifeOf("absent") = "absent"
    /\ \A st \in Unclaimed : LifeOf(st) = "open"
BY DEF LifeOf, Unclaimed

(* The effects of FakeStore live as EffectLife says, which is also what    *)
(* the effects of the SQLite store do (EffectsProofs!LifeRefined): claimed *)
(* at most once, settled for good.                                         *)
THEOREM LifeRefined == Spec => EffectContract
<1>1. Init => Contract!Init
  <2> SUFFICES ASSUME Init PROVE Contract!Init
    OBVIOUS
  <2>1. ASSUME NEW e \in Effect PROVE LifeOf(effs[e].status) = "absent"
    BY LifeValues DEF Init
  <2> QED BY <2>1 DEF Contract!Init
<1>2. ASSUME IInv, [Next]_vars
      PROVE  [Contract!Next]_([e \in Effect |-> LifeOf(effs[e].status)])
  <2> USE <1>2
  <2> DEFINE life == [e \in Effect |-> LifeOf(effs[e].status)]
             Life == [e \in Effect |-> LifeOf(effs'[e].status)]
  <2>1. ASSUME \A e \in Effect :
                   \/ effs'[e] = effs[e]
                   \/ effs[e].status = "absent" /\ effs'[e].status \in Unclaimed
        PROVE  Contract!Next
    <3> DEFINE batch == {e \in Effect : effs[e].status = "absent"
                                        /\ effs'[e].status \in Unclaimed}
    <3>1. \A e \in batch : life[e] = "absent"
      BY LifeValues
    <3>2. Life = [e \in Effect |-> IF e \in batch THEN "open" ELSE life[e]]
      <4>1. ASSUME NEW e \in Effect
            PROVE  LifeOf(effs'[e].status) = IF e \in batch THEN "open"
                                             ELSE LifeOf(effs[e].status)
        BY <2>1, LifeValues
      <4> QED BY <4>1
    <3>3. batch \in SUBSET Effect
      OBVIOUS
    <3> HIDE DEF batch
    <3>4. Contract!Prepare
      BY <3>1, <3>2, <3>3 DEF Contract!Prepare
    <3> QED BY <3>4 DEF Contract!Next
  <2>2. ASSUME NEW e \in Effect, MayBecome(effs[e].status, effs'[e].status),
               \A d \in Effect \ {e} : effs'[d] = effs[d]
        PROVE  Contract!Next \/ Life = life
    <3>1. Life = [life EXCEPT ![e] = LifeOf(effs'[e].status)]
      BY <2>2
    <3>2. \/ LifeOf(effs'[e].status) = LifeOf(effs[e].status)
          \/ LifeOf(effs[e].status) = "open" /\ LifeOf(effs'[e].status) \in {"running", "void"}
          \/ LifeOf(effs[e].status) = "running" /\ LifeOf(effs'[e].status) \in {"over", "unknown"}
          \/ LifeOf(effs[e].status) = "unknown" /\ LifeOf(effs'[e].status) = "over"
      BY <2>2 DEF MayBecome, LifeOf, Unclaimed
    <3>3. CASE LifeOf(effs'[e].status) = LifeOf(effs[e].status)
      BY <3>1, <3>3
    <3>4. CASE LifeOf(effs'[e].status) # LifeOf(effs[e].status)
      BY <3>1, <3>2, <3>4 DEF Contract!Next, Contract!Move
    <3> QED BY <3>3, <3>4
  <2>3. StatusStep
    BY NextEffects DEF IInv, EffectsStep
  <2> QED BY <2>1, <2>2, <2>3 DEF StatusStep
<1> QED BY <1>1, <1>2, StoreInvariant, PTL DEF Spec, EffectContract, Contract!Spec

(* A claim is an acquisition of the session's lock for the task. *)
LEMMA ClaimAcquires ==
    ASSUME IInv, NEW x \in Exec, NEW t \in Task, ClaimExecution(x, t)
    PROVE  /\ x \notin UsedIn(execs)
           /\ HoldersIn(execs') = [HoldersIn(execs) EXCEPT !["session"] = {x}]
           /\ UsedIn(execs') = UsedIn(execs) \cup {x}
           /\ GensIn(execs') = [GensIn(execs) EXCEPT ![t] = @ + 1]
<1>0. TypeOK /\ TablesInv /\ Numbered
  BY DEF IInv
<1>1. x \notin UsedIn(execs) /\ UsedIn(execs') = UsedIn(execs) \cup {x}
  BY <1>0, ClaimTable, ZenonT(60) DEF UsedIn, RowMove
<1>2. {y \in Exec : execs'[y].status \in ActiveStatus} = {x}
  BY <1>0, ClaimTable DEF ActiveStatus
<1>3. HoldersIn(execs') = [HoldersIn(execs) EXCEPT !["session"] = {x}]
  BY <1>2 DEF HoldersIn
<1>4. execs \in [Exec -> ExecRow] /\ execs' \in [Exec -> ExecRow]
  BY <1>0, ClaimTable DEF TypeOK
<1>5. GensIn(execs)[t] = LatestGeneration(t) /\ GensIn(execs')[t] = LatestGeneration(t) + 1
  BY <1>0, <1>4, ClaimGens, LatestUnique
<1>6. ASSUME NEW u \in Task, u # t PROVE GensIn(execs')[u] = GensIn(execs)[u]
  <2>1. PICK g : LatestIn(execs, u, g)
    BY <1>0 DEF Numbered
  <2>2. LatestIn(execs', u, g)
    BY <1>0, <1>6, <2>1, ClaimGens
  <2> QED BY <1>4, <2>1, <2>2, LatestUnique
<1>7. /\ GensIn(execs) = [u \in Task |-> GensIn(execs)[u]]
      /\ GensIn(execs') = [u \in Task |-> GensIn(execs')[u]]
  BY DEF GensIn
<1> QED BY <1>1, <1>3, <1>5, <1>6, <1>7

(* The other steps keep the holder, or free the lock. *)
LEMMA MoveReleases ==
    ASSUME IInv, ExecsMove
    PROVE  \/ HoldersIn(execs') = HoldersIn(execs)
           \/ /\ HoldersIn(execs)["session"] # {}
              /\ HoldersIn(execs') = [HoldersIn(execs) EXCEPT !["session"] = {}]
<1>1. \A x \in Exec : execs'[x].status \in ActiveStatus => execs[x].status \in ActiveStatus
  BY DEF ExecsMove, RowMove
<1>2. CASE \A x \in Exec : execs[x].status \in ActiveStatus => execs'[x].status \in ActiveStatus
  BY <1>1, <1>2 DEF HoldersIn
<1>3. ASSUME NEW x \in Exec, execs[x].status \in ActiveStatus, execs'[x].status \notin ActiveStatus
      PROVE  /\ HoldersIn(execs)["session"] # {}
             /\ HoldersIn(execs') = [HoldersIn(execs) EXCEPT !["session"] = {}]
  <2>1. {y \in Exec : execs'[y].status \in ActiveStatus} = {}
    BY <1>1, <1>3 DEF IInv, OneActive, IsActive
  <2>2. x \in HoldersIn(execs)["session"]
    BY <1>3 DEF HoldersIn
  <2> QED BY <2>1, <2>2 DEF HoldersIn
<1> QED BY <1>2, <1>3

(* A session of FakeStore is the lock of LeaseLock, as it is in the SQLite *)
(* store (OwnershipProofs!LeaseRefined): one holder, no way back, the next  *)
(* generation at every claim_execution.                                    *)
THEOREM LeaseRefined == Spec => LeaseContract
<1>1. Init => Lease!Init
  <2> SUFFICES ASSUME Init PROVE Lease!Init
    OBVIOUS
  <2>1. \A x \in Exec : execs[x].status = "absent"
    BY DEF Init
  <2>2. IInv /\ execs \in [Exec -> ExecRow]
    BY InitIInv DEF IInv, TypeOK
  <2>3. ASSUME NEW t \in Task PROVE GensIn(execs)[t] = 0
    <3>1. LatestIn(execs, t, 0)
      BY StoreAssumption DEF Init, LatestIn, OfTask
    <3> QED BY <2>2, <3>1, LatestUnique
  <2>4. GensIn(execs) = [t \in Task |-> 0]
    BY <2>3 DEF GensIn
  <2> QED
    BY <2>1, <2>4 DEF Lease!Init, GensIn, LatestOf, LatestGeneration, IsActive, ActiveStatus
<1>2. ASSUME IInv, [Next]_vars
      PROVE  [Lease!Next]_<<HoldersIn(execs), UsedIn(execs), GensIn(execs)>>
  <2>1. ASSUME NEW x \in Exec, NEW t \in Task, ClaimExecution(x, t) PROVE Lease!Next
    BY <1>2, <2>1, ClaimAcquires
       DEF Lease!Next, Lease!Acquire, HoldersIn, UsedIn, GensIn, LatestOf, IsActive, LatestGeneration
  <2>2. CASE ExecsMove
    <3>1. UsedIn(execs') = UsedIn(execs) /\ GensIn(execs') = GensIn(execs)
      BY <1>2, <2>2, SameGens DEF IInv
    <3> QED
      BY <1>2, <2>2, <3>1, MoveReleases
         DEF Lease!Next, Lease!Release, HoldersIn, UsedIn, GensIn, LatestOf, IsActive, LatestGeneration
  <2>3. TypeOK /\ TablesInv
    BY <1>2 DEF IInv
  <2> QED BY <1>2, <2>1, <2>2, <2>3, NextExecs
<1>3. <<HoldersIn(execs), UsedIn(execs), GensIn(execs)>> =
      <<[k \in {"session"} |-> {x \in Exec : IsActive(x)}],
        {x \in Exec : execs[x].status # "absent"},
        [t \in Task |-> LatestGeneration(t)]>>
  BY DEF HoldersIn, UsedIn, GensIn, LatestOf, IsActive, LatestGeneration
<1> QED
  BY <1>1, <1>2, <1>3, StoreInvariant, PTL
     DEF Spec, LeaseContract, Lease!Spec, HoldersIn, UsedIn, GensIn, LatestOf, IsActive, LatestGeneration
=============================================================================
