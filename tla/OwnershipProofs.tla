-------------------------- MODULE OwnershipProofs --------------------------
(***************************************************************************)
(* Theorems about Ownership, for every set of workers, tasks, executions   *)
(* and commands and every lease duration.                                  *)
(***************************************************************************)
EXTENDS Ownership, TLAPS

(* The program points at which a worker holds an execution it claimed. *)
Claimed == PC \ {"idle", "reconcile_task", "mark"}

(* What the rows of the executions table and the workers' local copies of  *)
(* them have in common; with TypeOK it is inductive.                       *)
ExecShape ==
    \A e \in ExecId :
        /\ execs[e].status = "none" => execs[e].task = None
        /\ IsActive(e) => execs[e].task \in Task

WorkerShape ==
    \A w \in Worker :
        /\ wk[w].pc # "idle" => wk[w].task \in Task
        /\ wk[w].pc \in Claimed => wk[w].exec \in ExecId
        /\ wk[w].pc \in {"spawned", "command"} => wk[w].cmd \in CmdId
        /\ wk[w].exec # None => /\ execs[wk[w].exec].status # "none"
                                /\ execs[wk[w].exec].task = wk[w].task

Shape == TypeOK /\ ExecShape /\ WorkerShape

-----------------------------------------------------------------------------
(* Lemmas about the helpers that several actions share. *)

LEMMA IdleType == Idle \in WorkerRow /\ HbOff \in HbRow
BY DEF Idle, HbOff, WorkerRow, HbRow, PC, HbPC

(* The updates of a worker's row that several actions make. *)
LEMMA RowUpdateType ==
    ASSUME NEW row \in WorkerRow, NEW pc \in PC, NEW now \in Nat
    PROVE  /\ [row EXCEPT !.cmd = None] \in WorkerRow
           /\ [row EXCEPT !.pc = pc, !.cmd = None] \in WorkerRow
           /\ [row EXCEPT !.now = now, !.pc = pc] \in WorkerRow
BY DEF WorkerRow

LEMMA FinishType ==
    ASSUME TypeOK, NEW c, NEW st \in CmdStatus, Finish(c, st)
    PROVE  cmds' \in [CmdId -> CmdRow]
BY DEF TypeOK, Finish, CmdRow, CmdStatus

LEMMA ConditionType ==
    ASSUME TypeOK, NEW t, NEW c \in Condition
    PROVE  WithCondition(t, c) \in [Task -> TaskRow]
<1>1. ASSUME NEW u \in Task PROVE WithCondition(t, c)[u] \in TaskRow
  <2>1. tasks[u] \in TaskRow
    BY DEF TypeOK
  <2>2. CASE u = t
    <3>1. WithCondition(t, c)[u] =
              [cond |-> c, ended |-> tasks[u].ended, version |-> tasks[u].version + 1]
      BY <2>2 DEF TypeOK, WithCondition
    <3> QED BY <2>1, <3>1 DEF TaskRow
  <2>3. CASE u # t
    BY <2>1, <2>3 DEF TypeOK, WithCondition
  <2> QED BY <2>2, <2>3
<1> QED BY <1>1 DEF TypeOK, WithCondition

LEMMA ReleaseType ==
    ASSUME TypeOK, NEW e \in ExecId, ReleaseExecution(e)
    PROVE  execs' \in [ExecId -> ExecRow] /\ tasks' \in [Task -> TaskRow]
<1>1. execs' \in [ExecId -> ExecRow]
  BY DEF TypeOK, ReleaseExecution, ExecRow, ExecStatus
<1>2. tasks' \in [Task -> TaskRow]
  BY ConditionType DEF TypeOK, ReleaseExecution, Condition
<1> QED BY <1>1, <1>2

-----------------------------------------------------------------------------
(* Shape is inductive.  One lemma for each part of Next. *)

LEMMA InitShape == Init => Shape
<1> SUFFICES ASSUME Init PROVE Shape
  OBVIOUS
<1>1. TypeOK
  BY IdleType DEF Init, TypeOK, TaskRow, ExecRow, LeaseRow, CmdRow,
       NoExec, NoLease, NoCmd, Condition, ExecStatus, CmdStatus
<1>2. ExecShape /\ WorkerShape
  BY DEF Init, ExecShape, WorkerShape, IsActive, ActiveStatus, NoExec, Idle,
         Claimed
<1> QED BY <1>1, <1>2 DEF Shape

(* Time, processes, the start of a task, a crash. *)
LEMMA EnvironmentShape ==
    ASSUME Shape,
           \/ Tick
           \/ \E c \in CmdId : ProcessExits(c)
           \/ \E t \in Task : StartTask(t)
           \/ \E w \in Worker : Crash(w)
    PROVE  Shape'
<1> USE DEF Shape
<1>1. CASE Tick
  BY <1>1 DEF TypeOK, ExecShape, WorkerShape, IsActive, Tick, storeVars
<1>2. ASSUME NEW c \in CmdId, ProcessExits(c) PROVE Shape'
  BY <1>2 DEF TypeOK, ExecShape, WorkerShape, IsActive, ProcessExits, storeVars
<1>3. ASSUME NEW t \in Task, StartTask(t) PROVE Shape'
  BY <1>3, MapAssumption
     DEF TypeOK, ExecShape, WorkerShape, IsActive, StartTask, TaskRow, Condition
<1>4. ASSUME NEW w \in Worker, Crash(w) PROVE Shape'
  <2>1. TypeOK'
    BY <1>4, IdleType DEF TypeOK, Crash, storeVars
  <2>2. ExecShape' /\ WorkerShape'
    BY <1>4 DEF TypeOK, ExecShape, WorkerShape, IsActive, Crash, storeVars,
                Idle, Claimed
  <2> QED BY <2>1, <2>2
<1> QED BY <1>1, <1>2, <1>3, <1>4

(* The worker gives its execution back, if the guard still holds, and goes *)
(* idle: the end of Rollback and of ReleaseOwnership.                      *)
LEMMA ReleaseShape ==
    ASSUME Shape, NEW w \in Worker, wk[w].exec \in ExecId,
           IF GuardOK(wk[w].exec, wk[w].now)
           THEN ReleaseExecution(wk[w].exec)
           ELSE UNCHANGED <<execs, tasks>>,
           wk' = [wk EXCEPT ![w] = Idle],
           UNCHANGED <<clock, covered, active, wlease, cmds, alive, hb>>
    PROVE  Shape'
<1> USE DEF Shape
<1>1. execs' \in [ExecId -> ExecRow] /\ tasks' \in [Task -> TaskRow]
  BY ReleaseType DEF TypeOK
<1>2. TypeOK'
  BY <1>1, IdleType DEF TypeOK
<1>3. ExecShape'
  BY DEF TypeOK, ExecShape, IsActive, ActiveStatus, ReleaseExecution, GuardOK, ExecRow
<1>4. ASSUME NEW d \in ExecId
      PROVE  /\ execs'[d].task = execs[d].task
             /\ execs[d].status # "none" => execs'[d].status # "none"
  BY SMTT(40) DEF TypeOK, ReleaseExecution, ExecRow
<1>5. WorkerShape'
  BY <1>4 DEF TypeOK, WorkerShape, WorkerRow, Idle, Claimed
<1> QED BY <1>2, <1>3, <1>5

(* ExecutionOwnershipManager.acquire. *)
LEMMA AcquireShape ==
    ASSUME Shape, NEW w \in Worker, Acquire(w)
    PROVE  Shape'
<1> USE DEF Shape
<1>0. /\ wk[w] \in WorkerRow
      /\ hb[w] \in HbRow
  BY DEF TypeOK
<1>1. ASSUME NEW t \in Serves[w], Prepare(w, t) PROVE Shape'
  <2>1. t \in Task
    BY MapAssumption
  <2>2. wk'[w] \in WorkerRow
    BY <1>1, <2>1 DEF TypeOK, Prepare, WorkerRow, Idle, TaskRow, PC,
                      RecoveryCommandsForTask
  <2>3. TypeOK'
    BY <1>1, <2>2 DEF TypeOK, Prepare, storeVars
  <2>4. ExecShape' /\ WorkerShape'
    BY <1>1, <2>1 DEF TypeOK, ExecShape, WorkerShape, IsActive, Prepare,
                      storeVars, Idle, Claimed
  <2> QED BY <2>3, <2>4
<1>2. ASSUME NEW c \in CmdId, ReconcileStops(w, c) PROVE Shape'
  <2>1. TypeOK'
    BY <1>0, <1>2, FinishType DEF TypeOK, ReconcileStops, WorkerRow, CmdStatus
  <2>2. ExecShape' /\ WorkerShape'
    BY <1>0, <1>2 DEF TypeOK, ExecShape, WorkerShape, IsActive, ReconcileStops, WorkerRow
  <2> QED BY <2>1, <2>2
<1>3. ASSUME NEW c \in CmdId, ReconcileFails(w, c) PROVE Shape'
  <2>1. TypeOK'
    BY <1>0, <1>3, FinishType DEF TypeOK, ReconcileFails, WorkerRow, CmdStatus, PC
  <2>2. ExecShape' /\ WorkerShape'
    BY <1>0, <1>3 DEF TypeOK, ExecShape, WorkerShape, IsActive, ReconcileFails,
                      WorkerRow, Claimed, PC
  <2> QED BY <2>1, <2>2
<1>4. CASE MarkRecoveryRequired(w)
  <2>1. wk' \in [Worker -> WorkerRow]
    BY <1>0, <1>4, IdleType DEF TypeOK, MarkRecoveryRequired, WorkerRow, PC
  <2>2. execs' \in [ExecId -> ExecRow]
    BY <1>4, ZenonT(60) DEF TypeOK, MarkRecoveryRequired, ExecRow, ExecStatus
  <2>3. tasks' \in [Task -> TaskRow]
    BY <1>4, ConditionType, ZenonT(30) DEF TypeOK, MarkRecoveryRequired, Condition
  <2>4. TypeOK'
    BY <1>4, <2>1, <2>2, <2>3, ZenonT(60) DEF TypeOK, MarkRecoveryRequired
  <2>5. ExecShape'
    BY <1>4, ZenonT(60) DEF TypeOK, ExecShape, IsActive, ActiveStatus, MarkRecoveryRequired,
                ExecRow
  <2>6. WorkerShape'
    <3>1. ASSUME NEW d \in ExecId
          PROVE  /\ execs'[d].task = execs[d].task
                 /\ execs[d].status # "none" => execs'[d].status # "none"
      BY <1>4, ZenonT(30) DEF TypeOK, MarkRecoveryRequired, ExecRow
    <3>2. ASSUME NEW v \in Worker, v # w PROVE wk'[v] = wk[v]
      BY <1>4, <3>2, ZenonT(30) DEF TypeOK, MarkRecoveryRequired
    <3>3. \/ wk'[w] = Idle
          \/ wk'[w].exec \in ExecId /\ wk'[w].exec = wk[w].exec
             /\ wk'[w].task = wk[w].task /\ wk'[w].task \in Task
             /\ wk'[w].pc = "rollback"
      BY <1>0, <1>4 DEF TypeOK, WorkerShape, MarkRecoveryRequired, WorkerRow
    <3> QED BY <3>1, <3>2, <3>3 DEF TypeOK, WorkerShape, WorkerRow, Idle, Claimed
  <2> QED BY <2>4, <2>5, <2>6, ZenonT(30)
<1>5. ASSUME NEW e \in ExecId, NEW g \in 1..MaxGen, Claim(w, e, g)
      PROVE  Shape'
  <2>0. /\ TTL \in Nat /\ g \in Nat
        /\ wk[w].task \in Task /\ wk[w].pc = "reconcile_task"
        /\ e # None
    BY <1>5, TTLAssumption, BoundsAssumption, NoneAssumption DEF WorkerShape, Claim
  <2>1. wk' \in [Worker -> WorkerRow] /\ hb' \in [Worker -> HbRow]
    <3>1. tasks[wk[w].task].version + 1 \in Nat
      BY <2>0 DEF TypeOK, TaskRow
    <3>2. wk'[w] \in WorkerRow
      BY <1>0, <1>5, <2>0, <3>1, SMTT(40) DEF TypeOK, Claim, WorkerRow, PC
    <3>3. hb'[w] \in HbRow
      BY <1>0, <1>5 DEF TypeOK, Claim, HbRow, HbPC
    <3> QED BY <1>5, <3>2, <3>3 DEF TypeOK, Claim
  <2>2. execs' \in [ExecId -> ExecRow]
    BY <1>0, <1>5, <2>0, SMTT(40) DEF TypeOK, Claim, ClaimRows, ExecRow, WorkerRow, ExecStatus
  <2>3. tasks' \in [Task -> TaskRow]
    BY <1>5, ConditionType DEF Claim, Condition
  <2>4. TypeOK'
    BY <1>5, <2>1, <2>2, <2>3 DEF TypeOK, Claim
  <2>5. ExecShape'
    BY <1>5, <2>0 DEF TypeOK, ExecShape, IsActive, ActiveStatus, Claim, ClaimRows,
                ExecRow
  <2>6. WorkerShape'
    BY <1>0, <1>5, <2>0 DEF TypeOK, WorkerShape, Claim, ClaimRows, WorkerRow,
                ExecRow, Claimed
  <2> QED BY <2>4, <2>5, <2>6
<1>6. CASE ClaimRefused(w)
  <2>1. TypeOK'
    BY <1>6, IdleType DEF TypeOK, ClaimRefused, storeVars
  <2>2. ExecShape' /\ WorkerShape'
    BY <1>6, ZenonT(30) DEF TypeOK, ExecShape, WorkerShape, IsActive, ClaimRefused, storeVars,
                Idle, Claimed
  <2> QED BY <2>1, <2>2
<1>7. CASE ListWorkspaceCommands(w)
  <2>1. TypeOK'
    BY <1>0, <1>7 DEF TypeOK, ListWorkspaceCommands, storeVars, WorkerRow, PC,
                RecoveryCommandsForWorkspace
  <2>2. ExecShape' /\ WorkerShape'
    BY <1>0, <1>7 DEF TypeOK, ExecShape, WorkerShape, IsActive,
                ListWorkspaceCommands, storeVars, WorkerRow, Claimed, PC
  <2> QED BY <2>1, <2>2
<1>8. CASE AcquireWorkspace(w)
  <2>0. /\ TTL \in Nat
        /\ wk[w].task \in Task /\ wk[w].exec \in ExecId
        /\ WorkspaceOf[wk[w].task] \in Workspace
    BY <1>8, TTLAssumption, MapAssumption
       DEF WorkerShape, AcquireWorkspace, Claimed, PC
  <2>1. wlease' \in [Workspace -> LeaseRow]
    BY <1>0, <1>8, <2>0 DEF TypeOK, AcquireWorkspace, LeaseRow, WorkerRow
  <2>2. wk' \in [Worker -> WorkerRow] /\ hb' \in [Worker -> HbRow]
    BY <1>0, <1>8, <2>0 DEF TypeOK, AcquireWorkspace, WorkerRow, HbRow, TaskRow,
                PC, HbPC
  <2>3. TypeOK'
    BY <1>8, <2>1, <2>2 DEF TypeOK, AcquireWorkspace
  <2>4. ExecShape' /\ WorkerShape'
    BY <1>0, <1>8, <2>0 DEF TypeOK, ExecShape, WorkerShape, IsActive,
                AcquireWorkspace, WorkerRow, Claimed, PC
  <2> QED BY <2>3, <2>4
<1>9. CASE WorkspaceRefused(w)
  <2>1. TypeOK'
    BY <1>0, <1>9 DEF TypeOK, WorkspaceRefused, storeVars, WorkerRow, PC
  <2>2. ExecShape' /\ WorkerShape'
    BY <1>0, <1>9 DEF TypeOK, ExecShape, WorkerShape, IsActive,
                WorkspaceRefused, storeVars, WorkerRow, Claimed, PC
  <2> QED BY <2>1, <2>2
<1>10. CASE Rollback(w)
  BY <1>10, ReleaseShape DEF Rollback, WorkerShape, Claimed, PC
<1> QED
  BY <1>1, <1>2, <1>3, <1>4, <1>5, <1>6, <1>7, <1>8, <1>9, <1>10 DEF Acquire
(* LeaseHeartbeat. *)
LEMMA HeartbeatShape ==
    ASSUME Shape, NEW w \in Worker, Heartbeat(w)
    PROVE  Shape'
<1> USE DEF Shape
<1>0. /\ wk[w] \in WorkerRow /\ hb[w] \in HbRow
      /\ TTL \in Nat
  BY TTLAssumption DEF TypeOK
<1>1. CASE HeartbeatWakes(w)
  BY <1>1 DEF TypeOK, ExecShape, WorkerShape, IsActive, HeartbeatWakes, storeVars,
              HbRow, HbPC
<1>2. CASE RenewExecution(w)
  <2>1. wk[w].exec \in ExecId /\ hb[w].now + TTL \in Nat
    BY <1>0, <1>2 DEF RenewExecution, GuardOK, WorkerRow, HbRow
  <2>2. execs' \in [ExecId -> ExecRow]
    BY <1>0, <1>2, <2>1, ZenonT(30) DEF TypeOK, RenewExecution, ExecRow, HbRow
  <2>3. hb' \in [Worker -> HbRow]
    BY <1>0, <1>2 DEF TypeOK, RenewExecution, HbRow, HbPC
  <2>4. TypeOK'
    BY <1>2, <2>2, <2>3 DEF TypeOK, RenewExecution
  <2>5. ExecShape' /\ WorkerShape'
    BY <1>2, <2>1 DEF TypeOK, ExecShape, WorkerShape, IsActive, RenewExecution,
                      ExecRow, WorkerRow
  <2> QED BY <2>4, <2>5
<1>3. CASE RenewWorkspace(w)
  <2>0. hb[w].now + TTL \in Nat
    BY <1>0 DEF HbRow
  <2>1. wlease' \in [Workspace -> LeaseRow]
    BY <1>3, <2>0 DEF TypeOK, RenewWorkspace, LeaseRow
  <2>2. TypeOK'
    BY <1>3, <2>1 DEF TypeOK, RenewWorkspace, HbRow, HbPC
  <2>3. ExecShape' /\ WorkerShape'
    BY <1>3 DEF ExecShape, WorkerShape, IsActive, RenewWorkspace
  <2> QED BY <2>2, <2>3
<1>4. CASE RenewFails(w)
  BY <1>4 DEF TypeOK, ExecShape, WorkerShape, IsActive, RenewFails, storeVars,
              HbRow, HbPC
<1> QED BY <1>1, <1>2, <1>3, <1>4 DEF Heartbeat

(* The run. *)
LEMMA RunShape ==
    ASSUME Shape, NEW w \in Worker, Run(w)
    PROVE  Shape'
<1> USE DEF Shape
<1>0. wk[w] \in WorkerRow
  BY DEF TypeOK
<1>1. CASE AssertToolOwnership(w)
  <2>1. TypeOK'
    BY <1>0, <1>1 DEF TypeOK, AssertToolOwnership, storeVars, WorkerRow, PC
  <2>2. ExecShape' /\ WorkerShape'
    BY <1>0, <1>1 DEF TypeOK, ExecShape, WorkerShape, IsActive,
                AssertToolOwnership, storeVars, WorkerRow, Claimed, PC
  <2> QED BY <2>1, <2>2
<1>2. ASSUME NEW c \in CmdId, Spawn(w, c) PROVE Shape'
  <2>1. TypeOK'
    BY <1>0, <1>2 DEF TypeOK, Spawn, WorkerRow, CmdRow, PC, CmdStatus
  <2>2. ExecShape' /\ WorkerShape'
    BY <1>0, <1>2 DEF TypeOK, ExecShape, WorkerShape, IsActive, Spawn, WorkerRow,
                Claimed, PC
  <2> QED BY <2>1, <2>2
<1>3. CASE Register(w)
  <2>0. wk[w].cmd \in CmdId
    BY <1>3 DEF Register, WorkerShape
  <2>a. wk' \in [Worker -> WorkerRow] /\ cmds' \in [CmdId -> CmdRow]
    BY <1>0, <1>3, ZenonT(60) DEF TypeOK, Register, WorkerRow, CmdRow, PC, CmdStatus
  <2>1. TypeOK'
    BY <1>3, <2>0, <2>a DEF TypeOK, Register
  <2>2. ExecShape' /\ WorkerShape'
    BY <1>0, <1>3 DEF TypeOK, ExecShape, WorkerShape, IsActive, Register, WorkerRow,
                Claimed, PC
  <2> QED BY <2>1, <2>2
<1>4. CASE RegisterRefused(w)
  <2>1. NoCmd \in CmdRow
    BY DEF NoCmd, CmdRow, CmdStatus
  <2>2. wk'[w] \in WorkerRow
    BY <1>0, <1>4, SMTT(40) DEF TypeOK, RegisterRefused, WorkerRow, PC
  <2>3. cmds' \in [CmdId -> CmdRow] /\ alive' \in SUBSET CmdId
    BY <1>4, <2>1 DEF TypeOK, RegisterRefused
  <2>4. TypeOK'
    BY <1>4, <2>2, <2>3 DEF TypeOK, RegisterRefused
  <2>5. /\ wk'[w].task = wk[w].task /\ wk'[w].exec = wk[w].exec
        /\ wk'[w].pc \in {"stopping", "cleanup_error"}
    BY <1>0, <1>4 DEF TypeOK, RegisterRefused, WorkerRow
  <2>6. /\ \A v \in Worker : v # w => wk'[v] = wk[v]
        /\ execs' = execs
        /\ wk[w].task \in Task /\ wk[w].exec \in ExecId
    BY <1>4 DEF TypeOK, RegisterRefused, WorkerShape, Claimed, PC
  <2>7. ExecShape' /\ WorkerShape'
    BY <2>5, <2>6 DEF ExecShape, WorkerShape, IsActive
  <2> QED BY <2>4, <2>7
<1>5. CASE CommandExits(w)
  <2>1. TypeOK'
    BY <1>0, <1>5, FinishType DEF TypeOK, CommandExits, WorkerRow, PC, CmdStatus
  <2>2. ExecShape' /\ WorkerShape'
    BY <1>0, <1>5 DEF TypeOK, ExecShape, WorkerShape, IsActive, CommandExits,
                WorkerRow, Claimed, PC
  <2> QED BY <2>1, <2>2
<1>6. CASE TerminateCommand(w)
  <2>1. TypeOK'
    <3>1. cmds' \in [CmdId -> CmdRow]
      BY <1>6, FinishType DEF TerminateCommand, CmdStatus
    <3>2. wk' \in [Worker -> WorkerRow]
      <4>1. {"own", "cleanup_error"} \subseteq PC
        BY DEF PC
      <4>2. \E pc \in {"own", "cleanup_error"} :
              wk' = [wk EXCEPT ![w] = [wk[w] EXCEPT !.pc = pc, !.cmd = None]]
        BY <1>6 DEF TypeOK, TerminateCommand
      <4>3. PICK pc \in PC : wk' = [wk EXCEPT ![w] = [wk[w] EXCEPT !.pc = pc, !.cmd = None]]
        BY <4>1, <4>2
      <4>4. [wk[w] EXCEPT !.pc = pc, !.cmd = None] \in WorkerRow
        BY <1>0, RowUpdateType
      <4> QED BY <4>3, <4>4 DEF TypeOK
    <3> QED BY <1>6, <3>1, <3>2 DEF TypeOK, TerminateCommand
  <2>2. ExecShape' /\ WorkerShape'
    BY <1>0, <1>6, SMTT(40) DEF TypeOK, ExecShape, WorkerShape, IsActive, TerminateCommand,
                WorkerRow, Claimed, PC
  <2> QED BY <2>1, <2>2
<1>7. CASE RecordCleanupFailure(w)
  <2>1. tasks' \in [Task -> TaskRow]
    BY <1>7, ConditionType DEF TypeOK, RecordCleanupFailure, Condition
  <2>2. TypeOK'
    BY <1>0, <1>7, <2>1 DEF TypeOK, RecordCleanupFailure, WorkerRow, PC
  <2>3. ExecShape' /\ WorkerShape'
    BY <1>0, <1>7 DEF TypeOK, ExecShape, WorkerShape, IsActive,
                RecordCleanupFailure, WorkerRow, Claimed, PC
  <2> QED BY <2>2, <2>3
<1>8. CASE Complete(w)
  <2>0. wk[w].task \in Task /\ SessionOf[wk[w].task] \in Session
    BY <1>8, MapAssumption DEF Complete, WorkerShape
  <2>1. tasks' \in [Task -> TaskRow] /\ active' \in [Session -> Task \cup {None}]
    BY <1>8, <2>0 DEF TypeOK, Complete, TaskRow, Condition
  <2>2. TypeOK'
    BY <1>0, <1>8, <2>1 DEF TypeOK, Complete, WorkerRow, PC
  <2>3. ExecShape' /\ WorkerShape'
    BY <1>0, <1>8 DEF TypeOK, ExecShape, WorkerShape, IsActive, Complete,
                WorkerRow, Claimed, PC
  <2> QED BY <2>2, <2>3
<1> QED BY <1>1, <1>2, <1>3, <1>4, <1>5, <1>6, <1>7, <1>8 DEF Run

(* The finally clause of _with_execution_ownership. *)
LEMMA EndShape ==
    ASSUME Shape, NEW w \in Worker, Release(w)
    PROVE  Shape'
<1> USE DEF Shape
<1>0. wk[w] \in WorkerRow
  BY DEF TypeOK
<1>1. CASE Leave(w)
  <2>1. TypeOK'
    BY <1>0, <1>1 DEF TypeOK, Leave, storeVars, WorkerRow, PC
  <2>2. ExecShape' /\ WorkerShape'
    BY <1>0, <1>1 DEF TypeOK, ExecShape, WorkerShape, IsActive, Leave,
                storeVars, WorkerRow, Claimed, PC
  <2> QED BY <2>1, <2>2
<1>2. CASE StopHeartbeat(w)
  <2>1. cmds' \in [CmdId -> CmdRow]
    BY <1>2, FinishType, ZenonT(30) DEF StopHeartbeat, CmdStatus, TypeOK
  <2>2. wk'[w] \in WorkerRow
    <3>1. {"cleanup_error", "release_ws", "release_exec"} \subseteq PC /\ clock \in Nat
      BY DEF TypeOK, PC
    <3>2. \/ wk'[w] = [wk[w] EXCEPT !.cmd = None]
          \/ wk'[w] = [wk[w] EXCEPT !.pc = "cleanup_error", !.cmd = None]
          \/ wk'[w] = Idle
          \/ \E pc \in {"release_ws", "release_exec"} :
                wk'[w] = [wk[w] EXCEPT !.now = clock, !.pc = pc]
      BY <1>2 DEF TypeOK, StopHeartbeat
    <3>3. [wk[w] EXCEPT !.cmd = None] \in WorkerRow
      BY <1>0, <3>1, RowUpdateType
    <3>4. \A pc \in PC : /\ [wk[w] EXCEPT !.pc = pc, !.cmd = None] \in WorkerRow
                         /\ [wk[w] EXCEPT !.now = clock, !.pc = pc] \in WorkerRow
      BY <1>0, <3>1, RowUpdateType
    <3> QED BY <3>1, <3>2, <3>3, <3>4, IdleType, ZenonT(60)
  <2>3. wk' \in [Worker -> WorkerRow] /\ hb' \in [Worker -> HbRow]
    BY <1>2, <2>2, IdleType DEF TypeOK, StopHeartbeat
  <2>4. TypeOK'
    BY <1>2, <2>1, <2>3 DEF TypeOK, StopHeartbeat
  <2>5. \/ wk'[w] = Idle
        \/ /\ wk'[w].task = wk[w].task
           /\ wk'[w].exec = wk[w].exec
           /\ wk'[w].pc \notin {"spawned", "command"}
    BY <1>0, <1>2 DEF TypeOK, StopHeartbeat, WorkerRow
  <2>6. /\ wk[w].task \in Task /\ wk[w].exec \in ExecId
        /\ \A v \in Worker : v # w => wk'[v] = wk[v]
        /\ execs' = execs
    BY <1>2 DEF TypeOK, StopHeartbeat, WorkerShape, Claimed, PC
  <2>7. ExecShape' /\ WorkerShape'
    BY <2>5, <2>6 DEF ExecShape, WorkerShape, IsActive, Idle, Claimed
  <2> QED BY <2>4, <2>7
<1>3. CASE ReleaseWorkspace(w)
  <2>0. wk[w].now \in Nat
    BY <1>0 DEF WorkerRow
  <2>1. wlease' \in [Workspace -> LeaseRow]
    BY <1>3, <2>0, SMTT(40) DEF TypeOK, ReleaseWorkspace, LeaseRow
  <2>2. wk'[w] \in WorkerRow
    BY <1>0, <1>3, IdleType, SMTT(40) DEF TypeOK, ReleaseWorkspace, WorkerRow, PC
  <2>3. TypeOK'
    BY <1>3, <2>1, <2>2 DEF TypeOK, ReleaseWorkspace
  <2>4. \/ wk'[w] = Idle
        \/ /\ wk'[w].task = wk[w].task
           /\ wk'[w].exec = wk[w].exec
           /\ wk'[w].pc = "release_exec"
    BY <1>0, <1>3 DEF TypeOK, ReleaseWorkspace, WorkerRow
  <2>5. /\ \A v \in Worker : v # w => wk'[v] = wk[v]
        /\ execs' = execs
        /\ wk[w].task \in Task /\ wk[w].exec \in ExecId
    BY <1>3 DEF TypeOK, ReleaseWorkspace, WorkerShape, Claimed, PC
  <2>6. ExecShape' /\ WorkerShape'
    BY <2>4, <2>5 DEF ExecShape, WorkerShape, IsActive, Idle, Claimed
  <2> QED BY <2>3, <2>6
<1>4. CASE ReleaseOwnership(w)
  BY <1>4, ReleaseShape DEF ReleaseOwnership, WorkerShape, Claimed, PC
<1> QED BY <1>1, <1>2, <1>3, <1>4 DEF Release

LEMMA NextShape == Shape /\ [Next]_vars => Shape'
<1> SUFFICES ASSUME Shape, [Next]_vars PROVE Shape'
  OBVIOUS
<1>1. CASE UNCHANGED vars
  BY <1>1 DEF vars, Shape, TypeOK, ExecShape, WorkerShape, IsActive
<1>2. CASE Next
  BY <1>2, EnvironmentShape, AcquireShape, HeartbeatShape, RunShape, EndShape
     DEF Next
<1> QED BY <1>1, <1>2

(* Rows and local copies agree: every worker past its claim names a row    *)
(* that exists and belongs to its task (acquire, _with_execution_ownership). *)
THEOREM ShapeCorrect == Spec => []Shape
<1> QED BY InitShape, NextShape, PTL DEF Spec

(* Every row of every table keeps its type, whatever the interleaving of   *)
(* workers, heartbeats, commands and crashes.                              *)
THEOREM TypeCorrect == Spec => []TypeOK
<1>1. Shape => TypeOK
  BY DEF Shape
<1> QED BY <1>1, ShapeCorrect, PTL

-----------------------------------------------------------------------------
(* Exclusion and generations.  Only a claim makes an execution active, and *)
(* nothing changes the task or the generation of an execution afterwards.  *)

ExecFrame ==
    \A d \in ExecId :
        /\ execs'[d].task = execs[d].task
        /\ execs'[d].gen = execs[d].gen
        /\ execs'[d].status \in ActiveStatus => execs[d].status \in ActiveStatus

IsClaim == \E w \in Worker, e \in ExecId, g \in 1..MaxGen : Claim(w, e, g)

LEMMA OnlyClaimActivates ==
    ASSUME Shape, [Next]_vars
    PROVE  IsClaim \/ ExecFrame
<1> USE DEF Shape
<1>1. ASSUME execs' = execs PROVE ExecFrame
  BY <1>1, ZenonT(30) DEF ExecFrame
<1>2. ASSUME NEW w \in Worker, MarkRecoveryRequired(w) PROVE ExecFrame
  BY <1>2 DEF TypeOK, MarkRecoveryRequired, ExecRow, ExecFrame, ActiveStatus
<1>3. ASSUME NEW w \in Worker, RenewExecution(w) PROVE ExecFrame
  BY <1>3 DEF TypeOK, RenewExecution, ExecRow, ExecFrame
<1>4. ASSUME NEW e, ReleaseExecution(e) PROVE ExecFrame
  BY <1>4, ZenonT(30) DEF TypeOK, ReleaseExecution, ExecRow, ExecFrame, ActiveStatus
<1>5. ASSUME NEW w \in Worker, Acquire(w) PROVE IsClaim \/ ExecFrame
  BY <1>1, <1>2, <1>4, <1>5
     DEF Acquire, IsClaim, Prepare, ReconcileStops, ReconcileFails, ClaimRefused,
         ListWorkspaceCommands, AcquireWorkspace, WorkspaceRefused, Rollback, storeVars
<1>6. ASSUME NEW w \in Worker, Heartbeat(w) PROVE ExecFrame
  BY <1>1, <1>3, <1>6
     DEF Heartbeat, HeartbeatWakes, RenewWorkspace, RenewFails, storeVars
<1>7. ASSUME NEW w \in Worker, Run(w) PROVE ExecFrame
  BY <1>1, <1>7
     DEF Run, AssertToolOwnership, Spawn, Register, RegisterRefused, CommandExits,
         TerminateCommand, RecordCleanupFailure, Complete, storeVars
<1>8. ASSUME NEW w \in Worker, Release(w) PROVE ExecFrame
  BY <1>1, <1>4, <1>8
     DEF Release, Leave, StopHeartbeat, ReleaseWorkspace, ReleaseOwnership, storeVars
<1> QED
  BY <1>1, <1>5, <1>6, <1>7, <1>8
     DEF Next, vars, Tick, ProcessExits, StartTask, Crash, storeVars

LEMMA InitExclusive == Init => SessionExclusive /\ NewestIsActive
BY DEF Init, SessionExclusive, NewestIsActive, IsActive, ActiveStatus, NoExec

LEMMA NextExclusive ==
    ASSUME Shape, SessionExclusive, [Next]_vars
    PROVE  SessionExclusive'
<1> USE DEF Shape
<1>1. CASE ExecFrame
  BY <1>1 DEF ExecFrame, SessionExclusive, IsActive, SessionOfExec
<1>2. ASSUME NEW w \in Worker, NEW e \in ExecId, NEW g \in 1..MaxGen, Claim(w, e, g)
      PROVE  SessionExclusive'
  <2>1. execs' = ClaimRows(w, e, g)
    BY <1>2 DEF Claim
  <2>2. ASSUME NEW d \in ExecId, d # e, IsActive(d)'
        PROVE  /\ IsActive(d) /\ execs'[d].task = execs[d].task
               /\ SessionOfExec(d) # SessionOf[wk[w].task]
    BY <2>1, <2>2 DEF ClaimRows, IsActive, ActiveStatus, TypeOK, ExecRow
  <2>3. execs'[e].task = wk[w].task
    BY <2>1 DEF ClaimRows
  <2> QED BY <2>2, <2>3 DEF SessionExclusive, SessionOfExec
<1> QED BY <1>1, <1>2, OnlyClaimActivates DEF IsClaim

LEMMA NextNewest ==
    ASSUME Shape, NewestIsActive, [Next]_vars
    PROVE  NewestIsActive'
<1> USE DEF Shape
<1>1. CASE ExecFrame
  <2>1. ASSUME NEW d \in ExecId, NEW e \in ExecId, IsActive(e)', d # e,
               execs'[d].task = execs'[e].task
        PROVE  execs'[d].gen < execs'[e].gen
    <3>1. IsActive(e) /\ execs[d].task = execs[e].task
      BY <1>1, <2>1 DEF ExecFrame, IsActive
    <3>2. execs[d].status # "none"
      BY <3>1, NoneAssumption DEF ExecShape
    <3> QED BY <1>1, <2>1, <3>1, <3>2 DEF ExecFrame, NewestIsActive
  <2> QED BY <2>1 DEF NewestIsActive
<1>2. ASSUME NEW w \in Worker, NEW c \in ExecId, NEW g \in 1..MaxGen, Claim(w, c, g)
      PROVE  NewestIsActive'
  <2>1. /\ execs' = ClaimRows(w, c, g)
        /\ execs[c].status = "none"
        /\ \A e \in ExecsOf(wk[w].task) : execs[e].gen < g
    BY <1>2 DEF Claim, IsNextGeneration
  <2>2. execs'[c].task = wk[w].task /\ execs'[c].gen = g
    BY <2>1 DEF ClaimRows
  <2>3. ASSUME NEW d \in ExecId, d # c
        PROVE  /\ execs'[d].task = execs[d].task /\ execs'[d].gen = execs[d].gen
               /\ execs'[d].status # "none" => execs[d].status # "none"
               /\ IsActive(d)' => /\ IsActive(d)
                                  /\ SessionOfExec(d) # SessionOf[wk[w].task]
    BY <2>1, <2>3 DEF ClaimRows, IsActive, ActiveStatus, TypeOK, ExecRow
  <2>4. ASSUME NEW d \in ExecId, NEW e \in ExecId, IsActive(e)', d # e,
               execs'[d].status # "none", execs'[d].task = execs'[e].task
        PROVE  execs'[d].gen < execs'[e].gen
    <3>1. CASE e = c
      BY <2>1, <2>2, <2>3, <2>4, <3>1 DEF ExecsOf
    <3>2. CASE e # c /\ d = c
      BY <2>2, <2>3, <2>4, <3>2 DEF SessionOfExec
    <3>3. CASE e # c /\ d # c
      BY <2>3, <2>4, <3>3 DEF NewestIsActive
    <3> QED BY <3>1, <3>2, <3>3
  <2> QED BY <2>4 DEF NewestIsActive
<1> QED BY <1>1, <1>2, OnlyClaimActivates DEF IsClaim

(* A session never has two active executions (claim_execution). *)
THEOREM SessionExclusion == Spec => []SessionExclusive
<1>1. Init => SessionExclusive
  BY InitExclusive
<1>2. Shape /\ SessionExclusive /\ [Next]_vars => SessionExclusive'
  BY NextExclusive
<1> QED BY <1>1, <1>2, ShapeCorrect, PTL DEF Spec

(* The active execution of a task is the newest the task ever had, so that *)
(* the generation in a guard fences every predecessor.                     *)
THEOREM GenerationFencing == Spec => []NewestIsActive
<1>1. Init => NewestIsActive
  BY InitExclusive
<1>2. Shape /\ NewestIsActive /\ [Next]_vars => NewestIsActive'
  BY NextNewest
<1> QED BY <1>1, <1>2, ShapeCorrect, PTL DEF Spec

-----------------------------------------------------------------------------
(* Fencing.  A worker that has started a process and not yet registered it *)
(* is the only one that knows it, and the row names the worker's execution.*)

SpawnShape ==
    /\ \A w \in Worker :
           wk[w].pc = "spawned"
           => /\ cmds[wk[w].cmd].status = "spawned"
              /\ cmds[wk[w].cmd].exec = wk[w].exec
    /\ \A v, w \in Worker :
           wk[v].pc = "spawned" /\ wk[w].pc = "spawned" /\ wk[v].cmd = wk[w].cmd
           => v = w

(* The steps that leave alone the processes not yet registered. *)
SpawnFrame ==
    /\ \A c \in CmdId : cmds[c].status = "spawned" => cmds'[c] = cmds[c]
    /\ \A c \in CmdId : cmds'[c].status = "spawned" => cmds[c].status = "spawned"
    /\ \A w \in Worker : wk'[w].pc = "spawned" => wk'[w] = wk[w]

LEMMA FinishFrame ==
    ASSUME TypeOK, NEW c,
           NEW st \in {"exited", "terminated", "cleanup_failed"}, Finish(c, st)
    PROVE  \A d \in CmdId : /\ cmds[d].status = "spawned" => cmds'[d] = cmds[d]
                            /\ cmds'[d].status = "spawned" => cmds[d].status = "spawned"
<1>1. CASE cmds[c].status \in Unfinished
  BY <1>1 DEF Finish, TypeOK, CmdRow, Unfinished
<1>2. CASE cmds[c].status \notin Unfinished
  BY <1>2 DEF Finish
<1> QED BY <1>1, <1>2

(* The main thread of one worker moves on to a point other than the one    *)
(* between Popen and the registration.                                     *)
Moves(w) ==
    /\ wk'[w].pc # "spawned"
    /\ \A v \in Worker : v # w => wk'[v] = wk[v]

LEMMA OnlyOwnerRegisters ==
    ASSUME Shape, [Next]_vars
    PROVE  \/ SpawnFrame
           \/ \E w \in Worker : \/ \E c \in CmdId : Spawn(w, c)
                                \/ Register(w)
                                \/ RegisterRefused(w)
<1> USE DEF Shape
<1>1. ASSUME cmds' = cmds, wk' = wk PROVE SpawnFrame
  BY <1>1 DEF SpawnFrame
<1>2. ASSUME NEW w \in Worker, cmds' = cmds, Moves(w) PROVE SpawnFrame
  BY <1>2 DEF SpawnFrame, Moves
<1>3. ASSUME NEW w \in Worker, NEW c, Moves(w),
             NEW st \in {"exited", "terminated", "cleanup_failed"}, Finish(c, st)
      PROVE  SpawnFrame
  BY <1>3, FinishFrame DEF SpawnFrame, Moves
<1>4. ASSUME NEW w \in Worker, Crash(w) PROVE SpawnFrame
  BY <1>2, <1>4 DEF Crash, Moves, Idle, TypeOK, storeVars
<1>5. ASSUME NEW w \in Worker, Acquire(w) PROVE SpawnFrame
  <2>0. wk[w] \in WorkerRow
    BY DEF TypeOK
  <2>1. ASSUME NEW t, Prepare(w, t) PROVE SpawnFrame
    BY <1>2, <2>1 DEF Prepare, Moves, Idle, TypeOK, storeVars
  <2>2. ASSUME NEW c, ReconcileStops(w, c) PROVE SpawnFrame
    BY <1>3, <2>0, <2>2 DEF ReconcileStops, Moves, TypeOK, WorkerRow
  <2>3. ASSUME NEW c, ReconcileFails(w, c) PROVE SpawnFrame
    BY <1>3, <2>0, <2>3, ZenonT(30) DEF ReconcileFails, Moves, TypeOK, WorkerRow
  <2>4. CASE MarkRecoveryRequired(w)
    BY <1>2, <2>0, <2>4 DEF MarkRecoveryRequired, Moves, TypeOK, WorkerRow, Idle
  <2>5. ASSUME NEW e, NEW g, Claim(w, e, g) PROVE SpawnFrame
    BY <1>2, <2>0, <2>5 DEF Claim, Moves, TypeOK, WorkerRow
  <2>6. CASE ClaimRefused(w) \/ Rollback(w)
    BY <1>2, <2>6 DEF ClaimRefused, Rollback, Moves, TypeOK, Idle, storeVars
  <2>7. CASE ListWorkspaceCommands(w) \/ AcquireWorkspace(w) \/ WorkspaceRefused(w)
    BY <1>2, <2>0, <2>7
       DEF ListWorkspaceCommands, AcquireWorkspace, WorkspaceRefused, Moves, TypeOK,
           WorkerRow, storeVars
  <2> QED BY <1>5, <2>1, <2>2, <2>3, <2>4, <2>5, <2>6, <2>7 DEF Acquire
<1>6. ASSUME NEW w \in Worker, Heartbeat(w) PROVE SpawnFrame
  BY <1>1, <1>6
     DEF Heartbeat, HeartbeatWakes, RenewExecution, RenewWorkspace, RenewFails, storeVars
<1>7. ASSUME NEW w \in Worker,
             \/ AssertToolOwnership(w) \/ CommandExits(w) \/ TerminateCommand(w)
             \/ RecordCleanupFailure(w) \/ Complete(w)
      PROVE  SpawnFrame
  <2>0. wk[w] \in WorkerRow
    BY DEF TypeOK
  <2>1. CASE AssertToolOwnership(w) \/ RecordCleanupFailure(w) \/ Complete(w)
    BY <1>2, <2>0, <2>1
       DEF AssertToolOwnership, RecordCleanupFailure, Complete, Moves, TypeOK,
           WorkerRow, storeVars
  <2>2. CASE CommandExits(w)
    BY <1>3, <2>0, <2>2 DEF CommandExits, Moves, TypeOK, WorkerRow
  <2>3. CASE TerminateCommand(w)
    <3>1. Moves(w)
      BY <2>0, <2>3 DEF TerminateCommand, Moves, TypeOK, WorkerRow
    <3> QED BY <1>3, <2>3, <3>1 DEF TerminateCommand
  <2> QED BY <1>7, <2>1, <2>2, <2>3
<1>8. ASSUME NEW w \in Worker, Release(w) PROVE SpawnFrame
  <2>0. wk[w] \in WorkerRow
    BY DEF TypeOK
  <2>1. CASE Leave(w) \/ ReleaseWorkspace(w) \/ ReleaseOwnership(w)
    BY <1>2, <2>0, <2>1
       DEF Leave, ReleaseWorkspace, ReleaseOwnership, Moves, TypeOK, WorkerRow,
           Idle, storeVars
  <2>2. CASE StopHeartbeat(w)
    <3>1. Moves(w)
      BY <2>0, <2>2 DEF StopHeartbeat, Moves, TypeOK, WorkerRow, Idle
    <3> QED BY <1>2, <1>3, <2>2, <3>1 DEF StopHeartbeat
  <2> QED BY <1>8, <2>1, <2>2 DEF Release
<1> QED
  BY <1>1, <1>4, <1>5, <1>6, <1>7, <1>8
     DEF Next, Run, vars, Tick, ProcessExits, StartTask, storeVars

LEMMA NextSpawn ==
    ASSUME Shape, SpawnShape, [Next]_vars
    PROVE  SpawnShape'
<1> USE DEF Shape
<1>1. CASE SpawnFrame
  BY <1>1 DEF SpawnFrame, SpawnShape, WorkerShape
<1>2. ASSUME NEW w \in Worker, NEW c \in CmdId, Spawn(w, c) PROVE SpawnShape'
  <2>1. /\ wk'[w].pc = "spawned" /\ wk'[w].cmd = c /\ wk'[w].exec = wk[w].exec
        /\ \A v \in Worker : v # w => wk'[v] = wk[v]
        /\ cmds'[c] = [status |-> "spawned", exec |-> wk[w].exec]
        /\ \A d \in CmdId : d # c => cmds'[d] = cmds[d]
        /\ cmds[c].status = "none"
    BY <1>2 DEF Spawn, TypeOK, WorkerRow
  <2>2. ASSUME NEW v \in Worker, wk[v].pc = "spawned"
        PROVE  wk[v].cmd \in CmdId /\ wk[v].cmd # c
    <3>1. cmds[wk[v].cmd].status = "spawned"
      BY <2>2 DEF SpawnShape
    <3> QED BY <2>1, <2>2, <3>1 DEF WorkerShape
  <2> QED BY <2>1, <2>2 DEF SpawnShape
<1>3. ASSUME NEW w \in Worker, Register(w) \/ RegisterRefused(w) PROVE SpawnShape'
  <2>1. /\ wk'[w].pc # "spawned"
        /\ \A v \in Worker : v # w => wk'[v] = wk[v]
        /\ \A d \in CmdId : d # wk[w].cmd => cmds'[d] = cmds[d]
        /\ wk[w].pc = "spawned"
    <3>0. wk[w] \in WorkerRow
      BY DEF TypeOK
    <3>1. CASE Register(w)
      BY <3>0, <3>1 DEF Register, TypeOK, WorkerRow
    <3>2. CASE RegisterRefused(w)
      BY <3>0, <3>2 DEF RegisterRefused, TypeOK, WorkerRow
    <3> QED BY <1>3, <3>1, <3>2
  <2>2. \A v \in Worker : v # w /\ wk[v].pc = "spawned"
                          => wk[v].cmd \in CmdId /\ wk[v].cmd # wk[w].cmd
    BY <2>1 DEF SpawnShape, WorkerShape
  <2> QED BY <2>1, <2>2 DEF SpawnShape
<1> QED BY <1>1, <1>2, <1>3, OnlyOwnerRegisters

(* Only Complete ends a task. *)
LEMMA OnlyCompleteEnds ==
    ASSUME Shape, [Next]_vars, NEW t \in Task, tasks'[t].ended, ~tasks[t].ended
    PROVE  \E w \in Worker : Complete(w) /\ wk[w].task = t
<1> USE DEF Shape
<1>1. ASSUME tasks' = tasks PROVE FALSE
  BY <1>1
<1>2. ASSUME NEW u, NEW c, tasks' = WithCondition(u, c) PROVE FALSE
  BY <1>2 DEF WithCondition, TypeOK
<1>3. ASSUME NEW e, ReleaseExecution(e) PROVE FALSE
  BY <1>1, <1>2, <1>3 DEF ReleaseExecution
<1>4. ASSUME NEW u, StartTask(u) PROVE FALSE
  BY <1>4, ZenonT(30) DEF StartTask, TypeOK, TaskRow
<1>5. ASSUME NEW w \in Worker, Acquire(w) PROVE FALSE
  BY <1>1, <1>2, <1>3, <1>5
     DEF Acquire, Prepare, ReconcileStops, ReconcileFails, MarkRecoveryRequired,
         Claim, ClaimRefused, ListWorkspaceCommands, AcquireWorkspace,
         WorkspaceRefused, Rollback, storeVars
<1>6. ASSUME NEW w \in Worker, Heartbeat(w) PROVE FALSE
  BY <1>1, <1>6
     DEF Heartbeat, HeartbeatWakes, RenewExecution, RenewWorkspace, RenewFails, storeVars
<1>7. ASSUME NEW w \in Worker, Run(w) PROVE Complete(w) /\ wk[w].task = t
  <2>1. CASE Complete(w)
    BY <2>1 DEF Complete, TypeOK
  <2> QED
    BY <1>1, <1>2, <1>7, <2>1
       DEF Run, AssertToolOwnership, Spawn, Register, RegisterRefused, CommandExits,
           TerminateCommand, RecordCleanupFailure, storeVars
<1>8. ASSUME NEW w \in Worker, Release(w) PROVE FALSE
  BY <1>1, <1>3, <1>8
     DEF Release, Leave, StopHeartbeat, ReleaseWorkspace, ReleaseOwnership, storeVars
<1> QED
  BY <1>1, <1>4, <1>5, <1>6, <1>7, <1>8
     DEF Next, vars, Tick, ProcessExits, Crash, storeVars

LEMMA NewestIsFenced ==
    ASSUME Shape, NewestIsActive, NEW e \in ExecId, GuardOK(e, clock)
    PROVE  IsFenced(e)
<1>1. ASSUME NEW d \in ExecsOf(execs[e].task) PROVE execs[d].gen <= execs[e].gen
  <2>1. d \in ExecId /\ execs[d].gen \in Nat /\ execs[e].gen \in Nat
    BY DEF ExecsOf, Shape, TypeOK, ExecRow
  <2> QED BY <2>1 DEF ExecsOf, NewestIsActive, GuardOK
<1> QED BY <1>1 DEF IsFenced

LEMMA FencedNext ==
    ASSUME Shape, NewestIsActive, SpawnShape, [Next]_vars
    PROVE  FencedStep
<1> USE DEF Shape
<1>1. ASSUME NEW t \in Task, tasks'[t].ended, ~tasks[t].ended
      PROVE  \E e \in ExecsOf(t) : IsFenced(e)
  <2>1. PICK w \in Worker : Complete(w) /\ wk[w].task = t
    BY <1>1, OnlyCompleteEnds
  <2>2. wk[w].exec \in ExecId /\ GuardOK(wk[w].exec, clock)
    BY <2>1 DEF Complete, UpdateAllowed, WorkerShape, Claimed, PC
  <2>3. wk[w].exec \in ExecsOf(t)
    BY <2>1, <2>2, NoneAssumption DEF WorkerShape, ExecsOf
  <2> QED BY <2>2, <2>3, NewestIsFenced
<1>2. ASSUME NEW c \in CmdId, cmds[c].status = "spawned", cmds'[c].status = "running"
      PROVE  IsFenced(cmds[c].exec)
  <2>1. ~SpawnFrame
    BY <1>2 DEF SpawnFrame
  <2>2. ASSUME NEW w \in Worker, NEW d \in CmdId, Spawn(w, d) PROVE FALSE
    BY <1>2, <2>2 DEF Spawn, TypeOK
  <2>3. ASSUME NEW w \in Worker, RegisterRefused(w) PROVE FALSE
    BY <1>2, <2>3 DEF RegisterRefused, TypeOK, NoCmd
  <2>4. PICK w \in Worker : Register(w)
    BY <2>1, <2>2, <2>3, OnlyOwnerRegisters
  <2>5. c = wk[w].cmd
    BY <1>2, <2>4 DEF Register, TypeOK
  <2>6. cmds[c].exec = wk[w].exec /\ wk[w].exec \in ExecId
    BY <2>4, <2>5 DEF Register, SpawnShape, WorkerShape, Claimed, PC
  <2> QED BY <2>4, <2>6, NewestIsFenced DEF Register
<1> QED BY <1>1, <1>2 DEF FencedStep

(* Only the newest execution of a task, active and unexpired at the commit,*)
(* ends the task (update_task) or registers a command                      *)
(* (register_managed_command).                                             *)
THEOREM Fencing == Spec => FencedWrites
<1>1. Init => SpawnShape
  BY DEF Init, SpawnShape, Idle
<1>2. Shape /\ SpawnShape /\ [Next]_vars => SpawnShape'
  BY NextSpawn
<1>3. Shape /\ NewestIsActive /\ SpawnShape /\ [Next]_vars => [FencedStep]_vars
  BY FencedNext
<1> QED
  BY <1>1, <1>2, <1>3, ShapeCorrect, GenerationFencing, PTL DEF Spec, FencedWrites

-----------------------------------------------------------------------------
(***************************************************************************)
(* The writer lease of a workspace, and what a takeover finds of the       *)
(* commands of the owners before it.                                       *)
(***************************************************************************)

(* The points of acquire before and after the claim, at which no heartbeat *)
(* runs and no command was started, and those of the release.              *)
Before == {"idle", "reconcile_task"}
Acquiring == {"mark", "list_ws", "reconcile_ws", "rollback"}
Releasing == {"release_ws", "release_exec"}

(* Those at which a worker has a command at hand. *)
Handling == {"mark", "spawned", "command", "stopping"}

(* Rows name rows that exist. *)
References ==
    /\ \A e \in ExecId : execs[e].status # "none" => execs[e].task \in Task
    /\ \A x \in Workspace :
           wlease[x].exec # None => execs[wlease[x].exec].status # "none"
    /\ \A c \in CmdId :
           cmds[c].status # "none" => /\ cmds[c].exec \in ExecId
                                      /\ execs[cmds[c].exec].status # "none"

(* An execution has one owner, whose heartbeat runs between acquire and    *)
(* the release; clock readings are not ahead of the clock.                 *)
Owners ==
    \A w \in Worker :
        /\ wk[w].pc \in Before => wk[w].exec = None
        /\ \A v \in Worker : wk[w].exec # None /\ wk[v].exec = wk[w].exec => v = w
        /\ wk[w].pc \in Before \cup Acquiring \cup Releasing => hb[w].pc = "off"
        /\ wk[w].now <= clock
        /\ hb[w].now <= clock

(* The execution's lease when its owner is about to extend it, or to take  *)
(* or to extend the writer lease.                                          *)
Extensions ==
    \A w \in Worker :
        /\ wk[w].exec # None => execs[wk[w].exec].expires <= clock + TTL
        /\ wk[w].pc \in {"list_ws", "reconcile_ws"} =>
               execs[wk[w].exec].expires = wk[w].now + TTL
        /\ hb[w].pc = "renew_exec" => execs[wk[w].exec].expires <= hb[w].now + TTL
        /\ hb[w].pc = "renew_ws" => execs[wk[w].exec].expires = hb[w].now + TTL

LeaseInv == References /\ Owners /\ Extensions /\ LeaseNesting

(* What a worker knows of commands is what the table says. *)
Registered(c) == cmds[c].status \notin {"none", "spawned"}

KnownTo(w) ==
    /\ \A c \in wk[w].todo : Registered(c)
    /\ wk[w].pc = "mark" => wk[w].cmd \in CmdId /\ Registered(wk[w].cmd)
    /\ wk[w].pc = "command" => Registered(wk[w].cmd)
    /\ wk[w].pc \notin Handling => wk[w].cmd = None
    /\ wk[w].pc # "stopping" => ~wk[w].failed

Commands ==
    /\ \A w \in Worker : KnownTo(w)
    /\ \A c \in covered : Registered(c)
    /\ \A c \in alive : cmds[c].status \in {"spawned"} \cup Unfinished

(* A registered process that still runs. *)
Running(c) == c \in alive /\ cmds[c].status \in Unfinished

(* An owner knows the running command of its execution, unless its cleanup *)
(* has failed; an execution is released by its owner without any, or by a  *)
(* claim after its lease has expired.                                      *)
OwnerKnows(w) ==
    \A c \in CmdId :
        /\ wk[w].exec # None
        /\ wk[w].pc # "cleanup_error" /\ ~wk[w].failed
        /\ cmds[c].exec = wk[w].exec
        /\ Running(c)
        => wk[w].cmd = c /\ wk[w].pc \notin Acquiring

Known ==
    /\ \A w \in Worker : OwnerKnows(w)
    /\ \A c \in CmdId :
           Running(c) /\ execs[cmds[c].exec].status = "released"
           => execs[cmds[c].exec].expires <= clock
    /\ \A e \in ExecId :
           execs[e].status = "recovery_required"
           => tasks[execs[e].task].cond = "recovery_required"

(* A worker that may still claim its task has found every running command  *)
(* of it, except those of an execution that blocks the claim.              *)
MayClaim(w) ==
    /\ wk[w].pc = "reconcile_task"
    /\ tasks[wk[w].task].version = wk[w].version

Found ==
    \A w \in Worker :
        /\ wk[w].pc = "reconcile_task" => wk[w].version <= tasks[wk[w].task].version
        /\ MayClaim(w) => active[SessionOf[wk[w].task]] = wk[w].task
        /\ MayClaim(w) /\ tasks[wk[w].task].cond # "recovery_required" =>
               \A c \in CmdId :
                   Running(c) /\ execs[cmds[c].exec].task = wk[w].task
                   => \/ c \in wk[w].todo
                      \/ /\ IsActive(cmds[c].exec)
                         /\ execs[cmds[c].exec].expires > wk[w].now

(* A worker that is about to take a workspace has found the running        *)
(* commands of its writer, unless that one's lease has not expired.        *)
FoundInWorkspace ==
    \A w \in Worker :
        LET x == WorkspaceOf[wk[w].task]
        IN  wk[w].pc = "reconcile_ws" =>
                \A c \in covered :
                    Running(c) /\ WorkspaceOf[execs[cmds[c].exec].task] = x
                    => c \in wk[w].todo \/ wlease[x].expires > wk[w].now

TakeoverInv ==
    /\ Commands /\ Known /\ Found /\ FoundInWorkspace
    /\ TaskTakeoverClean /\ WorkspaceTakeoverClean

-----------------------------------------------------------------------------
(* Leases.  LeaseInv is inductive, given Shape. *)

(* What a worker and its heartbeat may do with an execution that they do   *)
(* not extend.                                                             *)
Keeps(w) ==
    /\ wk'[w].exec \in {wk[w].exec, None}
    /\ wk'[w].pc \in Before => wk'[w].exec = None
    /\ wk'[w].pc \in Before \cup Acquiring \cup Releasing => hb'[w].pc = "off"
    /\ wk'[w].pc \in {"list_ws", "reconcile_ws"} =>
           wk[w].pc \in {"list_ws", "reconcile_ws"} /\ wk'[w].now = wk[w].now
    /\ wk'[w].now \in {0, wk[w].now, clock}
    /\ hb'[w] = hb[w] \/ hb'[w].pc \notin {"renew_exec", "renew_ws"}
    /\ hb'[w].now \in {0, hb[w].now, clock}
    /\ hb'[w].pc # "off" => wk'[w].exec = wk[w].exec

(* A step that neither inserts nor extends a lease and leaves to each      *)
(* worker its execution, or takes it away.                                 *)
SameLeases ==
    \A e \in ExecId : /\ execs'[e].task = execs[e].task
                      /\ execs'[e].expires = execs[e].expires
                      /\ execs'[e].status = "none" <=> execs[e].status = "none"

LeaseFrame ==
    /\ SameLeases /\ wlease' = wlease /\ clock' >= clock
    /\ \A c \in CmdId : cmds'[c].status # "none" /\ cmds[c].status # "none"
                        => cmds'[c].exec = cmds[c].exec
    /\ \A c \in CmdId : cmds'[c].status # "none" /\ cmds[c].status = "none"
                        => \E w \in Worker : wk[w].exec # None /\ cmds'[c].exec = wk[w].exec
    /\ \A w \in Worker : Keeps(w)

LEMMA FrameKeepsLeases ==
    ASSUME Shape, LeaseInv, Shape', LeaseFrame
    PROVE  LeaseInv'
<1> USE TTLAssumption DEF Shape, LeaseInv, LeaseFrame, Keeps, SameLeases
<1>0. clock \in Nat /\ clock' \in Nat
  BY DEF TypeOK
<1>a. \A w \in Worker : wk[w].exec # None =>
          wk[w].exec \in ExecId /\ execs[wk[w].exec].status # "none"
  BY DEF TypeOK, WorkerRow, WorkerShape
<1>1. References'
  <2>1. \A e \in ExecId : execs'[e].status # "none" => execs'[e].task \in Task
    BY DEF References
  <2>2. \A x \in Workspace :
            wlease'[x].exec # None => execs'[wlease'[x].exec].status # "none"
    BY DEF References, TypeOK, LeaseRow
  <2>3. \A c \in CmdId :
            cmds'[c].status # "none" => /\ cmds'[c].exec \in ExecId
                                        /\ execs'[cmds'[c].exec].status # "none"
    BY <1>a DEF References
  <2> QED BY <2>1, <2>2, <2>3 DEF References
<1>2. ASSUME NEW w \in Worker
      PROVE  /\ wk'[w].now <= clock' /\ hb'[w].now <= clock'
  <2>1. wk[w].now \in Nat /\ hb[w].now \in Nat /\ wk[w].now <= clock /\ hb[w].now <= clock
    BY DEF TypeOK, WorkerRow, HbRow, Owners
  <2> QED BY <1>0, <2>1
<1>3. Owners'
  BY <1>2 DEF Owners
<1>4. Extensions'
  <2> SUFFICES ASSUME NEW w \in Worker
               PROVE  /\ wk'[w].exec # None => execs'[wk'[w].exec].expires <= clock' + TTL
                      /\ wk'[w].pc \in {"list_ws", "reconcile_ws"} =>
                             execs'[wk'[w].exec].expires = wk'[w].now + TTL
                      /\ hb'[w].pc = "renew_exec" =>
                             execs'[wk'[w].exec].expires <= hb'[w].now + TTL
                      /\ hb'[w].pc = "renew_ws" =>
                             execs'[wk'[w].exec].expires = hb'[w].now + TTL
    BY DEF Extensions
  <2>1. wk'[w].exec # None => execs'[wk'[w].exec].expires <= clock' + TTL
    <3>1. ASSUME wk[w].exec # None
          PROVE  /\ execs'[wk[w].exec].expires = execs[wk[w].exec].expires
                 /\ execs[wk[w].exec].expires \in Nat
      BY <1>a, <3>1 DEF TypeOK, ExecRow
    <3> QED BY <1>0, <3>1 DEF Extensions
  <2>2. wk'[w].pc \in {"list_ws", "reconcile_ws"} => wk'[w].exec = wk[w].exec
    BY NoneAssumption DEF WorkerShape, Claimed, PC
  <2>3. ASSUME hb'[w].pc \in {"renew_exec", "renew_ws"}
        PROVE  wk'[w].exec = wk[w].exec /\ hb'[w] = hb[w] /\ wk[w].exec \in ExecId
    BY <2>3 DEF Owners, WorkerShape, TypeOK, WorkerRow, Claimed, Before, Acquiring, PC
  <2>4. ASSUME wk'[w].pc \in {"list_ws", "reconcile_ws"}
        PROVE  wk[w].exec \in ExecId
    BY <2>4 DEF WorkerShape, Claimed, PC
  <2> QED BY <2>1, <2>2, <2>3, <2>4 DEF Extensions
<1>5. LeaseNesting'
  BY DEF LeaseNesting, TypeOK, LeaseRow
<1> QED BY <1>1, <1>3, <1>4, <1>5

(* The other workers and their heartbeats. *)
Alone(w) == \A v \in Worker : v # w => wk'[v] = wk[v] /\ hb'[v] = hb[v]

LEMMA AloneKeeps ==
    ASSUME LeaseInv, NEW w \in Worker, Alone(w), Keeps(w)
    PROVE  \A v \in Worker : Keeps(v)
BY DEF LeaseInv, Owners, Alone, Keeps

LEMMA UnchangedKeeps ==
    ASSUME LeaseInv, wk' = wk, hb' = hb
    PROVE  \A v \in Worker : Keeps(v)
BY DEF LeaseInv, Owners, Keeps

LEMMA FinishKeeps ==
    ASSUME TypeOK, NEW c, NEW st \in CmdStatus \ {"none", "spawned"}, Finish(c, st)
    PROVE  \A d \in CmdId : /\ cmds'[d].exec = cmds[d].exec
                            /\ Registered(d)' = Registered(d)
                            /\ cmds'[d].status = "none" <=> cmds[d].status = "none"
<1>1. CASE cmds[c].status \in Unfinished
  BY <1>1 DEF Finish, TypeOK, CmdRow, Unfinished, Registered
<1>2. CASE cmds[c].status \notin Unfinished
  BY <1>2 DEF Finish, Registered
<1> QED BY <1>1, <1>2

LEMMA QuietFrame ==
    ASSUME Shape, execs' = execs, wlease' = wlease, clock' = clock, \A v \in Worker : Keeps(v),
           \A d \in CmdId : /\ cmds'[d].exec = cmds[d].exec
                            /\ cmds'[d].status = "none" <=> cmds[d].status = "none"
    PROVE  LeaseFrame
BY DEF LeaseFrame, SameLeases, Shape, TypeOK

LEMMA AcquireFrame ==
    ASSUME Shape, LeaseInv, NEW w \in Worker,
           \/ \E t \in Serves[w] : Prepare(w, t)
           \/ \E c \in CmdId : ReconcileStops(w, c) \/ ReconcileFails(w, c)
           \/ ClaimRefused(w)
           \/ ListWorkspaceCommands(w)
           \/ WorkspaceRefused(w)
    PROVE  LeaseFrame
<1> USE DEF Shape
<1>0. /\ wk[w] \in WorkerRow /\ hb[w] \in HbRow /\ clock \in Nat
      /\ wk[w].pc \in Before => wk[w].exec = None
      /\ wk[w].pc \in Before \cup Acquiring => hb[w].pc = "off"
  BY DEF TypeOK, LeaseInv, Owners
<1>1. ASSUME NEW t, Prepare(w, t) PROVE LeaseFrame
  <2>1. Alone(w) /\ Keeps(w)
    BY <1>0, <1>1 DEF Prepare, Idle, TypeOK, Alone, Keeps, Before, Acquiring, Releasing
  <2> QED BY <1>1, <2>1, AloneKeeps, QuietFrame DEF Prepare, storeVars
<1>2. ASSUME NEW c, ReconcileStops(w, c) PROVE LeaseFrame
  <2>1. Alone(w) /\ Keeps(w)
    BY <1>0, <1>2 DEF ReconcileStops, TypeOK, WorkerRow, Alone, Keeps, Before, Acquiring, Releasing
  <2>2. \A d \in CmdId : /\ cmds'[d].exec = cmds[d].exec
                         /\ cmds'[d].status = "none" <=> cmds[d].status = "none"
    BY <1>2, FinishKeeps DEF ReconcileStops, CmdStatus
  <2> QED BY <1>2, <2>1, <2>2, AloneKeeps, QuietFrame DEF ReconcileStops
<1>3. ASSUME NEW c, ReconcileFails(w, c) PROVE LeaseFrame
  <2>1. Alone(w) /\ Keeps(w)
    BY <1>0, <1>3 DEF ReconcileFails, TypeOK, WorkerRow, Alone, Keeps, Before, Acquiring, Releasing
  <2>2. \A d \in CmdId : /\ cmds'[d].exec = cmds[d].exec
                         /\ cmds'[d].status = "none" <=> cmds[d].status = "none"
    BY <1>3, FinishKeeps DEF ReconcileFails, CmdStatus
  <2> QED BY <1>3, <2>1, <2>2, AloneKeeps, QuietFrame DEF ReconcileFails
<1>4. CASE ClaimRefused(w)
  <2>1. Alone(w) /\ Keeps(w)
    BY <1>0, <1>4 DEF ClaimRefused, Idle, TypeOK, Alone, Keeps, Before, Acquiring, Releasing
  <2> QED BY <1>4, <2>1, AloneKeeps, QuietFrame DEF ClaimRefused, storeVars
<1>5. CASE ListWorkspaceCommands(w) \/ WorkspaceRefused(w)
  <2>1. Alone(w) /\ Keeps(w)
    BY <1>0, <1>5 DEF ListWorkspaceCommands, WorkspaceRefused, TypeOK, WorkerRow, Alone,
                      Keeps, Before, Acquiring, Releasing
  <2> QED
    BY <1>5, <2>1, AloneKeeps, QuietFrame
       DEF ListWorkspaceCommands, WorkspaceRefused, storeVars
<1> QED BY <1>1, <1>2, <1>3, <1>4, <1>5

LEMMA RunFrame ==
    ASSUME Shape, SpawnShape, LeaseInv, NEW w \in Worker, Run(w)
    PROVE  LeaseFrame
<1> USE DEF Shape
<1>0. /\ wk[w] \in WorkerRow /\ hb[w] \in HbRow /\ clock \in Nat
      /\ wk[w].pc \in Claimed => wk[w].exec \in ExecId
  BY DEF TypeOK, WorkerShape
<1>1. Alone(w) /\ Keeps(w)
  <2>1. CASE AssertToolOwnership(w) \/ RecordCleanupFailure(w) \/ Complete(w)
    BY <1>0, <2>1 DEF AssertToolOwnership, RecordCleanupFailure, Complete, TypeOK,
         WorkerRow, Alone, Keeps, Before, Acquiring, Releasing
  <2>2. CASE (\E c \in CmdId : Spawn(w, c)) \/ Register(w)
    BY <1>0, <2>2 DEF Spawn, Register, TypeOK, WorkerRow, Alone, Keeps, Before,
         Acquiring, Releasing
  <2>3. CASE RegisterRefused(w)
    BY <1>0, <2>3 DEF RegisterRefused, TypeOK, WorkerRow, Alone, Keeps, Before,
         Acquiring, Releasing
  <2>4. CASE CommandExits(w)
    BY <1>0, <2>4 DEF CommandExits, TypeOK, WorkerRow, Alone, Keeps, Before,
         Acquiring, Releasing
  <2>5. CASE TerminateCommand(w)
    BY <1>0, <2>5 DEF TerminateCommand, TypeOK, WorkerRow, Alone, Keeps, Before,
         Acquiring, Releasing
  <2> QED BY <2>1, <2>2, <2>3, <2>4, <2>5 DEF Run
<1>2. execs' = execs /\ wlease' = wlease /\ clock' = clock
  BY DEF Run, AssertToolOwnership, Spawn, Register, RegisterRefused, CommandExits,
         TerminateCommand, RecordCleanupFailure, Complete, storeVars
<1>3. \A c \in CmdId :
          cmds'[c].status # "none" =>
            IF cmds[c].status # "none" THEN cmds'[c].exec = cmds[c].exec
            ELSE wk[w].exec # None /\ cmds'[c].exec = wk[w].exec
  <2>1. CASE AssertToolOwnership(w) \/ RecordCleanupFailure(w) \/ Complete(w)
    BY <2>1 DEF AssertToolOwnership, RecordCleanupFailure, Complete, storeVars
  <2>2. ASSUME NEW c \in CmdId, Spawn(w, c) PROVE <1>3
    BY <1>0, <2>2, NoneAssumption DEF Spawn, TypeOK, CmdRow, Claimed, PC
  <2>3. CASE Register(w)
    BY <2>3 DEF Register, TypeOK, CmdRow, WorkerShape, SpawnShape
  <2>4. CASE RegisterRefused(w)
    BY <2>4, SMTT(40) DEF RegisterRefused, TypeOK, CmdRow, NoCmd
  <2>5. CASE CommandExits(w) \/ TerminateCommand(w)
    BY <2>5, FinishKeeps DEF CommandExits, TerminateCommand, CmdStatus
  <2> QED BY <2>1, <2>2, <2>3, <2>4, <2>5 DEF Run
<1> QED BY <1>0, <1>1, <1>2, <1>3, AloneKeeps DEF LeaseFrame, SameLeases

LEMMA OtherFrame ==
    ASSUME Shape, LeaseInv,
           \/ Tick
           \/ \E c \in CmdId : ProcessExits(c)
           \/ \E t \in Task : StartTask(t)
           \/ \E w \in Worker : \/ Crash(w) \/ RenewFails(w) \/ Leave(w) \/ StopHeartbeat(w)
           \/ UNCHANGED vars
    PROVE  LeaseFrame
<1> USE DEF Shape
<1>1. CASE Tick
  BY <1>1, UnchangedKeeps DEF Tick, storeVars, LeaseFrame, SameLeases, TypeOK
<1>2. CASE \/ UNCHANGED vars
           \/ \E c \in CmdId : ProcessExits(c)
           \/ \E t \in Task : StartTask(t)
  BY <1>2, UnchangedKeeps, QuietFrame DEF ProcessExits, StartTask, storeVars, vars
<1>3. ASSUME NEW w \in Worker, Crash(w) PROVE LeaseFrame
  <2>1. Alone(w) /\ Keeps(w)
    BY <1>3 DEF Crash, Idle, HbOff, TypeOK, Alone, Keeps
  <2> QED BY <1>3, <2>1, AloneKeeps, QuietFrame DEF Crash, storeVars
<1>4. ASSUME NEW w \in Worker, RenewFails(w) PROVE LeaseFrame
  <2>1. hb[w].pc # "off"
    BY <1>4 DEF RenewFails
  <2>2. Alone(w) /\ Keeps(w)
    BY <1>4, <2>1 DEF RenewFails, TypeOK, Alone, Keeps, LeaseInv, Owners
  <2> QED BY <1>4, <2>2, AloneKeeps, QuietFrame DEF RenewFails, storeVars
<1>5. ASSUME NEW w \in Worker, Leave(w) PROVE LeaseFrame
  <2>0. wk[w] \in WorkerRow
    BY DEF TypeOK
  <2>1. Alone(w) /\ Keeps(w)
    BY <1>5, <2>0 DEF Leave, TypeOK, WorkerRow, Alone, Keeps, Before, Acquiring, Releasing
  <2> QED BY <1>5, <2>1, AloneKeeps, QuietFrame DEF Leave, storeVars
<1>6. ASSUME NEW w \in Worker, StopHeartbeat(w) PROVE LeaseFrame
  <2>0. wk[w] \in WorkerRow
    BY DEF TypeOK
  <2>1. /\ Alone(w)
        /\ hb'[w] = HbOff
    BY <1>6 DEF StopHeartbeat, TypeOK, Alone
  <2>2. \/ wk'[w] = Idle
        \/ /\ wk'[w].exec = wk[w].exec
           /\ wk'[w].pc \in {"stopping", "cleanup_error"} \cup Releasing
           /\ wk'[w].now \in {wk[w].now, clock}
    BY <1>6, <2>0 DEF StopHeartbeat, TypeOK, WorkerRow, Releasing
  <2>3. Keeps(w)
    BY <2>1, <2>2 DEF Keeps, Before, Acquiring, Releasing, Idle, HbOff
  <2>4. \A d \in CmdId : /\ cmds'[d].exec = cmds[d].exec
                         /\ cmds'[d].status = "none" <=> cmds[d].status = "none"
    BY <1>6, FinishKeeps DEF StopHeartbeat, CmdStatus
  <2> QED BY <1>6, <2>1, <2>3, <2>4, AloneKeeps, QuietFrame DEF StopHeartbeat
<1> QED BY <1>1, <1>2, <1>3, <1>4, <1>5, <1>6

(* The steps that only take an execution away. *)
LEMMA LoseFrame ==
    ASSUME Shape, Commands, LeaseInv, NEW w \in Worker,
           MarkRecoveryRequired(w) \/ Rollback(w) \/ ReleaseOwnership(w)
    PROVE  LeaseFrame
<1> USE DEF Shape
<1>0. /\ wk[w] \in WorkerRow /\ clock \in Nat
      /\ wk[w].pc \in Acquiring \cup Releasing => hb[w].pc = "off"
  BY DEF TypeOK, LeaseInv, Owners
<1>1. ASSUME NEW e, execs[e].status # "none", NEW st \in ExecStatus \ {"none"},
             execs' = [execs EXCEPT ![e].status = st]
      PROVE  SameLeases
  BY <1>1 DEF SameLeases, TypeOK, ExecRow
<1>2. CASE MarkRecoveryRequired(w)
  <2>1. Alone(w) /\ Keeps(w)
    BY <1>0, <1>2, ZenonT(60) DEF MarkRecoveryRequired, TypeOK, WorkerRow, Idle, Alone, Keeps,
                      Before, Acquiring, Releasing
  <2>2. PICK e \in ExecId : e = cmds[wk[w].cmd].exec /\ execs[e].status # "none"
    BY <1>2, ZenonT(60) DEF MarkRecoveryRequired, Commands, KnownTo, Registered, LeaseInv, References
  <2>a. execs' = [execs EXCEPT ![e].status = "recovery_required"]
    BY <1>2, <2>2 DEF MarkRecoveryRequired
  <2>b. "recovery_required" \in ExecStatus \ {"none"}
    BY ZenonT(30) DEF ExecStatus
  <2>3. SameLeases
    BY <1>1, <2>2, <2>a, <2>b
  <2>4. wlease' = wlease /\ clock' = clock /\ cmds' = cmds
    BY <1>2 DEF MarkRecoveryRequired
  <2> QED BY <1>0, <2>1, <2>3, <2>4, AloneKeeps, SMTT(40) DEF LeaseFrame
<1>3. CASE Rollback(w) \/ ReleaseOwnership(w)
  <2>1. Alone(w) /\ Keeps(w)
    BY <1>0, <1>3, SMTT(40) DEF Rollback, ReleaseOwnership, TypeOK, Idle, Alone, Keeps,
                      Before, Acquiring, Releasing
  <2>2. SameLeases
    <3>1. CASE GuardOK(wk[w].exec, wk[w].now)
      BY <1>1, <1>3, <3>1
         DEF Rollback, ReleaseOwnership, ReleaseExecution, GuardOK, IsActive,
             ActiveStatus, ExecStatus
    <3>2. CASE ~GuardOK(wk[w].exec, wk[w].now)
      BY <1>3, <3>2 DEF Rollback, ReleaseOwnership, SameLeases
    <3> QED BY <3>1, <3>2, ZenonT(30)
  <2> QED BY <1>0, <1>3, <2>1, <2>2, AloneKeeps DEF Rollback, ReleaseOwnership, LeaseFrame
<1> QED BY <1>2, <1>3

(* The steps that insert or extend a lease, or end the writer lease. *)
LEMMA ClaimLease ==
    ASSUME Shape, LeaseInv, Shape', NEW w \in Worker, NEW e \in ExecId, NEW g \in 1..MaxGen,
           Claim(w, e, g)
    PROVE  LeaseInv'
<1> USE DEF Shape, LeaseInv
<1>0. /\ wk[w] \in WorkerRow /\ hb[w] \in HbRow /\ clock \in Nat /\ TTL \in Nat
      /\ wk[w].pc = "reconcile_task" /\ wk[w].task \in Task
      /\ wk[w].exec = None /\ hb[w].pc = "off" /\ wk[w].now <= clock /\ wk[w].now \in Nat
      /\ hb[w].now <= clock /\ hb[w].now \in Nat
      /\ execs[e].status = "none" /\ e # None
  BY TTLAssumption, NoneAssumption
     DEF TypeOK, Owners, WorkerShape, Claim, Before, WorkerRow, HbRow
<1>1. /\ execs'[e].status = "running" /\ execs'[e].task = wk[w].task
      /\ execs'[e].expires = wk[w].now + TTL
  BY DEF Claim, ClaimRows
<1>2. \A d \in ExecId : d # e => /\ execs'[d].task = execs[d].task
                                 /\ execs'[d].expires = execs[d].expires
                                 /\ execs'[d].status = "none" <=> execs[d].status = "none"
  BY DEF Claim, ClaimRows, TypeOK, ExecRow, IsActive, ActiveStatus
<1>3. /\ Alone(w)
      /\ wk'[w].exec = e
      /\ wk'[w].pc \in {"list_ws", "own"} /\ wk'[w].now \in {0, wk[w].now}
      /\ wk'[w].pc = "list_ws" => hb'[w] = hb[w] /\ wk'[w].now = wk[w].now
      /\ hb'[w].pc \in {"off", "wait"} /\ hb'[w].now = hb[w].now
  BY <1>0 DEF Claim, TypeOK, WorkerRow, HbRow, Alone
<1>4. wlease' = wlease /\ cmds' = cmds /\ clock' = clock
  BY DEF Claim
<1>5. References'
  BY <1>0, <1>1, <1>2, <1>4, ZenonT(60) DEF References, TypeOK, LeaseRow
<1>6. \A v \in Worker : wk[v].exec # e
  BY <1>0 DEF WorkerShape
<1>7. Owners'
  BY <1>0, <1>3, <1>4, <1>6 DEF Owners, Alone, Before, Acquiring, Releasing
<1>8. Extensions'
  <2>1. ASSUME NEW v \in Worker, v # w
        PROVE  wk'[v] = wk[v] /\ hb'[v] = hb[v] /\ (wk[v].exec # None => wk[v].exec \in ExecId)
    BY <1>3, <2>1 DEF Alone, TypeOK, WorkerRow
  <2>2. ASSUME NEW v \in Worker, hb[v].pc # "off" \/ wk[v].pc \in {"list_ws", "reconcile_ws"}
        PROVE  wk[v].exec \in ExecId
    BY <2>2 DEF Owners, WorkerShape, TypeOK, WorkerRow, Claimed, Before, Acquiring, PC
  <2> QED
    BY <1>0, <1>1, <1>2, <1>3, <1>4, <1>6, <2>1, <2>2 DEF Extensions
<1>9. LeaseNesting'
  BY <1>0, <1>2, <1>4 DEF LeaseNesting, References, TypeOK, LeaseRow
<1> QED BY <1>5, <1>7, <1>8, <1>9

(* The lease of an owner's execution is not shared: nobody else extends it *)
(* or takes it for granted.                                                *)
LEMMA OwnerAlone ==
    ASSUME Shape, LeaseInv, NEW w \in Worker, wk[w].exec # None
    PROVE  /\ wk[w].exec \in ExecId
           /\ execs[wk[w].exec].expires \in Nat
           /\ \A v \in Worker : v # w => wk[v].exec # wk[w].exec
BY DEF Shape, TypeOK, WorkerRow, ExecRow, LeaseInv, Owners

LEMMA HeartbeatOwns ==
    ASSUME Shape, LeaseInv, NEW w \in Worker, hb[w].pc # "off"
    PROVE  /\ wk[w].exec \in ExecId /\ wk[w].exec # None
           /\ wk[w].task \in Task /\ WorkspaceOf[wk[w].task] \in Workspace
           /\ wk[w].pc \notin Before \cup Acquiring \cup Releasing
BY NoneAssumption, MapAssumption
   DEF Shape, TypeOK, WorkerRow, LeaseInv, Owners, WorkerShape, Claimed, Before,
       Acquiring, Releasing, PC

LEMMA HeartbeatLease ==
    ASSUME Shape, LeaseInv, Shape', NEW w \in Worker,
           HeartbeatWakes(w) \/ RenewExecution(w) \/ RenewWorkspace(w)
    PROVE  LeaseInv'
<1> USE DEF Shape, LeaseInv
<1>0. /\ hb[w] \in HbRow /\ hb[w].now \in Nat /\ hb[w].now <= clock
      /\ clock \in Nat /\ TTL \in Nat
      /\ hb[w].pc # "off"
  BY TTLAssumption
     DEF TypeOK, HbRow, Owners, HeartbeatWakes, RenewExecution, RenewWorkspace
<1>1. /\ wk' = wk /\ cmds' = cmds /\ clock' = clock
      /\ \A v \in Worker : v # w => hb'[v] = hb[v]
  BY DEF HeartbeatWakes, RenewExecution, RenewWorkspace, storeVars, TypeOK
<1>2. PICK e \in ExecId : e = wk[w].exec /\ e # None
  BY <1>0, HeartbeatOwns
<1>3. /\ execs[e].expires \in Nat /\ execs[e].expires <= clock + TTL
      /\ \A v \in Worker : v # w => wk[v].exec # e
  BY <1>2, OwnerAlone DEF Extensions
<1>4. wk[w].pc \notin Before \cup Acquiring \cup Releasing
  BY <1>0, HeartbeatOwns
<1>5. CASE HeartbeatWakes(w)
  <2>1. execs' = execs /\ wlease' = wlease /\ hb'[w] = [pc |-> "renew_exec", now |-> clock]
    BY <1>5 DEF HeartbeatWakes, storeVars, TypeOK
  <2>2. Owners'
    BY <1>0, <1>1, <1>4, <2>1 DEF Owners
  <2>3. Extensions'
    BY <1>0, <1>1, <1>2, <1>3, <2>1 DEF Extensions
  <2> QED BY <1>1, <2>1, <2>2, <2>3 DEF References, LeaseNesting
<1>6. CASE RenewExecution(w)
  <2>1. /\ wlease' = wlease
        /\ hb'[w] \in {[pc |-> "renew_ws", now |-> hb[w].now], [pc |-> "wait", now |-> 0]}
        /\ hb[w].pc = "renew_exec"
    BY <1>6 DEF RenewExecution, TypeOK
  <2>2. /\ execs'[e].expires = hb[w].now + TTL
        /\ execs'[e].task = execs[e].task /\ execs'[e].status = execs[e].status
        /\ \A d \in ExecId : d # e => execs'[d] = execs[d]
    BY <1>2, <1>6 DEF RenewExecution, TypeOK, ExecRow
  <2>3. execs[e].expires <= hb[w].now + TTL
    BY <1>2, <2>1 DEF Extensions
  <2>4. References'
    BY <1>1, <2>1, <2>2, SMTT(40) DEF References, TypeOK, LeaseRow
  <2>5. Owners'
    BY <1>0, <1>1, <1>4, <2>1 DEF Owners
  <2>6. Extensions'
    <3>1. ASSUME NEW v \in Worker, v # w, wk[v].exec # None
          PROVE  wk[v].exec \in ExecId /\ execs'[wk[v].exec] = execs[wk[v].exec]
      BY <1>3, <2>2, <3>1 DEF TypeOK, WorkerRow
    <3>2. ASSUME NEW v \in Worker, hb[v].pc # "off" \/ wk[v].pc \in {"list_ws", "reconcile_ws"}
          PROVE  wk[v].exec # None
      BY <3>2, HeartbeatOwns, NoneAssumption DEF WorkerShape, Claimed, PC
    <3>3. ASSUME NEW v \in Worker, v # w
          PROVE  /\ wk[v].exec # None => execs'[wk[v].exec].expires <= clock + TTL
                 /\ wk[v].pc \in {"list_ws", "reconcile_ws"} =>
                        execs'[wk[v].exec].expires = wk[v].now + TTL
                 /\ hb[v].pc = "renew_exec" => execs'[wk[v].exec].expires <= hb[v].now + TTL
                 /\ hb[v].pc = "renew_ws" => execs'[wk[v].exec].expires = hb[v].now + TTL
      BY <3>1, <3>2, <3>3 DEF Extensions
    <3> QED BY <1>0, <1>1, <1>2, <1>4, <2>1, <2>2, <3>3 DEF Extensions, Acquiring
  <2>7. LeaseNesting'
    <3>1. ASSUME NEW x \in Workspace, wlease[x].exec # None
          PROVE  wlease[x].expires <= execs'[wlease[x].exec].expires
      <4>1. wlease[x].exec \in ExecId /\ wlease[x].expires \in Nat
        BY <3>1 DEF TypeOK, LeaseRow
      <4> QED BY <1>0, <1>3, <2>2, <2>3, <3>1, <4>1 DEF LeaseNesting
    <3> QED BY <2>1, <3>1 DEF LeaseNesting
  <2> QED BY <2>4, <2>5, <2>6, <2>7
<1>7. CASE RenewWorkspace(w)
  <2>0. PICK x \in Workspace : x = WorkspaceOf[wk[w].task]
    BY <1>0, HeartbeatOwns
  <2>1. /\ execs' = execs
        /\ hb'[w] = [pc |-> "wait", now |-> 0]
        /\ hb[w].pc = "renew_ws"
        /\ execs[e].expires = hb[w].now + TTL
    BY <1>2, <1>7, ZenonT(30) DEF RenewWorkspace, TypeOK, Extensions
  <2>2. wlease[x].exec = e
    BY <1>2, <1>7, <2>0 DEF RenewWorkspace, WorkspaceGuardOK, WorkerShape
  <2>3. /\ wlease'[x].exec = e /\ wlease'[x].expires = hb[w].now + TTL
        /\ \A y \in Workspace : y # x => wlease'[y] = wlease[y]
    BY <1>7, <2>0, <2>2 DEF RenewWorkspace, TypeOK, LeaseRow
  <2>4. References'
    BY <1>1, <2>1, <2>2, <2>3 DEF References
  <2>5. Owners'
    BY <1>0, <1>1, <1>4, <2>1 DEF Owners
  <2>6. Extensions'
    BY <1>0, <1>1, <2>1 DEF Extensions
  <2>7. LeaseNesting'
    BY <1>0, <1>3, <2>1, <2>2, <2>3, SMTT(40) DEF LeaseNesting
  <2> QED BY <2>4, <2>5, <2>6, <2>7
<1> QED BY <1>5, <1>6, <1>7

(* acquire_workspace_writer and release_workspace_writer. *)
LEMMA WorkspaceLease ==
    ASSUME Shape, LeaseInv, Shape', NEW w \in Worker,
           AcquireWorkspace(w) \/ ReleaseWorkspace(w)
    PROVE  LeaseInv'
<1> USE DEF Shape, LeaseInv
<1>0. /\ wk[w] \in WorkerRow /\ hb[w] \in HbRow
      /\ hb[w].now \in Nat /\ hb[w].now <= clock
      /\ wk[w].now \in Nat /\ wk[w].now <= clock
      /\ clock \in Nat /\ TTL \in Nat
      /\ hb[w].pc = "off"
      /\ wk[w].exec \in ExecId /\ wk[w].exec # None
      /\ wk[w].task \in Task
  BY TTLAssumption, NoneAssumption
     DEF TypeOK, HbRow, WorkerRow, Owners, AcquireWorkspace, ReleaseWorkspace, Acquiring,
         Releasing, WorkerShape, Claimed, PC
<1>1. PICK e \in ExecId : e = wk[w].exec /\ execs[e].status # "none" /\ e # None
                          /\ execs[e].task = wk[w].task
  BY <1>0 DEF WorkerShape
<1>2. /\ execs' = execs /\ cmds' = cmds /\ clock' = clock
      /\ Alone(w)
  BY DEF AcquireWorkspace, ReleaseWorkspace, TypeOK, Alone
<1>3. PICK x \in Workspace : x = WorkspaceOf[wk[w].task]
  BY <1>0, MapAssumption
<1>4. execs[e].expires \in Nat
  BY DEF TypeOK, ExecRow
<1>5. CASE AcquireWorkspace(w)
  <2>1. /\ wlease'[x].exec = e /\ wlease'[x].expires = wk[w].now + TTL
        /\ \A y \in Workspace : y # x => wlease'[y] = wlease[y]
    BY <1>1, <1>3, <1>5, ZenonT(30) DEF AcquireWorkspace, TypeOK
  <2>2. /\ wk'[w].pc = "own" /\ wk'[w].now = 0 /\ wk'[w].exec = e
        /\ hb'[w].pc = "wait" /\ hb'[w].now = hb[w].now
        /\ execs[e].expires = wk[w].now + TTL
    BY <1>0, <1>1, <1>5 DEF AcquireWorkspace, TypeOK, WorkerRow, HbRow, Extensions
  <2>3. References'
    BY <1>1, <1>2, <2>1 DEF References
  <2>4. Owners'
    BY <1>0, <1>1, <1>2, <2>2 DEF Owners, Alone, Before, Acquiring, Releasing
  <2>5. Extensions'
    BY <1>0, <1>1, <1>2, <2>2 DEF Extensions, Alone
  <2>6. LeaseNesting'
    BY <1>0, <1>2, <1>4, <2>1, <2>2 DEF LeaseNesting
  <2> QED BY <2>3, <2>4, <2>5, <2>6
<1>6. CASE ReleaseWorkspace(w)
  <2>1. \/ wlease' = wlease
        \/ /\ wlease[x].exec = e /\ wlease[x].expires > wk[w].now
           /\ wlease'[x].exec = e /\ wlease'[x].expires = wk[w].now
           /\ \A y \in Workspace : y # x => wlease'[y] = wlease[y]
    BY <1>1, <1>3, <1>6 DEF ReleaseWorkspace, WorkspaceGuardOK, TypeOK, LeaseRow
  <2>2. /\ \/ wk'[w] = Idle
           \/ wk'[w].pc = "release_exec" /\ wk'[w].now = wk[w].now /\ wk'[w].exec = e
        /\ hb'[w] = hb[w]
    BY <1>0, <1>1, <1>6 DEF ReleaseWorkspace, TypeOK, WorkerRow
  <2>3. References'
    BY <1>1, <1>2, <2>1 DEF References
  <2>4. Owners'
    BY <1>0, <1>1, <1>2, <2>2 DEF Owners, Alone, Before, Acquiring, Releasing, Idle
  <2>5. Extensions'
    BY <1>0, <1>1, <1>2, <2>2 DEF Extensions, Alone, Idle
  <2>6. LeaseNesting'
    BY <1>0, <1>2, <1>4, <2>1, <2>2 DEF LeaseNesting, TypeOK, LeaseRow
  <2> QED BY <2>3, <2>4, <2>5, <2>6
<1> QED BY <1>5, <1>6

(* The steps that insert, extend or end a lease are these; the others      *)
(* leave the leases alone.                                                 *)
LEMMA LeaseSteps ==
    ASSUME Shape, SpawnShape, Commands, LeaseInv, [Next]_vars
    PROVE  \/ LeaseFrame
           \/ IsClaim
           \/ \E w \in Worker : \/ AcquireWorkspace(w) \/ ReleaseWorkspace(w)
                                \/ HeartbeatWakes(w) \/ RenewExecution(w)
                                \/ RenewWorkspace(w)
<1>1. CASE UNCHANGED vars
  BY <1>1, OtherFrame
<1>2. ASSUME NEW w \in Worker, Acquire(w)
      PROVE  LeaseFrame \/ IsClaim \/ AcquireWorkspace(w)
  BY <1>2, AcquireFrame, LoseFrame DEF Acquire, IsClaim
<1>3. ASSUME NEW w \in Worker, Release(w)
      PROVE  LeaseFrame \/ ReleaseWorkspace(w)
  BY <1>3, OtherFrame, LoseFrame DEF Release
<1>4. ASSUME NEW w \in Worker, Heartbeat(w)
      PROVE  LeaseFrame \/ HeartbeatWakes(w) \/ RenewExecution(w) \/ RenewWorkspace(w)
  BY <1>4, OtherFrame DEF Heartbeat
<1> QED BY <1>1, <1>2, <1>3, <1>4, OtherFrame, RunFrame DEF Next

LEMMA NextLease ==
    ASSUME Shape, SpawnShape, Commands, LeaseInv, [Next]_vars
    PROVE  LeaseInv'
<1>1. Shape'
  BY NextShape
<1>2. CASE LeaseFrame
  BY <1>1, <1>2, FrameKeepsLeases
<1>3. CASE IsClaim
  BY <1>1, <1>3, ClaimLease DEF IsClaim
<1> QED BY <1>1, <1>2, <1>3, LeaseSteps, HeartbeatLease, WorkspaceLease

LEMMA NextHandover ==
    ASSUME Shape, SpawnShape, Commands, LeaseInv, [Next]_vars
    PROVE  HandoverStep
<1> USE DEF Shape
<1>1. ASSUME NEW w \in Worker, AcquireWorkspace(w) PROVE HandoverStep
  <2>1. /\ wk[w].now \in Nat /\ wk[w].now <= clock /\ clock \in Nat
    BY DEF TypeOK, WorkerRow, LeaseInv, Owners
  <2>2. \A x \in Workspace : wlease[x].expires \in Nat
    BY DEF TypeOK, LeaseRow
  <2> QED BY <1>1, <2>1, <2>2 DEF AcquireWorkspace, WriterAllowed, HandoverStep, TypeOK
<1>2. ASSUME NEW w \in Worker, ReleaseWorkspace(w) \/ RenewWorkspace(w) PROVE HandoverStep
  BY <1>2 DEF ReleaseWorkspace, RenewWorkspace, HandoverStep, TypeOK, LeaseRow
<1>3. ASSUME wlease' = wlease PROVE HandoverStep
  BY <1>3 DEF HandoverStep
<1>4. ASSUME NEW w \in Worker, HeartbeatWakes(w) \/ RenewExecution(w) PROVE HandoverStep
  BY <1>3, <1>4 DEF HeartbeatWakes, RenewExecution, storeVars
<1>5. CASE IsClaim
  BY <1>3, <1>5 DEF IsClaim, Claim
<1> QED BY <1>1, <1>2, <1>3, <1>4, <1>5, LeaseSteps DEF LeaseFrame

-----------------------------------------------------------------------------
(* Commands.  A step other than a registration makes no command running. *)
CommandFrame ==
    /\ \A c \in CmdId : Registered(c) => Registered(c)' /\ cmds'[c].exec = cmds[c].exec
    /\ \A c \in CmdId : Running(c)' => Running(c)
    /\ \A c \in alive' : cmds'[c].status \in {"spawned"} \cup Unfinished
    /\ covered' = covered

LEMMA SameCommands ==
    ASSUME Commands, cmds' = cmds, alive' \subseteq alive, covered' = covered
    PROVE  CommandFrame
BY DEF Commands, CommandFrame, Registered, Running

LEMMA FinishCommands ==
    ASSUME Shape, Commands, NEW c,
           \/ /\ \E st \in {"exited", "terminated"} : Finish(c, st)
              /\ alive' = alive \ {c}
           \/ /\ Finish(c, "cleanup_failed")
              /\ alive' = alive,
           covered' = covered
    PROVE  CommandFrame
<1> USE DEF Shape
<1>0. alive \subseteq CmdId
  BY DEF TypeOK
<1>1. \A d \in CmdId : Registered(d) => Registered(d)' /\ cmds'[d].exec = cmds[d].exec
  BY FinishKeeps DEF CmdStatus
<1>2. \A d \in CmdId : d # c => cmds'[d] = cmds[d]
  BY DEF Finish, TypeOK
<1>3. CASE alive' = alive \ {c}
  BY <1>0, <1>1, <1>2, <1>3 DEF CommandFrame, Commands, Running
<1>4. CASE Finish(c, "cleanup_failed") /\ alive' = alive
  <2>1. CASE cmds' = cmds
    BY <1>4, <2>1, SameCommands
  <2>2. CASE cmds[c].status \in Unfinished /\ cmds' = [cmds EXCEPT ![c].status = "cleanup_failed"]
    <3>1. c \in CmdId => cmds'[c].status = "cleanup_failed"
      BY <2>2 DEF TypeOK, CmdRow
    <3> QED BY <1>0, <1>1, <1>2, <1>4, <2>2, <3>1
            DEF CommandFrame, Commands, Running, Unfinished
  <2> QED BY <1>4, <2>1, <2>2 DEF Finish
<1> QED BY <1>3, <1>4

LEMMA SpawnCommands ==
    ASSUME Shape, SpawnShape, Commands, NEW w \in Worker,
           (\E c \in CmdId : Spawn(w, c)) \/ RegisterRefused(w)
    PROVE  CommandFrame
<1> USE DEF Shape
<1>0. alive \subseteq CmdId
  BY DEF TypeOK
<1>1. ASSUME NEW c \in CmdId, Spawn(w, c) PROVE CommandFrame
  <2>1. /\ cmds'[c].status = "spawned" /\ cmds[c].status = "none"
        /\ \A d \in CmdId : d # c => cmds'[d] = cmds[d]
        /\ alive' = alive \cup {c} /\ covered' = covered
    BY <1>1 DEF Spawn, TypeOK
  <2> QED BY <1>0, <2>1 DEF CommandFrame, Commands, Registered, Running, Unfinished
<1>2. CASE RegisterRefused(w)
  <2>1. PICK c \in CmdId : c = wk[w].cmd /\ cmds[c].status = "spawned"
    BY <1>2 DEF RegisterRefused, WorkerShape, SpawnShape
  <2>2. CASE cmds' = cmds /\ alive' = alive
    BY <1>2, <2>2, SameCommands DEF RegisterRefused
  <2>3. CASE alive' = alive \ {c} /\ cmds' = [cmds EXCEPT ![c] = NoCmd]
    <3>1. \A d \in CmdId : d # c => cmds'[d] = cmds[d]
      BY <2>3 DEF TypeOK
    <3>2. covered' = covered
      BY <1>2 DEF RegisterRefused
    <3> QED BY <1>0, <2>1, <2>3, <3>1, <3>2 DEF CommandFrame, Commands, Registered, Running
  <2> QED BY <1>2, <2>1, <2>2, <2>3 DEF RegisterRefused
<1> QED BY <1>1, <1>2

LEMMA CommandSteps ==
    ASSUME Shape, SpawnShape, Commands, [Next]_vars
    PROVE  CommandFrame \/ \E w \in Worker : Register(w)
<1> USE DEF Shape
<1>1. CASE UNCHANGED vars \/ Tick
  BY <1>1, SameCommands DEF vars, Tick, storeVars
<1>2. CASE (\E c \in CmdId : ProcessExits(c)) \/ (\E t \in Task : StartTask(t))
  BY <1>2, SameCommands DEF ProcessExits, StartTask, storeVars
<1>3. ASSUME NEW w \in Worker, Crash(w) \/ Heartbeat(w) PROVE CommandFrame
  BY <1>3, SameCommands, ZenonT(30)
     DEF Crash, Heartbeat, HeartbeatWakes, RenewExecution, RenewWorkspace, RenewFails,
         storeVars
<1>4. ASSUME NEW w \in Worker, Acquire(w) PROVE CommandFrame
  <2>1. ASSUME NEW c \in CmdId, ReconcileStops(w, c) \/ ReconcileFails(w, c)
        PROVE  CommandFrame
    BY <2>1, FinishCommands DEF ReconcileStops, ReconcileFails
  <2> QED
    BY <1>4, <2>1, SameCommands
       DEF Acquire, Prepare, MarkRecoveryRequired, Claim, ClaimRefused,
           ListWorkspaceCommands, AcquireWorkspace, WorkspaceRefused, Rollback, storeVars
<1>5. ASSUME NEW w \in Worker, Run(w) PROVE CommandFrame \/ Register(w)
  <2>1. CASE CommandExits(w)
    <3>1. alive' = alive \ {wk[w].cmd}
      BY <2>1 DEF CommandExits
    <3> QED BY <2>1, <3>1, FinishCommands DEF CommandExits
  <2>2. CASE TerminateCommand(w)
    BY <2>2, FinishCommands DEF TerminateCommand
  <2>3. CASE AssertToolOwnership(w) \/ RecordCleanupFailure(w) \/ Complete(w)
    BY <2>3, SameCommands
       DEF AssertToolOwnership, RecordCleanupFailure, Complete, storeVars
  <2> QED BY <1>5, <2>1, <2>2, <2>3, SpawnCommands DEF Run
<1>6. ASSUME NEW w \in Worker, Release(w) PROVE CommandFrame
  <2>1. CASE StopHeartbeat(w)
    BY <2>1, FinishCommands, SameCommands DEF StopHeartbeat
  <2> QED
    BY <1>6, <2>1, SameCommands
       DEF Release, Leave, ReleaseWorkspace, ReleaseOwnership, storeVars
<1> QED BY <1>1, <1>2, <1>3, <1>4, <1>5, <1>6 DEF Next

(* register_managed_command. *)
LEMMA RegisterStep ==
    ASSUME Shape, SpawnShape, NEW w \in Worker, Register(w)
    PROVE  \E c \in CmdId, e \in ExecId :
              /\ wk[w].cmd = c /\ wk[w].exec = e /\ GuardOK(e, clock)
              /\ cmds[c].status = "spawned" /\ cmds'[c].status = "running"
              /\ cmds[c].exec = e /\ cmds'[c].exec = e
              /\ \A d \in CmdId : d # c => cmds'[d] = cmds[d]
              /\ alive' = alive /\ execs' = execs /\ tasks' = tasks /\ active' = active
              /\ wlease' = wlease /\ clock' = clock /\ hb' = hb
              /\ covered' = IF WorkspaceGuardOK(e, clock) THEN covered \cup {c} ELSE covered
              /\ wk'[w].pc = "command" /\ wk'[w].cmd = c /\ wk'[w].exec = e
              /\ wk'[w].todo = wk[w].todo /\ wk'[w].failed = wk[w].failed
              /\ \A v \in Worker : v # w => wk'[v] = wk[v]
<1> USE DEF Shape
<1>0. wk[w] \in WorkerRow
  BY DEF TypeOK
<1>1. PICK c \in CmdId, e \in ExecId :
          /\ wk[w].cmd = c /\ wk[w].exec = e
          /\ cmds[c].status = "spawned" /\ cmds[c].exec = e
  BY DEF Register, WorkerShape, SpawnShape, Claimed, PC
<1>2. /\ GuardOK(e, clock)
      /\ alive' = alive /\ execs' = execs /\ tasks' = tasks /\ active' = active
      /\ wlease' = wlease /\ clock' = clock /\ hb' = hb
      /\ covered' = IF WorkspaceGuardOK(e, clock) THEN covered \cup {c} ELSE covered
  BY <1>1 DEF Register
<1>3. cmds' = [cmds EXCEPT ![c].status = "running"]
  BY <1>1 DEF Register
<1>4. /\ cmds'[c].status = "running" /\ cmds'[c].exec = e
      /\ \A d \in CmdId : d # c => cmds'[d] = cmds[d]
  BY <1>1, <1>3 DEF TypeOK, CmdRow
<1>5. wk' = [wk EXCEPT ![w].pc = "command"]
  BY DEF Register
<1>6. /\ wk'[w].pc = "command" /\ wk'[w].cmd = c /\ wk'[w].exec = e
      /\ wk'[w].todo = wk[w].todo /\ wk'[w].failed = wk[w].failed
      /\ \A v \in Worker : v # w => wk'[v] = wk[v]
  BY <1>0, <1>1, <1>5 DEF TypeOK, WorkerRow
<1> QED BY <1>1, <1>2, <1>4, <1>6

(* A worker moves by its own steps only. *)
LEMMA OthersStay ==
    ASSUME Shape, [Next]_vars, NEW w \in Worker,
           ~(Acquire(w) \/ Run(w) \/ Release(w) \/ Crash(w))
    PROVE  wk'[w] = wk[w]
<1> USE DEF Shape
<1>1. ASSUME NEW v \in Worker, v # w, Acquire(v) PROVE wk'[w] = wk[w]
  BY <1>1, ZenonT(60) DEF TypeOK, Acquire, Prepare, ReconcileStops, ReconcileFails, MarkRecoveryRequired,
       Claim, ClaimRefused, ListWorkspaceCommands, AcquireWorkspace, WorkspaceRefused, Rollback
<1>2. ASSUME NEW v \in Worker, v # w, Run(v) PROVE wk'[w] = wk[w]
  BY <1>2, ZenonT(30) DEF TypeOK, Run, AssertToolOwnership, Spawn, Register, RegisterRefused,
       CommandExits, TerminateCommand, RecordCleanupFailure, Complete
<1>3. ASSUME NEW v \in Worker, v # w, Release(v) \/ Crash(v) PROVE wk'[w] = wk[w]
  BY <1>3 DEF TypeOK, Release, Leave, StopHeartbeat, ReleaseWorkspace, ReleaseOwnership, Crash
<1>4. ASSUME NEW v \in Worker, Heartbeat(v) PROVE wk' = wk
  BY <1>4 DEF Heartbeat, HeartbeatWakes, RenewExecution, RenewWorkspace, RenewFails
<1>5. CASE UNCHANGED vars \/ Tick \/ (\E c \in CmdId : ProcessExits(c))
           \/ (\E t \in Task : StartTask(t))
  BY <1>5 DEF vars, Tick, ProcessExits, StartTask
<1> QED BY <1>1, <1>2, <1>3, <1>4, <1>5, ZenonT(30) DEF Next

(* What the worker that moves knows afterwards. *)
LEMMA KnownStep ==
    ASSUME Shape, SpawnShape, Commands, LeaseInv, [Next]_vars, NEW w \in Worker,
           \A c \in CmdId : Registered(c) => Registered(c)'
    PROVE  KnownTo(w)'
<1> USE DEF Shape
<1>0. wk[w] \in WorkerRow /\ KnownTo(w)
  BY DEF TypeOK, Commands
<1>a. wk[w].todo \subseteq CmdId
  BY <1>0 DEF WorkerRow
<1>1. ASSUME wk'[w] = wk[w] PROVE KnownTo(w)'
  BY <1>0, <1>1, <1>a DEF KnownTo, WorkerShape
<1>2. ASSUME wk'[w] = Idle PROVE KnownTo(w)'
  BY <1>2 DEF KnownTo, Idle, Handling
<1>3. ASSUME wk'[w].todo \subseteq wk[w].todo, wk'[w].pc \notin {"mark", "command"},
             wk'[w].cmd = None \/ wk'[w].pc \in Handling,
             wk'[w].pc = "stopping" \/ ~wk'[w].failed
      PROVE  KnownTo(w)'
  BY <1>0, <1>3, <1>a DEF KnownTo
<1>4. CASE Acquire(w)
  <2>1. ASSUME NEW t \in Serves[w], Prepare(w, t) PROVE KnownTo(w)'
    <3>1. /\ wk'[w].pc = "reconcile_task" /\ wk'[w].cmd = None /\ ~wk'[w].failed
          /\ wk'[w].todo = RecoveryCommandsForTask(t, clock)
      BY <2>1 DEF Prepare, TypeOK, Idle
    <3>2. \A c \in wk'[w].todo : c \in CmdId /\ Registered(c)
      BY <3>1 DEF RecoveryCommandsForTask, Unfinished, Registered
    <3> QED BY <1>0, <3>1, <3>2 DEF KnownTo, Handling
  <2>2. ASSUME NEW c \in CmdId, ReconcileStops(w, c) PROVE KnownTo(w)'
    BY <1>0, <1>3, <2>2 DEF ReconcileStops, TypeOK, WorkerRow, KnownTo, Handling
  <2>3. ASSUME NEW c \in CmdId, ReconcileFails(w, c) PROVE KnownTo(w)'
    <3>1. CASE cmds[c].status \in Unfinished
      <4>1. wk' = [wk EXCEPT ![w].pc = "mark", ![w].cmd = c, ![w].todo = {}]
        BY <2>3, <3>1 DEF ReconcileFails
      <4>2. /\ wk'[w].pc = "mark" /\ wk'[w].cmd = c /\ wk'[w].todo = {}
            /\ wk'[w].failed = wk[w].failed /\ wk[w].pc # "stopping"
        BY <1>0, <2>3, <4>1 DEF TypeOK, WorkerRow, ReconcileFails
      <4>3. Registered(c)
        BY <3>1 DEF Registered, Unfinished
      <4> QED BY <1>0, <4>2, <4>3 DEF KnownTo, Handling
    <3>2. CASE cmds[c].status \notin Unfinished
      <4>1. wk' = [wk EXCEPT ![w].todo = @ \ {c}] /\ wk[w].pc \in {"reconcile_task", "reconcile_ws"}
        BY <2>3, <3>2, ZenonT(30) DEF ReconcileFails
      <4> QED BY <1>0, <1>3, <4>1 DEF TypeOK, WorkerRow, KnownTo, Handling
    <3> QED BY <3>1, <3>2
  <2>4. CASE MarkRecoveryRequired(w)
    BY <1>0, <1>2, <1>3, <2>4 DEF MarkRecoveryRequired, TypeOK, WorkerRow, KnownTo, Handling
  <2>5. ASSUME NEW e, NEW g, Claim(w, e, g) PROVE KnownTo(w)'
    BY <1>0, <1>3, <2>5, SMTT(40) DEF Claim, TypeOK, WorkerRow, KnownTo, Handling
  <2>6. CASE ClaimRefused(w) \/ Rollback(w)
    BY <1>2, <2>6 DEF ClaimRefused, Rollback, TypeOK
  <2>7. CASE ListWorkspaceCommands(w)
    <3>1. /\ wk'[w].pc = "reconcile_ws" /\ wk[w].pc = "list_ws"
          /\ wk'[w].cmd = wk[w].cmd /\ wk'[w].failed = wk[w].failed
          /\ wk'[w].todo = RecoveryCommandsForWorkspace(WorkspaceOf[wk[w].task], wk[w].now)
      BY <1>0, <2>7 DEF ListWorkspaceCommands, TypeOK, WorkerRow
    <3>2. \A c \in wk'[w].todo : c \in CmdId /\ Registered(c)
      BY <3>1 DEF RecoveryCommandsForWorkspace, Unfinished, Registered
    <3> QED BY <1>0, <3>1, <3>2 DEF KnownTo, Handling
  <2>8. CASE AcquireWorkspace(w) \/ WorkspaceRefused(w)
    <3>1. /\ wk'[w].todo = wk[w].todo /\ wk'[w].cmd = wk[w].cmd
          /\ wk'[w].failed = wk[w].failed
          /\ wk'[w].pc \in {"own", "rollback"} /\ wk[w].pc = "reconcile_ws"
      BY <1>0, <2>8 DEF AcquireWorkspace, WorkspaceRefused, TypeOK, WorkerRow
    <3> QED BY <1>0, <1>3, <3>1 DEF KnownTo, Handling
  <2> QED BY <1>4, <2>1, <2>2, <2>3, <2>4, <2>5, <2>6, <2>7, <2>8 DEF Acquire
<1>5. CASE Run(w)
  <2>1. CASE AssertToolOwnership(w) \/ RecordCleanupFailure(w) \/ Complete(w)
    BY <1>0, <1>3, <2>1 DEF AssertToolOwnership, RecordCleanupFailure, Complete, TypeOK,
                            WorkerRow, KnownTo, Handling
  <2>2. ASSUME NEW c \in CmdId, Spawn(w, c) PROVE KnownTo(w)'
    BY <1>0, <1>3, <2>2 DEF Spawn, TypeOK, WorkerRow, KnownTo, Handling
  <2>3. CASE Register(w)
    <3>1. PICK c \in CmdId : /\ wk'[w].pc = "command" /\ wk'[w].cmd = c
                             /\ wk'[w].todo = wk[w].todo /\ wk'[w].failed = wk[w].failed
                             /\ cmds'[c].status = "running"
      BY <2>3, RegisterStep
    <3>2. wk[w].pc # "stopping"
      BY <2>3 DEF Register
    <3> QED BY <1>0, <1>a, <3>1, <3>2 DEF KnownTo, Registered, Handling
  <2>4. CASE RegisterRefused(w)
    <3>1. /\ wk'[w].todo = wk[w].todo /\ wk'[w].cmd = None /\ wk'[w].failed = wk[w].failed
          /\ wk'[w].pc \in {"stopping", "cleanup_error"} /\ wk[w].pc = "spawned"
      BY <1>0, <2>4 DEF RegisterRefused, TypeOK, WorkerRow
    <3> QED BY <1>0, <1>3, <3>1 DEF KnownTo
  <2>5. CASE CommandExits(w) \/ TerminateCommand(w)
    BY <1>0, <1>3, <2>5, SMTT(40) DEF CommandExits, TerminateCommand, TypeOK, WorkerRow, KnownTo, Handling
  <2> QED BY <1>5, <2>1, <2>2, <2>3, <2>4, <2>5 DEF Run
<1>6. CASE Release(w)
  <2>1. CASE Leave(w)
    BY <1>0, <1>3, <2>1 DEF Leave, TypeOK, WorkerRow, KnownTo, Handling
  <2>2. CASE StopHeartbeat(w)
    <3>1. \/ wk'[w] = Idle
          \/ /\ wk'[w].todo = wk[w].todo /\ wk[w].cmd # None /\ wk'[w].cmd = None
             /\ \/ wk'[w].pc = "stopping"
                \/ wk'[w].pc = "cleanup_error" /\ ~wk'[w].failed
          \/ /\ wk'[w].todo = wk[w].todo /\ wk'[w].pc \in Releasing
             /\ wk'[w].cmd = None /\ ~wk'[w].failed
      BY <1>0, <2>2 DEF StopHeartbeat, TypeOK, WorkerRow, Releasing
    <3> QED BY <1>0, <1>2, <1>3, <1>a, <3>1 DEF KnownTo, Handling, Releasing
  <2>3. CASE ReleaseWorkspace(w)
    <3>1. \/ wk'[w] = Idle
          \/ /\ wk'[w].todo = wk[w].todo /\ wk'[w].pc = "release_exec"
             /\ wk'[w].cmd = wk[w].cmd /\ wk'[w].failed = wk[w].failed
             /\ wk[w].pc = "release_ws"
      BY <1>0, <2>3 DEF ReleaseWorkspace, TypeOK, WorkerRow
    <3> QED BY <1>0, <1>2, <1>a, <3>1 DEF KnownTo, Handling
  <2>4. CASE ReleaseOwnership(w)
    BY <1>2, <2>4 DEF ReleaseOwnership, TypeOK
  <2> QED BY <1>6, <2>1, <2>2, <2>3, <2>4 DEF Release
<1>7. CASE Crash(w)
  BY <1>2, <1>7 DEF Crash, TypeOK
<1>8. CASE ~(Acquire(w) \/ Run(w) \/ Release(w) \/ Crash(w))
  <2>1. wk'[w] = wk[w]
    BY <1>8, OthersStay
  <2> QED BY <1>1, <2>1
<1> QED BY <1>4, <1>5, <1>6, <1>7, <1>8

LEMMA NextCommands ==
    ASSUME Shape, SpawnShape, Commands, LeaseInv, [Next]_vars
    PROVE  Commands'
<1>0. covered \subseteq CmdId
  BY DEF Shape, TypeOK
<1>1. CASE CommandFrame
  BY <1>0, <1>1, KnownStep DEF CommandFrame, Commands
<1>2. ASSUME NEW w \in Worker, Register(w) PROVE Commands'
  <2>1. PICK c \in CmdId :
          /\ cmds[c].status = "spawned" /\ cmds'[c].status = "running"
          /\ \A d \in CmdId : d # c => cmds'[d] = cmds[d]
          /\ alive' = alive
          /\ covered' \in {covered, covered \cup {c}}
    BY <1>2, RegisterStep
  <2>2. \A d \in CmdId : Registered(d) => Registered(d)'
    BY <2>1 DEF Registered
  <2>3. \A v \in Worker : KnownTo(v)'
    BY <2>2, KnownStep
  <2>4. alive \subseteq CmdId
    BY DEF Shape, TypeOK
  <2> QED BY <1>0, <2>1, <2>2, <2>3, <2>4 DEF Commands, Registered, Unfinished
<1> QED BY <1>1, <1>2, CommandSteps

-----------------------------------------------------------------------------
(* Tasks and executions.  A task that needs recovery keeps needing it, and *)
(* a task that is active in its session stays so unless its version grows. *)
TaskFrame(t) ==
    /\ tasks'[t].version >= tasks[t].version
    /\ tasks[t].cond = "recovery_required" => tasks'[t].cond = "recovery_required"
    /\ active[SessionOf[t]] = t /\ tasks'[t].version = tasks[t].version
       => active'[SessionOf[t]] = t

LEMMA ConditionWritten ==
    ASSUME Shape, NEW u \in Task, NEW cond \in Condition, tasks' = WithCondition(u, cond)
    PROVE  /\ tasks'[u].cond = cond /\ tasks'[u].version = tasks[u].version + 1
           /\ \A t \in Task : t # u => tasks'[t] = tasks[t]
           /\ \A t \in Task : tasks[t].version \in Nat
BY DEF Shape, TypeOK, TaskRow, WithCondition

LEMMA TaskWritten ==
    ASSUME Shape, NEW u \in Task, NEW cond \in Condition, tasks' = WithCondition(u, cond),
           active' = active,
           tasks[u].cond = "recovery_required" => cond = "recovery_required"
    PROVE  \A t \in Task : TaskFrame(t)
<1>1. /\ tasks'[u].cond = cond /\ tasks'[u].version = tasks[u].version + 1
      /\ \A t \in Task : t # u => tasks'[t] = tasks[t]
      /\ \A t \in Task : tasks[t].version \in Nat
  BY ConditionWritten
<1> QED BY <1>1 DEF TaskFrame

LEMMA TasksKept ==
    ASSUME Shape, tasks' = tasks, active' = active
    PROVE  \A t \in Task : TaskFrame(t)
BY DEF Shape, TypeOK, TaskRow, TaskFrame

LEMMA TaskSteps ==
    ASSUME Shape, Commands, LeaseInv, [Next]_vars
    PROVE  \A t \in Task : TaskFrame(t)
<1> USE DEF Shape
<1>1. ASSUME NEW u \in Task, StartTask(u) PROVE \A t \in Task : TaskFrame(t)
  <2>1. ASSUME NEW t \in Task PROVE TaskFrame(t)
    <3>1. /\ tasks'[t].version = tasks[t].version /\ tasks[t].version \in Nat
          /\ tasks[t].cond = "recovery_required" => tasks'[t].cond = "recovery_required"
      BY <1>1 DEF StartTask, TypeOK, TaskRow
    <3>2. active[SessionOf[t]] = t => active'[SessionOf[t]] = t
      BY <1>1, MapAssumption, NoneAssumption DEF StartTask, TypeOK
    <3> QED BY <3>1, <3>2 DEF TaskFrame
  <2> QED BY <2>1
<1>2. ASSUME NEW w \in Worker, Complete(w) PROVE \A t \in Task : TaskFrame(t)
  <2>1. PICK u \in Task : u = wk[w].task
    BY <1>2 DEF Complete, WorkerShape
  <2>2. tasks' = [tasks EXCEPT ![u] = [cond |-> "ended", ended |-> TRUE,
                                       version |-> tasks[u].version + 1]]
    BY <1>2, <2>1 DEF Complete
  <2>3. /\ tasks[u].cond # "recovery_required"
        /\ active' = [active EXCEPT ![SessionOf[u]] = IF @ = u THEN None ELSE @]
    BY <1>2, <2>1 DEF Complete, UpdateAllowed
  <2>4. ASSUME NEW t \in Task PROVE TaskFrame(t)
    <3>1. tasks[t].version \in Nat
      BY DEF TypeOK, TaskRow
    <3>2. CASE t = u
      BY <2>2, <2>3, <3>1, <3>2 DEF TypeOK, TaskFrame
    <3>3. CASE t # u
      BY <2>2, <2>3, <3>1, <3>3 DEF TypeOK, TaskFrame
    <3> QED BY <3>2, <3>3
  <2> QED BY <2>4
<1>3. ASSUME NEW w \in Worker, RecordCleanupFailure(w) PROVE \A t \in Task : TaskFrame(t)
  BY <1>3, TaskWritten, TasksKept DEF RecordCleanupFailure, WorkerShape, Condition
<1>4. ASSUME NEW w \in Worker, Rollback(w) \/ ReleaseOwnership(w)
      PROVE  \A t \in Task : TaskFrame(t)
  <2>1. wk[w].exec \in ExecId /\ execs[wk[w].exec].task \in Task
    BY <1>4, NoneAssumption, ZenonT(30) DEF Rollback, ReleaseOwnership, WorkerShape, Claimed, PC
  <2> QED
    BY <1>4, <2>1, TaskWritten, TasksKept
       DEF Rollback, ReleaseOwnership, ReleaseExecution, Condition
<1>5. ASSUME NEW w \in Worker, MarkRecoveryRequired(w) PROVE \A t \in Task : TaskFrame(t)
  <2>1. execs[cmds[wk[w].cmd].exec].task \in Task
    BY <1>5 DEF MarkRecoveryRequired, Commands, KnownTo, Registered, LeaseInv, References
  <2> QED BY <1>5, <2>1, TaskWritten, ZenonT(60) DEF MarkRecoveryRequired, Condition
<1>6. ASSUME NEW w \in Worker, NEW e, NEW g, Claim(w, e, g) PROVE \A t \in Task : TaskFrame(t)
  BY <1>6, TaskWritten, ZenonT(30) DEF Claim, ClaimAllowed, WorkerShape, Condition
<1>7. ASSUME NEW w \in Worker, Acquire(w) PROVE \A t \in Task : TaskFrame(t)
  BY <1>4, <1>5, <1>6, <1>7, TasksKept
     DEF Acquire, Prepare, ReconcileStops, ReconcileFails, ClaimRefused,
         ListWorkspaceCommands, AcquireWorkspace, WorkspaceRefused, storeVars
<1>8. ASSUME NEW w \in Worker, Run(w) PROVE \A t \in Task : TaskFrame(t)
  BY <1>2, <1>3, <1>8, TasksKept, ZenonT(30)
     DEF Run, AssertToolOwnership, Spawn, Register, RegisterRefused, CommandExits,
         TerminateCommand, storeVars
<1>9. ASSUME NEW w \in Worker, Release(w) \/ Crash(w) \/ Heartbeat(w)
      PROVE  \A t \in Task : TaskFrame(t)
  BY <1>4, <1>9, TasksKept
     DEF Release, Leave, StopHeartbeat, ReleaseWorkspace, Crash, Heartbeat, HeartbeatWakes,
         RenewExecution, RenewWorkspace, RenewFails, storeVars
<1> QED
  BY <1>1, <1>7, <1>8, <1>9, TasksKept DEF Next, vars, Tick, ProcessExits, storeVars

(* What may happen to the row of an execution: nothing or a longer lease,  *)
(* recovery of its task, its release by the owner, or by a claim.          *)
Stands(d) ==
    execs'[d].status = execs[d].status /\ execs'[d].expires >= execs[d].expires

Recovered(d) ==
    /\ execs'[d].status = "recovery_required"
    /\ tasks'[execs[d].task].cond = "recovery_required"

GivenBack(d) ==
    /\ execs'[d].status = "released"
    /\ \E w \in Worker : wk[w].exec = d /\ wk[w].pc \in {"rollback", "release_exec"}

TakenOver(d) ==
    /\ IsActive(d)
    /\ execs'[d].status = "released" /\ execs'[d].expires = execs[d].expires
    /\ \E w \in Worker, e \in ExecId, g \in 1..MaxGen :
           Claim(w, e, g) /\ SessionOfExec(d) = SessionOf[wk[w].task]

LEMMA ExecSteps ==
    ASSUME Shape, SpawnShape, Commands, LeaseInv, [Next]_vars,
           NEW d \in ExecId, execs[d].status # "none"
    PROVE  /\ execs'[d].task = execs[d].task
           /\ Stands(d) \/ Recovered(d) \/ GivenBack(d) \/ TakenOver(d)
<1> USE DEF Shape
<1>0. execs[d].expires \in Nat /\ execs[d].task \in Task
  BY DEF TypeOK, ExecRow, LeaseInv, References
<1>1. ASSUME execs' = execs PROVE Stands(d) /\ execs'[d].task = execs[d].task
  BY <1>0, <1>1 DEF Stands
<1>2. ASSUME NEW w \in Worker, MarkRecoveryRequired(w)
      PROVE  (Stands(d) \/ Recovered(d)) /\ execs'[d].task = execs[d].task
  <2>1. PICK e \in ExecId : e = cmds[wk[w].cmd].exec
    BY <1>2, ZenonT(60) DEF MarkRecoveryRequired, Commands, KnownTo, Registered, LeaseInv, References
  <2>2. /\ execs' = [execs EXCEPT ![e].status = "recovery_required"]
        /\ tasks' = WithCondition(execs[e].task, "recovery_required")
    BY <1>2, <2>1 DEF MarkRecoveryRequired
  <2>3. CASE d = e
    <3>1. execs'[d].status = "recovery_required" /\ execs'[d].task = execs[d].task
      BY <2>2, <2>3 DEF TypeOK, ExecRow
    <3>2. tasks'[execs[d].task].cond = "recovery_required"
      BY <1>0, <2>2, <2>3, ConditionWritten DEF Condition
    <3> QED BY <3>1, <3>2 DEF Recovered
  <2>4. CASE d # e
    BY <1>0, <2>2, <2>4 DEF TypeOK, Stands
  <2> QED BY <2>3, <2>4, ZenonT(30)
<1>3. ASSUME NEW w \in Worker, Rollback(w) \/ ReleaseOwnership(w)
      PROVE  (Stands(d) \/ GivenBack(d)) /\ execs'[d].task = execs[d].task
  <2>1. wk[w].exec \in ExecId /\ wk[w].pc \in {"rollback", "release_exec"}
    BY <1>3 DEF Rollback, ReleaseOwnership, WorkerShape, Claimed, PC
  <2>2. \/ execs' = execs
        \/ execs' = [execs EXCEPT ![wk[w].exec].status = "released"]
    BY <1>3 DEF Rollback, ReleaseOwnership, ReleaseExecution
  <2> QED BY <1>0, <1>1, <2>1, <2>2 DEF TypeOK, ExecRow, Stands, GivenBack
<1>4. ASSUME NEW w \in Worker, NEW e \in ExecId, NEW g \in 1..MaxGen, Claim(w, e, g)
      PROVE  (Stands(d) \/ TakenOver(d)) /\ execs'[d].task = execs[d].task
  <2>1. d # e /\ execs' = ClaimRows(w, e, g)
    BY <1>4 DEF Claim
  <2>2. CASE IsActive(d) /\ SessionOfExec(d) = SessionOf[wk[w].task]
    <3>1. execs'[d] = [execs[d] EXCEPT !.status = "released"]
      BY <2>1, <2>2 DEF ClaimRows
    <3>2. /\ execs'[d].status = "released" /\ execs'[d].expires = execs[d].expires
          /\ execs'[d].task = execs[d].task
      BY <3>1 DEF TypeOK, ExecRow
    <3> QED BY <1>4, <2>2, <3>2 DEF TakenOver
  <2>3. CASE ~(IsActive(d) /\ SessionOfExec(d) = SessionOf[wk[w].task])
    BY <1>0, <2>1, <2>3 DEF ClaimRows, Stands
  <2> QED BY <2>2, <2>3
<1>5. ASSUME NEW w \in Worker, RenewExecution(w)
      PROVE  Stands(d) /\ execs'[d].task = execs[d].task
  <2>1. PICK e \in ExecId : e = wk[w].exec
    BY <1>5, HeartbeatOwns DEF RenewExecution
  <2>2. /\ execs' = [execs EXCEPT ![e].expires = hb[w].now + TTL]
        /\ execs[e].expires <= hb[w].now + TTL
    BY <1>5, <2>1, ZenonT(30) DEF RenewExecution, LeaseInv, Extensions
  <2> QED BY <1>0, <2>2 DEF TypeOK, ExecRow, Stands
<1>6. ASSUME NEW w \in Worker, Acquire(w)
      PROVE  /\ execs'[d].task = execs[d].task
             /\ Stands(d) \/ Recovered(d) \/ GivenBack(d) \/ TakenOver(d)
  BY <1>1, <1>2, <1>3, <1>4, <1>6
     DEF Acquire, Prepare, ReconcileStops, ReconcileFails, ClaimRefused,
         ListWorkspaceCommands, AcquireWorkspace, WorkspaceRefused, storeVars
<1>7. ASSUME NEW w \in Worker, Heartbeat(w)
      PROVE  Stands(d) /\ execs'[d].task = execs[d].task
  BY <1>1, <1>5, <1>7 DEF Heartbeat, HeartbeatWakes, RenewWorkspace, RenewFails, storeVars
<1>8. ASSUME NEW w \in Worker, Run(w)
      PROVE  Stands(d) /\ execs'[d].task = execs[d].task
  BY <1>1, <1>8
     DEF Run, AssertToolOwnership, Spawn, Register, RegisterRefused, CommandExits,
         TerminateCommand, RecordCleanupFailure, Complete, storeVars
<1>9. ASSUME NEW w \in Worker, Release(w)
      PROVE  (Stands(d) \/ GivenBack(d)) /\ execs'[d].task = execs[d].task
  BY <1>1, <1>3, <1>9 DEF Release, Leave, StopHeartbeat, ReleaseWorkspace, storeVars
<1> QED
  BY <1>1, <1>6, <1>7, <1>8, <1>9
     DEF Next, vars, Tick, ProcessExits, StartTask, Crash, storeVars

-----------------------------------------------------------------------------
(* What owners know. *)
LEMMA RunningRegistered ==
    ASSUME NEW c, Running(c)
    PROVE  Registered(c)
BY DEF Running, Registered, Unfinished

LEMMA RunningOwned ==
    ASSUME Shape, LeaseInv, NEW c \in CmdId, Running(c)
    PROVE  /\ cmds[c].exec \in ExecId /\ cmds[c].exec # None
           /\ execs[cmds[c].exec].status # "none" /\ execs[cmds[c].exec].task \in Task
BY NoneAssumption DEF Running, Unfinished, LeaseInv, References

LEMMA RegisterKnows ==
    ASSUME Shape, SpawnShape, Commands, Known, LeaseInv, NEW v \in Worker, Register(v),
           NEW w \in Worker
    PROVE  OwnerKnows(w)'
<1>1. PICK c \in CmdId, e \in ExecId :
          /\ wk[v].cmd = c /\ wk[v].exec = e
          /\ cmds'[c].exec = e
          /\ \A d \in CmdId : d # c => cmds'[d] = cmds[d]
          /\ alive' = alive
          /\ wk'[v].pc = "command" /\ wk'[v].cmd = c /\ wk'[v].exec = e
          /\ wk'[v].failed = wk[v].failed
          /\ \A u \in Worker : u # v => wk'[u] = wk[u]
  BY RegisterStep
<1>2. OwnerKnows(w) /\ OwnerKnows(v) /\ wk[v].pc = "spawned" /\ e # None
  BY NoneAssumption DEF Known, Register
<1>3. ASSUME NEW d \in CmdId, d # c, Running(d)' PROVE Running(d) /\ cmds'[d].exec = cmds[d].exec
  BY <1>1, <1>3 DEF Running
<1>4. CASE w = v
  BY <1>1, <1>2, <1>3, <1>4 DEF OwnerKnows, Acquiring
<1>5. CASE w # v
  <2>1. wk[w].exec # e
    BY <1>1, <1>2, <1>5 DEF LeaseInv, Owners
  <2> QED BY <1>1, <1>2, <1>3, <1>5, <2>1 DEF OwnerKnows
<1> QED BY <1>4, <1>5

LEMMA OwnerKnowsStep ==
    ASSUME Shape, SpawnShape, Commands, LeaseInv, Known, CommandFrame, [Next]_vars,
           NEW w \in Worker
    PROVE  OwnerKnows(w)'
<1> USE DEF Shape
<1>0. wk[w] \in WorkerRow /\ OwnerKnows(w)
  BY DEF TypeOK, Known
<1>a. \A c \in CmdId : Running(c)' => Running(c) /\ cmds'[c].exec = cmds[c].exec
  BY RunningRegistered DEF CommandFrame
<1>1. ASSUME wk'[w].exec = wk[w].exec,
             wk'[w].pc # "cleanup_error" /\ ~wk'[w].failed =>
                /\ wk[w].pc # "cleanup_error" /\ ~wk[w].failed
                /\ wk'[w].pc \in Acquiring => wk[w].pc \in Acquiring
                /\ wk'[w].cmd = wk[w].cmd \/ wk[w].pc \in Acquiring
                   \/ wk[w].cmd \notin alive'
      PROVE  OwnerKnows(w)'
  BY <1>0, <1>1, <1>a DEF OwnerKnows, Running
<1>2. ASSUME wk'[w].exec = None PROVE OwnerKnows(w)'
  BY <1>2 DEF OwnerKnows
<1>3. CASE Acquire(w)
  <2>1. ASSUME NEW t, Prepare(w, t) PROVE OwnerKnows(w)'
    BY <1>2, <2>1 DEF Prepare, Idle, TypeOK
  <2>2. ASSUME NEW c, ReconcileStops(w, c) PROVE OwnerKnows(w)'
    BY <1>0, <1>1, <2>2 DEF ReconcileStops, TypeOK, WorkerRow, Acquiring
  <2>3. ASSUME NEW c, ReconcileFails(w, c) PROVE OwnerKnows(w)'
    <3>1. CASE wk[w].pc = "reconcile_task"
      <4>1. wk[w].exec = None
        BY <3>1 DEF LeaseInv, Owners, Before
      <4> QED BY <1>0, <1>2, <2>3, <4>1 DEF ReconcileFails, TypeOK, WorkerRow
    <3>2. CASE wk[w].pc = "reconcile_ws"
      BY <1>0, <1>1, <2>3, <3>2 DEF ReconcileFails, TypeOK, WorkerRow, Acquiring
    <3> QED BY <2>3, <3>1, <3>2 DEF ReconcileFails
  <2>4. CASE MarkRecoveryRequired(w)
    <3>1. \/ wk'[w] = Idle
          \/ /\ wk'[w].exec = wk[w].exec /\ wk'[w].pc = "rollback" /\ wk[w].pc = "mark"
             /\ wk'[w].failed = wk[w].failed
      BY <1>0, <2>4 DEF MarkRecoveryRequired, TypeOK, WorkerRow
    <3> QED BY <1>1, <1>2, <3>1, SMTT(40) DEF Idle, Acquiring
  <2>5. ASSUME NEW e \in ExecId, NEW g, Claim(w, e, g) PROVE OwnerKnows(w)'
    <3>1. wk'[w].exec = e /\ execs[e].status = "none"
      BY <1>0, <2>5 DEF Claim, TypeOK, WorkerRow
    <3>2. \A c \in CmdId : Running(c) => cmds[c].exec # e
      BY <3>1, RunningOwned
    <3> QED BY <1>a, <3>1, <3>2 DEF OwnerKnows
  <2>6. CASE ClaimRefused(w) \/ Rollback(w)
    BY <1>2, <2>6 DEF ClaimRefused, Rollback, Idle, TypeOK
  <2>7. CASE ListWorkspaceCommands(w) \/ AcquireWorkspace(w) \/ WorkspaceRefused(w)
    BY <1>0, <1>1, <2>7
       DEF ListWorkspaceCommands, AcquireWorkspace, WorkspaceRefused, TypeOK, WorkerRow, Acquiring
  <2> QED BY <1>3, <2>1, <2>2, <2>3, <2>4, <2>5, <2>6, <2>7 DEF Acquire
<1>4. CASE Run(w)
  <2>1. CASE AssertToolOwnership(w) \/ Complete(w)
    BY <1>0, <1>1, <2>1 DEF AssertToolOwnership, Complete, TypeOK, WorkerRow, Acquiring
  <2>2. CASE RecordCleanupFailure(w)
    BY <1>0, <1>1, <2>2 DEF RecordCleanupFailure, TypeOK, WorkerRow
  <2>3. ASSUME NEW c \in CmdId, Spawn(w, c) PROVE OwnerKnows(w)'
    <3>1. /\ wk'[w].exec = wk[w].exec /\ wk'[w].pc = "spawned"
          /\ wk'[w].failed = wk[w].failed /\ wk[w].pc = "asserted"
      BY <1>0, <2>3 DEF Spawn, TypeOK, WorkerRow
    <3>2. \A d \in CmdId : Running(d) /\ cmds[d].exec = wk[w].exec /\ wk[w].exec # None
                           => wk[w].failed \/ wk[w].cmd = d
      BY <1>0, <3>1 DEF OwnerKnows
    <3>3. wk[w].cmd = None
      BY <3>1 DEF Commands, KnownTo, Handling
    <3> QED BY <1>a, <3>1, <3>2, <3>3, NoneAssumption DEF OwnerKnows, Acquiring
  <2>4. CASE Register(w)
    BY <2>4, RegisterKnows
  <2>5. CASE RegisterRefused(w)
    <3>1. PICK c \in CmdId : c = wk[w].cmd /\ cmds[c].status = "spawned"
      BY <2>5 DEF RegisterRefused, WorkerShape, SpawnShape
    <3>2. /\ wk'[w].exec = wk[w].exec /\ wk'[w].pc \in {"stopping", "cleanup_error"}
          /\ wk'[w].failed = wk[w].failed /\ wk[w].pc = "spawned"
      BY <1>0, <2>5 DEF RegisterRefused, TypeOK, WorkerRow
    <3>3. ~Running(c)
      BY <3>1 DEF Running, Unfinished
    <3> QED BY <1>0, <1>a, <3>1, <3>2, <3>3 DEF OwnerKnows, Acquiring
  <2>6. CASE CommandExits(w)
    BY <1>0, <1>1, <2>6 DEF CommandExits, TypeOK, WorkerRow, Acquiring
  <2>7. CASE TerminateCommand(w)
    BY <1>0, <1>1, <2>7 DEF TerminateCommand, TypeOK, WorkerRow, Acquiring
  <2> QED BY <1>4, <2>1, <2>2, <2>3, <2>4, <2>5, <2>6, <2>7 DEF Run
<1>5. CASE Release(w)
  <2>1. CASE Leave(w)
    BY <1>0, <1>1, <2>1 DEF Leave, TypeOK, WorkerRow, Acquiring
  <2>2. CASE StopHeartbeat(w)
    <3>1. \/ wk'[w] = Idle
          \/ /\ wk'[w].exec = wk[w].exec /\ wk[w].pc = "stopping"
             /\ wk'[w].failed = wk[w].failed
             /\ \/ wk'[w].pc = "cleanup_error"
                \/ wk'[w].pc = "stopping" /\ wk[w].cmd \notin alive'
                \/ wk'[w].pc \in Releasing /\ wk'[w].cmd = wk[w].cmd
      BY <1>0, <2>2 DEF StopHeartbeat, TypeOK, WorkerRow, Releasing
    <3> QED BY <1>1, <1>2, <3>1 DEF Idle, Acquiring, Releasing
  <2>3. CASE ReleaseWorkspace(w)
    BY <1>0, <1>1, <1>2, <2>3 DEF ReleaseWorkspace, TypeOK, WorkerRow, Idle, Acquiring
  <2>4. CASE ReleaseOwnership(w)
    BY <1>2, <2>4 DEF ReleaseOwnership, Idle, TypeOK
  <2> QED BY <1>5, <2>1, <2>2, <2>3, <2>4 DEF Release
<1>6. CASE Crash(w)
  BY <1>2, <1>6 DEF Crash, Idle, TypeOK
<1>7. CASE ~(Acquire(w) \/ Run(w) \/ Release(w) \/ Crash(w))
  BY <1>1, <1>7, OthersStay
<1> QED BY <1>3, <1>4, <1>5, <1>6, <1>7

(* Only a claim uses a fresh id, and only for an execution that runs.      *)
LEMMA FreshStays ==
    ASSUME Shape, SpawnShape, Commands, LeaseInv, [Next]_vars,
           NEW d \in ExecId, execs[d].status = "none"
    PROVE  execs'[d].status = "none" \/ execs'[d].status = "running"
<1>1. CASE IsClaim
  BY <1>1 DEF IsClaim, Claim, ClaimRows, IsActive, ActiveStatus, Shape, TypeOK, ExecRow
<1>2. CASE LeaseFrame
  BY <1>2 DEF LeaseFrame, SameLeases
<1>3. ASSUME NEW w \in Worker, RenewExecution(w) PROVE execs'[d].status = execs[d].status
  BY <1>3, ZenonT(30) DEF RenewExecution, Shape, TypeOK, ExecRow
<1>4. ASSUME NEW w \in Worker,
             \/ AcquireWorkspace(w) \/ ReleaseWorkspace(w)
             \/ HeartbeatWakes(w) \/ RenewWorkspace(w)
      PROVE  execs' = execs
  BY <1>4 DEF AcquireWorkspace, ReleaseWorkspace, HeartbeatWakes, RenewWorkspace, storeVars
<1> QED BY <1>1, <1>2, <1>3, <1>4, LeaseSteps

LEMMA ClockStep ==
    ASSUME Shape, SpawnShape, Commands, LeaseInv, [Next]_vars
    PROVE  clock \in Nat /\ clock' \in Nat /\ clock' >= clock
<1>0. clock \in Nat /\ clock' \in Nat
  BY NextShape, ZenonT(30) DEF Shape, TypeOK
<1>1. LeaseFrame \/ clock' = clock
  BY LeaseSteps, ZenonT(60) DEF IsClaim, Claim, AcquireWorkspace, ReleaseWorkspace, HeartbeatWakes,
                    RenewExecution, RenewWorkspace
<1> QED BY <1>0, <1>1 DEF LeaseFrame

(* A released execution is not extended. *)
LEMMA ReleasedStays ==
    ASSUME Shape, SpawnShape, Commands, LeaseInv, [Next]_vars,
           NEW d \in ExecId, execs[d].status = "released"
    PROVE  execs'[d].expires = execs[d].expires
<1>1. CASE IsClaim
  BY <1>1 DEF IsClaim, Claim, ClaimRows, IsActive, ActiveStatus, Shape, TypeOK, ExecRow
<1>2. CASE LeaseFrame
  BY <1>2 DEF LeaseFrame, SameLeases
<1>3. ASSUME NEW w \in Worker, RenewExecution(w) PROVE execs'[d].expires = execs[d].expires
  BY <1>3 DEF RenewExecution, GuardOK, IsActive, ActiveStatus, Shape, TypeOK, ExecRow
<1>4. ASSUME NEW w \in Worker,
             \/ AcquireWorkspace(w) \/ ReleaseWorkspace(w)
             \/ HeartbeatWakes(w) \/ RenewWorkspace(w)
      PROVE  execs' = execs
  BY <1>4 DEF AcquireWorkspace, ReleaseWorkspace, HeartbeatWakes, RenewWorkspace, storeVars
<1> QED BY <1>1, <1>2, <1>3, <1>4, LeaseSteps

(* The commands of an execution that its owner gives back do not run. *)
LEMMA GivenBackClean ==
    ASSUME Shape, Commands, LeaseInv, Known, NEW c \in CmdId, Running(c),
           GivenBack(cmds[c].exec)
    PROVE  FALSE
<1>1. PICK w \in Worker : wk[w].exec = cmds[c].exec /\ wk[w].pc \in {"rollback", "release_exec"}
  BY DEF GivenBack
<1>2. wk[w].exec # None
  BY <1>1, RunningOwned
<1>3. wk[w].cmd = None /\ ~wk[w].failed
  BY <1>1 DEF Commands, KnownTo, Handling
<1> QED BY <1>1, <1>2, <1>3, NoneAssumption DEF Known, OwnerKnows

LEMMA NextKnown ==
    ASSUME Shape, SpawnShape, Commands, LeaseInv, Known, [Next]_vars
    PROVE  Known'
<1> USE DEF Shape
<1>0. clock \in Nat /\ clock' \in Nat /\ clock' >= clock
  BY ClockStep
<1>1. \A w \in Worker : OwnerKnows(w)'
  BY CommandSteps, RegisterKnows, OwnerKnowsStep
<1>2. ASSUME NEW c \in CmdId, Running(c)', execs'[cmds'[c].exec].status = "released"
      PROVE  execs'[cmds'[c].exec].expires <= clock'
  <2>1. CASE CommandFrame
    <3>1. PICK d \in ExecId : /\ d = cmds[c].exec /\ d = cmds'[c].exec /\ Running(c)
                              /\ execs[d].status # "none"
      BY <1>2, <2>1, RunningRegistered, RunningOwned DEF CommandFrame
    <3>2. execs[d].expires \in Nat
      BY DEF TypeOK, ExecRow
    <3>3. CASE Stands(d)
      <4>1. execs'[d].expires = execs[d].expires
        BY <1>2, <3>1, <3>3, ReleasedStays DEF Stands
      <4>2. execs[d].expires <= clock
        BY <1>2, <3>1, <3>3 DEF Known, Stands
      <4> QED BY <1>0, <3>1, <3>2, <4>1, <4>2
    <3>4. CASE TakenOver(d)
      <4>1. PICK w \in Worker, e \in ExecId, g \in 1..MaxGen :
                Claim(w, e, g) /\ SessionOfExec(d) = SessionOf[wk[w].task]
        BY <3>4 DEF TakenOver
      <4>2. execs[d].expires <= wk[w].now /\ wk[w].now <= clock /\ wk[w].now \in Nat
        BY <3>2, <3>4, <4>1
           DEF TakenOver, Claim, ClaimAllowed, Blocking, LeaseInv, Owners, TypeOK, WorkerRow
      <4> QED BY <1>0, <3>1, <3>2, <3>4, <4>2 DEF TakenOver
    <3>5. ~Recovered(d) /\ ~GivenBack(d)
      BY <1>2, <3>1, GivenBackClean DEF Recovered
    <3> QED BY <3>1, <3>3, <3>4, <3>5, ExecSteps
  <2>2. ASSUME NEW w \in Worker, Register(w) PROVE execs'[cmds'[c].exec].expires <= clock'
    <3>1. PICK b \in CmdId, e \in ExecId :
              /\ GuardOK(e, clock) /\ cmds'[b].exec = e /\ execs' = execs /\ clock' = clock
              /\ \A d \in CmdId : d # b => cmds'[d] = cmds[d]
              /\ alive' = alive
      BY <2>2, RegisterStep
    <3>2. c # b
      BY <1>2, <3>1 DEF GuardOK, IsActive, ActiveStatus
    <3> QED BY <1>2, <3>1, <3>2 DEF Known, Running
  <2> QED BY <2>1, <2>2, CommandSteps
<1>3. ASSUME NEW d \in ExecId, execs'[d].status = "recovery_required"
      PROVE  tasks'[execs'[d].task].cond = "recovery_required"
  <2>1. execs[d].status # "none"
    BY <1>3, FreshStays DEF ActiveStatus
  <2>2. execs[d].task \in Task
    BY <2>1 DEF LeaseInv, References
  <2>3. CASE Stands(d)
    BY <1>3, <2>1, <2>2, <2>3, ExecSteps, TaskSteps DEF Stands, Known, TaskFrame
  <2>4. CASE Recovered(d)
    BY <2>1, <2>4, ExecSteps DEF Recovered
  <2> QED BY <1>3, <2>1, <2>3, <2>4, ExecSteps DEF GivenBack, TakenOver
<1> QED BY <1>1, <1>2, <1>3 DEF Known

-----------------------------------------------------------------------------
(* What a worker that takes over has found. *)

(* One of the commands on the worker's list is dealt with. *)
Reconciles(w) ==
    \E c \in wk[w].todo :
        /\ wk'[w] = [wk[w] EXCEPT !.todo = @ \ {c}]
        /\ ~Running(c)'

LEMMA FindSteps ==
    ASSUME Shape, Commands, [Next]_vars, NEW w \in Worker,
           wk'[w].pc \in {"reconcile_task", "reconcile_ws"}
    PROVE  \/ wk'[w] = wk[w]
           \/ Reconciles(w)
           \/ \E t \in Serves[w] : Prepare(w, t)
           \/ ListWorkspaceCommands(w)
<1> USE DEF Shape
<1>0. wk[w] \in WorkerRow
  BY DEF TypeOK
<1>1. CASE ~(Acquire(w) \/ Run(w) \/ Release(w) \/ Crash(w))
  BY <1>1, OthersStay
<1>2. CASE Run(w)
  <2>1. CASE RegisterRefused(w) \/ CommandExits(w) \/ TerminateCommand(w)
    BY <1>0, <2>1 DEF RegisterRefused, CommandExits, TerminateCommand, TypeOK, WorkerRow
  <2> QED
    BY <1>0, <1>2, <2>1
       DEF Run, AssertToolOwnership, Spawn, Register, RecordCleanupFailure, Complete,
           TypeOK, WorkerRow
<1>3. CASE Release(w)
  <2>1. CASE StopHeartbeat(w)
    BY <1>0, <2>1, SMTT(40) DEF StopHeartbeat, Idle, TypeOK, WorkerRow
  <2> QED
    BY <1>0, <1>3, <2>1
       DEF Release, Leave, ReleaseWorkspace, ReleaseOwnership, Idle, TypeOK, WorkerRow
<1>4. CASE Crash(w)
  BY <1>4 DEF Crash, Idle, TypeOK
<1>5. CASE Acquire(w)
  <2>1. ASSUME NEW c \in CmdId, ReconcileStops(w, c) PROVE Reconciles(w)
    BY <2>1 DEF ReconcileStops, Reconciles, Running, TypeOK
  <2>2. ASSUME NEW c \in CmdId, ReconcileFails(w, c) PROVE Reconciles(w)
    <3>1. CASE cmds[c].status \in Unfinished
      BY <1>0, <2>2, <3>1 DEF ReconcileFails, TypeOK, WorkerRow
    <3>2. CASE cmds[c].status \notin Unfinished
      BY <2>2, <3>2 DEF ReconcileFails, Finish, Reconciles, Running, TypeOK
    <3> QED BY <3>1, <3>2
  <2>3. CASE MarkRecoveryRequired(w) \/ ClaimRefused(w) \/ Rollback(w)
    BY <1>0, <2>3
       DEF MarkRecoveryRequired, ClaimRefused, Rollback, Idle, TypeOK, WorkerRow
  <2>4. ASSUME NEW e, NEW g, Claim(w, e, g) PROVE FALSE
    BY <1>0, <2>4 DEF Claim, TypeOK, WorkerRow
  <2>5. CASE AcquireWorkspace(w) \/ WorkspaceRefused(w)
    BY <1>0, <2>5 DEF AcquireWorkspace, WorkspaceRefused, TypeOK, WorkerRow
  <2> QED BY <1>5, <2>1, <2>2, <2>3, <2>4, <2>5 DEF Acquire
<1> QED BY <1>1, <1>2, <1>3, <1>4, <1>5

(* prepare_task_execution: the list has every running command of the task  *)
(* whose execution does not block the claim.                               *)
LEMMA PrepareFinds ==
    ASSUME Shape, Shape', LeaseInv, Known, NEW w \in Worker, NEW t \in Serves[w], Prepare(w, t)
    PROVE  /\ wk'[w].pc = "reconcile_task" /\ wk'[w].task = t /\ t \in Task
           /\ wk'[w].version = tasks[t].version
           /\ active[SessionOf[t]] = t
           /\ tasks[t].cond # "recovery_required" =>
                  \A c \in CmdId :
                      Running(c) /\ execs[cmds[c].exec].task = t
                      => \/ c \in wk'[w].todo
                         \/ /\ IsActive(cmds[c].exec)
                            /\ execs[cmds[c].exec].expires > wk'[w].now
<1> USE DEF Shape
<1>1. t \in Task
  BY MapAssumption
<1>2. /\ wk'[w].pc = "reconcile_task" /\ wk'[w].task = t
      /\ wk'[w].version = tasks[t].version
      /\ wk'[w].now = clock
      /\ wk'[w].todo = RecoveryCommandsForTask(t, clock)
      /\ active[SessionOf[t]] = t
  BY DEF Prepare, Idle, TypeOK
<1>3. ASSUME tasks[t].cond # "recovery_required", NEW c \in CmdId, Running(c),
             execs[cmds[c].exec].task = t, c \notin wk'[w].todo
      PROVE  IsActive(cmds[c].exec) /\ execs[cmds[c].exec].expires > clock
  <2>1. PICK d \in ExecId : d = cmds[c].exec /\ execs[d].status # "none"
    BY <1>3, RunningOwned
  <2>2. execs[d].expires \in Nat /\ clock \in Nat /\ execs[d].status \in ExecStatus
    BY DEF TypeOK, ExecRow
  <2>3. execs[d].expires > clock
    BY <1>2, <1>3, <2>1, <2>2 DEF RecoveryCommandsForTask, Running
  <2>4. execs[d].status \notin {"none", "released", "recovery_required"}
    BY <1>3, <2>1, <2>2, <2>3 DEF Known
  <2>5. IsActive(d)
    BY <2>2, <2>4 DEF IsActive, ActiveStatus, ExecStatus
  <2> QED BY <2>1, <2>3, <2>5
<1> QED BY <1>1, <1>2, <1>3

(* A worker that still may claim could do so before the step, and what     *)
(* blocked it then blocks it still.                                        *)
LEMMA BlockerStays ==
    ASSUME Shape, SpawnShape, Commands, LeaseInv, Known, Found, CommandFrame, [Next]_vars,
           NEW w \in Worker, MayClaim(w), wk[w].task \in Task,
           tasks'[wk[w].task].version = wk[w].version,
           tasks'[wk[w].task].cond # "recovery_required",
           NEW c \in CmdId, Running(c), execs[cmds[c].exec].task = wk[w].task,
           IsActive(cmds[c].exec), execs[cmds[c].exec].expires > wk[w].now
    PROVE  /\ IsActive(cmds[c].exec)'
           /\ execs'[cmds[c].exec].expires > wk[w].now
<1> USE DEF Shape
<1>1. PICK d \in ExecId : d = cmds[c].exec /\ execs[d].status # "none"
  BY RunningOwned
<1>2. /\ execs[d].expires \in Nat /\ wk[w].now \in Nat /\ execs'[d].expires \in Nat
  BY NextShape DEF TypeOK, ExecRow, WorkerRow
<1>3. ~Recovered(d)
  BY <1>1 DEF Recovered
<1>4. ~GivenBack(d)
  BY <1>1, GivenBackClean
<1>5. ~TakenOver(d)
  <2> SUFFICES ASSUME NEW v \in Worker, NEW e \in ExecId, NEW g \in 1..MaxGen,
                      Claim(v, e, g), SessionOf[wk[w].task] = SessionOf[wk[v].task]
               PROVE  FALSE
    BY <1>1 DEF TakenOver, SessionOfExec
  <2>1. wk[v].pc = "reconcile_task" /\ MayClaim(v) /\ wk[v].task \in Task
    BY DEF Claim, ClaimAllowed, MayClaim, WorkerShape
  <2>2. wk[v].task = wk[w].task
    BY <2>1 DEF Found
  <2>3. tasks' = WithCondition(wk[v].task, "running")
    BY DEF Claim
  <2>4. /\ tasks'[wk[w].task].version = tasks[wk[w].task].version + 1
        /\ tasks[wk[w].task].version \in Nat
    BY <2>1, <2>2, <2>3, ConditionWritten DEF Condition
  <2> QED BY <2>4 DEF MayClaim
<1>6. Stands(d)
  BY <1>1, <1>3, <1>4, <1>5, ExecSteps
<1>7. cmds'[c].exec = d
  BY <1>1, RunningRegistered DEF CommandFrame
<1> QED BY <1>1, <1>2, <1>6, <1>7 DEF Stands, IsActive

LEMMA NextFound ==
    ASSUME Shape, SpawnShape, Commands, LeaseInv, Known, Found, [Next]_vars
    PROVE  Found'
<1> USE DEF Shape
<1>0. Shape'
  BY NextShape
<1> SUFFICES ASSUME NEW w \in Worker, wk'[w].pc = "reconcile_task"
             PROVE  /\ wk'[w].version <= tasks'[wk'[w].task].version
                    /\ MayClaim(w)' => active'[SessionOf[wk'[w].task]] = wk'[w].task
                    /\ MayClaim(w)' /\ tasks'[wk'[w].task].cond # "recovery_required" =>
                          \A c \in CmdId :
                              Running(c)' /\ execs'[cmds'[c].exec].task = wk'[w].task
                              => \/ c \in wk'[w].todo
                                 \/ /\ IsActive(cmds[c].exec)'
                                    /\ execs'[cmds'[c].exec].expires > wk'[w].now
  <2>1. \A w \in Worker : MayClaim(w)' => wk'[w].pc = "reconcile_task"
    BY DEF MayClaim
  <2> QED BY <2>1 DEF Found
<1>1. ASSUME NEW t \in Serves[w], Prepare(w, t)
      PROVE  /\ wk'[w].version <= tasks'[wk'[w].task].version
             /\ MayClaim(w)' => active'[SessionOf[wk'[w].task]] = wk'[w].task
             /\ MayClaim(w)' /\ tasks'[wk'[w].task].cond # "recovery_required" =>
                   \A c \in CmdId :
                       Running(c)' /\ execs'[cmds'[c].exec].task = wk'[w].task
                       => \/ c \in wk'[w].todo
                          \/ /\ IsActive(cmds[c].exec)'
                             /\ execs'[cmds'[c].exec].expires > wk'[w].now
  <2>1. /\ tasks' = tasks /\ execs' = execs /\ cmds' = cmds /\ alive' = alive
        /\ active' = active
    BY <1>1 DEF Prepare, storeVars
  <2>2. tasks[t].version \in Nat
    BY <1>1, MapAssumption DEF TypeOK, TaskRow
  <2> QED BY <1>0, <1>1, <2>1, <2>2, PrepareFinds DEF Running, IsActive
<1>2. CASE wk'[w] = wk[w] \/ Reconciles(w)
  <2>1. PICK t \in Task :
          /\ wk[w].task = t /\ wk'[w].task = t
          /\ wk[w].pc = "reconcile_task"
          /\ wk'[w].version = wk[w].version /\ wk[w].version \in Nat
          /\ wk'[w].now = wk[w].now /\ wk[w].now \in Nat
          /\ \A c \in wk[w].todo : c \in wk'[w].todo \/ ~Running(c)'
    <3>1. wk[w] \in WorkerRow
      BY DEF TypeOK
    <3>2. /\ wk'[w].task = wk[w].task /\ wk[w].pc = "reconcile_task"
          /\ wk'[w].version = wk[w].version /\ wk[w].version \in Nat
          /\ wk'[w].now = wk[w].now /\ wk[w].now \in Nat
          /\ \A c \in wk[w].todo : c \in wk'[w].todo \/ ~Running(c)'
      BY <1>2, <3>1, ZenonT(60) DEF Reconciles, WorkerRow
    <3> QED BY <3>2 DEF WorkerShape
  <2>2. /\ tasks[t].version \in Nat /\ tasks'[t].version \in Nat
        /\ TaskFrame(t)
        /\ wk[w].version <= tasks[t].version
    BY <1>0, <2>1, TaskSteps DEF TypeOK, TaskRow, Found
  <2>3. wk'[w].version <= tasks'[t].version
    BY <2>1, <2>2 DEF TaskFrame
  <2>4. ASSUME MayClaim(w)'
        PROVE  MayClaim(w) /\ tasks'[t].version = tasks[t].version /\ active'[SessionOf[t]] = t
    BY <2>1, <2>2, <2>4 DEF MayClaim, TaskFrame, Found
  <2>5. ASSUME MayClaim(w)', tasks'[t].cond # "recovery_required", NEW c \in CmdId,
               Running(c)', execs'[cmds'[c].exec].task = t
        PROVE  \/ c \in wk'[w].todo
               \/ IsActive(cmds[c].exec)' /\ execs'[cmds'[c].exec].expires > wk'[w].now
    <3>1. MayClaim(w) /\ tasks[t].cond # "recovery_required"
      BY <2>2, <2>4, <2>5 DEF TaskFrame
    <3>a. tasks'[t].version = wk[w].version
      BY <2>1, <2>5 DEF MayClaim
    <3>2. CASE CommandFrame
      <4>1. Running(c) /\ cmds'[c].exec = cmds[c].exec
        BY <2>5, <3>2, RunningRegistered DEF CommandFrame
      <4>2. execs[cmds[c].exec].task = t
        BY <2>5, <4>1, RunningOwned, ExecSteps
      <4>3. c \in wk[w].todo \/ (IsActive(cmds[c].exec) /\ execs[cmds[c].exec].expires > wk[w].now)
        BY <2>1, <3>1, <4>1, <4>2 DEF Found
      <4>4. CASE IsActive(cmds[c].exec) /\ execs[cmds[c].exec].expires > wk[w].now
        BY <2>1, <2>5, <3>1, <3>2, <3>a, <4>1, <4>2, <4>4, BlockerStays DEF IsActive
      <4> QED BY <2>1, <2>5, <4>3, <4>4
    <3>3. ASSUME NEW v \in Worker, Register(v)
          PROVE  \/ c \in wk'[w].todo
                 \/ IsActive(cmds[c].exec)' /\ execs'[cmds'[c].exec].expires > wk'[w].now
      <4>1. PICK b \in CmdId, e \in ExecId :
                /\ GuardOK(e, clock) /\ cmds'[b].exec = e /\ execs' = execs
                /\ \A d \in CmdId : d # b => cmds'[d] = cmds[d]
                /\ alive' = alive
        BY <3>3, RegisterStep
      <4>2. CASE c = b
        <5>1. execs[e].expires \in Nat /\ clock \in Nat /\ wk[w].now <= clock
          BY DEF TypeOK, ExecRow, LeaseInv, Owners
        <5> QED BY <2>1, <4>1, <4>2, <5>1 DEF GuardOK, IsActive
      <4>3. CASE c # b
        <5>1. Running(c) /\ cmds'[c] = cmds[c]
          BY <2>5, <4>1, <4>3 DEF Running
        <5> QED BY <2>1, <2>5, <3>1, <4>1, <5>1 DEF Found, IsActive
      <4> QED BY <4>2, <4>3
    <3> QED BY <3>2, <3>3, CommandSteps
  <2> QED BY <2>1, <2>3, <2>4, <2>5
<1>3. ~ListWorkspaceCommands(w)
  BY DEF ListWorkspaceCommands, TypeOK, WorkerRow
<1> QED BY <1>1, <1>2, <1>3, FindSteps

-----------------------------------------------------------------------------
(* Takeovers are clean. *)

(* A claim finds no running command of its task. *)
LEMMA ClaimClean ==
    ASSUME Shape, LeaseInv, Found, NEW w \in Worker, NEW e, NEW g, Claim(w, e, g),
           NEW c \in CmdId, Running(c), execs[cmds[c].exec].task = wk[w].task
    PROVE  FALSE
<1>1. /\ MayClaim(w) /\ wk[w].todo = {} /\ tasks[wk[w].task].cond # "recovery_required"
      /\ Blocking(wk[w].task, wk[w].now) = {}
  BY DEF Claim, ClaimAllowed, MayClaim
<1>2. /\ IsActive(cmds[c].exec) /\ execs[cmds[c].exec].expires > wk[w].now
      /\ cmds[c].exec \in ExecId
  BY <1>1, RunningOwned DEF Found
<1>3. cmds[c].exec \in Blocking(wk[w].task, wk[w].now)
  BY <1>2 DEF Blocking, SessionOfExec
<1> QED BY <1>1, <1>3

LEMMA NextTaskClean ==
    ASSUME Shape, SpawnShape, SessionExclusive, Commands, LeaseInv, Found, TaskTakeoverClean,
           [Next]_vars
    PROVE  TaskTakeoverClean'
<1> USE DEF Shape
<1>1. Commands' /\ Shape'
  BY NextCommands, NextShape
<1>2. ASSUME NEW c \in CmdId, Running(c)', NEW e \in ExecId, IsActive(e)',
             execs'[e].task = execs'[cmds'[c].exec].task
      PROVE  cmds'[c].exec = e
  <2>1. CASE CommandFrame
    <3>1. PICK d \in ExecId : /\ d = cmds[c].exec /\ d = cmds'[c].exec /\ Running(c)
                              /\ execs[d].status # "none" /\ execs[d].task \in Task
      BY <1>2, <2>1, RunningRegistered, RunningOwned DEF CommandFrame
    <3>2. execs'[d].task = execs[d].task
      BY <3>1, ExecSteps
    <3>3. CASE IsClaim
      <4>1. PICK w \in Worker, f \in ExecId, g \in 1..MaxGen : Claim(w, f, g)
        BY <3>3 DEF IsClaim
      <4>2. CASE e = f
        <5>1. execs'[e].task = wk[w].task
          BY <4>1, <4>2 DEF Claim, ClaimRows
        <5> QED BY <1>2, <3>1, <3>2, <4>1, <5>1, ClaimClean
      <4>3. CASE e # f
        <5>1. IsActive(e) /\ execs'[e].task = execs[e].task
          BY <1>2, <4>1, <4>3
             DEF Claim, ClaimRows, IsActive, ActiveStatus, TypeOK, ExecRow
        <5> QED BY <1>2, <3>1, <3>2, <5>1 DEF TaskTakeoverClean, Running
      <4> QED BY <4>2, <4>3
    <3>4. CASE ExecFrame
      <4>1. IsActive(e) /\ execs'[e].task = execs[e].task
        BY <1>2, <3>4 DEF ExecFrame, IsActive
      <4> QED BY <1>2, <3>1, <3>2, <4>1 DEF TaskTakeoverClean, Running
    <3> QED BY <3>3, <3>4, OnlyClaimActivates
  <2>2. ASSUME NEW w \in Worker, Register(w) PROVE cmds'[c].exec = e
    <3>1. PICK b \in CmdId, f \in ExecId :
              /\ GuardOK(f, clock) /\ cmds'[b].exec = f /\ execs' = execs
              /\ \A d \in CmdId : d # b => cmds'[d] = cmds[d]
              /\ alive' = alive
      BY <2>2, RegisterStep
    <3>2. CASE c = b
      BY <1>2, <3>1, <3>2 DEF GuardOK, SessionExclusive, SessionOfExec, IsActive
    <3>3. CASE c # b
      BY <1>2, <3>1, <3>3 DEF Running, IsActive, TaskTakeoverClean
    <3> QED BY <3>2, <3>3
  <2> QED BY <2>1, <2>2, CommandSteps
<1>3. alive' \subseteq CmdId
  BY <1>1 DEF TypeOK
<1> QED BY <1>1, <1>2, <1>3 DEF TaskTakeoverClean, Commands, Running

(* A command registered under the writer lease that still runs. *)
LEMMA CoveredStays ==
    ASSUME Shape, SpawnShape, Commands, LeaseInv, CommandFrame, [Next]_vars,
           NEW c \in covered', Running(c)'
    PROVE  /\ c \in CmdId /\ c \in covered /\ Running(c)
           /\ cmds'[c].exec = cmds[c].exec /\ cmds[c].exec \in ExecId /\ cmds[c].exec # None
           /\ execs[cmds[c].exec].task \in Task
           /\ execs'[cmds[c].exec].task = execs[cmds[c].exec].task
<1>1. c \in CmdId /\ c \in covered /\ Running(c)
  BY DEF CommandFrame, Shape, TypeOK
<1>2. cmds'[c].exec = cmds[c].exec
  BY <1>1, RunningRegistered DEF CommandFrame
<1> QED BY <1>1, <1>2, RunningOwned, ExecSteps

(* What the steps do to the row of a workspace. *)
WriterStands(x) ==
    wlease'[x].exec = wlease[x].exec /\ wlease'[x].expires >= wlease[x].expires

LEMMA WriterSteps ==
    ASSUME Shape, SpawnShape, Commands, LeaseInv, [Next]_vars, NEW x \in Workspace
    PROVE  \/ WriterStands(x)
           \/ \E w \in Worker : /\ AcquireWorkspace(w) \/ ReleaseWorkspace(w)
                                /\ WorkspaceOf[wk[w].task] = x
<1> USE DEF Shape
<1>0. wlease[x].expires \in Nat
  BY DEF TypeOK, LeaseRow
<1>1. ASSUME wlease' = wlease PROVE WriterStands(x)
  BY <1>0, <1>1 DEF WriterStands
<1>2. ASSUME NEW w \in Worker, AcquireWorkspace(w) \/ ReleaseWorkspace(w),
             WorkspaceOf[wk[w].task] # x
      PROVE  WriterStands(x)
  BY <1>0, <1>1, <1>2 DEF AcquireWorkspace, ReleaseWorkspace, TypeOK, WriterStands
<1>3. ASSUME NEW w \in Worker, RenewWorkspace(w) PROVE WriterStands(x)
  <2>1. PICK e \in ExecId : e = wk[w].exec /\ e # None
    BY <1>3, HeartbeatOwns DEF RenewWorkspace
  <2>2. PICK y \in Workspace : y = WorkspaceOf[wk[w].task]
    BY <1>3, HeartbeatOwns DEF RenewWorkspace
  <2>3. execs[e].expires = hb[w].now + TTL
    BY <1>3, <2>1, ZenonT(30) DEF RenewWorkspace, LeaseInv, Extensions
  <2>4. wlease[y].exec = e /\ wlease[y].expires <= execs[e].expires
    BY <1>3, <2>1, <2>2
       DEF RenewWorkspace, WorkspaceGuardOK, WorkerShape, LeaseInv, LeaseNesting
  <2>5. wlease' = [wlease EXCEPT ![y].expires = hb[w].now + TTL]
    BY <1>3, <2>2 DEF RenewWorkspace
  <2> QED BY <1>0, <2>3, <2>4, <2>5 DEF TypeOK, LeaseRow, WriterStands
<1>4. ASSUME NEW w \in Worker, HeartbeatWakes(w) \/ RenewExecution(w) PROVE wlease' = wlease
  BY <1>4 DEF HeartbeatWakes, RenewExecution, storeVars
<1>5. IsClaim => wlease' = wlease
  BY DEF IsClaim, Claim
<1> QED BY <1>1, <1>2, <1>3, <1>4, <1>5, LeaseSteps DEF LeaseFrame

(* A new writer finds no running command of the workspace's last one, and  *)
(* a writer that gives the lease up has none.                              *)
LEMMA WriterClean ==
    ASSUME Shape, Commands, LeaseInv, Known, FoundInWorkspace, WorkspaceTakeoverClean,
           NEW w \in Worker, NEW c \in covered, Running(c),
           WorkspaceOf[execs[cmds[c].exec].task] = WorkspaceOf[wk[w].task],
           \/ AcquireWorkspace(w)
           \/ ReleaseWorkspace(w) /\ WorkspaceGuardOK(wk[w].exec, wk[w].now)
    PROVE  FALSE
<1> USE DEF Shape
<1>1. wk[w].task \in Task /\ wk[w].exec \in ExecId /\ wk[w].exec # None
  BY NoneAssumption, ZenonT(30) DEF AcquireWorkspace, ReleaseWorkspace, WorkerShape, Claimed, PC
<1>2. PICK x \in Workspace : x = WorkspaceOf[wk[w].task]
  BY <1>1, MapAssumption
<1>3. wlease[x].exec = cmds[c].exec /\ c \in CmdId
  BY <1>2 DEF WorkspaceTakeoverClean, Running, TypeOK
<1>4. CASE AcquireWorkspace(w)
  <2>1. wlease[x].expires > wk[w].now
    BY <1>2, <1>4 DEF AcquireWorkspace, FoundInWorkspace
  <2>2. wlease[x].expires <= wk[w].now
    BY <1>2, <1>4 DEF AcquireWorkspace, WriterAllowed
  <2>3. wlease[x].expires \in Nat /\ wk[w].now \in Nat
    BY DEF TypeOK, LeaseRow, WorkerRow
  <2> QED BY <2>1, <2>2, <2>3
<1>5. CASE ReleaseWorkspace(w) /\ WorkspaceGuardOK(wk[w].exec, wk[w].now)
  <2>1. wlease[x].exec = wk[w].exec
    BY <1>1, <1>2, <1>5, ZenonT(30) DEF WorkspaceGuardOK, WorkerShape
  <2>2. wk[w].cmd = None /\ ~wk[w].failed /\ wk[w].pc = "release_ws"
    BY <1>5 DEF ReleaseWorkspace, Commands, KnownTo, Handling
  <2> QED BY <1>1, <1>3, <2>1, <2>2, NoneAssumption DEF Known, OwnerKnows
<1> QED BY <1>4, <1>5, ZenonT(30)

LEMMA NextWorkspaceClean ==
    ASSUME Shape, SpawnShape, Commands, LeaseInv, Known, FoundInWorkspace,
           WorkspaceTakeoverClean, [Next]_vars
    PROVE  WorkspaceTakeoverClean'
<1> USE DEF Shape
<1>0. Shape' /\ Commands'
  BY NextShape, NextCommands, ZenonT(30)
<1> SUFFICES ASSUME NEW c \in alive' \cap covered'
             PROVE  wlease'[WorkspaceOf[execs'[cmds'[c].exec].task]].exec = cmds'[c].exec
  BY DEF WorkspaceTakeoverClean
<1>1. c \in CmdId /\ Running(c)'
  BY <1>0 DEF TypeOK, Commands, Running, Registered
<1>2. CASE CommandFrame
  <2>1. /\ c \in covered /\ Running(c)
        /\ cmds'[c].exec = cmds[c].exec /\ cmds[c].exec \in ExecId /\ cmds[c].exec # None
        /\ execs[cmds[c].exec].task \in Task
        /\ execs'[cmds[c].exec].task = execs[cmds[c].exec].task
    BY <1>1, <1>2, CoveredStays
  <2>2. PICK x \in Workspace : x = WorkspaceOf[execs[cmds[c].exec].task]
    BY <2>1, MapAssumption
  <2>3. wlease[x].exec = cmds[c].exec
    BY <2>1, <2>2 DEF WorkspaceTakeoverClean, Running
  <2>4. wlease'[x].exec = wlease[x].exec
    <3>1. ASSUME NEW w \in Worker, AcquireWorkspace(w), WorkspaceOf[wk[w].task] = x PROVE FALSE
      BY <2>1, <2>2, <3>1, WriterClean
    <3>2. ASSUME NEW w \in Worker, ReleaseWorkspace(w) PROVE wlease'[x].exec = wlease[x].exec
      <4>1. \/ wlease' = wlease
            \/ wlease' = [wlease EXCEPT ![WorkspaceOf[wk[w].task]].expires = wk[w].now]
        BY <3>2 DEF ReleaseWorkspace
      <4> QED BY <4>1 DEF TypeOK, LeaseRow
    <3> QED BY <3>1, <3>2, WriterSteps DEF WriterStands
  <2> QED BY <2>1, <2>2, <2>3, <2>4
<1>3. ASSUME NEW w \in Worker, Register(w)
      PROVE  wlease'[WorkspaceOf[execs'[cmds'[c].exec].task]].exec = cmds'[c].exec
  <2>1. PICK b \in CmdId, e \in ExecId :
            /\ cmds'[b].exec = e /\ execs' = execs /\ wlease' = wlease
            /\ \A d \in CmdId : d # b => cmds'[d] = cmds[d]
            /\ alive' = alive
            /\ cmds[b].status = "spawned"
            /\ covered' = IF WorkspaceGuardOK(e, clock) THEN covered \cup {b} ELSE covered
    BY <1>3, RegisterStep
  <2>2. CASE c = b
    <3>1. b \notin covered
      BY <2>1 DEF Commands, Registered
    <3> QED BY <2>1, <2>2, <3>1 DEF WorkspaceGuardOK
  <2>3. CASE c # b
    <3>1. c \in alive \cap covered /\ cmds'[c] = cmds[c]
      BY <1>1, <2>1, <2>3
    <3>2. wlease[WorkspaceOf[execs[cmds[c].exec].task]].exec = cmds[c].exec
      BY <3>1 DEF WorkspaceTakeoverClean
    <3> QED BY <2>1, <3>1, <3>2
  <2> QED BY <2>2, <2>3
<1> QED BY <1>2, <1>3, CommandSteps

LEMMA NextFoundInWorkspace ==
    ASSUME Shape, SpawnShape, Commands, LeaseInv, Known, FoundInWorkspace,
           WorkspaceTakeoverClean, [Next]_vars
    PROVE  FoundInWorkspace'
<1> USE DEF Shape
<1>0. Shape'
  BY NextShape
<1> SUFFICES ASSUME NEW w \in Worker, wk'[w].pc = "reconcile_ws",
                    NEW c \in covered', Running(c)',
                    WorkspaceOf[execs'[cmds'[c].exec].task] = WorkspaceOf[wk'[w].task]
             PROVE  \/ c \in wk'[w].todo
                    \/ wlease'[WorkspaceOf[wk'[w].task]].expires > wk'[w].now
  BY DEF FoundInWorkspace
<1>1. wk[w] \in WorkerRow
  BY DEF TypeOK
<1>2. CASE ListWorkspaceCommands(w)
  <2>1. /\ wk'[w].task = wk[w].task /\ wk'[w].now = wk[w].now
        /\ wk'[w].todo = RecoveryCommandsForWorkspace(WorkspaceOf[wk[w].task], wk[w].now)
        /\ wk[w].pc = "list_ws"
    BY <1>1, <1>2 DEF ListWorkspaceCommands, TypeOK, WorkerRow
  <2>2. /\ execs' = execs /\ cmds' = cmds /\ alive' = alive /\ covered' = covered
        /\ wlease' = wlease
    BY <1>2 DEF ListWorkspaceCommands, storeVars
  <2>3. PICK x \in Workspace : x = WorkspaceOf[wk[w].task]
    BY <2>1, MapAssumption, ZenonT(30) DEF WorkerShape
  <2>4. c \in CmdId /\ Running(c) /\ wlease[x].exec = cmds[c].exec
    BY <2>1, <2>2, <2>3 DEF Running, WorkspaceTakeoverClean, TypeOK
  <2>5. wlease[x].expires \in Nat /\ wk[w].now \in Nat
    BY <1>1 DEF TypeOK, LeaseRow, WorkerRow
  <2> QED BY <2>1, <2>2, <2>3, <2>4, <2>5 DEF RecoveryCommandsForWorkspace, Running
<1>3. CASE wk'[w] = wk[w] \/ Reconciles(w)
  <2>1. /\ wk'[w].task = wk[w].task /\ wk'[w].now = wk[w].now /\ wk[w].now \in Nat
        /\ wk[w].pc = "reconcile_ws"
        /\ \A d \in wk[w].todo : d \in wk'[w].todo \/ ~Running(d)'
    BY <1>1, <1>3, ZenonT(60) DEF Reconciles, WorkerRow
  <2>2. PICK x \in Workspace : x = WorkspaceOf[wk[w].task]
    BY <2>1, MapAssumption DEF WorkerShape
  <2>3. wlease[x].expires \in Nat /\ wlease'[x].expires \in Nat
    BY <1>0 DEF TypeOK, LeaseRow
  <2>4. CASE CommandFrame
    <3>1. /\ c \in covered /\ Running(c)
          /\ cmds'[c].exec = cmds[c].exec
          /\ execs'[cmds[c].exec].task = execs[cmds[c].exec].task
      BY <2>4, CoveredStays
    <3>2. c \in wk[w].todo \/ wlease[x].expires > wk[w].now
      BY <2>1, <2>2, <3>1 DEF FoundInWorkspace
    <3>3. wlease'[x].expires >= wlease[x].expires
      <4>1. ASSUME NEW v \in Worker, AcquireWorkspace(v), WorkspaceOf[wk[v].task] = x PROVE FALSE
        BY <2>1, <2>2, <3>1, <4>1, WriterClean
      <4>2. ASSUME NEW v \in Worker, ReleaseWorkspace(v), WorkspaceOf[wk[v].task] = x
            PROVE  wlease' = wlease
        <5>1. ~WorkspaceGuardOK(wk[v].exec, wk[v].now)
          BY <2>1, <2>2, <3>1, <4>2, WriterClean
        <5> QED BY <4>2, <5>1 DEF ReleaseWorkspace
      <4> QED BY <2>3, <4>1, <4>2, WriterSteps DEF WriterStands
    <3> QED BY <2>1, <2>2, <2>3, <3>2, <3>3
  <2>5. ASSUME NEW v \in Worker, Register(v)
        PROVE  c \in wk'[w].todo \/ wlease'[WorkspaceOf[wk'[w].task]].expires > wk'[w].now
    <3>1. PICK b \in CmdId, e \in ExecId :
              /\ cmds'[b].exec = e /\ execs' = execs /\ wlease' = wlease
              /\ \A d \in CmdId : d # b => cmds'[d] = cmds[d]
              /\ alive' = alive
              /\ cmds[b].status = "spawned"
              /\ covered' = IF WorkspaceGuardOK(e, clock) THEN covered \cup {b} ELSE covered
      BY <2>5, RegisterStep
    <3>2. CASE c = b
      <4>1. b \notin covered
        BY <3>1 DEF Commands, Registered
      <4>2. wlease[x].expires > clock
        BY <2>1, <2>2, <3>1, <3>2, <4>1 DEF WorkspaceGuardOK
      <4>3. wk[w].now <= clock /\ clock \in Nat
        BY DEF LeaseInv, Owners, TypeOK
      <4> QED BY <2>1, <2>2, <2>3, <3>1, <4>2, <4>3
    <3>3. CASE c # b
      <4>1. c \in covered /\ c \in CmdId
        BY <3>1, <3>3 DEF TypeOK
      <4>2. Running(c) /\ cmds'[c] = cmds[c]
        BY <3>1, <3>3, <4>1 DEF Running
      <4> QED BY <2>1, <2>2, <3>1, <4>1, <4>2 DEF FoundInWorkspace
    <3> QED BY <3>2, <3>3
  <2> QED BY <2>4, <2>5, CommandSteps
<1>4. ASSUME NEW t, Prepare(w, t) PROVE FALSE
  BY <1>4 DEF Prepare, Idle, TypeOK
<1> QED BY <1>2, <1>3, <1>4, FindSteps
-----------------------------------------------------------------------------
(* The theorems. *)

LEMMA InitTakeover == Init => SpawnShape /\ LeaseInv /\ TakeoverInv
<1> SUFFICES ASSUME Init PROVE SpawnShape /\ LeaseInv /\ TakeoverInv
  OBVIOUS
<1>1. /\ \A w \in Worker : wk[w] = Idle /\ hb[w] = HbOff
      /\ \A e \in ExecId : execs[e] = NoExec
      /\ \A x \in Workspace : wlease[x] = NoLease
      /\ \A c \in CmdId : cmds[c] = NoCmd
      /\ alive = {} /\ covered = {} /\ clock = 0
  BY DEF Init
<1>2. SpawnShape
  BY <1>1 DEF SpawnShape, Idle
<1>3. LeaseInv
  <2>1. References /\ LeaseNesting
    BY <1>1 DEF References, LeaseNesting, NoExec, NoLease, NoCmd
  <2>2. Owners /\ Extensions
    BY <1>1 DEF Owners, Extensions, Idle, HbOff
  <2> QED BY <2>1, <2>2 DEF LeaseInv
<1>4. TakeoverInv
  <2>1. Commands
    BY <1>1 DEF Commands, KnownTo, Registered, Idle
  <2>2. Known
    BY <1>1 DEF Known, OwnerKnows, Running, NoExec
  <2>3. Found /\ FoundInWorkspace
    BY <1>1 DEF Found, FoundInWorkspace, MayClaim, Idle
  <2>4. TaskTakeoverClean /\ WorkspaceTakeoverClean
    BY <1>1 DEF TaskTakeoverClean, WorkspaceTakeoverClean
  <2> QED BY <2>1, <2>2, <2>3, <2>4 DEF TakeoverInv
<1> QED BY <1>2, <1>3, <1>4

(* The writer's lease nests in the execution's, and the commands the       *)
(* workers know are those of the table: with Shape, inductive.             *)
THEOREM LeaseInvariant == Spec => [](SpawnShape /\ Commands /\ LeaseInv)
<1> DEFINE Inv == SpawnShape /\ Commands /\ LeaseInv
<1>1. Init => Inv
  BY InitTakeover DEF TakeoverInv
<1>2. Shape /\ Inv /\ [Next]_vars => Inv'
  BY NextSpawn, NextCommands, NextLease
<1> QED BY <1>1, <1>2, ShapeCorrect, PTL DEF Spec

(* renew_workspace_writer extends the writer lease in a transaction after  *)
(* the one that extends the execution's, at the same clock reading: the    *)
(* writer lease never outlives the execution's.                            *)
THEOREM WriterNests == Spec => []LeaseNesting
<1>1. LeaseInv => LeaseNesting
  BY DEF LeaseInv
<1> QED BY <1>1, LeaseInvariant, PTL

(* acquire_workspace_writer: the row of a workspace changes hands only     *)
(* after the previous writer's lease has expired or was given back, and    *)
(* takes the next generation.                                              *)
THEOREM WriterHandover == Spec => WorkspaceHandover
<1>1. Shape /\ SpawnShape /\ Commands /\ LeaseInv /\ [Next]_vars => [HandoverStep]_vars
  BY NextHandover
<1> QED BY <1>1, ShapeCorrect, LeaseInvariant, PTL DEF Spec, WorkspaceHandover

(* What a worker found of its predecessors' commands is still all there is *)
(* of them when it claims or takes the workspace.                          *)
THEOREM TakeoverInvariant == Spec => []TakeoverInv
<1>1. Init => TakeoverInv
  BY InitTakeover
<1>2. /\ Shape /\ SessionExclusive /\ SpawnShape /\ LeaseInv /\ TakeoverInv /\ [Next]_vars
      => TakeoverInv'
  BY NextCommands, NextKnown, NextFound, NextFoundInWorkspace, NextTaskClean,
     NextWorkspaceClean DEF TakeoverInv
<1> QED BY <1>1, <1>2, ShapeCorrect, SessionExclusion, LeaseInvariant, PTL DEF Spec

(* acquire reconciles the orphans of the task in a transaction before the  *)
(* claim and at a clock reading of its own; still, once the task is taken  *)
(* over no process that an earlier execution registered runs, and none     *)
(* runs whose row says it exited or was terminated.                        *)
THEOREM CleanTakeover == Spec => []TaskTakeoverClean
<1>1. TakeoverInv => TaskTakeoverClean
  BY DEF TakeoverInv
<1> QED BY <1>1, TakeoverInvariant, PTL

(* The same of the workspace: acquire_workspace_writer comes after         *)
(* recovery_commands_for_workspace, and a new writer meets no process that *)
(* was registered under an unexpired writer lease of an earlier one.       *)
THEOREM CleanWorkspace == Spec => []WorkspaceTakeoverClean
<1>1. TakeoverInv => WorkspaceTakeoverClean
  BY DEF TakeoverInv
<1> QED BY <1>1, TakeoverInvariant, PTL
-----------------------------------------------------------------------------
(* Sessions are locks: Ownership implements LeaseLock.  The mapping as     *)
(* operators of an executions table, so that it applies to both states.    *)

HoldersIn(f) ==
    [s \in Session |-> {e \in ExecId : f[e].status \in ActiveStatus /\ SessionOf[f[e].task] = s}]

UsedIn(f) == {e \in ExecId : f[e].status # "none"}

OfTask(f, t) == {e \in ExecId : f[e].status # "none" /\ f[e].task = t}

LatestIn(f, t, g) ==
    /\ \A e \in OfTask(f, t) : f[e].gen <= g
    /\ g = 0 \/ \E e \in OfTask(f, t) : f[e].gen = g

GensIn(f) == [t \in Task |-> CHOOSE g \in 0..MaxGen : LatestIn(f, t, g)]

(* Every task has a latest generation, within the bound. *)
Numbered == \A t \in Task : \E g \in 0..MaxGen : LatestIn(execs, t, g)

LEMMA LatestUnique ==
    ASSUME NEW f \in [ExecId -> ExecRow], NEW t \in Task, NEW g \in 0..MaxGen,
           LatestIn(f, t, g)
    PROVE  GensIn(f)[t] = g
<1> DEFINE h == CHOOSE i \in 0..MaxGen : LatestIn(f, t, i)
<1>1. h \in 0..MaxGen /\ LatestIn(f, t, h)
  OBVIOUS
<1>2. GensIn(f)[t] = h
  BY DEF GensIn
<1> HIDE DEF h
<1>3. \A e \in ExecId : f[e].gen \in Nat
  BY DEF ExecRow
<1>4. g \in Nat /\ h \in Nat
  BY <1>1, BoundsAssumption
<1>5. h <= g
  BY <1>1, <1>3, <1>4 DEF LatestIn, OfTask
<1>6. g <= h
  BY <1>1, <1>3, <1>4 DEF LatestIn, OfTask
<1> QED BY <1>2, <1>4, <1>5, <1>6

(* Tables with the same tasks and generations, and the same rows in use. *)
LEMMA SameGens ==
    ASSUME NEW f, NEW h,
           \A e \in ExecId : /\ h[e].status = "none" <=> f[e].status = "none"
                             /\ h[e].task = f[e].task /\ h[e].gen = f[e].gen
    PROVE  /\ UsedIn(h) = UsedIn(f)
           /\ \A t, g : LatestIn(h, t, g) = LatestIn(f, t, g)
           /\ GensIn(h) = GensIn(f)
<1>1. UsedIn(h) = UsedIn(f)
  BY DEF UsedIn
<1>2. ASSUME NEW t PROVE OfTask(h, t) = OfTask(f, t)
  BY DEF OfTask
<1>3. ASSUME NEW t, NEW g PROVE LatestIn(h, t, g) = LatestIn(f, t, g)
  BY <1>2, \A e \in OfTask(f, t) : h[e].gen = f[e].gen DEF LatestIn, OfTask
<1>4. ASSUME NEW t \in Task
      PROVE  (CHOOSE g \in 0..MaxGen : LatestIn(h, t, g))
             = (CHOOSE g \in 0..MaxGen : LatestIn(f, t, g))
  BY <1>3
<1>5. GensIn(h) = GensIn(f)
  BY <1>4 DEF GensIn
<1> QED BY <1>1, <1>3, <1>5

(* Without a claim at most one execution changes its status, and it ends. *)
LEMMA OneEnds ==
    ASSUME Shape, SpawnShape, Commands, LeaseInv, [Next]_vars, ~IsClaim
    PROVE  \/ \A d \in ExecId : execs'[d].status = execs[d].status
           \/ \E e \in ExecId : /\ execs[e].status # "none"
                                /\ execs'[e].status \in {"released", "recovery_required"}
                                /\ \A d \in ExecId \ {e} : execs'[d].status = execs[d].status
<1> USE DEF Shape
<1> DEFINE Goal == \/ \A d \in ExecId : execs'[d].status = execs[d].status
                   \/ \E e \in ExecId :
                          /\ execs[e].status # "none"
                          /\ execs'[e].status \in {"released", "recovery_required"}
                          /\ \A d \in ExecId \ {e} : execs'[d].status = execs[d].status
<1>1. ASSUME execs' = execs PROVE Goal
  BY <1>1
<1>2. ASSUME NEW e \in ExecId, execs[e].status # "none",
             NEW st \in {"released", "recovery_required"},
             execs' = [execs EXCEPT ![e].status = st]
      PROVE  Goal
  <2>1. execs'[e].status = st /\ \A d \in ExecId \ {e} : execs'[d].status = execs[d].status
    BY <1>2, ZenonT(30) DEF TypeOK, ExecRow
  <2> QED BY <1>2, <2>1
<1>3. ASSUME NEW w \in Worker, MarkRecoveryRequired(w) PROVE Goal
  <2>1. PICK e \in ExecId : e = cmds[wk[w].cmd].exec /\ execs[e].status # "none"
    BY <1>3, ZenonT(60) DEF MarkRecoveryRequired, Commands, KnownTo, Registered, LeaseInv, References
  <2>2. execs' = [execs EXCEPT ![e].status = "recovery_required"]
    BY <1>3, <2>1 DEF MarkRecoveryRequired
  <2> QED BY <1>2, <2>1, <2>2, ZenonT(60)
<1>4. ASSUME NEW w \in Worker, Rollback(w) \/ ReleaseOwnership(w) PROVE Goal
  <2>1. PICK e \in ExecId : e = wk[w].exec /\ execs[e].status # "none"
    BY <1>4, NoneAssumption DEF Rollback, ReleaseOwnership, WorkerShape, Claimed, PC
  <2>2. execs' = execs \/ execs' = [execs EXCEPT ![e].status = "released"]
    BY <1>4, <2>1 DEF Rollback, ReleaseOwnership, ReleaseExecution
  <2> QED BY <1>1, <1>2, <2>1, <2>2
<1>5. ASSUME NEW w \in Worker, RenewExecution(w) PROVE Goal
  BY <1>5, ZenonT(30) DEF RenewExecution, TypeOK, ExecRow
<1> HIDE DEF Goal
<1>6. ASSUME NEW w \in Worker, Acquire(w) PROVE Goal
  BY <1>1, <1>3, <1>4, <1>6
     DEF Acquire, IsClaim, Prepare, ReconcileStops, ReconcileFails, ClaimRefused,
         ListWorkspaceCommands, AcquireWorkspace, WorkspaceRefused, storeVars
<1>7. ASSUME NEW w \in Worker, Heartbeat(w) PROVE Goal
  BY <1>1, <1>5, <1>7
     DEF Heartbeat, HeartbeatWakes, RenewWorkspace, RenewFails, storeVars
<1>8. ASSUME NEW w \in Worker, Run(w) PROVE Goal
  BY <1>1, <1>8
     DEF Run, AssertToolOwnership, Spawn, Register, RegisterRefused, CommandExits,
         TerminateCommand, RecordCleanupFailure, Complete, storeVars
<1>9. ASSUME NEW w \in Worker, Release(w) PROVE Goal
  BY <1>1, <1>4, <1>9
     DEF Release, Leave, StopHeartbeat, ReleaseWorkspace, storeVars
<1>10. Goal
  BY <1>1, <1>6, <1>7, <1>8, <1>9
     DEF Next, vars, Tick, ProcessExits, StartTask, Crash, storeVars
<1> QED BY <1>10 DEF Goal

(* A claim inserts one row; the others keep their task and generation. *)
LEMMA ClaimTable ==
    ASSUME Shape, NEW w \in Worker, NEW e \in ExecId, NEW g \in 1..MaxGen, Claim(w, e, g)
    PROVE  /\ wk[w].task \in Task /\ execs[e].status = "none"
           /\ execs'[e].status \in ActiveStatus
           /\ execs'[e].task = wk[w].task /\ execs'[e].gen = g
           /\ \A d \in ExecId \ {e} :
                  /\ execs'[d].status = "none" <=> execs[d].status = "none"
                  /\ execs'[d].task = execs[d].task /\ execs'[d].gen = execs[d].gen
                  /\ execs'[d].status \in ActiveStatus
                     <=> IsActive(d) /\ SessionOfExec(d) # SessionOf[wk[w].task]
<1> USE DEF Shape
<1>1. wk[w].task \in Task /\ execs[e].status = "none" /\ execs' = ClaimRows(w, e, g)
  BY DEF Claim, WorkerShape
<1>2. execs'[e].status \in ActiveStatus /\ execs'[e].task = wk[w].task /\ execs'[e].gen = g
  BY <1>1 DEF ClaimRows, ActiveStatus
<1>3. ASSUME NEW d \in ExecId \ {e}
      PROVE  /\ execs'[d].status = "none" <=> execs[d].status = "none"
             /\ execs'[d].task = execs[d].task /\ execs'[d].gen = execs[d].gen
             /\ execs'[d].status \in ActiveStatus
                <=> IsActive(d) /\ SessionOfExec(d) # SessionOf[wk[w].task]
  BY <1>1 DEF ClaimRows, IsActive, ActiveStatus, TypeOK, ExecRow
<1> QED BY <1>1, <1>2, <1>3

LEMMA ClaimGens ==
    ASSUME Shape, NEW w \in Worker, NEW e \in ExecId, NEW g \in 1..MaxGen, Claim(w, e, g)
    PROVE  /\ LatestIn(execs, wk[w].task, g - 1) /\ LatestIn(execs', wk[w].task, g)
           /\ \A t \in Task \ {wk[w].task} :
                  \A i : LatestIn(execs', t, i) = LatestIn(execs, t, i)
<1> USE DEF Shape
<1> DEFINE u == wk[w].task
<1>0. g \in Nat /\ g >= 1 /\ \A d \in ExecId : execs[d].gen \in Nat
  BY BoundsAssumption DEF TypeOK, ExecRow
<1>1. /\ \A d \in OfTask(execs, u) : execs[d].gen < g
      /\ g = 1 \/ \E d \in OfTask(execs, u) : execs[d].gen = g - 1
  BY DEF Claim, IsNextGeneration, ExecsOf, OfTask
<1>2. LatestIn(execs, u, g - 1)
  <2>1. \A d \in OfTask(execs, u) : d \in ExecId
    BY DEF OfTask
  <2> QED BY <1>0, <1>1, <2>1 DEF LatestIn
<1>3. e \in OfTask(execs', u) /\ execs'[e].gen = g
  BY ClaimTable, NoneAssumption DEF OfTask, ActiveStatus
<1>4. ASSUME NEW d \in OfTask(execs', u) PROVE execs'[d].gen <= g
  <2>1. CASE d = e
    BY <1>0, <1>3, <2>1
  <2>2. CASE d # e
    <3>1. d \in OfTask(execs, u) /\ execs'[d].gen = execs[d].gen /\ d \in ExecId
      BY <2>2, ClaimTable DEF OfTask
    <3> QED BY <1>0, <1>1, <3>1
  <2> QED BY <2>1, <2>2
<1>5. LatestIn(execs', u, g)
  BY <1>3, <1>4 DEF LatestIn
<1>6. ASSUME NEW t \in Task, t # u, NEW i PROVE LatestIn(execs', t, i) = LatestIn(execs, t, i)
  <2>1. OfTask(execs', t) = OfTask(execs, t)
    BY <1>6, ClaimTable, NoneAssumption DEF OfTask, ExecShape
  <2>2. \A d \in OfTask(execs, t) : execs'[d].gen = execs[d].gen
    BY <1>6, ClaimTable, NoneAssumption DEF OfTask, ExecShape
  <2> QED BY <2>1, <2>2 DEF LatestIn
<1> QED BY <1>2, <1>5, <1>6
LEMMA NextNumbered ==
    ASSUME Shape, SpawnShape, Commands, LeaseInv, Numbered, [Next]_vars
    PROVE  Numbered'
<1>1. ASSUME NEW w \in Worker, NEW e \in ExecId, NEW g \in 1..MaxGen, Claim(w, e, g)
      PROVE  Numbered'
  <2>1. g \in 0..MaxGen
    BY BoundsAssumption
  <2> QED BY <1>1, <2>1, ClaimGens DEF Numbered
<1>2. CASE ~IsClaim
  <2>1. \A e \in ExecId : /\ execs'[e].status = "none" <=> execs[e].status = "none"
                          /\ execs'[e].task = execs[e].task /\ execs'[e].gen = execs[e].gen
    BY <1>2, OneEnds, OnlyClaimActivates DEF ExecFrame
  <2>2. \A t, g : LatestIn(execs', t, g) = LatestIn(execs, t, g)
    BY <2>1, SameGens
  <2> QED BY <2>2 DEF Numbered
<1> QED BY <1>1, <1>2 DEF IsClaim

(* A claim is an acquisition of the session's lock for the task. *)
LEMMA ClaimAcquires ==
    ASSUME Shape, Numbered, NEW w \in Worker, NEW e \in ExecId, NEW g \in 1..MaxGen, Claim(w, e, g)
    PROVE  \E t \in Task :
               /\ e \notin UsedIn(execs)
               /\ HoldersIn(execs') = [HoldersIn(execs) EXCEPT ![SessionOf[t]] = {e}]
               /\ UsedIn(execs') = UsedIn(execs) \cup {e}
               /\ GensIn(execs') = [GensIn(execs) EXCEPT ![t] = @ + 1]
<1> USE DEF Shape
<1>1. PICK t \in Task : t = wk[w].task
  BY ClaimTable
<1>2. e \notin UsedIn(execs) /\ UsedIn(execs') = UsedIn(execs) \cup {e}
  BY ClaimTable DEF UsedIn, ActiveStatus
<1>3. HoldersIn(execs') = [HoldersIn(execs) EXCEPT ![SessionOf[t]] = {e}]
  <2>1. ASSUME NEW s \in Session
        PROVE  HoldersIn(execs')[s] = IF s = SessionOf[t] THEN {e} ELSE HoldersIn(execs)[s]
    <3>1. ASSUME NEW d \in ExecId
          PROVE  d \in HoldersIn(execs')[s]
                 <=> IF s = SessionOf[t] THEN d = e ELSE d \in HoldersIn(execs)[s]
      <4>1. CASE d = e
        BY <1>1, <4>1, ClaimTable DEF HoldersIn, ActiveStatus
      <4>2. CASE d # e
        BY <1>1, <4>2, ClaimTable DEF HoldersIn, IsActive, SessionOfExec
      <4> QED BY <4>1, <4>2
    <3>2. HoldersIn(execs')[s] \subseteq ExecId /\ HoldersIn(execs)[s] \subseteq ExecId
      BY DEF HoldersIn
    <3> QED BY <3>1, <3>2
  <2> QED BY <2>1 DEF HoldersIn
<1>4. GensIn(execs') = [GensIn(execs) EXCEPT ![t] = @ + 1]
  <2>1. execs \in [ExecId -> ExecRow] /\ execs' \in [ExecId -> ExecRow]
    <3>1. Acquire(w)
      BY DEF Acquire
    <3> QED BY <3>1, AcquireShape DEF TypeOK
  <2>2. GensIn(execs)[t] = g - 1 /\ GensIn(execs')[t] = g
    <3>1. g \in 0..MaxGen /\ g - 1 \in 0..MaxGen
      BY BoundsAssumption
    <3> QED BY <1>1, <2>1, <3>1, ClaimGens, LatestUnique
  <2>3. ASSUME NEW u \in Task, u # t PROVE GensIn(execs')[u] = GensIn(execs)[u]
    <3>1. PICK i \in 0..MaxGen : LatestIn(execs, u, i)
      BY DEF Numbered
    <3>2. LatestIn(execs', u, i)
      BY <1>1, <2>3, <3>1, ClaimGens
    <3> QED BY <2>1, <3>1, <3>2, LatestUnique
  <2>4. g \in Nat /\ g >= 1
    BY BoundsAssumption
  <2>5. GensIn(execs')[t] = GensIn(execs)[t] + 1
    BY <2>2, <2>4
  <2>6. /\ GensIn(execs) = [u \in Task |-> GensIn(execs)[u]]
        /\ GensIn(execs') = [u \in Task |-> GensIn(execs')[u]]
    BY DEF GensIn
  <2> QED BY <2>3, <2>5, <2>6
<1> QED BY <1>2, <1>3, <1>4

(* The end of an active execution frees the session's lock. *)
LEMMA EndReleases ==
    ASSUME Shape, SessionExclusive, ExecFrame, NEW e \in ExecId, IsActive(e),
           execs'[e].status \notin ActiveStatus,
           \A d \in ExecId \ {e} : execs'[d].status = execs[d].status
    PROVE  \E s \in Session : /\ HoldersIn(execs)[s] # {}
                              /\ HoldersIn(execs') = [HoldersIn(execs) EXCEPT ![s] = {}]
<1>1. PICK s \in Session : s = SessionOf[execs[e].task]
  BY MapAssumption DEF Shape, ExecShape
<1>2. e \in HoldersIn(execs)[s]
  BY <1>1 DEF HoldersIn, IsActive
<1>3. ASSUME NEW r \in Session
      PROVE  HoldersIn(execs')[r] = IF r = s THEN {} ELSE HoldersIn(execs)[r]
  <2>1. ASSUME NEW d \in ExecId
        PROVE  d \in HoldersIn(execs')[r] <=> d # e /\ d \in HoldersIn(execs)[r]
    BY DEF HoldersIn, ExecFrame
  <2>2. ASSUME NEW d \in HoldersIn(execs)[s] PROVE d = e
    BY <1>1, <2>2 DEF HoldersIn, SessionExclusive, SessionOfExec, IsActive
  <2>3. r # s => e \notin HoldersIn(execs)[r]
    BY <1>1 DEF HoldersIn
  <2>4. HoldersIn(execs')[r] \subseteq ExecId /\ HoldersIn(execs)[r] \subseteq ExecId
    BY DEF HoldersIn
  <2> QED BY <2>1, <2>2, <2>3, <2>4
<1>4. HoldersIn(execs') = [HoldersIn(execs) EXCEPT ![s] = {}]
  BY <1>3 DEF HoldersIn
<1> QED BY <1>2, <1>4

LEMMA ContractStep ==
    ASSUME Shape, SessionExclusive, SpawnShape, Commands, LeaseInv, Numbered, [Next]_vars
    PROVE  \/ \E e \in ExecId, t \in Task :
                  /\ e \notin UsedIn(execs)
                  /\ HoldersIn(execs') = [HoldersIn(execs) EXCEPT ![SessionOf[t]] = {e}]
                  /\ UsedIn(execs') = UsedIn(execs) \cup {e}
                  /\ GensIn(execs') = [GensIn(execs) EXCEPT ![t] = @ + 1]
           \/ /\ \/ HoldersIn(execs') = HoldersIn(execs)
                 \/ \E s \in Session :
                        /\ HoldersIn(execs)[s] # {}
                        /\ HoldersIn(execs') = [HoldersIn(execs) EXCEPT ![s] = {}]
              /\ UsedIn(execs') = UsedIn(execs)
              /\ GensIn(execs') = GensIn(execs)
<1>1. CASE IsClaim
  BY <1>1, ClaimAcquires DEF IsClaim
<1>2. CASE ~IsClaim
  <2>1. ExecFrame
    BY <1>2, OnlyClaimActivates
  <2>2. UsedIn(execs') = UsedIn(execs) /\ GensIn(execs') = GensIn(execs)
    <3>1. \A e \in ExecId : /\ execs'[e].status = "none" <=> execs[e].status = "none"
                            /\ execs'[e].task = execs[e].task /\ execs'[e].gen = execs[e].gen
      BY <1>2, <2>1, OneEnds DEF ExecFrame
    <3> QED BY <3>1, SameGens
  <2>3. ASSUME \A d \in ExecId : execs'[d].status \in ActiveStatus
                                 <=> execs[d].status \in ActiveStatus
        PROVE  HoldersIn(execs') = HoldersIn(execs)
    BY <2>1, <2>3 DEF HoldersIn, ExecFrame
  <2>4. ASSUME NEW e \in ExecId,
               execs'[e].status \in {"released", "recovery_required"},
               \A d \in ExecId \ {e} : execs'[d].status = execs[d].status
        PROVE  \/ HoldersIn(execs') = HoldersIn(execs)
               \/ \E s \in Session :
                      /\ HoldersIn(execs)[s] # {}
                      /\ HoldersIn(execs') = [HoldersIn(execs) EXCEPT ![s] = {}]
    <3>1. execs'[e].status \notin ActiveStatus
      BY <2>4 DEF ActiveStatus
    <3>2. CASE IsActive(e)
      BY <2>1, <2>4, <3>1, <3>2, EndReleases
    <3>3. CASE ~IsActive(e)
      BY <2>3, <2>4, <3>1, <3>3 DEF IsActive
    <3> QED BY <3>2, <3>3
  <2> QED BY <1>2, <2>2, <2>3, <2>4, OneEnds
<1> QED BY <1>1, <1>2

(* A session is a lock with one holder and no way back, and each claim     *)
(* takes the next generation of its task: the owners, the takeovers, the   *)
(* heartbeats and the late releases of ExecutionOwnershipManager together  *)
(* keep the promise that LeaseLock states.                                 *)
THEOREM LeaseRefined == Spec => LeaseContract
<1>1. Init => Numbered
  <2> SUFFICES ASSUME Init, NEW t \in Task PROVE LatestIn(execs, t, 0)
    BY BoundsAssumption DEF Numbered
  <2> QED BY DEF Init, NoExec, LatestIn, OfTask
<1>2. Shape /\ SpawnShape /\ Commands /\ LeaseInv /\ Numbered /\ [Next]_vars => Numbered'
  BY NextNumbered
<1>3. Init => Lease!Init
  <2> SUFFICES ASSUME Init PROVE Lease!Init
    OBVIOUS
  <2>1. \A e \in ExecId : execs[e].status = "none"
    BY DEF Init, NoExec
  <2>2. execs \in [ExecId -> ExecRow]
    BY InitShape DEF Shape, TypeOK
  <2>3. ASSUME NEW t \in Task PROVE GensIn(execs)[t] = 0
    <3>1. LatestIn(execs, t, 0) /\ 0 \in 0..MaxGen
      BY <2>1, BoundsAssumption DEF LatestIn, OfTask
    <3> QED BY <2>2, <3>1, LatestUnique
  <2>4. GensIn(execs) = [t \in Task |-> 0]
    BY <2>3, ZenonT(30) DEF GensIn
  <2> QED
    BY <2>1, <2>4
       DEF Lease!Init, GensIn, LatestIn, OfTask, ExecsOf, IsActive, ActiveStatus
<1>4. ASSUME Shape, SessionExclusive, SpawnShape, Commands, LeaseInv, Numbered, [Next]_vars
      PROVE  [Lease!Next]_<<HoldersIn(execs), UsedIn(execs), GensIn(execs)>>
  BY <1>4, ContractStep
     DEF Lease!Next, Lease!Release, Lease!Acquire, HoldersIn, UsedIn, GensIn, LatestIn,
         OfTask, ExecsOf, IsActive, SessionOfExec
<1>5. <<HoldersIn(execs), UsedIn(execs), GensIn(execs)>> =
      <<[s \in Session |-> {e \in ExecId : IsActive(e) /\ SessionOfExec(e) = s}],
        {e \in ExecId : execs[e].status # "none"},
        [t \in Task |-> CHOOSE g \in 0..MaxGen :
                            /\ \A e \in ExecsOf(t) : execs[e].gen <= g
                            /\ g = 0 \/ \E e \in ExecsOf(t) : execs[e].gen = g]>>
  BY DEF HoldersIn, UsedIn, GensIn, LatestIn, OfTask, ExecsOf, IsActive, SessionOfExec
<1> QED
  BY <1>1, <1>2, <1>3, <1>4, <1>5, ShapeCorrect, SessionExclusion, LeaseInvariant, PTL
     DEF Spec, LeaseContract, Lease!Spec, HoldersIn, UsedIn, GensIn, LatestIn,
         OfTask, ExecsOf, IsActive, SessionOfExec
=============================================================================
