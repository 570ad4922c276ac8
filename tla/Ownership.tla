----------------------------- MODULE Ownership -----------------------------
(***************************************************************************)
(* Execution ownership: the Session/Task execution lease, the Workspace    *)
(* writer lease, the heartbeat thread that renews both, and the managed    *)
(* commands (child processes, containers) that an owner leaves behind.     *)
(*                                                                         *)
(* Several workers (patchloop processes) share one SQLite store.  A store  *)
(* method is one BEGIN IMMEDIATE transaction, hence one action.  Between   *)
(* two transactions a worker may be delayed for any time, and every        *)
(* ownership call reads the clock ONCE, before it waits for the write      *)
(* lock: the worker's `now' is therefore a variable of its own, at most    *)
(* the clock, and may be stale when the transaction commits.               *)
(*                                                                         *)
(* Execution ids and lease tokens are fresh uuids: an element of ExecId    *)
(* stands for both, so a guard is an execution id with its generation.     *)
(***************************************************************************)
EXTENDS Naturals, FiniteSets

CONSTANTS
    Worker,        \* processes that run or resume tasks
    Writer,        \* those whose policy allows WRITE or EXECUTE tools
    Serves,        \* the tasks a worker is started for
    Session, Task, Workspace,
    SessionOf,     \* the session a task is bound to
    WorkspaceOf,   \* the canonical workspace of a task's repository
    ExecId,        \* fresh execution ids (bounds the number of claims)
    CmdId,         \* fresh managed-command ids
    TTL,           \* LeasePolicy.ttl
    MaxClock,      \* bound on the clock
    MaxGen,        \* bound on generations
    MaxVersion,    \* bound on the task versions that failed recoveries reach
    None

ASSUME TTLAssumption == TTL \in Nat \ {0}

ASSUME BoundsAssumption == {MaxClock, MaxGen, MaxVersion} \subseteq Nat

ASSUME MapAssumption ==
    /\ Writer \subseteq Worker
    /\ Serves \in [Worker -> SUBSET Task]
    /\ SessionOf \in [Task -> Session]
    /\ WorkspaceOf \in [Task -> Workspace]

ASSUME NoneAssumption ==
    None \notin Task \cup ExecId \cup CmdId \cup Session \cup Workspace

VARIABLES
    clock,    \* real time
    tasks,    \* tasks table: runtime condition, outcome reached, version
    active,   \* sessions.active_task_id
    execs,    \* executions table
    wlease,   \* workspace_leases table, one row per workspace
    cmds,     \* managed_commands table, and processes not yet registered
    alive,    \* commands whose process is running (the operating system)
    covered,  \* history: commands registered under an unexpired writer lease
    wk,       \* a worker's main thread
    hb        \* its heartbeat thread

storeVars == <<tasks, active, execs, wlease, cmds>>
vars == <<clock, tasks, active, execs, wlease, cmds, alive, covered, wk, hb>>

-----------------------------------------------------------------------------
(* Rows of the store. *)

Condition == {"none", "idle", "running", "recovery_required", "ended"}

ExecStatus == {"none", "claimed", "running", "waiting_for_approval", "paused",
               "released", "recovery_required"}

ActiveStatus == {"claimed", "running", "waiting_for_approval", "paused"}

CmdStatus == {"none", "spawned", "running", "exited", "terminated",
              "cleanup_failed"}

Unfinished == {"running", "cleanup_failed"}

TaskRow == [cond : Condition, ended : BOOLEAN, version : Nat]
ExecRow == [status : ExecStatus, task : Task \cup {None}, gen : Nat,
            expires : Nat]
LeaseRow == [exec : ExecId \cup {None}, gen : Nat, expires : Nat]
CmdRow == [status : CmdStatus, exec : ExecId \cup {None}]

NoExec == [status |-> "none", task |-> None, gen |-> 0, expires |-> 0]
NoLease == [exec |-> None, gen |-> 0, expires |-> 0]
NoCmd == [status |-> "none", exec |-> None]

(* The main thread: where it is in acquire, in the run, or in the release. *)
PC == {"idle", "reconcile_task", "mark", "list_ws", "reconcile_ws", "rollback",
       "own", "asserted", "spawned", "command", "cleanup_error", "stopping",
       "release_ws", "release_exec"}

HbPC == {"off", "wait", "renew_exec", "renew_ws", "failed"}

WorkerRow == [pc : PC, task : Task \cup {None}, version : Nat, now : Nat,
              exec : ExecId \cup {None}, todo : SUBSET CmdId,
              cmd : CmdId \cup {None}, failed : BOOLEAN]
HbRow == [pc : HbPC, now : Nat]

Idle == [pc |-> "idle", task |-> None, version |-> 0, now |-> 0,
         exec |-> None, todo |-> {}, cmd |-> None, failed |-> FALSE]
HbOff == [pc |-> "off", now |-> 0]

(* One type invariant for the module. *)
TypeOK ==
    /\ clock \in Nat
    /\ tasks \in [Task -> TaskRow]
    /\ active \in [Session -> Task \cup {None}]
    /\ execs \in [ExecId -> ExecRow]
    /\ wlease \in [Workspace -> LeaseRow]
    /\ cmds \in [CmdId -> CmdRow]
    /\ alive \in SUBSET CmdId
    /\ covered \in SUBSET CmdId
    /\ wk \in [Worker -> WorkerRow]
    /\ hb \in [Worker -> HbRow]

Init ==
    /\ clock = 0
    /\ tasks = [t \in Task |-> [cond |-> "none", ended |-> FALSE, version |-> 0]]
    /\ active = [s \in Session |-> None]
    /\ execs = [e \in ExecId |-> NoExec]
    /\ wlease = [x \in Workspace |-> NoLease]
    /\ cmds = [c \in CmdId |-> NoCmd]
    /\ alive = {}
    /\ covered = {}
    /\ wk = [w \in Worker |-> Idle]
    /\ hb = [w \in Worker |-> HbOff]

-----------------------------------------------------------------------------
(* Guards. *)

IsActive(e) == execs[e].status \in ActiveStatus

(* _assert_guard: the row is active and unexpired at `at', which is the    *)
(* caller's clock reading or, where the method reads its own, the clock.   *)
GuardOK(e, at) == e # None /\ IsActive(e) /\ execs[e].expires > at

(* _assert_workspace_guard: the row still names this execution. *)
WorkspaceGuardOK(e, at) ==
    LET row == wlease[WorkspaceOf[execs[e].task]]
    IN  row.exec = e /\ row.expires > at

SessionOfExec(e) == SessionOf[execs[e].task]

ExecsOf(t) == {e \in ExecId : execs[e].status # "none" /\ execs[e].task = t}

(* Mutant: the generation is MAX(generation), without the + 1. *)
SameGeneration(t, g) ==
    /\ \A e \in ExecsOf(t) : execs[e].gen <= g
    /\ IF ExecsOf(t) = {} THEN g = 1 ELSE \E e \in ExecsOf(t) : execs[e].gen = g

(* COALESCE(MAX(generation), 0) + 1 over the executions of the task. *)
IsNextGeneration(t, g) ==
    /\ \A e \in ExecsOf(t) : execs[e].gen < g
    /\ g = 1 \/ \E e \in ExecsOf(t) : execs[e].gen = g - 1

(* finish_managed_command: EXITED and TERMINATED are final. *)
Finish(c, st) ==
    cmds' = IF cmds[c].status \in Unfinished
            THEN [cmds EXCEPT ![c].status = st]
            ELSE cmds

(* A write of the task's runtime condition bumps the row's version. *)
WithCondition(t, cond) ==
    [tasks EXCEPT ![t] = [cond |-> cond, ended |-> @.ended,
                          version |-> @.version + 1]]

(* release_execution: the row is released and a RUNNING task becomes IDLE. *)
ReleaseExecution(e) ==
    /\ execs' = [execs EXCEPT ![e].status = "released"]
    /\ tasks' = IF tasks[execs[e].task].cond = "running"
                THEN WithCondition(execs[e].task, "idle")
                ELSE tasks

-----------------------------------------------------------------------------
(* Time, the operating system, and the start of a task. *)

Tick ==
    /\ clock < MaxClock
    /\ clock' = clock + 1
    /\ UNCHANGED <<storeVars, alive, covered, wk, hb>>

ProcessExits(c) ==
    /\ c \in alive
    /\ alive' = alive \ {c}
    /\ UNCHANGED <<clock, covered, storeVars, wk, hb>>

StartTask(t) ==
    /\ tasks[t].cond = "none"
    /\ active[SessionOf[t]] = None
    /\ tasks' = [tasks EXCEPT ![t].cond = "idle"]
    /\ active' = [active EXCEPT ![SessionOf[t]] = t]
    /\ UNCHANGED <<clock, covered, execs, wlease, cmds, alive, wk, hb>>

(* A process dies: its threads are gone, its children live on. *)
Crash(w) ==
    /\ wk[w].pc # "idle"
    /\ wk' = [wk EXCEPT ![w] = Idle]
    /\ hb' = [hb EXCEPT ![w] = HbOff]
    /\ UNCHANGED <<clock, covered, storeVars, alive>>

-----------------------------------------------------------------------------
(* ExecutionOwnershipManager.acquire. *)

(* Mutants: a command whose cleanup failed once is not looked at again. *)
RunningForTask(t, at) ==
    {c \in CmdId : /\ cmds[c].status = "running"
                   /\ execs[cmds[c].exec].task = t
                   /\ execs[cmds[c].exec].expires <= at}

RunningForWorkspace(x, at) ==
    {c \in CmdId : /\ cmds[c].status = "running"
                   /\ cmds[c].exec = wlease[x].exec
                   /\ wlease[x].expires <= at}

(* recovery_commands_for_task at a clock reading. *)
RecoveryCommandsForTask(t, at) ==
    {c \in CmdId : /\ cmds[c].status \in Unfinished
                   /\ execs[cmds[c].exec].task = t
                   /\ execs[cmds[c].exec].expires <= at}

(* recovery_commands_for_workspace: those of the row's execution only. *)
RecoveryCommandsForWorkspace(x, at) ==
    {c \in CmdId : /\ cmds[c].status \in Unfinished
                   /\ cmds[c].exec = wlease[x].exec
                   /\ wlease[x].expires <= at}

(* prepare_task_execution and the clock reading of acquire.  The session   *)
(* is bound already; another active task is a LeaseConflict.               *)
Prepare(w, t) ==
    /\ wk[w].pc = "idle"
    /\ active[SessionOf[t]] = t
    /\ wk' = [wk EXCEPT ![w] = [Idle EXCEPT !.pc = "reconcile_task",
                                            !.task = t,
                                            !.version = tasks[t].version,
                                            !.now = clock,
                                            !.todo = RecoveryCommandsForTask(t, clock)]]
    /\ UNCHANGED <<clock, covered, storeVars, alive, hb>>

(* _reconcile_commands, one orphan: its process is confirmed stopped. *)
ReconcileStops(w, c) ==
    /\ wk[w].pc \in {"reconcile_task", "reconcile_ws"}
    /\ c \in wk[w].todo
    /\ alive' = alive \ {c}
    /\ Finish(c, "terminated")
    /\ wk' = [wk EXCEPT ![w].todo = @ \ {c}]
    /\ UNCHANGED <<clock, covered, tasks, active, execs, wlease, hb>>

(* The cleanup cannot be confirmed.  A command that its owner finished in  *)
(* the meantime is passed over; otherwise recovery must be requested.      *)
ReconcileFails(w, c) ==
    /\ wk[w].pc \in {"reconcile_task", "reconcile_ws"}
    /\ c \in wk[w].todo
    /\ Finish(c, "cleanup_failed")
    /\ wk' = IF cmds[c].status \in Unfinished
             THEN [wk EXCEPT ![w].pc = "mark", ![w].cmd = c, ![w].todo = {}]
             ELSE [wk EXCEPT ![w].todo = @ \ {c}]
    /\ UNCHANGED <<clock, covered, tasks, active, execs, wlease, alive, hb>>

(* mark_command_recovery_required, then RecoveryRequired is raised: before *)
(* the claim acquire just fails, after it the new execution is released.   *)
MarkRecoveryRequired(w) ==
    LET e == cmds[wk[w].cmd].exec
        t == execs[e].task
    IN  /\ wk[w].pc = "mark"
        /\ tasks[t].version < MaxVersion
        /\ execs' = [execs EXCEPT ![e].status = "recovery_required"]
        /\ tasks' = WithCondition(t, "recovery_required")
        /\ wk' = IF wk[w].exec = None
                 THEN [wk EXCEPT ![w] = Idle]
                 ELSE [wk EXCEPT ![w].pc = "rollback", ![w].cmd = None]
        /\ UNCHANGED <<clock, covered, active, wlease, cmds, alive, hb>>

(* Active executions that stand in the way of a claim at a clock reading. *)
Blocking(t, at) ==
    {e \in ExecId : IsActive(e) /\ SessionOfExec(e) = SessionOf[t]
                                /\ execs[e].expires > at}

(* claim_execution: otherwise LeaseConflict, StaleVersion or               *)
(* RecoveryRequired.                                                       *)
ClaimAllowed(w) ==
    LET t == wk[w].task
    IN  /\ Blocking(t, wk[w].now) = {}
        /\ tasks[t].version = wk[w].version
        /\ tasks[t].cond # "recovery_required"

(* Mutant: only expired executions of the same task are released. *)
ClaimRowsOfTask(w, e, g) ==
    [d \in ExecId |->
        IF d = e THEN [status |-> "running", task |-> wk[w].task, gen |-> g,
                       expires |-> wk[w].now + TTL]
        ELSE IF IsActive(d) /\ execs[d].task = wk[w].task
        THEN [execs[d] EXCEPT !.status = "released"]
        ELSE execs[d]]

(* The executions table after a claim: every (expired) active execution of *)
(* the session is released, and the new row has the next generation.       *)
ClaimRows(w, e, g) ==
    [d \in ExecId |->
        IF d = e THEN [status |-> "running", task |-> wk[w].task, gen |-> g,
                       expires |-> wk[w].now + TTL]
        ELSE IF IsActive(d) /\ SessionOfExec(d) = SessionOf[wk[w].task]
        THEN [execs[d] EXCEPT !.status = "released"]
        ELSE execs[d]]

Claim(w, e, g) ==
    /\ wk[w].pc = "reconcile_task"
    /\ wk[w].todo = {}
    /\ ClaimAllowed(w)
    /\ execs[e].status = "none"
    /\ IsNextGeneration(wk[w].task, g)
    /\ execs' = ClaimRows(w, e, g)
    /\ tasks' = WithCondition(wk[w].task, "running")
    /\ IF w \in Writer
       THEN /\ wk' = [wk EXCEPT ![w].pc = "list_ws", ![w].exec = e,
                                ![w].version = 0]
            /\ hb' = hb
       ELSE /\ wk' = [wk EXCEPT ![w].pc = "own", ![w].exec = e, ![w].now = 0,
                                ![w].version = tasks[wk[w].task].version + 1]
            /\ hb' = [hb EXCEPT ![w].pc = "wait"]
    /\ UNCHANGED <<clock, covered, active, wlease, cmds, alive>>

(* LeaseConflict, StaleVersion or RecoveryRequired: nothing is written. *)
ClaimRefused(w) ==
    /\ wk[w].pc = "reconcile_task"
    /\ wk[w].todo = {}
    /\ ~ClaimAllowed(w)
    /\ wk' = [wk EXCEPT ![w] = Idle]
    /\ UNCHANGED <<clock, covered, storeVars, alive, hb>>

ListWorkspaceCommands(w) ==
    /\ wk[w].pc = "list_ws"
    /\ wk' = [wk EXCEPT ![w].pc = "reconcile_ws",
                        ![w].todo = RecoveryCommandsForWorkspace(
                                        WorkspaceOf[wk[w].task], wk[w].now)]
    /\ UNCHANGED <<clock, covered, storeVars, alive, hb>>

(* Mutant: the previous writer's lease is not looked at. *)
WriterAlwaysAllowed(w) == GuardOK(wk[w].exec, wk[w].now)

WriterAllowed(w) ==
    /\ GuardOK(wk[w].exec, wk[w].now)
    /\ wlease[WorkspaceOf[wk[w].task]].expires <= wk[w].now

(* acquire_workspace_writer; then the runtime re-reads the task, binds the *)
(* sandbox and starts the heartbeat.  The lease ends with the execution's. *)
AcquireWorkspace(w) ==
    LET x == WorkspaceOf[wk[w].task]
    IN  /\ wk[w].pc = "reconcile_ws"
        /\ wk[w].todo = {}
        /\ WriterAllowed(w)
        /\ wlease' = [wlease EXCEPT ![x] = [exec |-> wk[w].exec,
                                            gen |-> wlease[x].gen + 1,
                                            expires |-> wk[w].now + TTL]]
        /\ wk' = [wk EXCEPT ![w].pc = "own", ![w].now = 0,
                            ![w].version = tasks[wk[w].task].version]
        /\ hb' = [hb EXCEPT ![w].pc = "wait"]
        /\ UNCHANGED <<clock, covered, tasks, active, execs, cmds, alive>>

WorkspaceRefused(w) ==
    /\ wk[w].pc = "reconcile_ws"
    /\ wk[w].todo = {}
    /\ ~WriterAllowed(w)
    /\ wk' = [wk EXCEPT ![w].pc = "rollback"]
    /\ UNCHANGED <<clock, covered, storeVars, alive, hb>>

(* acquire fails after the claim: release_execution at the same reading of *)
(* the clock.  A LeaseLost there leaves the row to whoever took it.        *)
Rollback(w) ==
    /\ wk[w].pc = "rollback"
    /\ IF GuardOK(wk[w].exec, wk[w].now)
       THEN ReleaseExecution(wk[w].exec)
       ELSE UNCHANGED <<execs, tasks>>
    /\ wk' = [wk EXCEPT ![w] = Idle]
    /\ UNCHANGED <<clock, covered, active, wlease, cmds, alive, hb>>

-----------------------------------------------------------------------------
(* The heartbeat thread: renew is two transactions at one clock reading.   *)

HeartbeatWakes(w) ==
    /\ hb[w].pc = "wait"
    /\ wk[w].pc # "stopping"
    /\ hb' = [hb EXCEPT ![w] = [pc |-> "renew_exec", now |-> clock]]
    /\ UNCHANGED <<clock, covered, storeVars, alive, wk>>

RenewExecution(w) ==
    /\ hb[w].pc = "renew_exec"
    /\ GuardOK(wk[w].exec, hb[w].now)
    /\ execs' = [execs EXCEPT ![wk[w].exec].expires = hb[w].now + TTL]
    /\ hb' = [hb EXCEPT ![w] = IF w \in Writer
                               THEN [pc |-> "renew_ws", now |-> hb[w].now]
                               ELSE [pc |-> "wait", now |-> 0]]
    /\ UNCHANGED <<clock, covered, tasks, active, wlease, cmds, alive, wk>>

(* Mutant: the second transaction reads the clock again. *)
RenewWorkspaceLater(w) ==
    /\ hb[w].pc = "renew_ws"
    /\ WorkspaceGuardOK(wk[w].exec, clock)
    /\ wlease' = [wlease EXCEPT ![WorkspaceOf[wk[w].task]].expires = clock + TTL]
    /\ hb' = [hb EXCEPT ![w] = [pc |-> "wait", now |-> 0]]
    /\ UNCHANGED <<clock, covered, tasks, active, execs, cmds, alive, wk>>

RenewWorkspace(w) ==
    /\ hb[w].pc = "renew_ws"
    /\ WorkspaceGuardOK(wk[w].exec, hb[w].now)
    /\ wlease' = [wlease EXCEPT ![WorkspaceOf[wk[w].task]].expires = hb[w].now + TTL]
    /\ hb' = [hb EXCEPT ![w] = [pc |-> "wait", now |-> 0]]
    /\ UNCHANGED <<clock, covered, tasks, active, execs, cmds, alive, wk>>

(* LeaseLost, or any other exception of the store: the failure is kept and *)
(* the thread ends.                                                        *)
RenewFails(w) ==
    /\ hb[w].pc \in {"renew_exec", "renew_ws"}
    /\ hb' = [hb EXCEPT ![w] = [pc |-> "failed", now |-> 0]]
    /\ UNCHANGED <<clock, covered, storeVars, alive, wk>>

-----------------------------------------------------------------------------
(* The run: tool calls that start commands, and the end of the task.       *)

(* LeaseHeartbeat.assert_owned. *)
Owned(w) ==
    /\ hb[w].pc # "failed"
    /\ GuardOK(wk[w].exec, clock)
    /\ w \in Writer => WorkspaceGuardOK(wk[w].exec, clock)

(* _assert_tool_ownership before an EXECUTE tool: needs the writer lease. *)
AssertToolOwnership(w) ==
    /\ wk[w].pc = "own"
    /\ w \in Writer
    /\ wk' = [wk EXCEPT ![w].pc = IF Owned(w) THEN "asserted" ELSE "stopping"]
    /\ UNCHANGED <<clock, covered, storeVars, alive, hb>>

(* execute: Popen comes before the registration. *)
Spawn(w, c) ==
    /\ wk[w].pc = "asserted"
    /\ cmds[c].status = "none"
    /\ cmds' = [cmds EXCEPT ![c] = [status |-> "spawned", exec |-> wk[w].exec]]
    /\ alive' = alive \cup {c}
    /\ wk' = [wk EXCEPT ![w].pc = "spawned", ![w].cmd = c]
    /\ UNCHANGED <<clock, covered, tasks, active, execs, wlease, hb>>

(* register_managed_command: only the execution guard, at the clock. *)
Register(w) ==
    /\ wk[w].pc = "spawned"
    /\ GuardOK(wk[w].exec, clock)
    /\ cmds' = [cmds EXCEPT ![wk[w].cmd].status = "running"]
    /\ covered' = IF WorkspaceGuardOK(wk[w].exec, clock)
                  THEN covered \cup {wk[w].cmd} ELSE covered
    /\ wk' = [wk EXCEPT ![w].pc = "command"]
    /\ UNCHANGED <<clock, tasks, active, execs, wlease, alive, hb>>

(* The registration is refused: the process is terminated and forgotten, *)
(* or it cannot be, which is a SandboxCleanupError.                      *)
RegisterRefused(w) ==
    /\ wk[w].pc = "spawned"
    /\ ~GuardOK(wk[w].exec, clock)
    /\ \/ /\ alive' = alive \ {wk[w].cmd}
          /\ cmds' = [cmds EXCEPT ![wk[w].cmd] = NoCmd]
          /\ wk' = [wk EXCEPT ![w].pc = "stopping", ![w].cmd = None]
       \/ /\ wk' = [wk EXCEPT ![w].pc = "cleanup_error", ![w].cmd = None]
          /\ UNCHANGED <<cmds, alive>>
    /\ UNCHANGED <<clock, covered, tasks, active, execs, wlease, hb>>

(* _communicate returns: the process has exited. *)
CommandExits(w) ==
    /\ wk[w].pc = "command"
    /\ wk[w].cmd \notin alive
    /\ Finish(wk[w].cmd, "exited")
    /\ wk' = [wk EXCEPT ![w].pc = "own", ![w].cmd = None]
    /\ UNCHANGED <<clock, covered, tasks, active, execs, wlease, alive, hb>>

(* _terminate_and_finish on a timeout, a control request or a lost lease. *)
TerminateCommand(w) ==
    /\ wk[w].pc = "command"
    /\ \/ /\ alive' = alive \ {wk[w].cmd}
          /\ Finish(wk[w].cmd, "terminated")
          /\ wk' = [wk EXCEPT ![w].pc = "own", ![w].cmd = None]
       \/ /\ Finish(wk[w].cmd, "cleanup_failed")
          /\ wk' = [wk EXCEPT ![w].pc = "cleanup_error", ![w].cmd = None]
          /\ UNCHANGED alive
    /\ UNCHANGED <<clock, covered, tasks, active, execs, wlease, hb>>

(* _record_cleanup_failure: the task needs recovery, if the guard still    *)
(* holds; the leases are not released.                                     *)
RecordCleanupFailure(w) ==
    /\ wk[w].pc = "cleanup_error"
    /\ tasks' = IF /\ GuardOK(wk[w].exec, clock)
                   /\ tasks[wk[w].task].cond # "recovery_required"
                THEN WithCondition(wk[w].task, "recovery_required")
                ELSE tasks
    /\ wk' = [wk EXCEPT ![w].pc = "stopping", ![w].failed = TRUE]
    /\ UNCHANGED <<clock, covered, active, execs, wlease, cmds, alive, hb>>

(* Mutant: the update checks the version but not the guard. *)
UpdateUnguarded(w) ==
    /\ tasks[wk[w].task].version = wk[w].version
    /\ tasks[wk[w].task].cond # "recovery_required"

(* update_task with a terminal outcome: version, guard, validation. *)
UpdateAllowed(w) ==
    /\ GuardOK(wk[w].exec, clock)
    /\ tasks[wk[w].task].version = wk[w].version
    /\ tasks[wk[w].task].cond # "recovery_required"

Complete(w) ==
    LET t == wk[w].task
    IN  /\ wk[w].pc = "own"
        /\ UpdateAllowed(w)
        /\ tasks' = [tasks EXCEPT ![t] = [cond |-> "ended", ended |-> TRUE,
                                          version |-> tasks[t].version + 1]]
        /\ active' = [active EXCEPT ![SessionOf[t]] = IF @ = t THEN None ELSE @]
        /\ wk' = [wk EXCEPT ![w].pc = "stopping"]
        /\ UNCHANGED <<clock, covered, execs, wlease, cmds, alive, hb>>

-----------------------------------------------------------------------------
(* _with_execution_ownership, the finally clause. *)

(* The action returns or raises, possibly out of a running command. *)
Leave(w) ==
    /\ wk[w].pc \in {"own", "asserted", "command"}
    /\ wk' = [wk EXCEPT ![w].pc = "stopping"]
    /\ UNCHANGED <<clock, covered, storeVars, alive, hb>>

(* heartbeat.stop joins the thread, then terminate_all stops the commands. *)
StopHeartbeat(w) ==
    /\ wk[w].pc = "stopping"
    /\ hb[w].pc \in {"off", "wait", "failed"}
    /\ hb' = [hb EXCEPT ![w] = HbOff]
    /\ \/ /\ wk[w].cmd # None
          /\ alive' = alive \ {wk[w].cmd}
          /\ Finish(wk[w].cmd, "terminated")
          /\ wk' = [wk EXCEPT ![w].cmd = None]
       \/ /\ wk[w].cmd # None
          /\ Finish(wk[w].cmd, "cleanup_failed")
          /\ wk' = [wk EXCEPT ![w].pc = "cleanup_error", ![w].cmd = None]
          /\ UNCHANGED alive
       \/ /\ wk[w].cmd = None
          /\ wk' = IF wk[w].failed
                   THEN [wk EXCEPT ![w] = Idle]
                   ELSE [wk EXCEPT ![w].now = clock,
                                   ![w].pc = IF w \in Writer THEN "release_ws"
                                             ELSE "release_exec"]
          /\ UNCHANGED <<cmds, alive>>
    /\ UNCHANGED <<clock, covered, tasks, active, execs, wlease>>

(* Mutant: the released lease is dated back by a whole TTL. *)
ReleaseBackdated(w) ==
    LET x == WorkspaceOf[wk[w].task]
    IN  /\ wk[w].pc = "release_ws"
        /\ IF WorkspaceGuardOK(wk[w].exec, wk[w].now)
           THEN /\ wlease' = [wlease EXCEPT ![x].expires = wk[w].now - TTL]
                /\ wk' = [wk EXCEPT ![w].pc = "release_exec"]
           ELSE /\ wk' = [wk EXCEPT ![w] = Idle]
                /\ wlease' = wlease
        /\ UNCHANGED <<clock, covered, tasks, active, execs, cmds, alive, hb>>

(* release_workspace_writer; a LeaseLost skips the execution's release. *)
ReleaseWorkspace(w) ==
    LET x == WorkspaceOf[wk[w].task]
    IN  /\ wk[w].pc = "release_ws"
        /\ IF WorkspaceGuardOK(wk[w].exec, wk[w].now)
           THEN /\ wlease' = [wlease EXCEPT ![x].expires = wk[w].now]
                /\ wk' = [wk EXCEPT ![w].pc = "release_exec"]
           ELSE /\ wk' = [wk EXCEPT ![w] = Idle]
                /\ wlease' = wlease
        /\ UNCHANGED <<clock, covered, tasks, active, execs, cmds, alive, hb>>

ReleaseOwnership(w) ==
    /\ wk[w].pc = "release_exec"
    /\ IF GuardOK(wk[w].exec, wk[w].now)
       THEN ReleaseExecution(wk[w].exec)
       ELSE UNCHANGED <<execs, tasks>>
    /\ wk' = [wk EXCEPT ![w] = Idle]
    /\ UNCHANGED <<clock, covered, active, wlease, cmds, alive, hb>>

-----------------------------------------------------------------------------
Acquire(w) ==
    \/ \E t \in Serves[w] : Prepare(w, t)
    \/ \E c \in CmdId : ReconcileStops(w, c) \/ ReconcileFails(w, c)
    \/ MarkRecoveryRequired(w)
    \/ \E e \in ExecId, g \in 1..MaxGen : Claim(w, e, g)
    \/ ClaimRefused(w)
    \/ ListWorkspaceCommands(w)
    \/ AcquireWorkspace(w) \/ WorkspaceRefused(w)
    \/ Rollback(w)

Heartbeat(w) ==
    HeartbeatWakes(w) \/ RenewExecution(w) \/ RenewWorkspace(w) \/ RenewFails(w)

Run(w) ==
    \/ AssertToolOwnership(w)
    \/ \E c \in CmdId : Spawn(w, c)
    \/ Register(w) \/ RegisterRefused(w)
    \/ CommandExits(w) \/ TerminateCommand(w)
    \/ RecordCleanupFailure(w)
    \/ Complete(w)

Release(w) ==
    Leave(w) \/ StopHeartbeat(w) \/ ReleaseWorkspace(w) \/ ReleaseOwnership(w)

Next ==
    \/ Tick
    \/ \E c \in CmdId : ProcessExits(c)
    \/ \E t \in Task : StartTask(t)
    \/ \E w \in Worker : Crash(w) \/ Acquire(w) \/ Heartbeat(w) \/ Run(w) \/ Release(w)

Spec == Init /\ [][Next]_vars
-----------------------------------------------------------------------------
(* Properties. *)

(* A session never has two executions whose status is active, whether or   *)
(* not their leases have expired: claim_execution releases the expired     *)
(* ones in the transaction that inserts the new row.                       *)
SessionExclusive ==
    \A d, e \in ExecId :
        IsActive(d) /\ IsActive(e) /\ SessionOfExec(d) = SessionOfExec(e) => d = e

(* Generations fence: the active execution of a task has a larger          *)
(* generation than every other execution the task ever had.                *)
NewestIsActive ==
    \A d, e \in ExecId :
        /\ IsActive(e)
        /\ d # e
        /\ execs[d].status # "none"
        /\ execs[d].task = execs[e].task
        => execs[d].gen < execs[e].gen

(* No process runs behind the registry's back.  A command that its owner  *)
(* or a recovering worker recorded as EXITED or TERMINATED is gone, and    *)
(* once a task is taken over no process that an earlier execution of it    *)
(* registered still runs: acquire reconciles the orphans before it claims, *)
(* in another transaction and at the same reading of the clock.            *)
TaskTakeoverClean ==
    \A c \in alive :
        /\ cmds[c].status \in {"spawned"} \cup Unfinished
        /\ cmds[c].status \in Unfinished =>
             \A e \in ExecId :
                 IsActive(e) /\ execs[e].task = execs[cmds[c].exec].task
                 => cmds[c].exec = e

(* When the workspace gets a new writer, no process that was registered    *)
(* under an unexpired writer lease of an earlier one still runs.           *)
WorkspaceTakeoverClean ==
    \A c \in alive \cap covered :
        wlease[WorkspaceOf[execs[cmds[c].exec].task]].exec = cmds[c].exec

(* A writer lease never outlives the lease of the execution it belongs to, *)
(* although renew extends the two in different transactions.               *)
LeaseNesting ==
    \A x \in Workspace :
        wlease[x].exec # None => wlease[x].expires <= execs[wlease[x].exec].expires

(* Only the newest execution of a task, active and unexpired when the      *)
(* transaction commits, ends the task or registers a command.              *)
IsFenced(e) ==
    /\ GuardOK(e, clock)
    /\ \A d \in ExecsOf(execs[e].task) : execs[d].gen <= execs[e].gen

FencedStep ==
    /\ \A t \in Task :
           tasks'[t].ended /\ ~tasks[t].ended
           => \E e \in ExecsOf(t) : IsFenced(e)
    /\ \A c \in CmdId :
           cmds[c].status = "spawned" /\ cmds'[c].status = "running"
           => IsFenced(cmds[c].exec)

FencedWrites == [][FencedStep]_vars

(* The workspace row changes hands only after the previous writer's lease  *)
(* has really expired or was released, and the generation grows by one.    *)
HandoverStep ==
    \A x \in Workspace :
        wlease'[x].exec # wlease[x].exec
        => wlease[x].expires <= clock /\ wlease'[x].gen = wlease[x].gen + 1

WorkspaceHandover == [][HandoverStep]_vars

(* The promise about leases that every store makes, kept over stale clock  *)
(* readings, heartbeats and late owners: a session is a lock with one      *)
(* holder and no way back, and each claim takes the next generation.       *)
Lease == INSTANCE LeaseLock WITH
    Exec <- ExecId,
    Lock <- Session,
    LockOf <- SessionOf,
    holders <- [s \in Session |-> {e \in ExecId : IsActive(e) /\ SessionOfExec(e) = s}],
    used <- {e \in ExecId : execs[e].status # "none"},
    gen <- [t \in Task |-> CHOOSE g \in 0..MaxGen :
                              /\ \A e \in ExecsOf(t) : execs[e].gen <= g
                              /\ g = 0 \/ \E e \in ExecsOf(t) : execs[e].gen = g]
LeaseContract == Lease!Spec
=============================================================================
