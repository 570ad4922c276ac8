------------------------------- MODULE Store -------------------------------
(***************************************************************************)
(* FakeStore, the in-memory store of persistence_contracts.py: one session *)
(* with its tasks, executions, effects, approvals, control requests, the   *)
(* checkpoint and the journal of events.  It is the contract that the      *)
(* service tests run against, so what it promises is what those tests can  *)
(* rely on; the SQLite store is modelled in Ownership, Effects and         *)
(* Session.                                                                *)
(*                                                                         *)
(* A method is one action.  A call whose expected version is stale, whose  *)
(* lease guard fails or whose state check raises changes nothing and is no *)
(* step; the one exception is the claim of an execution, which expires old *)
(* executions before it raises.  Rows carry the version that the callers   *)
(* compare.  An approval is named by its effect: there is one per effect.  *)
(***************************************************************************)
EXTENDS Naturals, Sequences, FiniteSets

CONSTANTS
    Task, Exec, Effect, Control,
    Home,            \* the task of an effect
    Decision,        \* the persisted policy decision of an effect
    RetryOf,         \* the effect that an effect retries, or None
    MaxTurns,
    MaxEvents,       \* bound on the rows of the journal, beside one for each task
    MaxRenewals,     \* bound on the version of an execution that is renewed
    MaxCommands,     \* bound on the commands that are registered
    None

ASSUME StoreAssumption ==
    /\ Home \in [Effect -> Task]
    /\ Decision \in [Effect -> {"allow", "require_approval", "deny"}]
    /\ RetryOf \in [Effect -> Effect \cup {None}]
    /\ {MaxTurns, MaxEvents, MaxRenewals, MaxCommands} \subseteq Nat
    /\ None \notin Task \cup Exec \cup Effect

VARIABLES
    sess,      \* self.sessions: version, status, active task, event_sequence
    tasks,     \* self.tasks
    turns,     \* self.turns: how many
    execs,     \* self.executions
    ws,        \* self.workspace_leases of the one workspace
    cmd,       \* self.managed_commands, one per execution
    effs,      \* self.effects
    apps,      \* self.approvals
    results,   \* self.tool_results: the effects with an observation
    ctls,      \* self.controls
    done,      \* self.recoveries: the effects with a disposition
    ckpt,      \* self.checkpoints
    rows       \* self.events: how many

vars == <<sess, tasks, turns, execs, ws, cmd, effs, apps, results, ctls, done, ckpt, rows>>

-----------------------------------------------------------------------------
Outcome == {"absent", "active", "completed", "failed", "cancelled"}
Condition == {"idle", "running", "pausing", "paused", "waiting_for_approval",
              "recovery_required", "ended"}
ExecStatus == {"absent", "running", "waiting_for_approval", "released",
               "recovery_required"}
ActiveStatus == {"running", "waiting_for_approval"}
EffectStatus == {"absent", "prepared", "waiting_for_approval", "executing",
                 "succeeded", "failed", "unknown", "denied", "cancelled"}
ApprovalStatus == {"absent", "pending", "approved", "consumed", "denied", "expired"}
ControlStatus == {"absent", "requested", "acknowledged", "settled", "cleanup_failed"}

(* The rows of the tables, with the version that a caller compares. *)
SessionRow == [status : {"open", "closed"}, active : Task \cup {None}, version : Nat, seq : Nat]
TaskRow == [outcome : Outcome, cond : Condition, version : Nat]
ExecRow == [status : ExecStatus, task : Task \cup {None}, gen : Nat, live : BOOLEAN,
            version : Nat]
EffectRow == [status : EffectStatus, approval : BOOLEAN, consumed : BOOLEAN, version : Nat]
ApprovalRow == [status : ApprovalStatus, version : Nat]
ControlRow == [status : ControlStatus, task : Task \cup {None}, version : Nat]
Checkpoint == [saved : BOOLEAN, cursor : Nat, consumed : 0..MaxTurns, pending : SUBSET Effect]

TypeOK ==
    /\ sess \in SessionRow
    /\ tasks \in [Task -> TaskRow]
    /\ turns \in 0..MaxTurns
    /\ execs \in [Exec -> ExecRow]
    /\ ws \in [exec : Exec \cup {None}, gen : Nat, live : BOOLEAN]
    /\ cmd \in [Exec -> {"none", "running", "cleanup_failed", "finished"}]
    /\ effs \in [Effect -> EffectRow]
    /\ apps \in [Effect -> ApprovalRow]
    /\ results \subseteq Effect
    /\ ctls \in [Control -> ControlRow]
    /\ done \subseteq Effect
    /\ ckpt \in [Task -> Checkpoint]
    /\ rows \in Nat

Init ==
    /\ sess = [status |-> "open", active |-> None, version |-> 1, seq |-> 1]
    /\ tasks = [t \in Task |-> [outcome |-> "absent", cond |-> "idle", version |-> 0]]
    /\ turns = 0
    /\ execs = [x \in Exec |-> [status |-> "absent", task |-> None, gen |-> 0,
                                live |-> FALSE, version |-> 0]]
    /\ ws = [exec |-> None, gen |-> 0, live |-> FALSE]
    /\ cmd = [x \in Exec |-> "none"]
    /\ effs = [e \in Effect |-> [status |-> "absent", approval |-> FALSE,
                                 consumed |-> FALSE, version |-> 0]]
    /\ apps = [e \in Effect |-> [status |-> "absent", version |-> 0]]
    /\ results = {}
    /\ ctls = [c \in Control |-> [status |-> "absent", task |-> None, version |-> 0]]
    /\ done = {}
    /\ ckpt = [t \in Task |-> [saved |-> FALSE, cursor |-> 0, consumed |-> 0,
                               pending |-> {}]]
    /\ rows = 1

-----------------------------------------------------------------------------
(* Bounds: a task that is started allows one more row; plain events,       *)
(* turns, requests, renewals and commands are new only as long as every    *)
(* task that has been started is one with effects.                         *)
Started == {t \in Task : tasks[t].outcome # "absent"}
JournalBound == rows < MaxEvents + Cardinality(Started)
SideBound == Started \subseteq {Home[e] : e \in Effect}

(* _journal, n times: the given session row gets the next numbers. *)
Journal(s, n) ==
    /\ JournalBound
    /\ sess' = [s EXCEPT !.seq = @ + n]
    /\ rows' = rows + n

NoJournal == UNCHANGED <<sess, rows>>

(* A row with some fields replaced and its version moved. *)
Cond(row, cond) == [row EXCEPT !.cond = cond, !.version = @ + 1]
Stat(row, status) == [row EXCEPT !.status = status, !.version = @ + 1]

(* _execution_is_active, _assert_guard, and _require_session_guard, which  *)
(* also compares the task.  What asserts the guard alone takes that of any *)
(* owner, for the effects and the checkpoint of another task too.          *)
IsActive(x) == execs[x].status \in ActiveStatus
Guard(x) == IsActive(x) /\ execs[x].live
GuardFor(x, t) == Guard(x) /\ execs[x].task = t
Owners == {x \in Exec : Guard(x)}

(* _assert_workspace_guard *)
WorkspaceGuard(x) == ws.exec = x /\ ws.live

PendingControl(t) ==
    \E c \in Control : ctls[c].task = t /\ ctls[c].status \in {"requested", "acknowledged"}

(* The checkpoint after an effect of the task is journalled as over. *)
Advanced(e, seq) ==
    LET t == Home[e]
    IN  IF ckpt[t].saved
        THEN [ckpt EXCEPT ![t].cursor = seq, ![t].pending = @ \ {e}]
        ELSE ckpt

-----------------------------------------------------------------------------
(* SessionStore *)

(* append_event, a new id; a repeated one changes nothing. *)
AppendEvent ==
    /\ SideBound
    /\ Journal(sess, 1)
    /\ UNCHANGED <<tasks, turns, execs, ws, cmd, effs, apps, results, ctls, done, ckpt>>

CloseSession ==
    /\ sess.active = None
    /\ sess.status = "open"
    /\ Journal([sess EXCEPT !.status = "closed", !.version = @ + 1],
               1)
    /\ UNCHANGED <<tasks, turns, execs, ws, cmd, effs, apps, results, ctls, done, ckpt>>

(* append_turn, a new submission; a repeated one changes nothing. *)
AppendTurn ==
    /\ SideBound
    /\ sess.status = "open"
    /\ turns < MaxTurns
    /\ turns' = turns + 1
    /\ Journal([sess EXCEPT !.version = @ + 1], 1)
    /\ UNCHANGED <<tasks, execs, ws, cmd, effs, apps, results, ctls, done, ckpt>>

StartTask(t) ==
    /\ sess.status = "open"
    /\ sess.active = None
    /\ tasks[t].outcome = "absent"
    /\ tasks' = [tasks EXCEPT ![t] = [outcome |-> "active", cond |-> "idle", version |-> 1]]
    /\ Journal([sess EXCEPT !.active = t, !.version = @ + 1], 1)
    /\ UNCHANGED <<turns, execs, ws, cmd, effs, apps, results, ctls, done, ckpt>>

(* request_control; the kind makes no difference here. *)
RequestControl(c, t) ==
    /\ SideBound
    /\ ctls[c].status = "absent"
    /\ tasks[t].outcome # "absent"
    /\ ctls' = [ctls EXCEPT ![c] = [status |-> "requested", task |-> t, version |-> 1]]
    /\ Journal(sess, 1)
    /\ UNCHANGED <<tasks, turns, execs, ws, cmd, effs, apps, results, done, ckpt>>

(* settle_control and ControlRequest.transition *)
SettleControl(c, status) ==
    /\ \/ ctls[c].status = "requested" /\ status \in {"acknowledged", "cleanup_failed"}
       \/ ctls[c].status = "acknowledged" /\ status \in {"settled", "cleanup_failed"}
    /\ ctls' = [ctls EXCEPT ![c] = Stat(@, status)]
    /\ Journal(sess, 1)
    /\ UNCHANGED <<tasks, turns, execs, ws, cmd, effs, apps, results, done, ckpt>>

-----------------------------------------------------------------------------
(* Tasks, executions and the workspace writer. *)

(* update_task, and what a Task may be; a terminal outcome stays, and so   *)
(* does recovery_required.                                                 *)
UpdateTask(x, t, outcome, cond) ==
    /\ GuardFor(x, t)
    /\ outcome # "active" => cond \in {"ended", "recovery_required"}
    /\ tasks[t].outcome \in {"active", outcome}
    /\ tasks[t].cond = "recovery_required" => cond = "recovery_required"
    /\ tasks' = [tasks EXCEPT ![t] =
                    [outcome |-> outcome, cond |-> cond, version |-> @.version + 1]]
    /\ Journal(IF outcome # "active" /\ sess.active = t
               THEN [sess EXCEPT !.active = None, !.version = @ + 1] ELSE sess,
               1)
    /\ UNCHANGED <<turns, execs, ws, cmd, effs, apps, results, ctls, done, ckpt>>

(* Mutant: the expired execution keeps its status. *)
StillActive == execs

(* _expire_execution, for every active execution of the session. *)
Expired == [y \in Exec |-> IF IsActive(y) THEN Stat(execs[y], "released") ELSE execs[y]]

Takeover == \E y \in Exec : IsActive(y)

LatestGeneration(t) ==
    LET gens == {execs[y].gen : y \in {z \in Exec : execs[z].task = t}} \cup {0}
    IN  CHOOSE g \in gens : \A h \in gens : h <= g

(* claim_execution: LeaseConflict beside a live execution. *)
ClaimExecution(x, t) ==
    LET gen == LatestGeneration(t) + 1
    IN  /\ execs[x].status = "absent"
        /\ \A y \in Exec : ~Guard(y)
        /\ tasks[t].outcome # "absent"
        /\ tasks[t].cond # "recovery_required"
        /\ execs' = [Expired EXCEPT ![x] =
                [status |-> "running", task |-> t, gen |-> gen, live |-> TRUE, version |-> 1]]
        /\ tasks' = [tasks EXCEPT ![t] = Cond(@, "running")]
        /\ Journal(sess, 1)
        /\ UNCHANGED <<turns, ws, cmd, effs, apps, results, ctls, done, ckpt>>

(* claim_execution raises after it expired what it found: a task that does *)
(* not exist, is of another session, needs recovery or was read at another *)
(* version, or an id or a token that was used before.                      *)
ClaimRefused ==
    /\ Takeover
    /\ \A y \in Exec : ~Guard(y)
    /\ execs' = Expired
    /\ NoJournal
    /\ UNCHANGED <<tasks, turns, ws, cmd, effs, apps, results, ctls, done, ckpt>>

(* renew_execution: the expiry is moved, which live abstracts. *)
RenewExecution(x) ==
    /\ SideBound
    /\ Guard(x)
    /\ execs[x].version < MaxRenewals
    /\ execs' = [execs EXCEPT ![x].version = @ + 1]
    /\ NoJournal
    /\ UNCHANGED <<tasks, turns, ws, cmd, effs, apps, results, ctls, done, ckpt>>

ReleaseExecution(x) ==
    LET t == execs[x].task
    IN  /\ Guard(x)
        /\ execs' = [execs EXCEPT ![x] = Stat(@, "released")]
        /\ tasks' = IF tasks[t].cond = "running"
                    THEN [tasks EXCEPT ![t] = Cond(@, "idle")] ELSE tasks
        /\ Journal(sess, 1)
        /\ UNCHANGED <<turns, ws, cmd, effs, apps, results, ctls, done, ckpt>>

(* The clock passes the expiry of a lease, that of a released one too. *)
LeaseExpires(x) ==
    /\ execs[x].live
    /\ execs' = [execs EXCEPT ![x].live = FALSE]
    /\ NoJournal
    /\ UNCHANGED <<tasks, turns, ws, cmd, effs, apps, results, ctls, done, ckpt>>

WorkspaceExpires ==
    /\ ws.live
    /\ ws' = [ws EXCEPT !.live = FALSE]
    /\ NoJournal
    /\ UNCHANGED <<tasks, turns, execs, cmd, effs, apps, results, ctls, done, ckpt>>

AcquireWorkspace(x) ==
    /\ ~ws.live
    /\ Guard(x)
    /\ ws' = [exec |-> x, gen |-> ws.gen + 1, live |-> TRUE]
    /\ Journal(sess, 1)
    /\ UNCHANGED <<tasks, turns, execs, cmd, effs, apps, results, ctls, done, ckpt>>

ReleaseWorkspace(x) ==
    /\ WorkspaceGuard(x)
    /\ ws' = [ws EXCEPT !.live = FALSE]
    /\ Journal(sess, 1)
    /\ UNCHANGED <<tasks, turns, execs, cmd, effs, apps, results, ctls, done, ckpt>>

(* The tests put a command in the table; the store has no method for it. *)
RegisterCommand(x) ==
    /\ SideBound
    /\ Guard(x) /\ cmd[x] = "none"
    /\ Cardinality({y \in Exec : cmd[y] # "none"}) < MaxCommands
    /\ cmd' = [cmd EXCEPT ![x] = "running"]
    /\ NoJournal
    /\ UNCHANGED <<tasks, turns, execs, ws, effs, apps, results, ctls, done, ckpt>>

(* finish_managed_command: an end that was recorded stays. *)
FinishCommand(x, status) ==
    /\ cmd[x] \in {"running", "cleanup_failed"}
    /\ cmd' = [cmd EXCEPT ![x] = status]
    /\ NoJournal
    /\ UNCHANGED <<tasks, turns, execs, ws, effs, apps, results, ctls, done, ckpt>>

(* recovery_commands_for_task *)
RecoveryCommands(t) ==
    {x \in Exec : execs[x].task = t /\ ~execs[x].live /\ cmd[x] \in {"running", "cleanup_failed"}}

(* mark_command_recovery_required, without an event; once per execution. *)
MarkRecoveryRequired(x) ==
    LET t == execs[x].task
    IN  /\ x \in RecoveryCommands(t)
        /\ execs[x].status # "recovery_required"
        /\ execs' = [execs EXCEPT ![x] = Stat(@, "recovery_required")]
        /\ tasks' = [tasks EXCEPT ![t] = Cond(@, "recovery_required")]
        /\ NoJournal
        /\ UNCHANGED <<turns, ws, cmd, effs, apps, results, ctls, done, ckpt>>

-----------------------------------------------------------------------------
(* Effects and approvals. *)

(* prepare_effects and prepare_effect_batch: what is new of a batch. *)
PrepareEffects(x, t, new) ==
    /\ GuardFor(x, t)
    /\ new # {}
    /\ \A e \in new : Home[e] = t /\ effs[e].status = "absent" /\ RetryOf[e] = None
    /\ effs' = [e \in Effect |->
                  IF e \in new THEN [status |-> "prepared", approval |-> FALSE,
                                    consumed |-> FALSE, version |-> 1] ELSE effs[e]]
    /\ Journal(sess, 1)
    /\ UNCHANGED <<tasks, turns, execs, ws, cmd, apps, results, ctls, done, ckpt>>

(* The execution and the task wait with the effect. *)
Wait(x, t) ==
    /\ execs' = [execs EXCEPT ![x] = Stat(@, "waiting_for_approval")]
    /\ tasks' = [tasks EXCEPT ![t] = Cond(@, "waiting_for_approval")]

(* request_effect_approval of an effect that is waiting: the same pending  *)
(* request again, by a later execution.                                    *)
RequestAgain(x, e) ==
    /\ GuardFor(x, Home[e])
    /\ effs[e].status = "waiting_for_approval"
    /\ apps[e].status = "pending"
    /\ execs[x].status = "running"
    /\ Wait(x, Home[e])
    /\ NoJournal
    /\ UNCHANGED <<turns, ws, cmd, effs, apps, results, ctls, done, ckpt>>

RequestApproval(x, e) ==
    /\ GuardFor(x, Home[e])
    /\ effs[e].status = "prepared"
    /\ apps[e].status = "absent"
    /\ tasks[Home[e]].cond = "running"
    /\ Wait(x, Home[e])
    /\ effs' = [effs EXCEPT ![e] =
                  [Stat(@, "waiting_for_approval") EXCEPT !.approval = TRUE]]
    /\ apps' = [apps EXCEPT ![e] = [status |-> "pending", version |-> 1]]
    /\ Journal(sess, 1)
    /\ UNCHANGED <<turns, ws, cmd, results, ctls, done, ckpt>>

(* Mutant: the task that stops waiting keeps its version. *)
ResolveUnversioned(e, verdict) ==
    LET t == Home[e]
        expired == verdict = "expired"
    IN  /\ apps[e].status = "pending"
        /\ apps' = [apps EXCEPT ![e] = Stat(@, verdict)]
        /\ effs' = [effs EXCEPT ![e] =
                [Stat(effs[e], IF verdict = "denied" THEN "denied" ELSE "prepared") EXCEPT
                    !.approval = @ /\ ~expired]]
        /\ tasks' = IF tasks[t].cond = "waiting_for_approval"
                    THEN [tasks EXCEPT ![t].cond = "idle"] ELSE tasks
        /\ Journal(sess, 1)
        /\ UNCHANGED <<turns, execs, ws, cmd, results, ctls, done, ckpt>>

(* resolve_effect_approval: approved, denied, or expired when the workspace,   *)
(* the policy or the configuration is not what the request was made for.       *)
ResolveApproval(e, verdict) ==
    LET t == Home[e]
        expired == verdict = "expired"
    IN  /\ apps[e].status = "pending"
        /\ apps' = [apps EXCEPT ![e] = Stat(@, verdict)]
        /\ effs' = [effs EXCEPT ![e] =
                [Stat(effs[e], IF verdict = "denied" THEN "denied" ELSE "prepared") EXCEPT
                    !.approval = @ /\ ~expired]]
        /\ tasks' = IF tasks[t].cond = "waiting_for_approval"
                    THEN [tasks EXCEPT ![t] = Cond(@, "idle")] ELSE tasks
        /\ Journal(sess, 1)
        /\ UNCHANGED <<turns, execs, ws, cmd, results, ctls, done, ckpt>>

(* claim_effect: no pending request, no newer turn than the caller expects *)
(* (if it says what it expects), and an approval that is approved where    *)
(* one is needed or named.                                                 *)
ClaimAllowed(x, e, input) ==
    /\ Guard(x)
    /\ effs[e].status = "prepared"
    /\ ~PendingControl(Home[e])
    /\ input \in {turns, None}
    /\ Decision[e] # "deny"
    /\ IF effs[e].approval THEN apps[e].status = "approved"
       ELSE Decision[e] # "require_approval"

(* Mutant: both events are numbered from the session row read first. *)
ClaimStaleSession(x, e, input) ==
    LET used == effs[e].approval
    IN  /\ ClaimAllowed(x, e, input)
        /\ effs' = [effs EXCEPT ![e] = [Stat(@, "executing") EXCEPT
                      !.approval = FALSE, !.consumed = used]]
        /\ apps' = IF used THEN [apps EXCEPT ![e] = Stat(@, "consumed")] ELSE apps
        /\ JournalBound
        /\ rows' = rows + IF used THEN 2 ELSE 1
        /\ sess' = [sess EXCEPT !.seq = @ + 1]
        /\ UNCHANGED <<tasks, turns, execs, ws, cmd, results, ctls, done, ckpt>>

(* claim_effect: an approval is consumed by the claim that it allows, in   *)
(* the same transaction and with an event of its own.                      *)
ClaimEffect(x, e, input) ==
    LET used == effs[e].approval
    IN  /\ ClaimAllowed(x, e, input)
        /\ effs' = [effs EXCEPT ![e] = [Stat(@, "executing") EXCEPT
                      !.approval = FALSE, !.consumed = used]]
        /\ apps' = IF used THEN [apps EXCEPT ![e] = Stat(@, "consumed")] ELSE apps
        /\ Journal(sess, IF used THEN 2 ELSE 1)
        /\ UNCHANGED <<tasks, turns, execs, ws, cmd, results, ctls, done, ckpt>>

(* commit_effect, with or without the tool observation. *)
CommitEffect(x, e, status, observed) ==
    /\ Guard(x)
    /\ effs[e].status = "executing"
    /\ effs' = [effs EXCEPT ![e] = Stat(@, status)]
    /\ results' = results \cup (IF observed THEN {e} ELSE {})
    /\ Journal(sess, 1)
    /\ ckpt' = Advanced(e, sess'.seq)
    /\ UNCHANGED <<tasks, turns, execs, ws, cmd, apps, ctls, done>>

(* Mutant: an effect that is running can be settled as not executed. *)
SettleExecuting(x, e, status) ==
    /\ Guard(x)
    /\ effs[e].status \in {"prepared", "waiting_for_approval", "executing"}
    /\ e \notin results
    /\ effs' = [effs EXCEPT ![e] = Stat(@, status)]
    /\ results' = results \cup {e}
    /\ Journal(sess, 1)
    /\ ckpt' = Advanced(e, sess'.seq)
    /\ UNCHANGED <<tasks, turns, execs, ws, cmd, apps, ctls, done>>

(* settle_unexecuted_effect; an open approval expires without an event.    *)
SettleUnexecuted(x, e, status) ==
    /\ Guard(x)
    /\ effs[e].status \in {"prepared", "waiting_for_approval", status}
    /\ e \notin results
    /\ effs' = [effs EXCEPT ![e] = Stat(@, status)]
    /\ apps' = IF effs[e].approval /\ apps[e].status = "pending"
               THEN [apps EXCEPT ![e] = Stat(@, "expired")] ELSE apps
    /\ results' = results \cup {e}
    /\ Journal(sess, 1)
    /\ ckpt' = Advanced(e, sess'.seq)
    /\ UNCHANGED <<tasks, turns, execs, ws, cmd, ctls, done>>

(* mark_effect_unknown, again for an effect that is unknown. *)
MarkUnknown(x, e) ==
    LET t == Home[e]
        new == IF effs[e].status = "executing" THEN Stat(effs[e], "unknown") ELSE effs[e]
    IN  /\ Guard(x)
        /\ effs[e].status \in {"executing", "unknown"}
        /\ effs' = [effs EXCEPT ![e] = new]
        /\ tasks' = IF tasks[t].cond = "recovery_required" THEN tasks
                    ELSE [tasks EXCEPT ![t] = Cond(@, "recovery_required")]
        /\ Journal(sess, 1)
        /\ ckpt' = Advanced(e, sess'.seq)
        /\ UNCHANGED <<turns, execs, ws, cmd, apps, results, ctls, done>>

(* commit_tool_result, the observation alone. *)
CommitToolResult(x, e) ==
    /\ GuardFor(x, Home[e])
    /\ effs[e].status # "absent"
    /\ e \notin results
    /\ results' = results \cup {e}
    /\ Journal(sess, 1)
    /\ UNCHANGED <<tasks, turns, execs, ws, cmd, effs, apps, ctls, done, ckpt>>

-----------------------------------------------------------------------------
(* resolve_recovery *)

Disposable(e) ==
    /\ e \notin done
    /\ tasks[Home[e]].cond = "recovery_required"
    /\ effs[e].status = "unknown"

Disposed(e, kind) ==
    /\ done' = done \cup {e}
    /\ Journal(IF kind = "abandon" /\ sess.active = Home[e]
               THEN [sess EXCEPT !.active = None, !.version = @ + 1] ELSE sess,
               1)

ConfirmResult(e, status) ==
    LET t == Home[e]
    IN  /\ Disposable(e)
        /\ effs' = [effs EXCEPT ![e] = Stat(@, status)]
        /\ results' = results \cup {e}
        /\ tasks' = [tasks EXCEPT ![t] =
                Cond(@, IF @.outcome = "active" THEN "idle" ELSE "ended")]
        /\ Disposed(e, "confirm_result")
        /\ UNCHANGED <<turns, execs, ws, cmd, apps, ctls, ckpt>>

CreateRetry(e, r) ==
    /\ Disposable(e)
    /\ RetryOf[r] = e /\ effs[r].status = "absent" /\ Home[r] = Home[e]
    /\ tasks[Home[e]].outcome = "active"
    /\ effs' = [effs EXCEPT ![r] = [status |-> "waiting_for_approval", approval |-> TRUE,
                                    consumed |-> FALSE, version |-> 1]]
    /\ apps' = [apps EXCEPT ![r] = [status |-> "pending", version |-> 1]]
    /\ results' = results \cup {e}
    /\ tasks' = [tasks EXCEPT ![Home[e]] = Cond(@, "waiting_for_approval")]
    /\ Disposed(e, "create_retry")
    /\ UNCHANGED <<turns, execs, ws, cmd, ctls, ckpt>>

(* resolve_recovery with ABANDON: the task ends as cancelled.              *)
Abandon(e) ==
    /\ Disposable(e)
    /\ tasks' = [tasks EXCEPT ![Home[e]] =
                    [Cond(@, "ended") EXCEPT !.outcome = "cancelled"]]
    /\ Disposed(e, "abandon")
    /\ UNCHANGED <<turns, execs, ws, cmd, effs, apps, results, ctls, ckpt>>

-----------------------------------------------------------------------------
(* commit_checkpoint: cursors that are not ahead, pending effects of the   *)
(* task.                                                                   *)
CommitCheckpoint(x, t, cursor, consumed, pending) ==
    /\ Guard(x)
    /\ tasks[t].outcome # "absent"
    /\ cursor <= sess.seq
    /\ consumed <= turns
    /\ \A e \in pending : Home[e] = t /\ effs[e].status # "absent"
    /\ ckpt' = [ckpt EXCEPT ![t] = [saved |-> TRUE, cursor |-> cursor,
                                    consumed |-> consumed, pending |-> pending]]
    /\ Journal(sess, 1)
    /\ UNCHANGED <<tasks, turns, execs, ws, cmd, effs, apps, results, ctls, done>>

-----------------------------------------------------------------------------
SessionOp ==
    \/ AppendEvent
    \/ CloseSession \/ AppendTurn
    \/ \E t \in Task : StartTask(t)
    \/ \E c \in Control, t \in Task : RequestControl(c, t)
    \/ \E c \in Control, status \in ControlStatus : SettleControl(c, status)

LeaseOp ==
    \/ \E x \in Owners, t \in Task, outcome \in Outcome \ {"absent"},
         cond \in Condition : UpdateTask(x, t, outcome, cond)
    \/ \E x \in Exec, t \in Task : ClaimExecution(x, t)
    \/ ClaimRefused
    \/ WorkspaceExpires
    \/ \E x \in Exec :
         \/ RenewExecution(x) \/ ReleaseExecution(x) \/ LeaseExpires(x)
         \/ AcquireWorkspace(x) \/ ReleaseWorkspace(x)
         \/ RegisterCommand(x) \/ MarkRecoveryRequired(x)
         \/ \E status \in {"finished", "cleanup_failed"} : FinishCommand(x, status)

EffectOp ==
    \/ \E x \in Owners, t \in Task, new \in SUBSET Effect : PrepareEffects(x, t, new)
    \/ \E x \in Owners, e \in Effect :
         \/ RequestAgain(x, e) \/ RequestApproval(x, e) \/ MarkUnknown(x, e)
         \/ CommitToolResult(x, e)
         \/ \E input \in 0..MaxTurns \cup {None} : ClaimEffect(x, e, input)
         \/ \E status \in {"succeeded", "failed", "unknown"}, observed \in BOOLEAN :
                CommitEffect(x, e, status, observed)
         \/ \E status \in {"denied", "cancelled"} : SettleUnexecuted(x, e, status)
    \/ \E e \in Effect :
         \/ \E verdict \in {"approved", "denied", "expired"} : ResolveApproval(e, verdict)
         \/ \E status \in {"succeeded", "failed"} : ConfirmResult(e, status)
         \/ \E r \in Effect : CreateRetry(e, r)
         \/ Abandon(e)

CheckpointOp ==
    \E x \in Owners, t \in Task, cursor \in {0, sess.seq}, consumed \in 0..MaxTurns,
       pending \in SUBSET Effect : CommitCheckpoint(x, t, cursor, consumed, pending)

Next == SessionOp \/ LeaseOp \/ EffectOp \/ CheckpointOp

Spec == Init /\ [][Next]_vars

-----------------------------------------------------------------------------
(* Properties. *)

(* The journal has no gap and no number twice: event_sequence counts its   *)
(* rows, also after the methods that write two events or write the session *)
(* row themselves.  And what a checkpoint refers to exists: its cursors    *)
(* are not ahead of the journal and the turns, wherever a commit has moved *)
(* them since.                                                             *)
JournalExact ==
    /\ sess.seq = rows
    /\ \A t \in Task :
           /\ ckpt[t].cursor <= sess.seq
           /\ ckpt[t].consumed <= turns
           /\ \A e \in ckpt[t].pending : Home[e] = t /\ effs[e].status # "absent"

(* Optimistic concurrency: whatever changes a row moves its version by     *)
(* one, so that a caller that compares the version read what it thinks.    *)
Versioned(old, new) ==
    \A k \in DOMAIN old : new[k] # old[k] => new[k].version = old[k].version + 1

RowsVersioned ==
    [][/\ Versioned(tasks, tasks')
       /\ Versioned(effs, effs')
       /\ Versioned(apps, apps')
       /\ Versioned(ctls, ctls')
       /\ Versioned([x \in Exec |-> [execs[x] EXCEPT !.live = TRUE]],
                    [x \in Exec |-> [execs'[x] EXCEPT !.live = TRUE]])
       /\ [sess' EXCEPT !.seq = sess.seq] # sess => sess'.version = sess.version + 1]_vars

(* The life of an effect that a status stands for. *)
LifeOf(status) ==
    CASE status = "absent" -> "absent"
      [] status \in {"prepared", "waiting_for_approval"} -> "open"
      [] status = "executing" -> "running"
      [] status = "unknown" -> "unknown"
      [] status \in {"succeeded", "failed"} -> "over"
      [] status \in {"denied", "cancelled"} -> "void"

(* The in-memory store keeps the promise about effects that the SQLite     *)
(* store keeps (Effects!EffectContract): claimed once, settled for good.   *)
Contract == INSTANCE EffectLife WITH life <- [e \in Effect |-> LifeOf(effs[e].status)]
EffectContract == Contract!Spec

(* And the promise about leases (Ownership!LeaseContract): one holder, no  *)
(* way back, the next generation at every claim.                           *)
Lease == INSTANCE LeaseLock WITH
    Lock <- {"session"},
    LockOf <- [t \in Task |-> "session"],
    holders <- [k \in {"session"} |-> {x \in Exec : IsActive(x)}],
    used <- {x \in Exec : execs[x].status # "absent"},
    gen <- [t \in Task |-> LatestGeneration(t)]
LeaseContract == Lease!Spec
=============================================================================
