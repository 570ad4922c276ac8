------------------------------ MODULE Session ------------------------------
(***************************************************************************)
(* One session and its tasks: the conversation (turns and submission ids), *)
(* the active task slot, pause and cancel requests, and the processes that *)
(* run or resume the active task, from the claim of the execution to its   *)
(* release.                                                                *)
(*                                                                         *)
(* A store method is one transaction, hence one action.  A client first    *)
(* reads a row and then sends a command with the version it read: `client' *)
(* keeps the command and whether that version is still the current one.    *)
(* A worker is a process with its own AgentRuntime; what it read is in wk. *)
(* Every guarded write requires Owned(w); when the lease has lapsed the    *)
(* process goes on until such a write raises LeaseLost.                    *)
(*                                                                         *)
(* Left to other modules: effects and approvals (Effects), the workspace   *)
(* writer and the clock of the leases (Ownership), what a step costs and   *)
(* counts (StepLoop).                                                      *)
(***************************************************************************)
EXTENDS Naturals, Sequences, FiniteSets

CONSTANTS
    Worker,
    Text,            \* contents of a message or an answer
    Submission,      \* client submission ids
    MaxTasks, MaxTurns, MaxControls,
    MaxSteps,        \* task.budget.max_steps
    MaxFaults,       \* bound on crashes and lost leases
    None

ASSUME SessionAssumption ==
    /\ {MaxTasks, MaxTurns, MaxControls, MaxSteps, MaxFaults} \subseteq Nat
    /\ None \notin Worker \cup Text \cup Submission

VARIABLES
    sess,       \* sessions row: its status and active_task_id (0: none)
    turns,      \* turns table, in sequence order
    tasks,      \* tasks table: compatibility status and runtime condition
    ctl,        \* control_requests table, in request order
    ckpt,       \* checkpoints table
    resp,       \* steps table: the persisted model response of each step
    lease,      \* the execution of the session that is not released
    client,     \* the command of a client between its read and its write
    wk,         \* the workers
    faults      \* crashes and lost leases so far

storeVars == <<sess, turns, tasks, ctl, ckpt, resp, lease>>
vars == <<storeVars, client, wk, faults>>

-----------------------------------------------------------------------------
Task == 1..MaxTasks
Steps == 0..MaxSteps

Active == {"created", "running"}
Ended == {"completed", "failed", "cancelled"}
Status == {"absent"} \cup Active \cup Ended
Condition == {"idle", "running", "pausing", "paused", "recovery_required", "ended"}
Open == {"requested", "acknowledged"}
ControlStatus == Open \cup {"settled", "cleanup_failed"}
Kind == {"pause", "cancel"}

(* task 0 is no task; a completion has the submission id of its task. *)
Turn == [role : {"user", "assistant"}, task : 0..MaxTasks,
         sub : Submission \cup {None} \cup Task, text : Text]

(* RuntimeCheckpoint: the next step, the consumed input sequence, and the  *)
(* turns that the messages show, in order; saved is FALSE for no row.      *)
Checkpoint == [saved : BOOLEAN, next : Steps, consumed : 0..(MaxTurns + MaxTasks),
               shown : Seq(1..(MaxTurns + MaxTasks))]
NoCheckpoint == [saved |-> FALSE, next |-> 0, consumed |-> 0, shown |-> <<>>]

(* AgentStep with its model response: what it had consumed, and the text   *)
(* of a final answer or "tools".                                           *)
NoResponse == [consumed |-> 0, text |-> None]

NoLease == [holder |-> None, task |-> 0, live |-> FALSE]

NoClient == [op |-> "none", task |-> 0, fresh |-> FALSE]

(* loop: inside _advance_once, where an exception ends in _fail.  c is the *)
(* control request being applied, state the checkpoint in memory.          *)
IdleWorker == [pc |-> "idle", task |-> 0, loop |-> FALSE, fresh |-> FALSE,
               state |-> NoCheckpoint, step |-> NoResponse, c |-> 0]

PC == {"idle", "loaded", "run", "first", "resume", "step", "ask", "answered", "tool",
       "answer", "complete", "ack", "pausing", "cleanup", "paused", "cancelled",
       "settle", "fail", "release"}

TypeOK ==
    /\ sess \in [status : {"absent", "open", "closed"}, active : 0..MaxTasks]
    /\ turns \in Seq(Turn) /\ Len(turns) <= MaxTurns + MaxTasks
    /\ tasks \in [Task -> [status : Status, cond : Condition]]
    /\ ctl \in Seq([task : Task, kind : Kind, status : ControlStatus])
    /\ ckpt \in [Task -> Checkpoint]
    /\ lease \in [holder : Worker \cup {None}, task : 0..MaxTasks, live : BOOLEAN]
    /\ client.op \in {"none", "start", "close"} \cup Kind
    /\ \A w \in Worker : wk[w].pc \in PC /\ wk[w].task \in 0..MaxTasks
    /\ faults \in 0..MaxFaults

Init ==
    /\ sess = [status |-> "absent", active |-> 0]
    /\ turns = <<>>
    /\ tasks = [t \in Task |-> [status |-> "absent", cond |-> "idle"]]
    /\ ctl = <<>>
    /\ ckpt = [t \in Task |-> NoCheckpoint]
    /\ resp = [t \in Task |-> [n \in Steps |-> NoResponse]]
    /\ lease = NoLease
    /\ client = NoClient
    /\ wk = [w \in Worker |-> IdleWorker]
    /\ faults = 0

-----------------------------------------------------------------------------
(* Reads. *)

(* list_turns(after_sequence): the later turns that _consume_pending_inputs *)
(* and _supersede_response_for_inputs turn into user messages for task t.   *)
InputsAfter(t, n) ==
    LET upto[i \in n..Len(turns)] ==
            IF i = n THEN <<>>
            ELSE IF turns[i].role = "user" /\ turns[i].task \in {0, t}
            THEN Append(upto[i - 1], i)
            ELSE upto[i - 1]
    IN upto[Len(turns)]

(* _session_history: every turn of the session. *)
History == [i \in DOMAIN turns |-> i]

OpenControls(t) == {i \in DOMAIN ctl : ctl[i].task = t /\ ctl[i].status \in Open}

(* get_pending_control: the oldest open request, 0 if there is none. *)
PendingControl(t) ==
    LET s == OpenControls(t)
    IN  IF s = {} THEN 0 ELSE CHOOSE i \in s : \A j \in s : i <= j

(* _turn_by_submission *)
SameSubmission(sub) == {i \in DOMAIN turns : sub # None /\ turns[i].sub = sub}

(* The task has an execution whose lease has not expired. *)
Executing(t) == lease.live /\ lease.task = t

(* _assert_guard *)
Owned(w) == lease.holder = w /\ lease.live

-----------------------------------------------------------------------------
(* Writes.  A new version of a row makes the copies read before it stale.  *)

SessionWritten ==
    client' = IF client.op \in {"start", "close"}
              THEN [client EXCEPT !.fresh = FALSE] ELSE client

TaskWritten(t) ==
    client' = IF client.op \in Kind /\ client.task = t
              THEN [client EXCEPT !.fresh = FALSE] ELSE client

BothWritten == client' = [client EXCEPT !.fresh = FALSE]

(* Task.transition: a cancelled task may still need recovery. *)
EndCondition(t, status) ==
    IF status = "cancelled" /\ tasks[t].cond = "recovery_required"
    THEN "recovery_required" ELSE "ended"

(* update_task and cancel_task: an ended task gives up its session slot. *)
EndTask(t, status) ==
    /\ tasks' = [tasks EXCEPT ![t] =
                    [status |-> status, cond |-> EndCondition(t, status)]]
    /\ sess' = IF sess.active = t THEN [sess EXCEPT !.active = 0] ELSE sess
    /\ BothWritten

SetCondition(t, cond) ==
    /\ tasks' = [tasks EXCEPT ![t].cond = cond]
    /\ TaskWritten(t)

(* Mutant: the submission id is not looked up. *)
AppendAlways(turn) == turns' = Append(turns, turn) /\ SessionWritten

(* append_turn: a repeated submission returns the turn it made. *)
AppendTurn(turn) ==
    IF SameSubmission(turn.sub) = {}
    THEN turns' = Append(turns, turn) /\ SessionWritten
    ELSE UNCHANGED <<turns, client>>

Go(w, pc) == wk' = [wk EXCEPT ![w].pc = pc]

(* An exception ends in _fail within the loop, and leaves resume otherwise. *)
Raise(w) == Go(w, IF wk[w].loop THEN "fail" ELSE "release")

-----------------------------------------------------------------------------
(* SessionService and the store methods behind it. *)

(* create_session *)
CreateSession ==
    /\ sess.status = "absent"
    /\ sess' = [status |-> "open", active |-> 0]
    /\ UNCHANGED <<turns, tasks, ctl, ckpt, resp, lease, client, wk, faults>>

(* append_message.  The bound counts the turns of users; a repeated        *)
(* submission, with the same or other content, is always possible.         *)
SendMessage(sub, text) ==
    /\ sess.status = "open"
    /\ \/ SameSubmission(sub) # {}
       \/ Cardinality({i \in DOMAIN turns : turns[i].role = "user"}) < MaxTurns
    /\ AppendTurn([role |-> "user", task |-> sess.active, sub |-> sub, text |-> text])
    /\ UNCHANGED <<sess, tasks, ctl, ckpt, resp, lease, wk, faults>>

(* The read of start_task, close, request_pause and request_cancel. *)
ClientReads(op) ==
    /\ client = NoClient
    /\ sess.status # "absent"
    /\ op \in Kind => sess.active # 0 /\ Len(ctl) < MaxControls
    /\ client' = [op |-> op, task |-> sess.active, fresh |-> TRUE]
    /\ UNCHANGED <<storeVars, wk, faults>>

(* expected_version is the current one; otherwise StaleVersion. *)
VersionMatches(op) == client.op = op /\ client.fresh

(* The command is over: done, or refused by StaleVersion or a check. *)
ClientFails ==
    /\ client.op # "none"
    /\ ~client.fresh
    /\ client' = NoClient
    /\ UNCHANGED <<storeVars, wk, faults>>

(* start_task: refused in a closed session or beside an active task. *)
StartTask(t) ==
    /\ VersionMatches("start")
    /\ tasks[t].status = "absent"
    /\ \A u \in Task : u < t => tasks[u].status # "absent"
    /\ IF sess.status = "open" /\ sess.active = 0
       THEN /\ tasks' = [tasks EXCEPT ![t] = [status |-> "created", cond |-> "idle"]]
            /\ sess' = [sess EXCEPT !.active = t]
       ELSE UNCHANGED <<tasks, sess>>
    /\ client' = NoClient
    /\ UNCHANGED <<turns, ctl, ckpt, resp, lease, wk, faults>>

(* close_session: refused beside an active task. *)
CloseSession ==
    /\ VersionMatches("close")
    /\ sess' = IF sess.active = 0 THEN [sess EXCEPT !.status = "closed"] ELSE sess
    /\ client' = NoClient
    /\ UNCHANGED <<turns, tasks, ctl, ckpt, resp, lease, wk, faults>>

(* request_pause, request_cancel *)
RequestControl(kind) ==
    /\ VersionMatches(kind)
    /\ ctl' = Append(ctl, [task |-> client.task, kind |-> kind, status |-> "requested"])
    /\ client' = NoClient
    /\ UNCHANGED <<sess, turns, tasks, ckpt, resp, lease, wk, faults>>

(* Mutant: the slot of the session is not given up. *)
CancelKeepsSlot(t) ==
    /\ tasks[t].status \in Active
    /\ Len(ctl) < MaxControls
    /\ {i \in OpenControls(t) : ctl[i].kind = "cancel"} = {}
    /\ ctl' = Append(ctl, [task |-> t, kind |-> "cancel",
                          status |-> IF Executing(t) THEN "requested" ELSE "settled"])
    /\ IF Executing(t)
       THEN UNCHANGED <<tasks, client>>
       ELSE /\ tasks' = [tasks EXCEPT ![t] = [status |-> "cancelled", cond |-> "ended"]]
            /\ BothWritten
    /\ UNCHANGED <<sess, turns, ckpt, resp, lease, wk, faults>>

(* cancel_task: nothing if the task is over or has an open cancel.  With a *)
(* live execution it is a request; without one the task ends here, and the *)
(* request is recorded as settled.                                         *)
CancelTask(t) ==
    /\ tasks[t].status \in Active
    /\ Len(ctl) < MaxControls
    /\ {i \in OpenControls(t) : ctl[i].kind = "cancel"} = {}
    /\ ctl' = Append(ctl, [task |-> t, kind |-> "cancel",
                          status |-> IF Executing(t) THEN "requested" ELSE "settled"])
    /\ IF Executing(t)
       THEN UNCHANGED <<tasks, sess, client>>
       ELSE EndTask(t, "cancelled")
    /\ UNCHANGED <<turns, ckpt, resp, lease, wk, faults>>

-----------------------------------------------------------------------------
(* SessionService.resume, _with_execution_ownership *)

(* The service reads the task and its checkpoint; a task that needs        *)
(* recovery is returned, and a missing checkpoint is an error.             *)
LoadTask(w) ==
    LET t == sess.active
    IN  /\ wk[w].pc = "idle"
        /\ t # 0
        /\ tasks[t].cond # "recovery_required"
        /\ tasks[t].status = "created" \/ ckpt[t].saved
        /\ wk' = [wk EXCEPT ![w] = [IdleWorker EXCEPT
                    !.pc = "loaded", !.task = t, !.state = ckpt[t],
                    !.fresh = (tasks[t].status = "created")]]
        /\ UNCHANGED <<storeVars, client, faults>>

(* prepare_task_execution and claim_execution; the checkpoint is not read  *)
(* again.                                                                  *)
Claim(w) ==
    LET t == wk[w].task
    IN  /\ wk[w].pc = "loaded"
        /\ IF sess.active = t /\ ~lease.live /\ tasks[t].cond # "recovery_required"
           THEN /\ lease' = [holder |-> w, task |-> t, live |-> TRUE]
                /\ SetCondition(t, "running")
                /\ Go(w, IF wk[w].fresh THEN "run" ELSE "resume")
           ELSE wk' = [wk EXCEPT ![w] = IdleWorker] /\ UNCHANGED <<lease, tasks, client>>
        /\ UNCHANGED <<sess, turns, ctl, ckpt, resp, faults>>

(* _run_owned up to the saved task; a task that another process has begun  *)
(* cannot be transitioned to running again.                                *)
RunOwned(w) ==
    LET t == wk[w].task
    IN  /\ wk[w].pc = "run"
        /\ Owned(w)
        /\ IF tasks[t].status = "created"
           THEN /\ tasks' = [tasks EXCEPT ![t] = [status |-> "running", cond |-> "running"]]
                /\ TaskWritten(t)
                /\ wk' = [wk EXCEPT ![w].pc = "first", ![w].state =
                            [saved |-> TRUE, next |-> 0, consumed |-> Len(turns),
                             shown |-> History]]
           ELSE Raise(w) /\ UNCHANGED <<tasks, client>>
        /\ UNCHANGED <<sess, turns, ctl, ckpt, resp, lease, faults>>

(* The first checkpoint, then the loop. *)
FirstCheckpoint(w) ==
    /\ wk[w].pc = "first"
    /\ Owned(w)
    /\ ckpt' = [ckpt EXCEPT ![wk[w].task] = wk[w].state]
    /\ wk' = [wk EXCEPT ![w].pc = "step", ![w].loop = TRUE]
    /\ UNCHANGED <<sess, turns, tasks, ctl, resp, lease, client, faults>>

(* _resume_owned: a pending request is applied before the loop. *)
ResumeOwned(w) ==
    LET c == PendingControl(wk[w].task)
    IN  /\ wk[w].pc = "resume"
        /\ wk' = [wk EXCEPT ![w].pc = IF c = 0 THEN "step" ELSE "ack",
                            ![w].loop = (c = 0), ![w].c = c]
        /\ UNCHANGED <<storeVars, client, faults>>

-----------------------------------------------------------------------------
(* _advance_once *)

(* What a step does with a pending request, here and after the response. *)
SeeControl(w) ==
    /\ wk[w].pc \in {"step", "answered"}
    /\ wk[w].pc = "step" => wk[w].state.next < MaxSteps
    /\ PendingControl(wk[w].task) # 0
    /\ wk' = [wk EXCEPT ![w].pc = "ack", ![w].c = PendingControl(wk[w].task)]
    /\ UNCHANGED <<storeVars, client, faults>>

(* The loop over the step budget is empty. *)
BudgetExceeded(w) ==
    /\ wk[w].pc = "step"
    /\ wk[w].state.next >= MaxSteps
    /\ Go(w, "fail")
    /\ UNCHANGED <<storeVars, client, faults>>

(* The response of this step was persisted before a crash. *)
RecoverResponse(w) ==
    LET r == resp[wk[w].task][wk[w].state.next]
    IN  /\ wk[w].pc = "step"
        /\ wk[w].state.next < MaxSteps
        /\ PendingControl(wk[w].task) = 0
        /\ r # NoResponse
        /\ wk' = [wk EXCEPT ![w].pc = "answered", ![w].step = r]
        /\ UNCHANGED <<storeVars, client, faults>>

(* Mutant: the watermark moves and the messages do not. *)
ConsumeWithoutMessages(w) ==
    LET t == wk[w].task
        s == [wk[w].state EXCEPT !.consumed = Len(turns)]
    IN  /\ wk[w].pc = "step"
        /\ wk[w].state.next < MaxSteps
        /\ PendingControl(t) = 0
        /\ resp[t][wk[w].state.next] = NoResponse
        /\ Owned(w)
        /\ ckpt' = [ckpt EXCEPT ![t] = s]
        /\ wk' = [wk EXCEPT ![w].pc = "ask", ![w].state = s]
        /\ UNCHANGED <<sess, turns, tasks, ctl, resp, lease, client, faults>>

(* _consume_pending_inputs, then the checkpoint that names the request. *)
ConsumeInputs(w) ==
    LET t == wk[w].task
        s == [wk[w].state EXCEPT !.consumed = Len(turns),
                                 !.shown = @ \o InputsAfter(t, wk[w].state.consumed)]
    IN  /\ wk[w].pc = "step"
        /\ wk[w].state.next < MaxSteps
        /\ PendingControl(t) = 0
        /\ resp[t][wk[w].state.next] = NoResponse
        /\ Owned(w)
        /\ ckpt' = [ckpt EXCEPT ![t] = s]
        /\ wk' = [wk EXCEPT ![w].pc = "ask", ![w].state = s]
        /\ UNCHANGED <<sess, turns, tasks, ctl, resp, lease, client, faults>>

(* provider.complete and prepare_effect_batch: the response is persisted. *)
Respond(w, text) ==
    LET r == [consumed |-> wk[w].state.consumed, text |-> text]
    IN  /\ wk[w].pc = "ask"
        /\ Owned(w)
        /\ resp' = [resp EXCEPT ![wk[w].task][wk[w].state.next] = r]
        /\ wk' = [wk EXCEPT ![w].pc = "answered", ![w].step = r]
        /\ UNCHANGED <<sess, turns, tasks, ctl, ckpt, lease, client, faults>>

ProviderFails(w) ==
    /\ wk[w].pc = "ask"
    /\ Go(w, "fail")
    /\ UNCHANGED <<storeVars, client, faults>>

(* A step is over: the checkpoint names the next one. *)
CloseStep(w, s) ==
    /\ ckpt' = [ckpt EXCEPT ![wk[w].task] = s]
    /\ wk' = [wk EXCEPT ![w].pc = "step", ![w].state = s, ![w].step = NoResponse]
    /\ TaskWritten(wk[w].task)

(* Mutant: the step is taken again, from the response it has. *)
SupersedeSameStep(w) ==
    /\ wk[w].pc = "answered"
    /\ PendingControl(wk[w].task) = 0
    /\ Len(turns) > wk[w].step.consumed
    /\ Owned(w)
    /\ CloseStep(w, [wk[w].state EXCEPT
            !.consumed = Len(turns),
            !.shown = @ \o InputsAfter(wk[w].task, wk[w].state.consumed)])
    /\ UNCHANGED <<sess, turns, tasks, ctl, resp, lease, faults>>

(* _supersede_response_for_inputs: turns that the response has not seen. *)
Supersede(w) ==
    /\ wk[w].pc = "answered"
    /\ PendingControl(wk[w].task) = 0
    /\ Len(turns) > wk[w].step.consumed
    /\ Owned(w)
    /\ CloseStep(w, [wk[w].state EXCEPT
            !.next = @ + 1, !.consumed = Len(turns),
            !.shown = @ \o InputsAfter(wk[w].task, wk[w].step.consumed)])
    /\ UNCHANGED <<sess, turns, tasks, ctl, resp, lease, faults>>

(* Nothing is newer: the tool calls begin, or _complete does, which saves  *)
(* the step.                                                               *)
AcceptResponse(w) ==
    /\ wk[w].pc = "answered"
    /\ PendingControl(wk[w].task) = 0
    /\ Len(turns) <= wk[w].step.consumed
    /\ Owned(w)
    /\ Go(w, IF wk[w].step.text = "tools" THEN "tool" ELSE "answer")
    /\ UNCHANGED <<storeVars, client, faults>>

(* _sandbox_interruption_reason: a running command sees the request. *)
ProbeControl(w) ==
    LET c == PendingControl(wk[w].task)
    IN  /\ wk[w].pc = "tool"
        /\ c # 0 /\ ctl[c].status = "requested"
        /\ ctl' = [ctl EXCEPT ![c].status = "acknowledged"]
        /\ UNCHANGED <<sess, turns, tasks, ckpt, resp, lease, client, wk, faults>>

(* The batch is over: the checkpoint of the next step. *)
ToolsDone(w) ==
    /\ wk[w].pc = "tool"
    /\ Owned(w)
    /\ CloseStep(w, [wk[w].state EXCEPT !.next = @ + 1])
    /\ UNCHANGED <<sess, turns, tasks, ctl, resp, lease, faults>>

(* _verified_plan_completion_summary: no look at requests or turns. *)
VerifiedPlan(w, text) ==
    /\ wk[w].pc = "tool"
    /\ Owned(w)
    /\ wk' = [wk EXCEPT ![w].pc = "answer", ![w].step.text = text]
    /\ UNCHANGED <<storeVars, client, faults>>

(* _append_session_assistant_turn, without a lease guard.  Another text    *)
(* under the same submission id is a SubmissionConflict; _fail raises too, *)
(* since the task in memory is completed already.                          *)
AppendAnswer(w) ==
    LET t == wk[w].task
    IN  /\ wk[w].pc = "answer"
        /\ AppendTurn([role |-> "assistant", task |-> t, sub |-> t, text |-> wk[w].step.text])
        /\ Go(w, IF \A i \in SameSubmission(t) : turns[i].text = wk[w].step.text
                 THEN "complete" ELSE "release")
        /\ UNCHANGED <<sess, tasks, ctl, ckpt, resp, lease, faults>>

PersistCompleted(w) ==
    /\ wk[w].pc = "complete"
    /\ Owned(w)
    /\ EndTask(wk[w].task, "completed")
    /\ Go(w, "release")
    /\ UNCHANGED <<turns, ctl, ckpt, resp, lease, faults>>

(* _fail *)
PersistFailed(w) ==
    /\ wk[w].pc = "fail"
    /\ Owned(w)
    /\ EndTask(wk[w].task, "failed")
    /\ Go(w, "release")
    /\ UNCHANGED <<turns, ctl, ckpt, resp, lease, faults>>

-----------------------------------------------------------------------------
(* _pause, _cancel *)

(* settle_control is not guarded.  _build_report raises in a process that  *)
(* resumes: the prompt-cache coordinator is restored after the request is  *)
(* looked at.                                                              *)
Acknowledge(w) ==
    LET c == wk[w].c
    IN  /\ wk[w].pc = "ack"
        /\ IF ctl[c].status \in Open
           THEN /\ ctl' = [ctl EXCEPT ![c].status = "acknowledged"]
                /\ Go(w, IF ctl[c].kind = "cancel" THEN "cleanup"
                         ELSE IF wk[w].loop THEN "pausing" ELSE "release")
           ELSE Raise(w) /\ UNCHANGED ctl
        /\ UNCHANGED <<sess, turns, tasks, ckpt, resp, lease, client, faults>>

PersistPausing(w) ==
    /\ wk[w].pc = "pausing"
    /\ Owned(w)
    /\ SetCondition(wk[w].task, "pausing")
    /\ Go(w, "cleanup")
    /\ UNCHANGED <<sess, turns, ctl, ckpt, resp, lease, faults>>

(* terminate_all *)
Cleanup(w) ==
    /\ wk[w].pc = "cleanup"
    /\ Go(w, IF ctl[wk[w].c].kind = "pause" THEN "paused"
             ELSE IF wk[w].loop THEN "cancelled" ELSE "release")
    /\ UNCHANGED <<storeVars, client, faults>>

(* _record_cleanup_failure, here or on the way out; the lease is kept. *)
CleanupFails(w) ==
    LET t == wk[w].task
        c == PendingControl(t)
    IN  /\ wk[w].pc \in {"cleanup", "release"}
        /\ lease.holder = w
        /\ ctl' = IF c = 0 THEN ctl ELSE [ctl EXCEPT ![c].status = "cleanup_failed"]
        /\ IF Owned(w)
           THEN SetCondition(t, "recovery_required") ELSE UNCHANGED <<tasks, client>>
        /\ wk' = [wk EXCEPT ![w] = IdleWorker]
        /\ UNCHANGED <<sess, turns, ckpt, resp, lease, faults>>

PersistPaused(w) ==
    /\ wk[w].pc = "paused"
    /\ Owned(w)
    /\ SetCondition(wk[w].task, "paused")
    /\ Go(w, "settle")
    /\ UNCHANGED <<sess, turns, ctl, ckpt, resp, lease, faults>>

(* Mutant: the request is settled first, and the task ends after it. *)
SettledBeforeEnd(w) ==
    /\ wk[w].pc = "cancelled"
    /\ Owned(w)
    /\ ctl' = [ctl EXCEPT ![wk[w].c].status = "settled"]
    /\ Go(w, "release")
    /\ UNCHANGED <<sess, tasks, turns, ckpt, resp, lease, client, faults>>

PersistCancelled(w) ==
    /\ wk[w].pc = "cancelled"
    /\ Owned(w)
    /\ EndTask(wk[w].task, "cancelled")
    /\ Go(w, "settle")
    /\ UNCHANGED <<turns, ctl, ckpt, resp, lease, faults>>

(* _settle_control: the version is that of the acknowledgement. *)
SettleControl(w) ==
    LET c == wk[w].c
    IN  /\ wk[w].pc = "settle"
        /\ IF ctl[c].status = "acknowledged"
           THEN ctl' = [ctl EXCEPT ![c].status = "settled"] /\ Go(w, "release")
           ELSE Raise(w) /\ UNCHANGED ctl
        /\ UNCHANGED <<sess, turns, tasks, ckpt, resp, lease, client, faults>>

-----------------------------------------------------------------------------
(* The end of a process. *)

Guarded == {"run", "first", "ask", "answered", "tool", "complete", "pausing",
            "paused", "cancelled", "fail"}

(* A guarded write raises LeaseLost. *)
LoseLease(w) ==
    /\ ~Owned(w)
    /\ \/ wk[w].pc \in Guarded
       \/ wk[w].pc = "step" /\ PendingControl(wk[w].task) = 0
    /\ Go(w, "release")
    /\ UNCHANGED <<storeVars, client, faults>>

(* release_execution; LeaseLost is suppressed. *)
Release(w) ==
    LET t == wk[w].task
    IN  /\ wk[w].pc = "release"
        /\ IF Owned(w)
           THEN /\ lease' = NoLease
                /\ IF tasks[t].cond = "running"
                   THEN SetCondition(t, "idle") ELSE UNCHANGED <<tasks, client>>
           ELSE UNCHANGED <<lease, tasks, client>>
        /\ wk' = [wk EXCEPT ![w] = IdleWorker]
        /\ UNCHANGED <<sess, turns, ctl, ckpt, resp, faults>>

Crash(w) ==
    /\ wk[w].pc \notin {"idle", "loaded"}
    /\ faults < MaxFaults
    /\ faults' = faults + 1
    /\ wk' = [wk EXCEPT ![w] = IdleWorker]
    /\ UNCHANGED <<storeVars, client>>

(* The holder is gone and the lease expires. *)
OrphanExpires ==
    /\ lease.live
    /\ wk[lease.holder].pc \in {"idle", "loaded"}
    /\ lease' = [lease EXCEPT !.live = FALSE]
    /\ UNCHANGED <<sess, turns, tasks, ctl, ckpt, resp, client, wk, faults>>

(* The heartbeat of a running process comes too late. *)
LeaseExpires ==
    /\ lease.live
    /\ wk[lease.holder].pc \notin {"idle", "loaded"}
    /\ faults < MaxFaults
    /\ faults' = faults + 1
    /\ lease' = [lease EXCEPT !.live = FALSE]
    /\ UNCHANGED <<sess, turns, tasks, ctl, ckpt, resp, client, wk>>

-----------------------------------------------------------------------------
Client ==
    \/ CreateSession
    \/ \E sub \in Submission \cup {None}, text \in Text : SendMessage(sub, text)
    \/ \E op \in {"start", "close"} \cup Kind : ClientReads(op)
    \/ ClientFails
    \/ \E t \in Task : StartTask(t)
    \/ CloseSession
    \/ \E kind \in Kind : RequestControl(kind)
    \/ \E t \in Task : CancelTask(t)

Loop(w) ==
    \/ SeeControl(w) \/ BudgetExceeded(w) \/ RecoverResponse(w) \/ ConsumeInputs(w)
    \/ \E text \in Text \cup {"tools"} : Respond(w, text)
    \/ Supersede(w) \/ AcceptResponse(w) \/ ProbeControl(w) \/ ToolsDone(w)
    \/ \E text \in Text : VerifiedPlan(w, text)
    \/ AppendAnswer(w) \/ PersistCompleted(w) \/ PersistFailed(w)

Stop(w) ==
    \/ Acknowledge(w) \/ PersistPausing(w) \/ Cleanup(w) \/ PersistPaused(w)
    \/ PersistCancelled(w) \/ SettleControl(w) \/ LoseLease(w) \/ Release(w)

Process(w) ==
    LoadTask(w) \/ Claim(w) \/ RunOwned(w) \/ FirstCheckpoint(w) \/ ResumeOwned(w)
    \/ Loop(w) \/ Stop(w)

Fault ==
    \/ \E w \in Worker : ProviderFails(w) \/ CleanupFails(w) \/ Crash(w)
    \/ LeaseExpires

Next == Client \/ (\E w \in Worker : Process(w)) \/ OrphanExpires \/ Fault

Spec == Init /\ [][Next]_vars

(* A process that runs takes its next step, somebody resumes an active     *)
(* task, and the lease of a process that is gone expires.                  *)
FairSpec == Spec /\ (\A w \in Worker : WF_vars(Process(w))) /\ WF_vars(OrphanExpires)

-----------------------------------------------------------------------------
(* Properties. *)

(* The session's slot holds a task exactly as long as the task is active:  *)
(* through completion, failure, cancel with and without an owner.          *)
SlotHoldsActiveTask ==
    \A t \in Task : sess.active = t <=> tasks[t].status \in Active

(* A user's turn up to the consumed sequence of a checkpoint is in the     *)
(* messages of that checkpoint, and no turn is there twice or out of order:*)
(* no input is skipped or repeated by a crash, a response recovered after  *)
(* it or a superseded response.  This is about processes that follow one   *)
(* another: one that loaded its checkpoint while another was still at work *)
(* can skip a turn (session/service.py, resume).                           *)
NoInputSkipped ==
    \A t \in Task :
        LET s == ckpt[t]
        IN /\ \A i \in 1..s.consumed :
                 turns[i].role = "user" => \E j \in DOMAIN s.shown : s.shown[j] = i
           /\ \A i, j \in DOMAIN s.shown : i < j => s.shown[i] < s.shown[j]

(* What the user is told about a request is true: a cancel is reported as  *)
(* settled only when the task has been cancelled, and the owner of a task  *)
(* reported as paused has stopped, with no model request or tool call of   *)
(* it under way.                                                           *)
ControlTruthful ==
    /\ \A i \in DOMAIN ctl :
           ctl[i].kind = "cancel" /\ ctl[i].status = "settled"
           => tasks[ctl[i].task].status = "cancelled"
    /\ \A w \in Worker :
           Owned(w) /\ wk[w].task # 0 /\ tasks[wk[w].task].cond = "paused"
           => wk[w].pc \in {"idle", "loaded", "settle", "release"}

(* A repeated submission is one turn, also when the session has moved on.  *)
OneTurnPerSubmission ==
    \A i, j \in DOMAIN turns : turns[i].sub = turns[j].sub /\ turns[i].sub # None => i = j

(* A task is not resumed further: it needs recovery, a request was open    *)
(* when its process went, it has no checkpoint, or its answer was refused. *)
Blocked(t) ==
    /\ sess.active = t
    /\ \/ tasks[t].cond = "recovery_required"
       \/ OpenControls(t) # {}
       \/ tasks[t].status = "running" /\ ~ckpt[t].saved
       \/ SameSubmission(t) # {}

(* Every task ends, unless it stays blocked: newer input, recovery of the  *)
(* response and takeover do not keep the processes busy for ever.          *)
TaskEnds == \A t \in Task : <>[](sess.active # t) \/ <>[]Blocked(t)

-----------------------------------------------------------------------------
(* What the documentation says and the code does not guarantee. *)

(* A request for a task that can be resumed is closed, or the task ends:   *)
(* but a process that resumes with the request pending cannot build the    *)
(* report, releases the task and leaves the request acknowledged, at every *)
(* resume.                                                                 *)
IsOpen(i) == i <= Len(ctl) /\ ctl[i].status \in Open

ControlsClose ==
    \A i \in 1..MaxControls :
        (IsOpen(i) /\ ckpt[ctl[i].task].saved) ~>
            (~IsOpen(i) \/ tasks[ctl[i].task].status \in Ended)
=============================================================================
