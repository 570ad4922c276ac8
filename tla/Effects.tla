------------------------------ MODULE Effects ------------------------------
(***************************************************************************)
(* The effect protocol of one task: how the tool calls of a model response *)
(* become persisted Effects that are approved, claimed, executed,          *)
(* committed, replayed after a crash, reconciled, retried by an operator,  *)
(* cancelled, or superseded by newer user input.                           *)
(*                                                                         *)
(* Workers (patchloop processes) run the task in turn under the execution  *)
(* lease that module Ownership models.  Here the lease is `owner': a store *)
(* method that asserts the lease guard requires owner = w.  When the lease *)
(* expires the worker goes on, as a zombie, until its next assertion.      *)
(* A store method is one transaction, hence one action; what a worker read *)
(* before it is kept in wk and may be stale.                               *)
(*                                                                         *)
(* Left to other modules: pause requests and the wording of observations.  *)
(***************************************************************************)
EXTENDS Naturals, FiniteSets, Sequences

CONSTANTS
    Worker,
    EffectId,        \* fresh effect ids (bounds the effects of the task)
    Call,            \* tool calls: a tool and its arguments
    CallOf,          \* the call that the model asks for with an effect id
    FileCalls,       \* the calls that write a file with preconditions
    Assessment,      \* policy version -> call -> the gateway's decision
    MaxPolicy,       \* bound on policy versions
    MaxTurns,        \* bound on user turns
    MaxBatch,        \* bound on the calls of one model response
    None

Decision == {"allow", "require_approval", "deny"}

ASSUME EffectsAssumption ==
    /\ CallOf \in [EffectId -> Call]
    /\ FileCalls \subseteq Call
    /\ {MaxPolicy, MaxTurns, MaxBatch} \subseteq Nat
    /\ MaxPolicy >= 1
    /\ Assessment \in [1..MaxPolicy -> [Call -> Decision]]
    /\ None \notin EffectId \cup Worker \cup Call

VARIABLES
    task,       \* tasks row: runtime condition and business outcome
    control,    \* a cancel request is requested or acknowledged
    turns,      \* turns appended to the session
    answered,   \* the assistant turn with the completion of the task is one of them
    consumed,   \* the checkpoint's (and open step's) consumed_input_sequence
    step,       \* the persisted step at the checkpoint's next_step_index
    eff,        \* effects table
    appr,       \* approvals table, at most one row per effect
    result,     \* tool_calls table
    disp,       \* recovery_dispositions table
    policy,     \* version of the policy that a process started now loads
    owner,      \* the worker whose execution lease is valid
    disk,       \* content of the file of each file call
    ran,        \* history: how often the backend of an effect was invoked
    wk          \* the workers

rowVars == <<eff, appr, result, disp>>
taskVars == <<task, control, turns, answered, consumed, step>>
envVars == <<policy, owner, disk, ran>>
vars == <<taskVars, rowVars, envVars, wk>>

-----------------------------------------------------------------------------
Condition == {"idle", "running", "waiting", "recovery_required", "ended"}
Outcome == {"active", "completed", "failed", "cancelled"}
Status == {"none", "prepared", "waiting", "executing", "succeeded", "failed",
           "denied", "unknown", "cancelled"}
Approval == {"none", "pending", "approved", "denied", "consumed", "expired"}
Result == {"none", "ok", "error", "unexecuted", "blocked", "placeholder"}
Disposition == {"none", "confirm", "retry", "abandon"}
Content == {"base", "target", "other"}

Unclaimed == {"prepared", "waiting"}

(* approval_id is set (attached), the decision is the persisted one, call  *)
(* is the tool call (a retry repeats the call of the effect it retries),   *)
(* base is what its file held when it was prepared: the target content     *)
(* itself if the call writes what is there already.                        *)
EffectRow == [status : Status, attached : BOOLEAN, version : Nat,
              decision : Decision, call : Call \cup {None}, base : Content,
              retryOf : EffectId \cup {None}]
NoEffect == [status |-> "none", attached |-> FALSE, version |-> 0,
             decision |-> "allow", call |-> None, base |-> "base", retryOf |-> None]

NoStep == [open |-> FALSE, batch |-> <<>>]

PC == {"idle", "reconcile", "resumed", "advance", "model", "next", "read",
       "claimed", "asserted", "ran", "cleanup", "answer", "complete", "fail",
       "cancelling", "settle_control", "superseding", "sup_settle", "release"}

(* loop: inside _advance_once, whose handler turns an exception into _fail *)
(* (before it, in _resume_owned, an exception just ends the resume);       *)
(* pos: position in the batch; cur, seen: the effect last read and its row *)
(* as read; upto: the last turn read; todo: the versions read by           *)
(* list_effects, 0 for rows not selected; policy: the version the worker   *)
(* has loaded.                                                             *)
WorkerRow == [pc : PC, loop : BOOLEAN, pos : Nat,
              cur : EffectId \cup {None}, seen : EffectRow,
              ok : BOOLEAN, upto : Nat,
              todo : [EffectId -> Nat], policy : Nat]
NoTodo == [e \in EffectId |-> 0]
IdleWorker == [pc |-> "idle", loop |-> FALSE, pos |-> 0, cur |-> None,
               seen |-> NoEffect,
               ok |-> FALSE, upto |-> 0, todo |-> NoTodo,
               policy |-> 1]

(* One type invariant for the module. *)
TypeOK ==
    /\ task \in [cond : Condition, outcome : Outcome]
    /\ control \in BOOLEAN
    /\ turns \in 0..(MaxTurns + 1)
    /\ answered \in BOOLEAN
    /\ consumed \in 0..turns
    /\ step \in [open : BOOLEAN, batch : Seq(EffectId)]
    /\ eff \in [EffectId -> EffectRow]
    /\ appr \in [EffectId -> [status : Approval, policy : Nat]]
    /\ result \in [EffectId -> Result]
    /\ disp \in [EffectId -> Disposition]
    /\ policy \in 1..MaxPolicy
    /\ owner \in Worker \cup {None}
    /\ disk \in [Call -> Content]
    /\ ran \in [EffectId -> Nat]
    /\ wk \in [Worker -> WorkerRow]

Init ==
    /\ task = [cond |-> "idle", outcome |-> "active"]
    /\ control = FALSE
    /\ turns = 0
    /\ answered = FALSE
    /\ consumed = 0
    /\ step = NoStep
    /\ eff = [e \in EffectId |-> NoEffect]
    /\ appr = [e \in EffectId |-> [status |-> "none", policy |-> 1]]
    /\ result = [e \in EffectId |-> "none"]
    /\ disp = [e \in EffectId |-> "none"]
    /\ policy = 1
    /\ owner = None
    /\ \E same \in SUBSET FileCalls :
           disk = [c \in Call |-> IF c \in same THEN "target" ELSE "base"]
    /\ ran = [e \in EffectId |-> 0]
    /\ wk = [w \in Worker |-> IdleWorker]

-----------------------------------------------------------------------------
(* Writes of one row. *)

Fresh == {e \in EffectId : eff[e].status = "none"}
Undisposed(e) == eff[e].status = "unknown" /\ disp[e] = "none"

WithStatus(e, st) ==
    [eff EXCEPT ![e].status = st, ![e].version = @ + 1]

Go(w, pc) == wk' = [wk EXCEPT ![w].pc = pc]

(* The step loop is left; its local variables are gone. *)
Quit(w, pc) == wk' = [wk EXCEPT ![w] = [IdleWorker EXCEPT !.pc = pc]]

(* An exception reaches the handler of _advance_once, or leaves resume. *)
Raise(w) == Quit(w, IF wk[w].loop THEN "fail" ELSE "release")

(* settle_unexecuted_effect after its guard and version checks: the effect *)
(* ends as st with an observation, and a pending approval expires.         *)
Settle(e, st) ==
    /\ eff' = WithStatus(e, st)
    /\ result' = [result EXCEPT ![e] = "unexecuted"]
    /\ appr' = IF eff[e].attached /\ appr[e].status = "pending"
               THEN [appr EXCEPT ![e].status = "expired"]
               ELSE appr

(* It is refused when the row is not the one that was read, is past the    *)
(* claim, or already has another observation.                              *)
SettleAllowed(e, version, st) ==
    /\ eff[e].version = version
    /\ eff[e].status \in Unclaimed \cup {st}
    /\ result[e] = "none"

(* Mutant: a failed execution is recorded as cancelled. *)
ResultCancelled(success) == IF success THEN "succeeded" ELSE "cancelled"

(* A result of the backend, or one that an operator confirms. *)
CommittedStatus(success) == IF success THEN "succeeded" ELSE "failed"

CommittedResult(success) == IF success THEN "ok" ELSE "error"

(* The sequence number of the last turn of the session. *)
LatestTurn == turns

-----------------------------------------------------------------------------
(* The user, the operator, and the environment. *)

(* append_turn by the user. *)
AppendTurn ==
    /\ turns < MaxTurns + (IF answered THEN 1 ELSE 0)
    /\ task.outcome = "active"
    /\ turns' = turns + 1
    /\ UNCHANGED <<task, control, answered, consumed, step, rowVars, envVars, wk>>

(* cancel_task: a request for the owner, or at once the terminal outcome,  *)
(* which keeps RECOVERY_REQUIRED.  Effects and approvals stay as they are. *)
CancelTask ==
    /\ task.outcome = "active"
    /\ ~control
    /\ IF owner # None
       THEN control' = TRUE /\ task' = task
       ELSE /\ task' = [cond |-> IF task.cond = "recovery_required"
                                 THEN task.cond ELSE "ended",
                        outcome |-> "cancelled"]
            /\ UNCHANGED control
    /\ UNCHANGED <<turns, answered, consumed, step, rowVars, envVars, wk>>

(* resolve_effect_approval under policy version p: an operator decides     *)
(* with the version the request is bound to (decide_current) or with the   *)
(* current one.  A request bound to another version expires.               *)
Decide(e, approved, p) ==
    LET bound == p = appr[e].policy
    IN  /\ appr[e].status = "pending"
        /\ appr' = [appr EXCEPT ![e].status = IF ~bound THEN "expired"
                                              ELSE IF approved THEN "approved"
                                              ELSE "denied"]
        /\ eff' = [eff EXCEPT
                     ![e].status = IF bound /\ ~approved THEN "denied" ELSE "prepared",
                     ![e].attached = bound,
                     ![e].version = @ + 1]
        /\ task' = IF task.cond = "waiting" THEN [task EXCEPT !.cond = "idle"]
                   ELSE task
        /\ UNCHANGED <<control, turns, answered, consumed, step, result, disp, envVars, wk>>

(* resolve_recovery, the operator saw the result of the unknown effect. *)
Confirm(e, success) ==
    /\ task.cond = "recovery_required"
    /\ Undisposed(e)
    /\ disp' = [disp EXCEPT ![e] = "confirm"]
    /\ eff' = WithStatus(e, CommittedStatus(success))
    /\ result' = [result EXCEPT ![e] = CommittedResult(success)]
    /\ task' = [task EXCEPT !.cond = IF task.outcome = "active" THEN "idle"
                                                               ELSE "ended"]
    /\ UNCHANGED <<control, turns, answered, consumed, step, appr, envVars, wk>>

(* resolve_recovery with a new effect r, bound to a fresh approval, that   *)
(* repeats the call; the unknown effect stays, with a placeholder result.  *)
Retry(e, r) ==
    /\ task.cond = "recovery_required"
    /\ task.outcome = "active"
    /\ Undisposed(e)
    /\ r \in Fresh
    /\ disp' = [disp EXCEPT ![e] = "retry"]
    /\ eff' = [eff EXCEPT ![r] = [status |-> "waiting", attached |-> TRUE,
                                  version |-> 1, decision |-> "require_approval",
                                  call |-> eff[e].call, base |-> eff[e].base,
                                  retryOf |-> e]]
    /\ appr' = [appr EXCEPT ![r] = [status |-> "pending", policy |-> policy]]
    /\ result' = [result EXCEPT ![e] = "placeholder"]
    /\ task' = [task EXCEPT !.cond = "waiting"]
    /\ UNCHANGED <<control, turns, answered, consumed, step, envVars, wk>>

(* resolve_recovery, the task is given up. *)
Abandon(e) ==
    /\ task.cond = "recovery_required"
    /\ Undisposed(e)
    /\ disp' = [disp EXCEPT ![e] = "abandon"]
    /\ task' = [cond |-> "ended", outcome |-> "cancelled"]
    /\ UNCHANGED <<control, turns, answered, consumed, step, eff, appr, result, envVars, wk>>

PolicyChanges ==
    /\ policy < MaxPolicy
    /\ policy' = policy + 1
    /\ UNCHANGED <<taskVars, rowVars, owner, disk, ran, wk>>

(* Somebody else writes a file that an open effect is about: the user,     *)
(* another program or another task.  The content may be the very content   *)
(* that the effect writes.  Nobody reads the file but for an open effect:  *)
(* an edit at another time is one made when the next effect is prepared.   *)
FileEdited(c, content) ==
    /\ c \in FileCalls
    /\ disk[c] # content
    /\ \E e \in EffectId : eff[e].call = c /\ eff[e].status \in {"prepared", "executing"}
    /\ task.outcome = "active"
    /\ disk' = [disk EXCEPT ![c] = content]
    /\ UNCHANGED <<taskVars, rowVars, policy, owner, ran, wk>>

(* Points from which a worker that lost its lease still acts: no ownership *)
(* check stands between them and the backend, the session or the request.  *)
Unchecked == {"idle", "asserted", "cleanup", "answer", "settle_control"}

(* The heartbeat no longer renews the lease.  A worker at any other point  *)
(* only reads until a guarded write or an assertion raises LeaseLost.      *)
LeaseExpires ==
    /\ owner # None
    /\ owner' = None
    /\ wk' = [w \in Worker |-> IF wk[w].pc \in Unchecked THEN wk[w] ELSE IdleWorker]
    /\ UNCHANGED <<taskVars, rowVars, policy, disk, ran>>

Crash(w) ==
    /\ wk[w].pc # "idle"
    /\ wk' = [wk EXCEPT ![w] = IdleWorker]
    /\ UNCHANGED <<taskVars, rowVars, envVars>>

(* The assertion after the backend returns: the result is dropped. *)
LeaseLost(w) ==
    /\ wk[w].pc = "ran"
    /\ owner # w
    /\ wk' = [wk EXCEPT ![w] = IdleWorker]
    /\ UNCHANGED <<taskVars, rowVars, envVars>>

-----------------------------------------------------------------------------
(* resume: claim the execution, reconcile interrupted effects, then the    *)
(* pending cancel, before the step loop.                                   *)

(* claim_execution: an ended task has lost its session slot. *)
Resume(w) ==
    /\ wk[w].pc = "idle"
    /\ owner = None
    /\ task.outcome = "active"
    /\ task.cond # "recovery_required"
    /\ owner' = w
    /\ task' = [task EXCEPT !.cond = "running"]
    /\ wk' = [wk EXCEPT ![w].pc = "reconcile", ![w].policy = policy]
    /\ UNCHANGED <<control, turns, answered, consumed, step, rowVars, policy, disk, ran>>

(* Mutant: any change of the file counts as the effect having happened. *)
AnyChangeConfirms(e) == eff[e].call \in FileCalls /\ disk[eff[e].call] # eff[e].base

(* reconcile_effect: the file has the target content of the effect, which  *)
(* is all that is looked at: not who wrote it, nor that it was other before. *)
ConfirmedByDigest(e) == eff[e].call \in FileCalls /\ disk[eff[e].call] = "target"

ReconcileConfirmed(w, e) ==
    /\ wk[w].pc = "reconcile"
    /\ owner = w
    /\ eff[e].status = "executing"
    /\ ConfirmedByDigest(e)
    /\ eff' = WithStatus(e, "succeeded")
    /\ result' = [result EXCEPT ![e] = "ok"]
    /\ UNCHANGED <<taskVars, appr, disp, envVars, wk>>

(* Mutant: an interrupted effect is prepared again. *)
ReconcileReruns(w, e) ==
    /\ wk[w].pc = "reconcile"
    /\ owner = w
    /\ eff[e].status = "executing"
    /\ ~ConfirmedByDigest(e)
    /\ eff' = WithStatus(e, "prepared")
    /\ UNCHANGED <<taskVars, appr, result, disp, envVars, wk>>

(* mark_effect_unknown; the resume returns. *)
ReconcileUnknown(w, e) ==
    /\ wk[w].pc = "reconcile"
    /\ owner = w
    /\ eff[e].status = "executing"
    /\ ~ConfirmedByDigest(e)
    /\ eff' = WithStatus(e, "unknown")
    /\ task' = [task EXCEPT !.cond = "recovery_required"]
    /\ Quit(w, "release")
    /\ UNCHANGED <<control, turns, answered, consumed, step, appr, result, disp, envVars>>

(* Every interrupted effect has been dealt with. *)
Reconciled(w) ==
    /\ owner = w
    /\ wk[w].pc = "reconcile"
    /\ \A e \in EffectId : eff[e].status # "executing"
    /\ Go(w, "resumed")
    /\ UNCHANGED <<taskVars, rowVars, envVars>>

EnterLoop(w) ==
    /\ owner = w
    /\ wk[w].pc = "resumed"
    /\ ~control
    /\ wk' = [wk EXCEPT ![w].pc = "advance", ![w].loop = TRUE]
    /\ UNCHANGED <<taskVars, rowVars, envVars>>

-----------------------------------------------------------------------------
(* _advance_once, up to the persisted model response. *)

StartBatch(w) == wk' = [wk EXCEPT ![w].pc = "next", ![w].pos = 1]

(* The step at this index has a response already: it is replayed. *)
RecoverStep(w) ==
    /\ owner = w
    /\ wk[w].pc = "advance"
    /\ ~control
    /\ step.open
    /\ StartBatch(w)
    /\ UNCHANGED <<taskVars, rowVars, envVars>>

IsDueRetry(e) ==
    /\ eff[e].retryOf # None
    /\ eff[e].status = "prepared"
    /\ disp[eff[e].retryOf] = "retry"

(* _materialize_recovery_retry_step: a step of its own for a retry. *)
MaterializeRetry(w, e) ==
    /\ wk[w].pc = "advance"
    /\ ~control
    /\ owner = w
    /\ ~step.open
    /\ IsDueRetry(e)
    /\ step' = [open |-> TRUE, batch |-> <<e>>]
    /\ StartBatch(w)
    /\ UNCHANGED <<task, control, turns, answered, consumed, rowVars, envVars>>

(* _consume_pending_inputs, then the model is asked. *)
ConsumeInputs(w) ==
    /\ wk[w].pc = "advance"
    /\ ~control
    /\ owner = w
    /\ ~step.open
    /\ \A e \in EffectId : ~IsDueRetry(e)
    /\ consumed' = LatestTurn
    /\ Go(w, "model")
    /\ UNCHANGED <<task, control, turns, answered, step, rowVars, envVars>>

(* A response: fresh effects in order, or none (a final answer). *)
Batches ==
    {s \in UNION {[1..n -> Fresh] : n \in 0..MaxBatch} :
        \A i, j \in DOMAIN s : s[i] = s[j] => i = j}

(* The content of its file that an effect of the batch expects: what the   *)
(* file holds, with the writes before it in the batch already done.        *)
Baseline(s, e) ==
    LET call == CallOf[e]
        again == \E i, j \in DOMAIN s : i < j /\ s[j] = e /\ CallOf[s[i]] = call
    IN  IF call \notin FileCalls THEN "base" ELSE IF again THEN "target" ELSE disk[call]

(* prepare_effect_batch: the step and its effects, assessed by the policy  *)
(* the worker has loaded, in one transaction.                              *)
PrepareBatch(w, s) ==
    /\ wk[w].pc = "model"
    /\ owner = w
    /\ step' = [open |-> TRUE, batch |-> s]
    /\ eff' = [e \in EffectId |->
                  IF \E i \in DOMAIN s : s[i] = e
                  THEN [NoEffect EXCEPT !.status = "prepared", !.version = 1,
                                        !.decision = Assessment[wk[w].policy][CallOf[e]],
                                        !.call = CallOf[e], !.base = Baseline(s, e)]
                  ELSE eff[e]]
    /\ StartBatch(w)
    /\ UNCHANGED <<task, control, turns, answered, consumed, appr, result, disp, envVars>>

-----------------------------------------------------------------------------
(* The batch: _execute_or_replay for each position. *)

HasCall(w) == wk[w].pos \in DOMAIN step.batch
CallAt(w) == step.batch[wk[w].pos]
IsFinal == step.batch = <<>>

(* The reads of one position: effect row and persisted result. *)
ReadEffect(w) ==
    /\ wk[w].pc = "next"
    /\ owner = w
    /\ ~control
    /\ turns = consumed
    /\ HasCall(w)
    /\ wk' = [wk EXCEPT ![w].pc = "read", ![w].cur = CallAt(w),
                        ![w].seen = eff[CallAt(w)]]
    /\ UNCHANGED <<taskVars, rowVars, envVars>>

(* The call gets its tool message; the loop goes to the next position. *)
Observe(w) ==
    wk' = [wk EXCEPT ![w].pc = "next", ![w].pos = @ + 1, ![w].cur = None,
                     ![w].seen = NoEffect]

(* _yield_for_effect_approval asks for an approval. *)
NeedsApproval(row) ==
    \/ row.status = "waiting"
    \/ row.status = "prepared" /\ ~row.attached /\ row.decision = "require_approval"

(* request_effect_approval: a new request, or the same one again; both     *)
(* make the task wait, and the runtime returns.  A request that was        *)
(* decided since the read, that is bound to another policy version, or a   *)
(* second one for the effect, is an exception.                             *)
RequestAllowed(w, e) ==
    /\ eff[e].version = wk[w].seen.version
    /\ IF eff[e].status = "waiting" THEN appr[e].policy = wk[w].policy
                                    ELSE appr[e].status = "none"

RequestApproval(w) ==
    LET e == wk[w].cur
    IN  /\ wk[w].pc = "read"
        /\ owner = w
        /\ NeedsApproval(wk[w].seen)
        /\ IF ~RequestAllowed(w, e)
           THEN Raise(w) /\ UNCHANGED <<task, eff, appr>>
           ELSE /\ task' = [task EXCEPT !.cond = "waiting"]
                /\ Quit(w, "release")
                /\ IF eff[e].status = "waiting"
                   THEN UNCHANGED <<eff, appr>>
                   ELSE /\ eff' = [eff EXCEPT ![e].status = "waiting",
                                               ![e].attached = TRUE,
                                               ![e].version = @ + 1]
                        /\ appr' = [appr EXCEPT ![e] = [status |-> "pending",
                                                        policy |-> wk[w].policy]]
        /\ UNCHANGED <<control, turns, answered, consumed, step, result, disp, envVars>>

Replay(w) ==
    /\ wk[w].pc = "read"
    /\ owner = w
    /\ ~NeedsApproval(wk[w].seen)
    /\ result[wk[w].cur] # "none"
    /\ Observe(w)
    /\ UNCHANGED <<taskVars, rowVars, envVars>>

(* The effect was read and has no persisted result yet. *)
AtUnanswered(w) ==
    /\ wk[w].pc = "read"
    /\ owner = w
    /\ ~NeedsApproval(wk[w].seen)
    /\ result[wk[w].cur] = "none"

(* _block_repeated_effect: an exact repetition of a failed call gets a     *)
(* result, through record_tool_call; the effect's row is not touched.      *)
(* Whether a failure blocks depends on its kind, which is left open.       *)
BlockedRepeat(w) ==
    LET e == wk[w].cur
    IN  /\ AtUnanswered(w)
        /\ wk[w].seen.retryOf = None
        /\ \E d \in EffectId : result[d] = "error" /\ eff[d].call = eff[e].call
        /\ result' = [result EXCEPT ![e] = "blocked"]
        /\ Observe(w)
        /\ UNCHANGED <<taskVars, eff, appr, disp, envVars>>

(* revalidate_effect_call, with the policy the worker has loaded. *)
Revalidated(w) ==
    LET current == Assessment[wk[w].policy][wk[w].seen.call]
    IN  current # "deny" /\ current = wk[w].seen.decision

(* assert_file_preconditions *)
BaselineHolds(row) == row.call \in FileCalls => disk[row.call] = row.base

(* The end of an effect that will not be executed: denied by the operator  *)
(* or by the policy, or cancelled because its file changed.                *)
UnexecutedStatus(w) ==
    IF wk[w].seen.status = "denied" \/ ~Revalidated(w) THEN "denied" ELSE "cancelled"

SettleUnexecuted(w) ==
    LET e == wk[w].cur
        st == UnexecutedStatus(w)
    IN  /\ AtUnanswered(w)
        /\ \/ wk[w].seen.status = "denied"
           \/ ~Revalidated(w)
           \/ ~BaselineHolds(wk[w].seen)
        /\ IF SettleAllowed(e, wk[w].seen.version, st)
           THEN Settle(e, st) /\ Observe(w)
           ELSE Raise(w) /\ UNCHANGED <<eff, result, appr>>
        /\ UNCHANGED <<taskVars, disp, envVars>>

(* claim_effect can consume the approval the effect is bound to; an effect *)
(* that requires one and has none cannot be claimed.                       *)
Consumable(w, e) ==
    IF eff[e].attached
    THEN appr[e].status = "approved" /\ appr[e].policy = wk[w].policy
    ELSE eff[e].decision # "require_approval"

(* Mutant: the approval can be used again. *)
ApprovalKept(e) == appr

(* The one-time approval is consumed in the transaction of the claim. *)
ApprovalConsumed(e) ==
    IF eff[e].attached THEN [appr EXCEPT ![e].status = "consumed"] ELSE appr

(* A worker that may try to claim: every check before claim_effect passed. *)
AtClaim(w) ==
    /\ AtUnanswered(w)
    /\ wk[w].seen.status = "prepared"
    /\ Revalidated(w)
    /\ BaselineHolds(wk[w].seen)

(* Mutant: a cancel request does not stop the claim. *)
ClaimIgnoresControl(w, e) == turns = consumed /\ Consumable(w, e)

(* claim_effect rechecks, in this order, a pending control request and the *)
(* input revision, then consumes the approval with the claim.              *)
ClaimAllowed(w, e) == ~control /\ turns = consumed /\ Consumable(w, e)

ClaimEffect(w) ==
    LET e == wk[w].cur
    IN  /\ AtClaim(w)
        /\ ClaimAllowed(w, e)
        /\ eff' = [eff EXCEPT ![e].status = "executing", ![e].attached = FALSE,
                              ![e].version = @ + 1]
        /\ appr' = ApprovalConsumed(e)
        /\ Go(w, "claimed")
        /\ UNCHANGED <<taskVars, result, disp, envVars>>

(* The approval is bound to another policy version: ApprovalConflict. *)
ClaimConflict(w) ==
    /\ AtClaim(w)
    /\ ~control
    /\ turns = consumed
    /\ ~Consumable(w, wk[w].cur)
    /\ Raise(w)
    /\ UNCHANGED <<taskVars, rowVars, envVars>>

(* commit_effect: the status, the result and the guard in one transaction. *)
CommitEffect(w, success) ==
    LET e == wk[w].cur
    IN  /\ owner = w
        /\ eff' = WithStatus(e, CommittedStatus(success))
        /\ result' = [result EXCEPT ![e] = CommittedResult(success)]
        /\ Observe(w)
        /\ UNCHANGED <<taskVars, appr, disp, envVars>>

(* The file changed between the first check and the claim. *)
PreconditionFails(w) ==
    /\ wk[w].pc = "claimed"
    /\ ~BaselineHolds(wk[w].seen)
    /\ CommitEffect(w, FALSE)

(* The last ownership assertion before the backend. *)
AssertOwnership(w) ==
    /\ wk[w].pc = "claimed"
    /\ BaselineHolds(wk[w].seen)
    /\ owner = w
    /\ Go(w, "asserted")
    /\ UNCHANGED <<taskVars, rowVars, envVars>>

Invoked(w) == ran' = [ran EXCEPT ![wk[w].cur] = @ + 1]

(* execute_claimed: a file tool replaces the file by the target, and may   *)
(* fail before or after it; a command succeeds or fails.                   *)
BackendRuns(w, ok) ==
    LET call == wk[w].seen.call
    IN  /\ wk[w].pc = "asserted"
        /\ Invoked(w)
        /\ \/ disk' = disk /\ (call \in FileCalls => ~ok)
           \/ call \in FileCalls /\ disk' = [disk EXCEPT ![call] = "target"]
        /\ wk' = [wk EXCEPT ![w].pc = "ran", ![w].ok = ok]
        /\ UNCHANGED <<taskVars, rowVars, policy, owner>>

(* A command that cannot be stopped: SandboxCleanupError. *)
CleanupFails(w) ==
    /\ wk[w].pc = "asserted"
    /\ wk[w].seen.call \notin FileCalls
    /\ Invoked(w)
    /\ Go(w, "cleanup")
    /\ UNCHANGED <<taskVars, rowVars, policy, owner, disk>>

(* _record_cleanup_failure closes the request and, under the guard, makes  *)
(* the task need recovery; the lease is left to expire.                    *)
RecordCleanupFailure(w) ==
    /\ wk[w].pc = "cleanup"
    /\ control' = FALSE
    /\ task' = IF owner = w THEN [task EXCEPT !.cond = "recovery_required"] ELSE task
    /\ wk' = [wk EXCEPT ![w] = IdleWorker]
    /\ UNCHANGED <<turns, answered, consumed, step, rowVars, envVars>>

Commit(w) ==
    /\ wk[w].pc = "ran"
    /\ CommitEffect(w, wk[w].ok)

(* The end of a step; the checkpoint moves to the next index. *)
CloseStep(w) ==
    /\ step' = NoStep
    /\ wk' = [wk EXCEPT ![w].pc = "advance", ![w].pos = 0, ![w].upto = 0]

StepDone(w) ==
    /\ wk[w].pc = "next"
    /\ ~HasCall(w)
    /\ ~IsFinal
    /\ owner = w
    /\ CloseStep(w)
    /\ UNCHANGED <<task, control, turns, answered, consumed, rowVars, envVars>>

(* A final answer with nothing pending, or a verified plan after the batch *)
(* (which looks at nothing): _complete begins.                             *)
Conclude(w) ==
    /\ wk[w].pc = "next"
    /\ ~HasCall(w)
    /\ IsFinal => ~control /\ turns = consumed
    /\ owner = w
    /\ Go(w, "answer")
    /\ UNCHANGED <<taskVars, rowVars, envVars>>

(* _append_session_assistant_turn, without a lease guard.  The turn exists *)
(* already if an earlier _complete was cut short: the same answer is found *)
(* again, a different one is a SubmissionConflict.  The task in memory has *)
(* become completed before, so _fail raises too and nothing is saved.      *)
AppendAnswer(w, same) ==
    /\ wk[w].pc = "answer"
    /\ answered' = TRUE
    /\ turns' = IF answered THEN turns ELSE turns + 1
    /\ IF owner # w THEN Quit(w, "idle")
       ELSE IF answered /\ ~same THEN Quit(w, "release")
       ELSE Go(w, "complete")
    /\ UNCHANGED <<task, control, consumed, step, rowVars, envVars>>

(* The task is saved; only now is it over. *)
CompleteTask(w) ==
    /\ wk[w].pc = "complete"
    /\ owner = w
    /\ task' = [cond |-> "ended", outcome |-> "completed"]
    /\ Quit(w, "release")
    /\ UNCHANGED <<control, turns, answered, consumed, step, rowVars, envVars>>

-----------------------------------------------------------------------------
(* _cancel, _fail, _supersede_response_for_inputs, release. *)

(* ControlRequested, or get_pending_control at one of its boundaries.      *)
(* list_effects selects the unclaimed effects, once.                       *)
CancelSeen(w) ==
    /\ owner = w
    /\ control
    /\ \/ wk[w].pc \in {"resumed", "advance"}
       \/ wk[w].pc = "next" /\ (HasCall(w) \/ IsFinal)
       \/ AtClaim(w)
    /\ wk' = [wk EXCEPT ![w] =
                 [IdleWorker EXCEPT
                    !.pc = "cancelling",
                    !.loop = wk[w].loop,
                    !.todo = [e \in EffectId |->
                        IF eff[e].status \in Unclaimed THEN eff[e].version ELSE 0]]]
    /\ UNCHANGED <<taskVars, rowVars, envVars>>

(* _cancel_pending_effects, one of the selected effects. *)
CancelPendingEffect(w, e) ==
    /\ wk[w].pc = "cancelling"
    /\ wk[w].todo[e] > 0
    /\ owner = w
    /\ IF SettleAllowed(e, wk[w].todo[e], "cancelled")
       THEN Settle(e, "cancelled") /\ wk' = [wk EXCEPT ![w].todo[e] = 0]
       ELSE Raise(w) /\ UNCHANGED <<eff, result, appr>>
    /\ UNCHANGED <<taskVars, disp, envVars>>

(* _build_report raises in a process that resumes: the coordinator of the  *)
(* prompt cache is restored only after the pending request is looked at.   *)
ReportFails(w) ==
    /\ wk[w].pc = "cancelling"
    /\ wk[w].todo = NoTodo
    /\ owner = w
    /\ ~wk[w].loop
    /\ Quit(w, "release")
    /\ UNCHANGED <<taskVars, rowVars, envVars>>

PersistCancelled(w) ==
    /\ wk[w].pc = "cancelling"
    /\ wk[w].todo = NoTodo
    /\ owner = w
    /\ wk[w].loop
    /\ task' = [cond |-> "ended", outcome |-> "cancelled"]
    /\ Quit(w, "settle_control")
    /\ UNCHANGED <<control, turns, answered, consumed, step, rowVars, envVars>>

SettleControl(w) ==
    /\ wk[w].pc = "settle_control"
    /\ control' = FALSE
    /\ Quit(w, IF owner = w THEN "release" ELSE "idle")
    /\ UNCHANGED <<task, turns, answered, consumed, step, rowVars, envVars>>

(* InputRevisionConflict, or newer turns found before a position. *)
InputRevised(w) ==
    /\ owner = w
    /\ turns # consumed
    /\ \/ wk[w].pc = "next" /\ ~control /\ (HasCall(w) \/ IsFinal)
       \/ AtClaim(w) /\ ~control
    /\ wk' = [wk EXCEPT ![w].pc = "superseding", ![w].pos = 1, ![w].upto = LatestTurn,
                        ![w].cur = None, ![w].seen = NoEffect]
    /\ UNCHANGED <<taskVars, rowVars, envVars>>

(* An effect past the claim is skipped, an unclaimed one is cancelled. *)
SupersedeRead(w) ==
    /\ wk[w].pc = "superseding"
    /\ HasCall(w)
    /\ owner = w
    /\ wk' = IF eff[CallAt(w)].status \in Unclaimed
             THEN [wk EXCEPT ![w].pc = "sup_settle", ![w].cur = CallAt(w),
                             ![w].seen = eff[CallAt(w)]]
             ELSE [wk EXCEPT ![w].pos = @ + 1]
    /\ UNCHANGED <<taskVars, rowVars, envVars>>

SupersedeSettle(w) ==
    LET e == wk[w].cur
    IN  /\ wk[w].pc = "sup_settle"
        /\ owner = w
        /\ IF SettleAllowed(e, wk[w].seen.version, "cancelled")
           THEN /\ Settle(e, "cancelled")
                /\ wk' = [wk EXCEPT ![w].pc = "superseding", ![w].pos = @ + 1,
                                    ![w].cur = None, ![w].seen = NoEffect]
           ELSE Raise(w) /\ UNCHANGED <<eff, result, appr>>
        /\ UNCHANGED <<taskVars, disp, envVars>>

Superseded(w) ==
    /\ wk[w].pc = "superseding"
    /\ ~HasCall(w)
    /\ owner = w
    /\ consumed' = wk[w].upto
    /\ CloseStep(w)
    /\ UNCHANGED <<task, control, turns, answered, rowVars, envVars>>

(* A budget is exceeded, or the provider or the memory store fails. *)
RunFails(w) ==
    /\ owner = w
    /\ wk[w].pc \in {"advance", "model", "next"}
    /\ Quit(w, "fail")
    /\ UNCHANGED <<taskVars, rowVars, envVars>>

(* _fail *)
FailTask(w) ==
    /\ wk[w].pc = "fail"
    /\ owner = w
    /\ task' = [cond |-> "ended", outcome |-> "failed"]
    /\ Quit(w, "release")
    /\ UNCHANGED <<control, turns, answered, consumed, step, rowVars, envVars>>

(* Mutant: the release makes the task idle whatever its condition. *)
ReleaseMakesIdle(w) ==
    /\ wk[w].pc = "release"
    /\ owner = w
    /\ owner' = None
    /\ task' = [task EXCEPT !.cond = "idle"]
    /\ wk' = [wk EXCEPT ![w] = IdleWorker]
    /\ UNCHANGED <<control, turns, answered, consumed, step, rowVars, policy, disk, ran>>

(* release_execution *)
Release(w) ==
    /\ wk[w].pc = "release"
    /\ owner = w
    /\ owner' = None
    /\ task' = IF task.cond = "running"
               THEN [task EXCEPT !.cond = "idle"] ELSE task
    /\ wk' = [wk EXCEPT ![w] = IdleWorker]
    /\ UNCHANGED <<control, turns, answered, consumed, step, rowVars, policy, disk, ran>>

-----------------------------------------------------------------------------
Operator ==
    \/ AppendTurn
    \/ CancelTask
    \/ \E e \in EffectId, approved \in BOOLEAN :
           \E p \in {appr[e].policy, policy} : Decide(e, approved, p)
    \/ \E e \in EffectId, success \in BOOLEAN : Confirm(e, success)
    \/ \E e, r \in EffectId : Retry(e, r)
    \/ \E e \in EffectId : Abandon(e)

Environment ==
    \/ PolicyChanges
    \/ \E c \in FileCalls, content \in Content : FileEdited(c, content)
    \/ LeaseExpires
    \/ \E w \in Worker : Crash(w) \/ LeaseLost(w)

Start(w) ==
    \/ Resume(w)
    \/ \E e \in EffectId : ReconcileConfirmed(w, e) \/ ReconcileUnknown(w, e)
    \/ Reconciled(w) \/ EnterLoop(w)
    \/ RecoverStep(w)
    \/ \E e \in EffectId : MaterializeRetry(w, e)
    \/ ConsumeInputs(w)
    \/ \E s \in Batches : PrepareBatch(w, s)

Batch(w) ==
    \/ ReadEffect(w) \/ RequestApproval(w) \/ Replay(w) \/ BlockedRepeat(w)
    \/ SettleUnexecuted(w) \/ ClaimEffect(w) \/ ClaimConflict(w)
    \/ PreconditionFails(w) \/ AssertOwnership(w)
    \/ \E ok \in BOOLEAN : BackendRuns(w, ok)
    \/ CleanupFails(w) \/ RecordCleanupFailure(w) \/ Commit(w)
    \/ StepDone(w)
    \/ Conclude(w)
    \/ \E same \in BOOLEAN : AppendAnswer(w, same)
    \/ CompleteTask(w)

Stop(w) ==
    \/ CancelSeen(w)
    \/ \E e \in EffectId : CancelPendingEffect(w, e)
    \/ ReportFails(w) \/ PersistCancelled(w) \/ SettleControl(w)
    \/ InputRevised(w) \/ SupersedeRead(w) \/ SupersedeSettle(w) \/ Superseded(w)
    \/ RunFails(w) \/ FailTask(w) \/ Release(w)

Next == Operator \/ Environment \/ \E w \in Worker : Start(w) \/ Batch(w) \/ Stop(w)

Spec == Init /\ [][Next]_vars
-----------------------------------------------------------------------------
(* Properties. *)

(* The backend of an effect is invoked at most once, over all crashes,     *)
(* replays, takeovers and zombies.                                         *)
AtMostOnce == \A e \in EffectId : ran[e] <= 1

(* An approval follows its effect: it is pending exactly as long as the    *)
(* effect waits for it, an effect that needs one runs only once one was    *)
(* consumed for it, and an effect whose assessment is deny never runs.     *)
ApprovedBeforeRun ==
    \A e \in EffectId :
        /\ appr[e].status = "pending" <=> eff[e].status = "waiting"
        /\ ran[e] > 0 => /\ eff[e].decision # "deny"
                         /\ eff[e].decision = "require_approval"
                            => appr[e].status = "consumed"

(* An effect recorded as denied or cancelled was not executed. *)
UnexecutedDidNotRun ==
    \A e \in EffectId : eff[e].status \in {"denied", "cancelled"} => ran[e] = 0

(* A task with an unknown effect that nobody has disposed of needs         *)
(* recovery: it cannot be resumed around it.                               *)
UnknownHeld ==
    \A e \in EffectId : Undisposed(e) => task.cond = "recovery_required"

(* An effect becomes succeeded because its own backend was invoked, because *)
(* an operator says so or, for a file effect only, because the file holds  *)
(* its target content at that moment.  The last does not show that it ran: *)
(* a retry finds what a zombie wrote for the effect before it, and what the *)
(* user wrote, or what was there already, counts as well.                  *)
SuccessStep ==
    \A e \in EffectId :
        eff[e].status # "succeeded" /\ eff'[e].status = "succeeded"
        => \/ ran[e] = 1
           \/ disp'[e] = "confirm"
           \/ eff[e].call \in FileCalls /\ disk[eff[e].call] = "target"

SucceededRan == [][SuccessStep]_vars

(* An effect is claimed only while the task is active and owned, with no   *)
(* cancel pending, no user turn that the step has not seen and, if it      *)
(* needs an approval, one granted under the policy its owner has loaded.   *)
ClaimStep ==
    \A e \in EffectId :
        eff[e].status # "executing" /\ eff'[e].status = "executing"
        => /\ task.outcome = "active"
           /\ owner # None
           /\ ~control
           /\ turns = consumed
           /\ eff[e].decision = "require_approval"
              => appr[e] = [status |-> "approved", policy |-> wk[owner].policy]

ClaimIsCurrent == [][ClaimStep]_vars

(* What every store promises about an effect: the rows that the workers,   *)
(* the operator and the zombies write, through all their transactions,     *)
(* live as EffectLife says: claimed once, settled for good.                *)
LifeOf(status) ==
    CASE status = "none" -> "absent"
      [] status \in Unclaimed -> "open"
      [] status = "executing" -> "running"
      [] status = "unknown" -> "unknown"
      [] status \in {"succeeded", "failed"} -> "over"
      [] status \in {"denied", "cancelled"} -> "void"

Contract == INSTANCE EffectLife WITH Effect <- EffectId,
                                     life <- [e \in EffectId |-> LifeOf(eff[e].status)]
EffectContract == Contract!Spec
=============================================================================
