----------------------------- MODULE StepLoop -----------------------------
(***************************************************************************)
(* AgentRuntime._advance_once and what a checkpoint carries from one step  *)
(* to the next: the usage of the model requests, the counters of the       *)
(* no-progress and failure budgets, the plan, the tool history, and the    *)
(* prompt cache (the frozen epoch prefix and the memory publications).     *)
(*                                                                         *)
(* A step asks the model once; its response has at most one tool call.     *)
(* The process may die between any two durable writes.  What survives is   *)
(* the checkpoint, the responses and the tool results.  Ownership, control *)
(* requests, turns and effects have modules of their own.  The layout is   *)
(* the stable one: the legacy layout has no epoch and no publication.      *)
(***************************************************************************)
EXTENDS Naturals, FiniteSets, Sequences, SequencesExt

CONSTANTS
    Projection,     \* what memory may have to say: finite sets of items
    DeltaLimit,     \* max_delta_tokens, in items
    Summary,        \* summaries that the provider may write
    MaxSteps, MaxTokens, MaxRepeats, MaxErrors, MaxFailures, MaxReplans,
    MaxCrashes,     \* bound on crashes
    None

ASSUME StepLoopAssumption ==
    /\ {DeltaLimit, MaxTokens, MaxFailures, MaxReplans, MaxCrashes} \subseteq Nat
    /\ {MaxSteps, MaxRepeats, MaxErrors} \subseteq Nat \ {0}
    /\ None \notin Summary \cup Projection
    /\ \A p \in Projection : IsFiniteSet(p)

VARIABLES
    resp,       \* the persisted response of each step
    results,    \* the persisted tool result of each step
    ckpt,       \* the checkpoint: the next step, the pending request, the state
    run,        \* the running process: its program counter and its state
    status,     \* the outcome of the task
    asked,      \* history: the requests sent for each step
    seen,       \* history: prefix and publications last sent in each epoch
    crashes     \* crashes left

vars == <<resp, results, ckpt, run, status, asked, seen, crashes>>

-----------------------------------------------------------------------------
Step == 0..(MaxSteps - 1)
Mutation == {"write_file"}
Gated == {"write_file", "run_tests"}
PlanCall == {"plan_open", "plan_done"}
Call == {"read_file"} \cup Gated \cup PlanCall

(* denied: the preparation of the call found the plan missing or stale. *)
Response == [call : Call \cup {"final", "empty"}, denied : BOOLEAN]
Out == {"ok", "denied", "error"}
Result == [call : Call, out : Out]
Failure == [call : {"read_file"} \cup Gated, out : {"denied", "error"}]

Item == UNION Projection
Delta == [added : SUBSET Item, removed : SUBSET Item]
Publication == [epoch : 0..MaxSteps, first : SUBSET Item, deltas : Seq(Delta),
                now : SUBSET Item]

(* What a process keeps and a full checkpoint takes. *)
State ==
    [tokens : Nat, squeezed : Nat, cache : Nat,
     accounted : SUBSET Step, unknown : SUBSET Step,
     prev : Call \cup {None}, repeats : Nat,
     errors : [Failure -> Nat], failures : Nat,
     plan : PlanCall \cup {None}, replan : BOOLEAN, replans : Nat,
     history : Seq([step : Step, result : Result]),
     turns : Nat, epoch : 0..MaxSteps, prefix : Seq(Summary),
     pub : Publication \cup {None}]

PC == {"down", "loop", "request", "waiting", "clear", "account", "judge", "tool",
       "observe", "compress", "save", "ended"}

Checkpoint == [next : 0..MaxSteps, pending : Step \cup {None}, st : State]
Process == [pc : PC, st : State]
Request == [prefix : Seq(Summary), pub : Publication \cup {None}]

(* Python's None is no response, result, publication or number. *)
ASSUME NoneAssumption ==
    /\ None \notin Response /\ None \notin Result
    /\ None \notin Publication /\ None \notin Step

TypeOK ==
    /\ resp \in [Step -> Response \cup {None}]
    /\ results \in [Step -> Result \cup {None}]
    /\ ckpt \in Checkpoint
    /\ run \in Process
    /\ status \in {"running", "completed", "verified", "failed"}
    /\ asked \in [Step -> Nat]
    /\ DOMAIN seen \subseteq 0..MaxSteps /\ \A e \in DOMAIN seen : seen[e] \in Request
    /\ crashes \in 0..MaxCrashes

Fresh ==
    [tokens |-> 0, squeezed |-> 0, cache |-> 0, accounted |-> {}, unknown |-> {},
     prev |-> None, repeats |-> 0, errors |-> [r \in Failure |-> 0], failures |-> 0,
     plan |-> None, replan |-> FALSE, replans |-> 0, history |-> <<>>,
     turns |-> 0, epoch |-> 0, prefix |-> <<>>, pub |-> None]

(* _run_owned has written the first checkpoint. *)
Init ==
    /\ resp = [s \in Step |-> None]
    /\ results = [s \in Step |-> None]
    /\ ckpt = [next |-> 0, pending |-> None, st |-> Fresh]
    /\ run = [pc |-> "loop", st |-> Fresh]
    /\ status = "running"
    /\ asked = [s \in Step |-> 0]
    /\ seen = [e \in {} |-> None]
    /\ crashes = MaxCrashes

Goto(pc, st) == run' = [pc |-> pc, st |-> st]

(* _fail and _complete end the task; nothing else is saved. *)
End(outcome) ==
    /\ status' = outcome
    /\ Goto("ended", Fresh)

-----------------------------------------------------------------------------
(* Memory publications: one snapshot per epoch, then deltas. *)

DeltaTo(pub, projection) ==
    [added |-> projection \ pub.now, removed |-> pub.now \ projection]

Current(st, projection) == st.pub # None /\ st.pub.epoch = st.epoch

TooLarge(st, projection) ==
    /\ Current(st, projection)
    /\ LET d == DeltaTo(st.pub, projection)
       IN  Cardinality(d.added) + Cardinality(d.removed) > DeltaLimit

(* publish: nothing when the projection is the one published, and nothing  *)
(* when the same delta was published before in this epoch.                 *)
Publish(st, projection) ==
    IF ~Current(st, projection)
    THEN [epoch |-> st.epoch, first |-> projection, deltas |-> <<>>, now |-> projection]
    ELSE LET d == DeltaTo(st.pub, projection)
         IN  IF st.pub.now = projection \/ d \in Range(st.pub.deltas) THEN st.pub
             ELSE [st.pub EXCEPT !.deltas = Append(@, d), !.now = projection]

(* replay: what the published messages say. *)
Replay(pub) ==
    LET payload[n \in 0..Len(pub.deltas)] ==
          IF n = 0 THEN pub.first
          ELSE (payload[n - 1] \ pub.deltas[n].removed) \cup pub.deltas[n].added
    IN  payload[Len(pub.deltas)]

-----------------------------------------------------------------------------
(* One step. *)

step == ckpt.next
Live == status = "running"

(* The step budget, the time budget, and a prefix that does not fit the    *)
(* context.                                                                *)
GiveUp ==
    /\ Live
    /\ run.pc = "loop"
    /\ End("failed")
    /\ UNCHANGED <<resp, results, ckpt, asked, seen, crashes>>

(* Mutant: the checkpoint with the pending request is not written. *)
PendingUnsaved(st) == ckpt

(* The checkpoint before a request names the step as pending. *)
PendingSaved(st) == [ckpt EXCEPT !.pending = step, !.st = st]

(* Retrieval, materialize_messages and prepare_request.  projection: what  *)
(* memory has to say, None if its store failed or if nothing of it fits.   *)
Prepare(projection) ==
    /\ Live
    /\ run.pc = "loop"
    /\ step < MaxSteps
    /\ IF projection # None /\ TooLarge(run.st, projection)
       THEN End("failed") /\ UNCHANGED ckpt
       ELSE LET st == IF projection = None THEN run.st
                      ELSE [run.st EXCEPT !.pub = Publish(run.st, projection)]
            IN  /\ IF resp[step] = None
                   THEN Goto("request", st) /\ ckpt' = PendingSaved(st)
                   ELSE Goto("account", st) /\ UNCHANGED ckpt
                /\ UNCHANGED status
    /\ UNCHANGED <<resp, results, asked, seen, crashes>>

(* provider.complete is called with the frozen prefix, the publications of *)
(* the epoch and the steps of the history that fit.                        *)
Send ==
    /\ Live
    /\ run.pc = "request"
    /\ asked' = [asked EXCEPT ![step] = @ + 1]
    /\ seen' = [e \in DOMAIN seen \cup {run.st.epoch} |->
                  IF e = run.st.epoch THEN [prefix |-> run.st.prefix, pub |-> run.st.pub]
                  ELSE seen[e]]
    /\ Goto("waiting", run.st)
    /\ UNCHANGED <<resp, results, ckpt, status, crashes>>

ProviderFails ==
    /\ Live
    /\ run.pc = "waiting"
    /\ End("failed")
    /\ UNCHANGED <<resp, results, ckpt, asked, seen, crashes>>

(* prepare_call: without a plan, or after a failure, a mutation is denied. *)
Denied(st, call) == call \in Gated /\ (st.plan = None \/ st.replan)

(* The response and its effects are persisted in one transaction. *)
Answer(call) ==
    /\ Live
    /\ run.pc = "waiting"
    /\ resp' = [resp EXCEPT ![step] = [call |-> call, denied |-> Denied(run.st, call)]]
    /\ Goto("clear", run.st)
    /\ UNCHANGED <<results, ckpt, status, asked, seen, crashes>>

ClearPending ==
    /\ Live
    /\ run.pc = "clear"
    /\ ckpt' = [ckpt EXCEPT !.pending = None]
    /\ Goto("account", run.st)
    /\ UNCHANGED <<resp, results, status, asked, seen, crashes>>

(* _record_model_usage, once per step. *)
Counted(st) ==
    IF step \in st.accounted THEN st
    ELSE [st EXCEPT !.tokens = @ + 1, !.accounted = @ \cup {step}]

Account ==
    LET st == Counted(run.st)
    IN  /\ Live
        /\ run.pc = "account"
        /\ Goto("judge", st)
        /\ ckpt' = [ckpt EXCEPT !.st.tokens = st.tokens, !.st.accounted = st.accounted]
        /\ UNCHANGED <<resp, results, status, asked, seen, crashes>>

(* observe_response counts the cache usage.  Then the budget, a final      *)
(* response, and the repetition of the same action.                        *)
Judge ==
    LET r == resp[step]
        repeats == IF r.call = run.st.prev THEN run.st.repeats + 1 ELSE 1
        st == [run.st EXCEPT !.cache = @ + 1]
    IN  /\ Live
        /\ run.pc = "judge"
        /\ IF st.tokens + st.squeezed > MaxTokens \/ r.call = "empty" THEN End("failed")
           ELSE IF r.call = "final" THEN End("completed")
           ELSE IF repeats >= MaxRepeats THEN End("failed")
           ELSE /\ Goto("tool", [st EXCEPT !.prev = r.call, !.repeats = repeats])
                /\ UNCHANGED status
        /\ UNCHANGED <<resp, results, ckpt, asked, seen, crashes>>

-----------------------------------------------------------------------------
(* The tool call of the step. *)

Entry(result) == [step |-> step, result |-> result]

(* The gateway's context after a call ran or was refused. *)
Executed(st, r) ==
    [st EXCEPT
       !.plan = IF r.call \in PlanCall THEN r.call ELSE @,
       !.replans = IF r.call \in PlanCall /\ st.replan THEN @ + 1 ELSE @,
       !.replan = IF r.call \in PlanCall THEN FALSE
                  ELSE @ \/ (r.call \in Gated /\ r.out # "ok"),
       !.history = Append(@, Entry(r))]

Execute(out) ==
    LET r == [call |-> resp[step].call, out |-> out]
    IN  /\ Live
        /\ run.pc = "tool"
        /\ results[step] = None
        /\ resp[step].denied <=> out = "denied"
        /\ r.call \in PlanCall => out = "ok"
        /\ results' = [results EXCEPT ![step] = r]
        /\ Goto("observe", Executed(run.st, r))
        /\ UNCHANGED <<resp, ckpt, status, asked, seen, crashes>>

(* Mutant: the history of the new process misses a replayed result. *)
ReplayedUnrecorded(st, r) ==
    [st EXCEPT !.replan = @ \/ (r.call \in Gated /\ r.out # "ok")]

(* A persisted result is replayed: the history takes it, and a failed      *)
(* mutation asks for a new plan.  A plan that the call had made is not     *)
(* made again.                                                             *)
Replayed(st, r) ==
    [st EXCEPT
       !.replan = @ \/ (r.call \in Gated /\ r.out # "ok"),
       !.history = IF Entry(r) \in Range(@) THEN @ ELSE Append(@, Entry(r))]

ReplayResult ==
    /\ Live
    /\ run.pc = "tool"
    /\ results[step] # None
    /\ Goto("observe", Replayed(run.st, results[step]))
    /\ UNCHANGED <<resp, results, ckpt, status, asked, seen, crashes>>

Failing(r) == r.out # "ok"

LastIndex(history, Test(_)) ==
    LET S == {i \in DOMAIN history : Test(history[i].result)}
    IN  IF S = {} THEN 0 ELSE CHOOSE i \in S : \A j \in S : j <= i

(* The files differ from the baseline. *)
Changed == \E s \in Step : results[s] # None /\ results[s] = [call |-> "write_file", out |-> "ok"]

(* Mutant: the tests may have passed before the last mutation. *)
VerifiedEver(st) ==
    /\ st.plan = "plan_done" /\ ~st.replan
    /\ Changed
    /\ LastIndex(st.history, LAMBDA r : r = [call |-> "run_tests", out |-> "ok"]) > 0

(* _verified_plan_completion_summary *)
VerifiedPlan(st) ==
    LET mutated == LastIndex(st.history, LAMBDA r : r.call \in Mutation /\ ~Failing(r))
        tested == LastIndex(st.history, LAMBDA r : r.call = "run_tests")
    IN  /\ st.plan = "plan_done" /\ ~st.replan
        /\ Changed
        /\ mutated > 0 /\ tested > mutated
        /\ ~Failing(st.history[tested].result)

(* The failure counters, the replan budget and the convergence test; then  *)
(* the step is recorded.  dropped: the request had no room for all of the  *)
(* steps of the epoch.                                                     *)
Observe(dropped) ==
    LET r == results[step]
        st == IF ~Failing(r) THEN run.st
              ELSE [run.st EXCEPT !.failures = @ + 1, !.errors[r] = @ + 1]
    IN  /\ Live
        /\ run.pc = "observe"
        /\ dropped => st.turns > 0
        /\ IF \/ Failing(r) /\ (st.errors[r] >= MaxErrors \/ st.failures > MaxFailures)
              \/ st.replans > MaxReplans
           THEN End("failed")
           ELSE IF VerifiedPlan(st) THEN End("verified")
           ELSE /\ Goto(IF dropped THEN "compress" ELSE "save",
                        [st EXCEPT !.turns = @ + 1])
                /\ UNCHANGED status
        /\ UNCHANGED <<resp, results, ckpt, asked, seen, crashes>>

-----------------------------------------------------------------------------
(* _compress_epoch *)

(* Mutant: the publications of the old epoch are kept. *)
RolledOverInPlace(st, summary) ==
    [st EXCEPT !.prefix = Append(@, summary), !.turns = 0]

(* rollover: the prefix grows by the summary, and nothing else is left. *)
RolledOver(st, summary) ==
    [st EXCEPT !.epoch = @ + 1, !.prefix = Append(@, summary), !.turns = 0, !.pub = None]

(* The provider fails; or it answers, and the usage counts, with a summary *)
(* or without.                                                             *)
CompressEpoch(answer) ==
    LET st == [run.st EXCEPT !.squeezed = @ + 1, !.cache = @ + 1]
    IN  /\ Live
        /\ run.pc = "compress"
        /\ Goto("save", IF answer = "error" THEN run.st
                        ELSE IF answer = "invalid" THEN st
                        ELSE RolledOver(st, answer))
        /\ UNCHANGED <<resp, results, ckpt, status, asked, seen, crashes>>

(* The checkpoint at the end of the step. *)
StepSaved == [next |-> step + 1, pending |-> None, st |-> run.st]

Save ==
    /\ Live
    /\ run.pc = "save"
    /\ ckpt' = StepSaved
    /\ Goto("loop", run.st)
    /\ UNCHANGED <<resp, results, status, asked, seen, crashes>>

(* The process dies, waits for an approval, is paused, or loses its lease. *)
Crash ==
    /\ Live
    /\ run.pc # "down"
    /\ crashes > 0
    /\ crashes' = crashes - 1
    /\ Goto("down", Fresh)
    /\ UNCHANGED <<resp, results, ckpt, status, asked, seen>>

(* _reconcile_pending_model_request: a request without a response has used *)
(* an unknown amount.                                                      *)
Reconciled ==
    IF ckpt.pending = None THEN ckpt
    ELSE [ckpt EXCEPT
            !.pending = None,
            !.st.unknown = IF resp[ckpt.pending] = None THEN @ \cup {ckpt.pending} ELSE @]

Resume ==
    /\ Live
    /\ run.pc = "down"
    /\ ckpt' = Reconciled
    /\ Goto("loop", Reconciled.st)
    /\ UNCHANGED <<resp, results, status, asked, seen, crashes>>

Next ==
    \/ GiveUp
    \/ \E projection \in Projection \cup {None} : Prepare(projection)
    \/ Send
    \/ ProviderFails
    \/ \E call \in Call \cup {"final", "empty"} : Answer(call)
    \/ ClearPending
    \/ Account
    \/ Judge
    \/ \E out \in Out : Execute(out)
    \/ ReplayResult
    \/ \E dropped \in BOOLEAN : Observe(dropped)
    \/ \E answer \in Summary \cup {"error", "invalid"} : CompressEpoch(answer)
    \/ Save
    \/ Crash
    \/ Resume

Spec == Init /\ [][Next]_vars
-----------------------------------------------------------------------------
(* Properties. *)

(* Every response is paid for once: the tokens of a process and of the     *)
(* checkpoint are those of the accounted steps, every finished step is     *)
(* accounted, and a step for which a request was lost is marked unknown or *)
(* is the pending one.                                                     *)
UsageExact ==
    /\ run.st.tokens = Cardinality(run.st.accounted)
    /\ ckpt.st.tokens = Cardinality(ckpt.st.accounted)
    /\ 0..(ckpt.next - 1) \subseteq ckpt.st.accounted
    /\ \A s \in Step :
         asked[s] > (IF resp[s] = None THEN 0 ELSE 1)
             => s \in ckpt.st.unknown \cup {ckpt.pending}

(* The counters of the budgets do not notice a crash: when a step is over  *)
(* they are those of the persisted responses and results so far.           *)
CountersAsUninterrupted ==
    run.pc = "save" =>
        LET ran == 0..step
        IN  /\ run.st.failures = Cardinality({s \in ran : Failing(results[s])})
            /\ \A r \in Failure :
                 run.st.errors[r] = Cardinality({s \in ran : results[s] = r})
            /\ run.st.repeats = Cardinality({s \in ran :
                                   \A t \in s..step : resp[t].call = resp[step].call})
            /\ run.st.history = [i \in 1..(step + 1) |->
                                   [step |-> i - 1, result |-> results[i - 1]]]
            /\ run.st.cache = Cardinality(run.st.accounted) + run.st.squeezed

(* A task that ended by itself as verified has a passing test run after    *)
(* the last change that any of its processes made.                         *)
VerifiedMeansTested ==
    status = "verified" =>
        \E s \in Step :
            /\ results[s] = [call |-> "run_tests", out |-> "ok"]
            /\ \A t \in Step : results[t] = [call |-> "write_file", out |-> "ok"] => t < s

(* Publications of an epoch only grow, and its first messages stay. *)
PublicationsGrow ==
    \A e \in DOMAIN seen :
        /\ seen'[e].prefix = seen[e].prefix
        /\ seen[e].pub # None =>
             /\ seen'[e].pub.first = seen[e].pub.first
             /\ IsPrefix(seen[e].pub.deltas, seen'[e].pub.deltas)

PublishedRebuilt == run.st.pub # None => Replay(run.st.pub) = run.st.pub.now

(* The provider's cache stays valid: requests of one epoch start with the  *)
(* same messages, and the publications only grow, over every crash; and    *)
(* the deltas of an epoch rebuild the memory that was published last.      *)
PrefixGrows == [][PublicationsGrow /\ PublishedRebuilt']_vars
=============================================================================
