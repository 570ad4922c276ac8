--------------------------- MODULE WorkingMemory ---------------------------
(***************************************************************************)
(* The working memory of a task (memory/working.py): what the agent keeps  *)
(* in front of the model while it works, within a token budget.            *)
(*                                                                         *)
(* An entry is an item or a phase event: its kind, its name within the     *)
(* kind, the step that last wrote it and whether it is pinned.  Names are  *)
(* numbers because their order decides evictions between entries of one    *)
(* rank and one step.  The text of an entry is abstracted to the tokens    *)
(* its kind takes; budgets under 256 tokens, whose rendering leaves out    *)
(* results and events, are not modelled.                                   *)
(***************************************************************************)
EXTENDS Integers, FiniteSets, FiniteSetsExt, Sequences, SequencesExt

CONSTANTS
    Path,              \* the files, as numbers
    PlanItem,          \* the descriptions a plan can have, as numbers
    Constraint,        \* the constraints and prohibitions of the goal
    Tokens,            \* Tokens[kind]: what an entry takes in the rendering
    ContextTokens,     \* max_context_tokens of the task
    MaxWorking,        \* max_working_memory_tokens of the task
    MinWorking,        \* the least share of the context (128)
    MaxKeys            \* how many promotion keys are remembered (256)

(* The tools, in the order of their names. *)
ToolName == <<"read_file", "run_tests", "update_plan", "write_file">>

Tool == Range(ToolName)

Number(tool) == CHOOSE n \in DOMAIN ToolName : ToolName[n] = tool

(* How early an unpinned entry of a kind is evicted. *)
Rank == [result |-> 0, event |-> 1, changed |-> 2, plan |-> 4, evidence |-> 5, read |-> 6,
         constraint |-> 5, error |-> 5]

EntryKind == DOMAIN Rank

ASSUME TokensAssumption == Tokens \in [EntryKind -> Nat \ {0}]

ASSUME WorkingAssumption ==
    /\ {ContextTokens, MaxWorking, MinWorking, MaxKeys} \subseteq Nat
    /\ Path \cup PlanItem \cup Constraint \subseteq Nat
    /\ 0 \notin PlanItem
    /\ IsFiniteSet(Path) /\ IsFiniteSet(PlanItem) /\ IsFiniteSet(Constraint)

WorkingBudget ==
    LET share == Max({MinWorking, ContextTokens \div 5})
    IN Min({MaxWorking, share})

Entries(w, kind) == {e \in w.entries : e.kind = kind}

Estimate(entries) == MapThenSumSet(LAMBDA e : Tokens[e.kind], entries)

Drop(w, kind, name) ==
    [w EXCEPT !.entries = {e \in @ : <<e.kind, e.name>> # <<kind, name>>}]

Upsert(w, kind, name, pinned, step) ==
    [w EXCEPT !.entries = Drop(w, kind, name).entries \cup
        {[kind |-> kind, name |-> name, at |-> step, pinned |-> pinned \/ kind = "error"]}]

(* Mutant: errors are evicted like other entries. *)
EvictsErrors(w) == {e \in w.entries : ~e.pinned \/ e.kind = "error"}

Evictable(w) == {e \in w.entries : ~e.pinned /\ e.kind # "error"}

EvictedBefore(e, f) ==
    \/ Rank[e.kind] < Rank[f.kind]
    \/ Rank[e.kind] = Rank[f.kind] /\ e.at < f.at
    \/ Rank[e.kind] = Rank[f.kind] /\ e.at = f.at /\ e.name < f.name

(* Evicts as few of the cheapest entries as the budget asks for; when the  *)
(* pinned entries alone exceed it the caller gets WorkingMemoryBudgetError *)
(* and the task fails.                                                     *)
Rebalanced(w) ==
    LET choices == Evictable(w)
        before  == [e \in choices |-> Cardinality({f \in choices : EvictedBefore(f, e)})]
        left(n) == w.entries \ {e \in choices : before[e] < n}
        fits    == {n \in 0..Cardinality(choices) : Estimate(left(n)) <= WorkingBudget}
    IN IF fits = {} THEN [w EXCEPT !.over = TRUE]
                    ELSE [w EXCEPT !.entries = left(Min(fits))]

(* _initialize_goal. *)
Opened ==
    Rebalanced([entries  |-> {[kind |-> "constraint", name |-> c, at |-> 0, pinned |-> TRUE] :
                                c \in Constraint},
                reads    |-> {},
                promoted |-> <<>>,
                over     |-> FALSE])

(* has_read_call: the runtime answers such a read with "Skipped duplicate  *)
(* read of unchanged file".                                                *)
HasReadCall(w, call) == call.tool = "read_file" /\ call.path \in w.reads

----------------------------------------------------------------------------
(* The parts of observe_tool, in its order. *)

(* Mutant: the signature of the read survives the write. *)
InvalidatesItemOnly(w, call, ok) ==
    IF call.tool = "write_file" /\ ok THEN Drop(w, "read", call.path) ELSE w

Invalidated(w, call, ok) ==
    IF call.tool = "write_file" /\ ok
    THEN [Drop(w, "read", call.path) EXCEPT !.reads = @ \ {call.path}]
    ELSE w

(* A tool call of a step is one phase event. *)
Logged(w, call, step) ==
    Upsert(Upsert(w, "event", step, FALSE, step), "result", Number(call.tool), FALSE, step)

ReadNoted(w, call, ok, step) ==
    IF call.tool = "read_file" /\ ok
    THEN Upsert([w EXCEPT !.reads = @ \cup {call.path}], "read", call.path, FALSE, step)
    ELSE w

(* The output of a successful call mentions a term of the goal. *)
EvidenceNoted(w, ok, matches, step) ==
    IF ok /\ matches THEN Upsert(w, "evidence", 1, FALSE, step) ELSE w

ErrorNoted(w, call, ok, step) ==
    IF ok THEN Drop(w, "error", Number(call.tool))
          ELSE Upsert(w, "error", Number(call.tool), TRUE, step)

SyncChangedPaths(w, changed, step) ==
    Rebalanced(
        [w EXCEPT !.entries = {e \in @ : e.kind # "changed"} \cup
            {[kind |-> "changed", name |-> p, at |-> step, pinned |-> FALSE] : p \in changed}])

(* The promotions so far, in their order, are a history: what the working  *)
(* memory keeps of them, and saves with a snapshot, are the last MaxKeys   *)
(* keys, of completed items and verifications alike.                       *)
Recalled(w) ==
    {w.promoted[i].key : i \in {j \in DOMAIN w.promoted : j > Len(w.promoted) - MaxKeys}}

QueuePromotion(w, key, actions) ==
    [w EXCEPT !.promoted = Append(@, [key |-> key, actions |-> actions])]

PhaseActions(w) == {e.name : e \in Entries(w, "event")}

(* Mutant: the events of a promoted phase stay for the next one. *)
PromoteKeepsPhase(w, i) ==
    IF <<"plan", i>> \in Recalled(w)
    THEN w ELSE QueuePromotion(w, <<"plan", i>>, PhaseActions(w))

(* A completed item that is not remembered takes the events of the phase,  *)
(* and closes it.                                                          *)
PromoteItem(w, i) ==
    IF <<"plan", i>> \in Recalled(w)
    THEN w
    ELSE [QueuePromotion(w, <<"plan", i>>, PhaseActions(w)) EXCEPT
            !.entries = {e \in @ : e.kind # "event"}]

(* One by one: a promotion may push the key of a later item out.  A plan   *)
(* lists its items in the order of their numbers.                          *)
PromoteCompleted(w, completed) ==
    LET after[n \in 0..Max(completed \cup {0})] ==
            IF n = 0 THEN w
            ELSE IF n \in completed THEN PromoteItem(after[n - 1], n) ELSE after[n - 1]
    IN after[Max(completed \cup {0})]

(* The plan's open items replace those of the earlier plan. *)
SyncPlan(w, plan, step) ==
    LET completed == {i \in DOMAIN plan : plan[i] = "completed"}
        open == {[kind |-> "plan", name |-> i, at |-> step, pinned |-> plan[i] = "running"] :
                    i \in DOMAIN plan \ completed}
    IN Rebalanced(
        PromoteCompleted(
            [w EXCEPT !.entries = {e \in @ : e.kind # "plan"} \cup open], completed))

PromoteVerification(w, step) ==
    IF <<"verification", step>> \in Recalled(w)
    THEN w ELSE QueuePromotion(w, <<"verification", step>>, {})

(* observe_tool; an earlier WorkingMemoryBudgetError stops it, which over  *)
(* records.                                                                *)
Observed(w, call, ok, matches, step, plan, changed) ==
    LET noted  == ErrorNoted(
                    EvidenceNoted(
                      ReadNoted(Logged(Invalidated(w, call, ok), call, step), call, ok, step),
                      ok, matches, step),
                    call, ok, step)
        synced == SyncChangedPaths(noted, changed, step)
        phased == IF call.tool = "update_plan" /\ ok
                  THEN SyncPlan(synced, plan, step) ELSE synced
    IN IF call.tool = "run_tests" /\ ok THEN PromoteVerification(phased, step) ELSE phased
============================================================================
