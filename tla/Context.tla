------------------------------ MODULE Context ------------------------------
(***************************************************************************)
(* The context of a step: the runtime retrieves the task's memory, the     *)
(* context engine (context/engine.py) fits prompt, memory and history into *)
(* the token budget, the model answers with a tool call, and the working   *)
(* memory observes its result.                                             *)
(*                                                                         *)
(* The stable prompt layout is modelled, where memory is published in a    *)
(* pinned tail behind the prefix (StepLoop models what is published; here  *)
(* the tail is any size).  One step makes one tool call.  A read or a      *)
(* write names its file by one spelling, and files change only through     *)
(* the write tools.                                                        *)
(***************************************************************************)
EXTENDS WorkingMemory, Retrieval

CONSTANTS
    PrefixTokens,      \* sizes of the stable prefix with the tool schemas
    TailTokens,        \* sizes of the published memory
    EpisodicTokens,    \* sizes of the recovery snapshot, 0 for none
    Stored,            \* the sets of records that may be active
    CallTokens,        \* CallTokens[tool]: a step's messages in the history
    SkipTokens,        \* the same for a skipped read
    RecentSteps,       \* context_recent_steps
    RetrievalMargin,   \* kept free beside the retrieved memory (16)
    MinReserve,        \* least reserve for the task memory message (96)
    MaxReserve,        \* largest (768)
    MemoryMessage,     \* least size of a task memory message
    MaxSteps,          \* bound on the steps
    None

VARIABLES
    status,            \* "build", "request", "call" or "failed"
    wm,                \* the working memory
    changed,           \* paths that differ from the task's start
    groups,            \* the history: one group of messages per step
    window,            \* the assembled context of a request, or None
    failing,           \* the tools whose last result was a failure
    outdated           \* paths written since the model was last shown them

vars == <<status, wm, changed, groups, window, failing, outdated>>

ASSUME ContextAssumption ==
    /\ PrefixTokens \cup TailTokens \cup EpisodicTokens \subseteq Nat
    /\ Stored \subseteq SUBSET Record
    /\ CallTokens \in [Tool -> Nat]
    /\ {SkipTokens, RecentSteps, RetrievalMargin, MinReserve, MaxReserve, MemoryMessage, MaxSteps}
            \subseteq Nat

Status == {"pending", "running", "completed"}

PlanUpdate ==
    {p \in UNION {[items -> Status] : items \in (SUBSET PlanItem) \ {{}}} :
        Cardinality({i \in DOMAIN p : p[i] = "running"}) <= 1}

Init ==
    /\ status = IF Opened.over THEN "failed" ELSE "build"
    /\ wm = Opened
    /\ changed = {}
    /\ groups = <<>>
    /\ window = None
    /\ failing = {}
    /\ outdated = {}

----------------------------------------------------------------------------
(* The context window. *)

GroupTokens(steps) == MapThenSumSet(LAMBDA i : groups[i].tokens, steps)

Recent(i) == i > Len(groups) - RecentSteps

(* Recent steps first, then by relevance, then the newest. *)
RankedBefore(i, j) ==
    \/ Recent(i) /\ ~Recent(j)
    \/ /\ Recent(i) = Recent(j)
       /\ \/ groups[i].relevance > groups[j].relevance
          \/ groups[i].relevance = groups[j].relevance /\ i > j

(* The groups kept: each one that still fits, in their ranking. *)
Selected(budget) ==
    LET position(i) == Cardinality({j \in DOMAIN groups : RankedBefore(j, i)}) + 1
        kept[n \in 0..Len(groups)] ==
            IF n = 0 THEN {}
            ELSE kept[n - 1] \cup
                    {i \in DOMAIN groups : /\ position(i) = n
                                          /\ GroupTokens(kept[n - 1]) + groups[i].tokens <= budget}
    IN kept[Len(groups)]

(* Room for the task memory message when history has to be left out. *)
Reserve(history, taskMemory) ==
    IF /\ taskMemory
       /\ GroupTokens(DOMAIN groups) > history
       /\ history >= MinReserve
    THEN Min({MaxReserve, Max({MinReserve, history \div 3})})
    ELSE 0

(* _build_memory and _fit_memory: the message about the dropped steps      *)
(* shrinks to the limit, and is left out when its least form is too large. *)
TaskMemorySizes(dropped, limit) ==
    LET sizes == {n \in MemoryMessage..(MemoryMessage + Cardinality(dropped)) : n <= limit}
    IN IF dropped = {} \/ sizes = {} THEN {0} ELSE sizes

(* Mutant: the groups are chosen from the whole budget. *)
BuildUnreserved(fixed, historyBudget, taskMemory) ==
    LET available == ContextTokens - fixed
        history   == Min({available, historyBudget})
        reserve   == Reserve(history, taskMemory)
        kept      == Selected(history)
        limit     == reserve + history - GroupTokens(kept)
    IN {[fixed   |-> fixed,
         history |-> history,
         reserve |-> reserve,
         kept    |-> kept,
         memory  |-> n] :
            n \in IF taskMemory THEN TaskMemorySizes(DOMAIN groups \ kept, limit) ELSE {0}}

(* The kept groups and the message about the dropped ones share the        *)
(* history budget.                                                         *)
BuildWindow(fixed, historyBudget, taskMemory) ==
    LET available == ContextTokens - fixed
        history   == Min({available, historyBudget})
        reserve   == Reserve(history, taskMemory)
        kept      == Selected(history - reserve)
        limit     == history - GroupTokens(kept)
    IN {[fixed   |-> fixed,
         history |-> history,
         reserve |-> reserve,
         kept    |-> kept,
         memory  |-> n] :
            n \in IF taskMemory THEN TaskMemorySizes(DOMAIN groups \ kept, limit) ELSE {0}}

WindowTokens(w) == w.fixed + w.memory + GroupTokens(w.kept)

(* The memory of a request: None when the store fails, which active = None *)
(* stands for, or when nothing of what was found could be rendered.        *)
RetrieveMemory(episodic, active, cap) ==
    LET retrieved == Retrieve(Estimate(wm.entries), episodic, active, changed,
                              ContextTokens, cap)
        empty     == retrieved.rendered = 0 /\ retrieved.offered
    IN IF active = None \/ empty THEN None ELSE retrieved

(* One request of the model: the memory is retrieved, then the window is   *)
(* built.                                                                  *)
Assemble(prefix, tail, episodic, active) ==
    /\ status = "build"
    /\ LET cap == Max({0, ContextTokens - prefix - RetrievalMargin})
       IN IF prefix + tail > ContextTokens
          THEN /\ status' = "failed"           \* ContextBudgetError
               /\ UNCHANGED window
          ELSE /\ status' = "request"
               /\ \E memory \in {RetrieveMemory(episodic, active, cap)} :
                  \E w \in BuildWindow(
                        prefix + tail,
                        IF memory = None THEN ContextTokens ELSE memory.allocation.recent,
                        memory = None) :
                    window' = [window |-> w, retrieved |-> memory, cap |-> cap]
    /\ UNCHANGED <<wm, changed, groups, failing, outdated>>

(* The model answers with a tool call. *)
Respond ==
    /\ status = "request"
    /\ Len(groups) < MaxSteps
    /\ status' = "call"
    /\ window' = None
    /\ UNCHANGED <<wm, changed, groups, failing, outdated>>

----------------------------------------------------------------------------
(* The answer: a tool call is executed, or answered from the signatures of *)
(* earlier reads, and observed.                                            *)

Observe(call, ok, matches, plan, changes) ==
    LET step == Len(groups) + 1
        skip == HasReadCall(wm, call)
        seen == Observed(wm, call, ok, matches, step, plan, changes)
    IN /\ wm' = seen
       /\ status' = IF seen.over THEN "failed" ELSE "build"
       /\ changed' = changes
       /\ groups' = Append(groups,
            [tokens    |-> IF skip THEN SkipTokens ELSE CallTokens[call.tool],
             relevance |-> IF matches THEN 1 ELSE 0])
       /\ UNCHANGED window
       /\ failing' = IF ok THEN failing \ {call.tool} ELSE failing \cup {call.tool}

ReadFile(path, ok, matches) ==
    LET call == [tool |-> "read_file", path |-> path]
    IN /\ status = "call"
       /\ HasReadCall(wm, call) => ok
       /\ Observe(call, ok, matches, <<>>, changed)
       /\ outdated' = IF ok /\ ~HasReadCall(wm, call) THEN outdated \ {path} ELSE outdated

(* A write changes the file, or puts back what it was at the start. *)
WriteFile(path, ok, restores) ==
    /\ status = "call"
    /\ Observe([tool |-> "write_file", path |-> path], ok, FALSE, <<>>,
               IF ~ok THEN changed
               ELSE IF restores THEN changed \ {path} ELSE changed \cup {path})
    /\ outdated' = IF ok THEN outdated \cup {path} ELSE outdated

RunTests(ok, matches) ==
    /\ status = "call"
    /\ Observe([tool |-> "run_tests", path |-> None], ok, matches, <<>>, changed)
    /\ UNCHANGED outdated

(* The model's plan replaces the current one, or is invalid. *)
UpdatePlan(plan, ok) ==
    /\ status = "call"
    /\ Observe([tool |-> "update_plan", path |-> None], ok, FALSE, plan, changed)
    /\ UNCHANGED outdated

Next ==
    \/ \E prefix \in PrefixTokens, tail \in TailTokens, episodic \in EpisodicTokens,
          active \in Stored \cup {None} :
            Assemble(prefix, tail, episodic, active)
    \/ Respond
    \/ \E path \in Path, ok, matches \in BOOLEAN : ReadFile(path, ok, matches)
    \/ \E path \in Path, ok, restores \in BOOLEAN : WriteFile(path, ok, restores)
    \/ \E ok, matches \in BOOLEAN : RunTests(ok, matches)
    \/ \E plan \in PlanUpdate : UpdatePlan(plan, TRUE)
    \/ UpdatePlan(<<>>, FALSE)

Spec == Init /\ [][Next]_vars

----------------------------------------------------------------------------
(* The variables have the values the code gives them; a budget error is    *)
(* the only way a working memory ends above its budget.                    *)
TypeOK ==
    /\ status \in {"build", "request", "call", "failed"}
    /\ wm.reads \subseteq Path
    /\ \A e \in wm.entries : e.kind \in EntryKind /\ e.at \in 0..MaxSteps
    /\ \A e, f \in wm.entries : <<e.kind, e.name>> = <<f.kind, f.name>> => e = f
    /\ status # "failed" => ~wm.over /\ Estimate(wm.entries) <= WorkingBudget
    /\ changed \subseteq Path /\ outdated \subseteq Path /\ failing \subseteq Tool
    /\ IF status = "request" THEN window.window.kept \subseteq DOMAIN groups ELSE window = None

(* However much is evicted, the working memory shows exactly the tools     *)
(* whose last result was a failure (observe_tool, _rebalance).             *)
ErrorsVisible ==
    status # "failed" => {e.name : e \in Entries(wm, "error")} = {Number(t) : t \in failing}

(* A read is answered with "Skipped duplicate read of unchanged file" only *)
(* when the model has been shown the file since its last write: no         *)
(* signature survives a write of its path (has_read_call, observe_tool).   *)
SkippedReadsFresh == wm.reads \cap outdated = {}

(* The episodes promoted from completed plan items partition the work: an  *)
(* action belongs to one phase, though plans are replaced, items reopened  *)
(* and completed again at will, and an item or a verification is promoted  *)
(* again only after MaxKeys others (sync_plan, _queue_promotion).          *)
PhaseOnce ==
    \A i, j \in DOMAIN wm.promoted :
        LET p == wm.promoted[i]
            q == wm.promoted[j]
        IN i < j => /\ p.actions \cap q.actions = {}
                    /\ p.key = q.key => j - i > MaxKeys

(* The checks of LayeredMemoryContext.validate_context hold of every       *)
(* retrieval, whatever the snapshots take of a layer and the renderer      *)
(* removes, and no key has more than its share of records.  The working    *)
(* memory's budget is the share retrieval gives its layer: unless the      *)
(* prefix leaves less than that, what it pins reaches the model            *)
(* untruncated, and it is left out only after every record                 *)
(* (_working_memory_budget, allocate, _direct_selection, _fit_render).     *)
SelectionValid ==
    status = "request" /\ window.retrieved # None =>
        LET r == window.retrieved
            whole == {s \in r.selections : s.layer = "working" /\ s.tokens = Estimate(wm.entries)}
        IN /\ r.rendered <= r.allocation.retrieval
           /\ \A layer \in Layer : TokensOf(InLayer(r.selections, layer)) <= r.allocation[layer]
           /\ \A s \in r.selections :
                Cardinality({t \in r.selections : t.key = s.key}) <= PerKey
           /\ MinWorking <= ContextTokens \div 5 =>
                /\ window.cap >= (ContextTokens * 40) \div 100 =>
                     InLayer(r.selections, "working") = whole
                /\ (\E s \in r.selections : ~s.pinned) =>
                     r.direct \subseteq r.selections

(* The assembled window fits, so the engine's second ContextBudgetError    *)
(* never fires; the history is left whole when it fits its budget; and a   *)
(* step is left out only for steps ranked before it (build).               *)
WindowSound ==
    status = "request" =>
        LET w == window.window
            ahead(i) == {j \in w.kept : RankedBefore(j, i)}
        IN /\ WindowTokens(w) <= ContextTokens
           /\ GroupTokens(w.kept) + w.memory <= w.history
           /\ GroupTokens(DOMAIN groups) <= w.history => w.kept = DOMAIN groups
           /\ \A i \in DOMAIN groups \ w.kept :
                GroupTokens(ahead(i)) + groups[i].tokens > w.history - w.reserve
============================================================================
