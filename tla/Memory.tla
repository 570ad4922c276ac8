------------------------------ MODULE Memory ------------------------------
(***************************************************************************)
(* MemoryManager: how the results of tool calls become semantic facts and  *)
(* episodes, in memory and in the memory store, over crashes, replays,     *)
(* failing stores and compression.                                         *)
(*                                                                         *)
(* A call is its position in the run.  The runtime executes the calls of a *)
(* step and persists each result, ingests the result into memory, and at   *)
(* the end of the step, or when a call has to wait for an approval, writes *)
(* a checkpoint with the memory snapshot.  After a crash the results of    *)
(* the open step are observed again, by a manager made from the snapshot   *)
(* and the records of the store: what the store already learnt from them   *)
(* is there.                                                               *)
(*                                                                         *)
(* A file is one assignment, so it is one semantic slot; the plan phase of *)
(* an episode, the promotions of working memory and the wording of records *)
(* are left out.  Fewer episodes are compressed at a time than a chunk (24 *)
(* episodes, 4 summaries) holds, and no slot has two active facts, so that *)
(* facts are never compressed.                                             *)
(***************************************************************************)
EXTENDS Naturals, FiniteSets, Sequences, SequencesExt

CONSTANTS
    Path,           \* files with one assignment each
    MaxValue,       \* the values that the model may write are 1..MaxValue
    StepLen,        \* tool calls per model response
    MaxCalls,       \* bound on the calls of the run
    MaxCrashes,     \* bound on crashes
    MaxFaults,      \* bound on failing calls of the memory store
    CompressAt,     \* active_uncompressed_threshold
    RollupAt,       \* active_generation_threshold
    MaxGeneration,  \* maximum_generation
    None

ASSUME MemoryAssumption ==
    /\ {MaxCalls, MaxCrashes, MaxFaults, CompressAt, RollupAt} \subseteq Nat
    /\ {MaxValue, StepLen, MaxGeneration} \subseteq Nat \ {0}
    /\ IsFiniteSet(Path)
    /\ {None, "tests"} \cap Path = {}

VARIABLES
    disk,       \* the value assigned in each file
    results,    \* persisted tool results, in the order of the calls
    facts,      \* the store's semantic records
    epis,       \* the store's episodic records and summaries
    srcs,       \* the store's semantic sources: the diff they are evidence of
    mgr,        \* the MemoryManager of the running process
    ckpt,       \* the memory snapshot in the checkpoint
    failed,     \* the exception that ended the task, or None
    budget      \* crashes and faults left

store == <<facts, epis, srcs>>
vars == <<disk, results, facts, epis, srcs, mgr, ckpt, failed, budget>>

-----------------------------------------------------------------------------
Authority == [observed |-> 50, verified |-> 100]
Slot == Path \cup {"tests"}
Call == 1..MaxCalls

(* A result: the tool, its path and value, and whether it succeeded.  The  *)
(* kind of an error is left out.                                           *)
Tool == {"read_file", "write_file", "run_tests"}
Result == [tool : Tool, path : Path \cup {None}, value : 0..MaxValue, ok : BOOLEAN]

(* The id of a fact is a hash of its slot, its value, its epistemic status *)
(* and the calls that are its sources.                                     *)
FactId == [slot : Slot, value : 0..MaxValue, status : DOMAIN Authority,
           from : SUBSET Call]
Fact == [state : {"active", "superseded", "invalidated"},
         by : FactId \cup {None}, of : FactId \cup {None},
         conflict : FactId \cup {None}]

(* A source has the call and the slot of its fact as id. *)
SourceId == [call : Call, slot : Slot]

ASSUME NoneAssumption == None \notin FactId /\ None \notin Call

(* An event is the result of a call, or the checkpoint after a call. *)
Boundary(k) == MaxCalls + k
Event == Call \cup {Boundary(k) : k \in Call}

(* An episode has its event as base; a summary the events it was made of.  *)
(* The content that the id does not fix: the paths and the recovered calls. *)
EpisodeId == [base : SUBSET Event, gen : 0..MaxGeneration]
Episode == [active : BOOLEAN, paths : SUBSET Path, recovers : SUBSET Call]

(* MemoryManagerSnapshot: the processed events, the unresolved failures,   *)
(* the last verification, and whether memory fell back.                    *)
Snapshot == [done : SUBSET Event, open : SUBSET Call,
             verified : Call \cup {None}, fallback : BOOLEAN]
NoSnapshot == [done |-> {}, open |-> {}, verified |-> None, fallback |-> FALSE]

(* The manager of a process: the snapshot it would give, its own records,  *)
(* at: the calls that the runtime has observed, and the pending event.     *)
PC == {"down", "loop", "compress"}
Empty == [x \in {} |-> None]

IsFacts(f) == DOMAIN f \subseteq FactId /\ \A i \in DOMAIN f : f[i] \in Fact
IsEpisodes(f) == DOMAIN f \subseteq EpisodeId /\ \A i \in DOMAIN f : f[i] \in Episode

TypeOK ==
    /\ disk \in [Path -> 0..MaxValue]
    /\ results \in Seq(Result)
    /\ IsFacts(facts) /\ IsEpisodes(epis)
    /\ DOMAIN srcs \subseteq SourceId
    /\ \A i \in DOMAIN srcs : srcs[i] \in [Path -> 0..MaxValue]
    /\ mgr.pc \in PC /\ mgr.snap \in Snapshot
    /\ mgr.at \in 0..Len(results) /\ mgr.event \in Event \cup {None}
    /\ IsFacts(mgr.facts) /\ IsEpisodes(mgr.epis)
    /\ ckpt.start \in 0..MaxCalls /\ ckpt.snap \in Snapshot
    /\ failed \in {None, "replay"}
    /\ budget \in [crashes : 0..MaxCrashes, faults : 0..MaxFaults]

Down == [pc |-> "down", snap |-> NoSnapshot, facts |-> Empty, epis |-> Empty,
         at |-> 0, event |-> None]

(* A fresh task: the first checkpoint holds an empty snapshot.  The facts  *)
(* of the goal have slots of their own and no conflicts.                   *)
Init ==
    /\ disk = [p \in Path |-> 0]
    /\ results = <<>>
    /\ facts = Empty
    /\ epis = Empty
    /\ srcs = Empty
    /\ mgr = [Down EXCEPT !.pc = "loop"]
    /\ ckpt = [start |-> 0, snap |-> NoSnapshot]
    /\ failed = None
    /\ budget = [crashes |-> MaxCrashes, faults |-> MaxFaults]

-----------------------------------------------------------------------------
(* Semantic facts. *)

Changed == {p \in Path : disk[p] # 0}

Draft(slot, value, status) == [slot |-> slot, value |-> value, status |-> status]

(* _diff_facts: one draft per changed file, with its value of now. *)
DiffFacts(status) == [i \in DOMAIN SetToSeq(Changed) |->
    Draft(SetToSeq(Changed)[i], disk[SetToSeq(Changed)[i]], status)]

(* extract: what the result of a call says, read at the time of ingestion. *)
Drafts(r) ==
    CASE r.tool = "read_file" -> <<Draft(r.path, r.value, "observed")>>
      [] r.tool = "write_file" -> IF r.ok THEN DiffFacts("observed") ELSE <<>>
      [] r.tool = "run_tests" ->
           IF r.ok THEN <<Draft("tests", 1, "verified")>> \o DiffFacts("verified")
                   ELSE <<Draft("tests", 0, "observed")>>

ActiveIn(f, slot) == {i \in DOMAIN f : i.slot = slot /\ f[i].state = "active"}

NewFact(state) == [state |-> state, by |-> None, of |-> None, conflict |-> None]

With(f, i, row) == [x \in DOMAIN f \cup {i} |-> IF x = i THEN row ELSE f[x]]

(* A draft replaces the active fact of its slot. *)
Replaces(d, current) ==
    d.value = current.value \/ Authority[d.status] >= Authority[current.status]

(* A draft that says nothing new, or was rejected before. *)
Suppressed(f, d, candidate) ==
    \E current \in ActiveIn(f, d.slot) :
        \/ d.value = current.value /\ Authority[current.status] >= Authority[d.status]
        \/ /\ candidate \in DOMAIN f
           /\ f[candidate].state = "invalidated"
           /\ Authority[d.status] < Authority[current.status]

(* Mutant: the replaced fact does not name the new one. *)
LinksOneWay(f, current, new) ==
    With(With(f, current, [f[current] EXCEPT !.state = "superseded"]),
         new, [NewFact("active") EXCEPT !.of = current])

(* The old fact and the new one point to one another. *)
Supersede(f, current, new) ==
    With(With(f, current, [f[current] EXCEPT !.state = "superseded", !.by = new]),
         new, [NewFact("active") EXCEPT !.of = current])

(* validate_supersession_chain refuses an id that the chain already has. *)
ChainRefuses(f, new) == new \in DOMAIN f

(* One draft of _resolve.  acc: the records, the ids to be saved, and      *)
(* whether the chain was refused.                                          *)
Resolve(acc, d, k) ==
    LET f == acc.facts
        fresh == [slot |-> d.slot, value |-> d.value, status |-> d.status, from |-> {k}]
        active == ActiveIn(f, d.slot)
    IN  IF acc.refused \/ Suppressed(f, d, fresh) THEN acc
        ELSE IF active = {}
        THEN [acc EXCEPT !.facts = With(f, fresh, NewFact("active")), !.saved = @ \cup {fresh}]
        ELSE LET current == CHOOSE i \in active : TRUE
                 new == IF d.value = current.value
                        THEN [fresh EXCEPT !.from = current.from \cup {k}] ELSE fresh
             IN  IF ~Replaces(d, current)
                 THEN [acc EXCEPT
                         !.facts = With(f, fresh, [NewFact("invalidated") EXCEPT
                                                     !.conflict = current]),
                         !.saved = @ \cup {fresh}]
                 ELSE IF ChainRefuses(f, new) THEN [acc EXCEPT !.refused = TRUE]
                 ELSE [acc EXCEPT !.facts = Supersede(f, current, new),
                                  !.saved = @ \cup {current, new}]

(* The drafts of a result in their order, from the records f. *)
ResolveAll(f, k) ==
    LET drafts == Drafts(results[k])
        acc[n \in 0..Len(drafts)] ==
            IF n = 0 THEN [facts |-> f, saved |-> {}, refused |-> FALSE]
            ELSE Resolve(acc[n - 1], drafts[n], k)
    IN  acc[Len(drafts)]

-----------------------------------------------------------------------------
(* Episodes. *)

(* action_fingerprint *)
SameAction(r, s) == r.tool = s.tool /\ r.path = s.path /\ r.value = s.value

(* is_known_failed_action, if the kind of the failure is blockable. *)
KnownFailed(snap, r) == \E c \in snap.open : SameAction(results[c], r)

(* _recovery_ids: a verification recovers every failure, another success   *)
(* those of its own tool.                                                  *)
RecoveredBy(open, k) ==
    IF ~results[k].ok THEN {}
    ELSE IF results[k].tool = "run_tests" THEN open
    ELSE {c \in open : results[c].tool = results[k].tool}

(* _apply_reference *)
ApplyReference(snap, k) ==
    LET r == results[k]
        known == \E c \in snap.open : SameAction(results[c], r)
    IN  [snap EXCEPT
           !.open = (@ \ RecoveredBy(@, k)) \cup (IF r.ok \/ known THEN {} ELSE {k}),
           !.verified = IF r.ok /\ r.tool = "run_tests" THEN k ELSE @]

EpisodeOf(k) == [base |-> {k}, gen |-> 0]

(* _episode_paths: the path of the call, or for a verification whatever    *)
(* has changed by now.                                                     *)
EpisodeRow(snap, k) ==
    [active |-> TRUE,
     paths |-> IF results[k].tool = "run_tests" THEN Changed ELSE {results[k].path},
     recovers |-> RecoveredBy(snap.open, k)]

BoundaryRow == [active |-> TRUE, paths |-> Changed, recovers |-> {}]

-----------------------------------------------------------------------------
(* save_batch: one transaction.  A record or a source whose id is taken by *)
(* another content is a MemoryStoreConflictError; the batch is rolled back. *)

SourcesOf(ids, k) == {[call |-> k, slot |-> i.slot] : i \in {j \in ids : k \in j.from}}

FactCollides(f, ids, k) ==
    \/ \E i \in ids : i \in DOMAIN facts /\ facts[i].conflict # f[i].conflict
    \/ \E i \in SourcesOf(ids, k) : i \in DOMAIN srcs /\ srcs[i] # disk

EpisodeCollides(i, row) ==
    /\ i \in DOMAIN epis
    /\ epis[i].paths # row.paths \/ epis[i].recovers # row.recovers

Saved(f, ids) == [i \in DOMAIN facts \cup ids |-> IF i \in ids THEN f[i] ELSE facts[i]]

-----------------------------------------------------------------------------
(* The runtime around the manager. *)

Running == mgr.pc = "loop" /\ failed = None

(* The calls of a step are over when their number is reached. *)
StepDone == mgr.at > ckpt.start /\ mgr.at % StepLen = 0

(* _execute_or_replay for the next call: its result is persisted.          *)
(* blocked: the call is known to have failed, with one of the four kinds   *)
(* of error that block it (UNKNOWN_TOOL, INVALID_ARGUMENTS, PATH_DENIED,   *)
(* EXECUTION_ERROR); nothing runs and the result is a failure.  A failure  *)
(* of another kind may be tried again.                                     *)
Execute(r, blocked) ==
    /\ Running
    /\ ~StepDone
    /\ mgr.at = Len(results)
    /\ Len(results) < MaxCalls
    /\ blocked => KnownFailed(mgr.snap, r) /\ ~r.ok
    /\ r.tool = "read_file" => r.ok /\ r.value = disk[r.path]
    /\ results' = Append(results, r)
    /\ disk' = IF r.tool = "write_file" /\ r.ok THEN [disk EXCEPT ![r.path] = r.value]
               ELSE disk
    /\ UNCHANGED <<store, mgr, ckpt, failed, budget>>

(* ingest_tool of a result that the cursor knows: _duplicate_update. *)
Duplicate ==
    /\ Running
    /\ mgr.at < Len(results)
    /\ mgr.at + 1 \in mgr.snap.done
    /\ mgr' = [mgr EXCEPT !.at = @ + 1]
    /\ UNCHANGED <<disk, results, store, ckpt, failed, budget>>

(* _activate_fallback: from here on nothing is read or written. *)
Fallback(snap) == [snap EXCEPT !.fallback = TRUE]

(* _complete_event up to the write: the records are remembered, and saved  *)
(* unless memory has fallen back.  fault: the store raises                 *)
(* MemoryStoreError; a conflict is one too.                                *)
Write(event, snap, semantic, row, fault) ==
    LET i == EpisodeOf(event)
        conflict == FactCollides(semantic.facts, semantic.saved, event) \/ EpisodeCollides(i, row)
        written == ~snap.fallback /\ ~fault /\ ~conflict
    IN  /\ fault => budget.faults > 0 /\ ~snap.fallback
        /\ mgr' = [mgr EXCEPT !.pc = "compress",
                              !.event = event,
                              !.snap = IF written THEN snap ELSE Fallback(snap),
                              !.facts = semantic.facts,
                              !.epis = With(mgr.epis, i, row)]
        /\ IF written
           THEN /\ facts' = Saved(semantic.facts, semantic.saved)
                /\ epis' = With(epis, i, row)
                /\ srcs' = [x \in DOMAIN srcs \cup SourcesOf(semantic.saved, event) |->
                              IF x \in DOMAIN srcs THEN srcs[x] ELSE disk]
           ELSE UNCHANGED store
        /\ budget' = IF fault THEN [budget EXCEPT !.faults = @ - 1] ELSE budget
        /\ failed' = failed

(* ingest_tool of a result that the cursor does not know.  A ValueError of *)
(* the supersession chain ends the task.                                   *)
IngestTool(fault) ==
    LET k == mgr.at + 1
        semantic == ResolveAll(mgr.facts, k)
    IN  /\ Running
        /\ k <= Len(results)
        /\ k \notin mgr.snap.done
        /\ IF semantic.refused
           THEN /\ ~fault
                /\ failed' = "replay"
                /\ mgr' = Down
                /\ UNCHANGED <<store, budget>>
           ELSE Write(k, ApplyReference(mgr.snap, k), semantic, EpisodeRow(mgr.snap, k), fault)
        /\ UNCHANGED <<disk, results, ckpt>>

(* ingest_checkpoint at the end of the step. *)
IngestCheckpoint(fault) ==
    /\ Running
    /\ StepDone
    /\ Boundary(mgr.at) \notin mgr.snap.done
    /\ Write(Boundary(mgr.at), mgr.snap, [facts |-> mgr.facts, saved |-> {}], BoundaryRow, fault)
    /\ UNCHANGED <<disk, results, ckpt>>

-----------------------------------------------------------------------------
(* Compression. *)

ActiveEpisodes(f) == {i \in DOMAIN f : f[i].active}

EventOf(i) == CHOOSE e \in i.base : TRUE
ToolOf(i) == IF EventOf(i) \in Call THEN results[EventOf(i)].tool ELSE "checkpoint"

Outcome(f, i) ==
    IF EventOf(i) \notin Call THEN "checkpointed"
    ELSE LET r == results[EventOf(i)]
         IN  IF ~r.ok THEN "failed"
             ELSE IF r.tool = "run_tests" THEN "verified"
             ELSE IF f[i].recovers # {} THEN "recovered" ELSE "succeeded"

(* _protected_ids: the failures, the verifications (their importance is    *)
(* 1.0), and the latest recovery of each set of paths.                     *)
Protected(f, ids) ==
    {i \in ids :
        \/ Outcome(f, i) \in {"failed", "verified"}
        \/ /\ Outcome(f, i) = "recovered"
           /\ \A j \in ids : Outcome(f, j) = "recovered" /\ f[j].paths = f[i].paths
                               => EventOf(j) <= EventOf(i)}

(* The buckets of at least two episodes with one key. *)
Buckets(key) ==
    {g \in {{j \in DOMAIN key : key[j] = key[i]} : i \in DOMAIN key} : Cardinality(g) >= 2}

(* _initial_groups: episodes that read the same, then what is left of one  *)
(* tool and one set of paths.                                              *)
InitialGroups(f) ==
    LET plain == {i \in ActiveEpisodes(f) : i.gen = 0}
        eligible == plain \ Protected(f, plain)
        twins == Buckets([i \in eligible |->
                     IF EventOf(i) \in Call
                     THEN <<ToolOf(i), f[i].paths, Outcome(f, i), results[EventOf(i)].value>>
                     ELSE <<i>>])
    IN  twins \cup Buckets([i \in eligible \ UNION twins |-> <<ToolOf(i), f[i].paths>>])

(* _generation_groups: the summaries. *)
GenerationGroups(f) ==
    LET ids == {i \in ActiveEpisodes(f) : i.gen > 0}
    IN  IF Cardinality(ids) >= 2 THEN {ids} ELSE {}

(* _maybe_compress: which groups there are to compress. *)
Groups ==
    LET active == ActiveEpisodes(mgr.epis)
        plain == Cardinality({i \in active : i.gen = 0})
                 + Cardinality({i \in DOMAIN mgr.facts : mgr.facts[i].state = "active"})
        summaries == {i \in active : i.gen > 0}
    IN  IF mgr.snap.fallback THEN {}
        ELSE IF plain >= CompressAt THEN InitialGroups(mgr.epis)
        ELSE IF /\ Cardinality(summaries) >= RollupAt
                /\ \A i \in summaries : i.gen < MaxGeneration
        THEN GenerationGroups(mgr.epis) ELSE {}

(* _summary_record: the lineage is kept, and the next generation. *)
SummaryOf(g) == [base |-> UNION {i.base : i \in g},
                 gen |-> 1 + CHOOSE n \in {i.gen : i \in g} : \A i \in g : i.gen <= n]

(* compress: the inputs of the accepted groups are invalidated, never      *)
(* deleted, and each group has an active summary.                          *)
Compressed(f, groups) ==
    [i \in DOMAIN f \cup {SummaryOf(g) : g \in groups} |->
        IF \E g \in groups : i = SummaryOf(g)
        THEN [active |-> TRUE, paths |-> UNION {f[j].paths : j \in CHOOSE g \in groups : i = SummaryOf(g)},
              recovers |-> {}]
        ELSE IF \E g \in groups : i \in g THEN [f[i] EXCEPT !.active = FALSE]
        ELSE f[i]]

(* Mutant: the batch has the invalidated inputs and no summaries. *)
InvalidatedStore(groups) ==
    [i \in DOMAIN epis \cup UNION groups |->
        IF i \in UNION groups THEN Compressed(mgr.epis, groups)[i] ELSE epis[i]]

(* The store after the same batch: the invalidated rows and the summaries. *)
CompressedStore(groups) ==
    LET new == Compressed(mgr.epis, groups)
        written == (UNION groups) \cup {SummaryOf(g) : g \in groups}
    IN  [i \in DOMAIN epis \cup written |-> IF i \in written THEN new[i] ELSE epis[i]]

(* _finish_event: the event moves from pending to processed. *)
Finished == [mgr EXCEPT !.pc = "loop",
                        !.event = None,
                        !.snap.done = @ \cup {mgr.event},
                        !.at = IF mgr.event \in Call THEN mgr.event ELSE @]

(* The groups whose summary is shorter than its inputs are accepted. *)
MaybeCompress(accepted, fault) ==
    /\ mgr.pc = "compress"
    /\ failed = None
    /\ accepted \subseteq Groups
    /\ fault => accepted # {} /\ budget.faults > 0
    /\ IF accepted = {} \/ fault
       THEN /\ mgr' = IF fault THEN [Finished EXCEPT !.snap = Fallback(@)] ELSE Finished
            /\ epis' = epis
       ELSE /\ mgr' = [Finished EXCEPT !.epis = Compressed(mgr.epis, accepted)]
            /\ epis' = CompressedStore(accepted)
    /\ budget' = IF fault THEN [budget EXCEPT !.faults = @ - 1] ELSE budget
    /\ UNCHANGED <<disk, results, facts, srcs, ckpt, failed>>

(* retrieve: the store cannot be read before a model request. *)
RetrieveFails ==
    /\ Running
    /\ budget.faults > 0
    /\ ~mgr.snap.fallback
    /\ mgr.at = ckpt.start
    /\ mgr' = [mgr EXCEPT !.snap = Fallback(@)]
    /\ budget' = [budget EXCEPT !.faults = @ - 1]
    /\ UNCHANGED <<disk, results, store, ckpt, failed>>

(* The step is over: the checkpoint takes the snapshot. *)
SaveCheckpoint ==
    /\ Running
    /\ StepDone
    /\ Boundary(mgr.at) \in mgr.snap.done
    /\ ckpt' = [start |-> mgr.at, snap |-> mgr.snap]
    /\ UNCHANGED <<disk, results, store, mgr, failed, budget>>

(* The next call waits for an approval: a checkpoint inside the step. *)
SaveWaiting ==
    /\ Running
    /\ mgr.at = Len(results)
    /\ mgr.at % StepLen # 0
    /\ ckpt' = [ckpt EXCEPT !.snap = mgr.snap]
    /\ UNCHANGED <<disk, results, store, mgr, failed, budget>>

(* The process dies, or loses its lease: save_batch raises LeaseLost. *)
Crash ==
    /\ mgr.pc # "down"
    /\ budget.crashes > 0
    /\ mgr' = Down
    /\ budget' = [budget EXCEPT !.crashes = @ - 1]
    /\ UNCHANGED <<disk, results, store, ckpt, failed>>

(* Mutant: the unresolved failures are not taken from the snapshot. *)
RestoredWithoutFailures(fault) ==
    [ckpt.snap EXCEPT !.open = {}, !.fallback = @ \/ fault]

(* The snapshot of a new manager; fault: the store cannot be read. *)
Restored(fault) == IF fault THEN Fallback(ckpt.snap) ELSE ckpt.snap

(* MemoryManager from the checkpoint: the snapshot, and the records of the *)
(* store unless memory has fallen back.  The calls of the open step are    *)
(* observed again.  known: the fault came after list_records; the semantic *)
(* manager is still made from those records, and nothing else is.          *)
Resume(fault, known) ==
    /\ mgr.pc = "down"
    /\ failed = None
    /\ fault => budget.faults > 0 /\ ~ckpt.snap.fallback
    /\ known => fault
    /\ LET snap == Restored(fault)
       IN  mgr' = [pc |-> "loop", snap |-> snap, at |-> ckpt.start, event |-> None,
                   facts |-> IF snap.fallback /\ ~known THEN Empty ELSE facts,
                   epis |-> IF snap.fallback THEN Empty ELSE epis]
    /\ budget' = IF fault THEN [budget EXCEPT !.faults = @ - 1] ELSE budget
    /\ UNCHANGED <<disk, results, store, ckpt, failed>>

Calls ==
    [tool : {"read_file"}, path : Path, value : 0..MaxValue, ok : {TRUE}]
    \cup [tool : {"write_file"}, path : Path, value : 1..MaxValue, ok : BOOLEAN]
    \cup [tool : {"run_tests"}, path : {None}, value : {0}, ok : BOOLEAN]

Next ==
    \/ \E r \in Calls, blocked \in BOOLEAN : Execute(r, blocked)
    \/ Duplicate
    \/ \E fault \in BOOLEAN : IngestTool(fault) \/ IngestCheckpoint(fault)
    \/ \E accepted \in SUBSET Groups, fault \in BOOLEAN : MaybeCompress(accepted, fault)
    \/ RetrieveFails
    \/ SaveCheckpoint
    \/ SaveWaiting
    \/ Crash
    \/ \E fault, known \in BOOLEAN : Resume(fault, known)

Spec == Init /\ [][Next]_vars
-----------------------------------------------------------------------------
(* Properties. *)

(* The facts of the store are chains at every moment, whatever was         *)
(* replayed, refused or rolled back: a slot has one active fact, in the    *)
(* store and in the manager; a superseded fact and its successor name one  *)
(* another; and it gave way only to the same value or to evidence of at    *)
(* least its own authority.                                                *)
ChainsLinked ==
    /\ \A s \in Slot : Cardinality(ActiveIn(facts, s)) <= 1
                       /\ Cardinality(ActiveIn(mgr.facts, s)) <= 1
    /\ \A i \in DOMAIN facts :
           /\ facts[i].by # None =>
                /\ facts[i].by \in DOMAIN facts
                /\ facts[facts[i].by].of = i
                /\ Replaces(facts[i].by, i)
           /\ facts[i].of # None => facts[i].of \in DOMAIN facts /\ facts[facts[i].of].by = i
           /\ facts[i].state = "superseded" <=> facts[i].by # None

(* Crashes and replays leave no trace in the episodic state: the open      *)
(* failures and the last verification of a process are those of an         *)
(* uninterrupted run over the calls ingested so far.                       *)
Uninterrupted(n) ==
    LET snap[k \in 0..n] ==
            IF k = 0 THEN NoSnapshot ELSE ApplyReference(snap[k - 1], k)
    IN  snap[n]

EpisodesAsUninterrupted ==
    mgr.pc = "loop" =>
        LET whole == Uninterrupted(Cardinality(mgr.snap.done \cap Call))
        IN  mgr.snap.open = whole.open /\ mgr.snap.verified = whole.verified

(* As long as memory has not fallen back, the manager serves what the      *)
(* store holds; every event that it has processed is in the store, in an   *)
(* active episode or in the lineage of an active summary; and compression  *)
(* takes neither an open failure nor the last verification from retrieval. *)
StoreComplete ==
    mgr.pc # "down" /\ ~mgr.snap.fallback =>
        /\ mgr.facts = facts /\ mgr.epis = epis
        /\ \A e \in mgr.snap.done : \E i \in ActiveEpisodes(epis) : e \in i.base
        /\ mgr.pc = "loop" =>
             \A c \in mgr.snap.open \cup ({mgr.snap.verified} \ {None}) :
                 EpisodeOf(c) \in ActiveEpisodes(epis)

(* What the documentation says: a run that was interrupted and resumed has *)
(* the memory of one that was not.  But a replayed call meets the facts    *)
(* that later calls of its step left in the store.                         *)
ReplaySafe == failed = None
=============================================================================
