----------------------------- MODULE Retrieval -----------------------------
(***************************************************************************)
(* What the task's memory contributes to one model request                 *)
(* (memory/retrieval.py): the working and episodic snapshots, and the      *)
(* long-term records that fit the share of the context left to each layer. *)
(*                                                                         *)
(* Sizes are token estimates.  Scores are hundredths: the part of a        *)
(* record's score that does not depend on the query is its base, and the   *)
(* path and recency parts are computed.  Two texts are similar or not      *)
(* (same terms).                                                           *)
(***************************************************************************)
EXTENDS Integers, FiniteSets, FiniteSetsExt, Sequences, SequencesExt

CONSTANTS
    Record,            \* [id, layer, tokens, base, path, topic, terms]; 0 for no path or topic
    MaxResults,        \* max_results (12)
    PerKey,            \* max_per_diversity_key (2)
    RenderHeader,      \* tokens of the rendering's metadata without selections
    RenderItem,        \* tokens of the metadata of one selection
    SuffixTokens       \* the least budget that holds a truncation mark

Layer == {"working", "semantic", "episodic"}

ASSUME RetrievalAssumption ==
    /\ {MaxResults, RenderHeader, RenderItem} \subseteq Nat
    /\ PerKey \in Nat \ {0} /\ SuffixTokens \in Nat \ {0, 1}
    /\ IsFiniteSet(Record)
    /\ \A r \in Record :
        /\ r.id \in Nat \ {0} /\ r.layer \in Layer \ {"working"}
        /\ {r.tokens, r.base, r.path, r.topic} \subseteq Nat
        /\ \A q \in Record : r.id = q.id => r = q

(* MemoryBudgetPolicy.allocate; the four parts add up to the total. *)
Allocate(total, cap) ==
    LET available == Min({(total * 40) \div 100, cap})
        working   == (available * 50) \div 100
        semantic  == (available * 30) \div 100
    IN [working   |-> working,
        semantic  |-> semantic,
        episodic  |-> available - working - semantic,
        retrieval |-> available,
        recent    |-> total - available]

TokensOf(selections) == MapThenSumSet(LAMBDA s : s.tokens, selections)

InLayer(selections, layer) == {s \in selections : s.layer = layer}

(* What two records may have in common: a path, or the subject of a fact   *)
(* and the tool of an episode.                                             *)
DiversityKey(r) ==
    IF r.path # 0 THEN <<"path", r.path>>
    ELSE IF r.topic # 0 THEN <<IF r.layer = "semantic" THEN "subject" ELSE "tool", r.topic>>
    ELSE <<r.layer, r.id>>

(* _record_candidates over the active records of the task's scopes. *)
RecordCandidates(active, changed) ==
    LET older(r) == Cardinality({q \in active : q.id < r.id})
        recency(r) == (10 * older(r)) \div Max({1, Cardinality(active) - 1})
        score(r) == r.base + recency(r) + (IF r.path \in changed THEN 15 ELSE 0)
    IN {[id     |-> r.id,
         layer  |-> r.layer,
         tokens |-> r.tokens,
         score  |-> score(r),
         key    |-> DiversityKey(r),
         terms  |-> r.terms,
         pinned |-> FALSE] : r \in active}

(* _truncate_to_tokens: 0 stands for no text. *)
TruncateToTokens(tokens, budget) ==
    IF tokens <= budget THEN tokens
    ELSE IF budget >= SuffixTokens THEN budget - 2
    ELSE 0

DirectSelection(layer, tokens, budget) ==
    LET bounded == TruncateToTokens(tokens, budget)
    IN IF tokens = 0 \/ bounded = 0 THEN {}
       ELSE {[id     |-> 0,
              layer  |-> layer,
              tokens |-> bounded,
              score  |-> 100,
              key    |-> <<layer, 0>>,
              terms  |-> 0,
              pinned |-> TRUE]}

(* _select_diverse: the best remaining candidate is taken or passed over,  *)
(* until the limit; what is already selected lowers the scores of the rest.*)
SelectDiverse(candidates, budget, limit) ==
    LET value(s, taken) ==
            s.score - 12 * Cardinality({t \in taken : t.key = s.key})
                    - (IF \E t \in taken : t.terms = s.terms THEN 15 ELSE 0)
        best(rest, taken) ==
            CHOOSE s \in rest : \A t \in rest :
                \/ value(s, taken) > value(t, taken)
                \/ value(s, taken) = value(t, taken) /\ s.id <= t.id
        next(taken, rest) ==
            LET s == best(rest, taken)
                admitted == /\ Cardinality({t \in taken : t.key = s.key}) < PerKey
                            /\ TokensOf(taken) + s.tokens <= budget
            IN [taken |-> IF admitted THEN taken \cup {s} ELSE taken,
                rest  |-> rest \ {s}]
        pass[n \in 0..Cardinality(candidates)] ==
            IF n = 0 THEN [taken |-> {}, rest |-> candidates]
            ELSE IF Cardinality(pass[n - 1].taken) >= limit THEN pass[n - 1]
            ELSE next(pass[n - 1].taken, pass[n - 1].rest)
    IN pass[Cardinality(candidates)].taken

(* _enforce_global_diversity: both layers share the keys; facts of a path  *)
(* come first.                                                             *)
EnforceGlobalDiversity(selections) ==
    LET first(s) == s.layer = "semantic" /\ s.key[1] = "path"
        before(s, t) ==
            \/ first(s) /\ ~first(t)
            \/ first(s) = first(t) /\ s.score > t.score
            \/ first(s) = first(t) /\ s.score = t.score /\ s.id < t.id
    IN {s \in selections :
            \/ s.pinned
            \/ Cardinality({t \in selections : t.key = s.key /\ before(t, s)}) < PerKey}

RenderTokens(selections) ==
    RenderHeader + TokensOf(selections) + RenderItem * Cardinality(selections)

(* _fit_render: records go before snapshots, the worst first, until the    *)
(* rendering fits.  The rendering is 0 when even the metadata do not fit.  *)
FitRender(selections, allocation) ==
    LET goes(s, t) ==
            \/ ~s.pinned /\ t.pinned
            \/ ~s.pinned /\ ~t.pinned
               /\ \/ s.score < t.score
                  \/ s.score = t.score /\ s.tokens > t.tokens
                  \/ s.score = t.score /\ s.tokens = t.tokens /\ s.id < t.id
            \/ s.pinned /\ t.pinned
               /\ \/ s.tokens > t.tokens
                  \/ s.tokens = t.tokens /\ s.layer = "episodic" /\ t.layer = "working"
        before  == [s \in selections |-> Cardinality({t \in selections : goes(t, s)})]
        kept(n) == {s \in selections : before[s] >= n}
        fits    == {n \in 0..Cardinality(selections) :
                        RenderTokens(kept(n)) <= allocation.retrieval}
    IN IF fits = {} THEN [kept |-> {}, rendered |-> 0]
       ELSE [kept |-> kept(Min(fits)), rendered |-> RenderTokens(kept(Min(fits)))]

(* Mutant: what the snapshot took of the layer is not subtracted. *)
LayerBudgetWhole(allocation, direct, layer) == allocation[layer]

(* The semantic layer takes its share before the episodic one, which gets  *)
(* what the recovery snapshot left of its budget.                          *)
LayerBudget(allocation, direct, layer) ==
    Max({0, allocation[layer] - TokensOf(InLayer(direct, layer))})

(* retrieve: working and episodic are the tokens of the two snapshots, 0   *)
(* for an episodic memory without context.                                 *)
Retrieve(working, episodic, active, changed, total, cap) ==
    LET allocation == Allocate(total, cap)
        direct     == DirectSelection("working", working, allocation.working) \cup
                      DirectSelection("episodic", episodic, allocation.episodic)
        candidates == RecordCandidates(active, changed)
        capacity   == Max({0, MaxResults - Cardinality(direct)})
        semantic   == SelectDiverse(InLayer(candidates, "semantic"),
                                    LayerBudget(allocation, direct, "semantic"),
                                    (capacity * 6 + 9) \div 10)
        recalled   == SelectDiverse(InLayer(candidates, "episodic"),
                                    LayerBudget(allocation, direct, "episodic"),
                                    Max({0, capacity - Cardinality(semantic)}))
        fitted     == FitRender(EnforceGlobalDiversity(direct \cup semantic \cup recalled),
                                allocation)
    IN [allocation |-> allocation,
        direct     |-> direct,
        offered    |-> direct \cup candidates # {},
        selections |-> fitted.kept,
        rendered   |-> fitted.rendered]
============================================================================
