--------------------------- MODULE ContextProofs ---------------------------
(* Proofs about Context, WorkingMemory and Retrieval.                      *)
EXTENDS Context, FiniteSetTheorems, WellFoundedInduction, TLAPS

----------------------------------------------------------------------------
(* The working memory: its shape, and what its operations keep. *)

Entry == [kind : EntryKind, name : Nat, at : 0..MaxSteps, pinned : BOOLEAN]

Promotion == [key : {"plan", "verification"} \X Nat, actions : SUBSET Nat]

Memories == [entries : SUBSET Entry, reads : SUBSET Path, promoted : Seq(Promotion),
             over : BOOLEAN]

(* One entry per key, as in the code's dictionary of items. *)
Keyed(w) == \A e, f \in w.entries : e.kind = f.kind /\ e.name = f.name => e = f

(* The phase p is promoted before the phase q, in n more promotions.       *)
Apart(p, q, n) ==
    /\ p.actions \cap q.actions = {}
    /\ p.key = q.key => n > MaxKeys

(* After n steps: the promoted phases are disjoint, and disjoint from the  *)
(* events of the phase that is open; no key is among the last MaxKeys when *)
(* it is promoted.                                                         *)
Phases(w, n) ==
    /\ \A i, j \in 1..Len(w.promoted) : i < j => Apart(w.promoted[i], w.promoted[j], j - i)
    /\ \A e \in w.entries : e.kind = "event" =>
            e.name <= n /\ \A i \in 1..Len(w.promoted) : e.name \notin w.promoted[i].actions
    /\ \A i \in 1..Len(w.promoted) : \A a \in w.promoted[i].actions : a <= n

Sound(w, n) ==
    /\ w \in Memories
    /\ IsFiniteSet(w.entries)
    /\ Keyed(w)
    /\ Phases(w, n)

ErrorNames(w) == {e.name : e \in Entries(w, "error")}

(* v differs from w only in entries, and its events are w's. *)
Edited(v, w) ==
    /\ v.reads = w.reads /\ v.promoted = w.promoted
    /\ v.over = w.over
    /\ \A e \in v.entries : e.kind = "event" => e \in w.entries

(* Entry kinds, one by one, so that the provers need not look at Rank. *)
LEMMA Kinds ==
    EntryKind = {"result", "event", "changed", "plan", "evidence", "read", "constraint", "error"}
BY DEF EntryKind, Rank

LEMMA Constants ==
    /\ ContextTokens \in Nat /\ MaxWorking \in Nat /\ MinWorking \in Nat
    /\ Path \subseteq Nat /\ PlanItem \subseteq Nat /\ Constraint \subseteq Nat
    /\ MaxSteps \in Nat
BY WorkingAssumption, ContextAssumption

(* An edit of the entries that adds no event leaves the phases as they are. *)
LEMMA EditedPhases ==
    ASSUME NEW w, NEW v, NEW n, Phases(w, n), Edited(v, w)
    PROVE  Phases(v, n)
<1>1. v.promoted = w.promoted /\ \A e \in v.entries : e.kind = "event" => e \in w.entries
  BY DEF Edited
<1> QED
  BY <1>1 DEF Phases

(* Drop takes an entry out. *)
LEMMA DropIs ==
    ASSUME NEW w, w \in Memories, NEW kind, NEW name
    PROVE  /\ Drop(w, kind, name) \in Memories
           /\ Drop(w, kind, name).entries = {e \in w.entries : ~(e.kind = kind /\ e.name = name)}
           /\ Edited(Drop(w, kind, name), w)
<1> DEFINE rest == {e \in w.entries : ~(e.kind = kind /\ e.name = name)}
<1>1. rest = {e \in w.entries : <<e.kind, e.name>> # <<kind, name>>}
  OBVIOUS
<1>2. Drop(w, kind, name) = [w EXCEPT !.entries = rest]
  BY <1>1 DEF Drop
<1>3. Drop(w, kind, name) = [entries |-> rest, reads |-> w.reads, promoted |-> w.promoted,
                             over |-> w.over]
  BY <1>2 DEF Memories
<1>4. rest \in SUBSET Entry
  BY DEF Memories
<1> HIDE DEF rest
<1>5. Drop(w, kind, name) \in Memories
  BY <1>3, <1>4 DEF Memories
<1>6. Edited(Drop(w, kind, name), w)
  BY <1>3 DEF Edited, rest
<1> QED
  BY <1>3, <1>5, <1>6 DEF rest

LEMMA DropSound ==
    ASSUME NEW w, NEW n, Sound(w, n), NEW kind, NEW name
    PROVE  Sound(Drop(w, kind, name), n)
<1>1. w \in Memories /\ IsFiniteSet(w.entries) /\ Keyed(w) /\ Phases(w, n)
  BY DEF Sound
<1> DEFINE v == Drop(w, kind, name)
<1>2. /\ v \in Memories /\ Edited(v, w) /\ v.entries \subseteq w.entries
  BY <1>1, DropIs
<1> HIDE DEF v
<1>3. IsFiniteSet(v.entries)
  BY <1>1, <1>2, FS_Subset
<1>4. Keyed(v)
  BY <1>1, <1>2 DEF Keyed
<1>5. Phases(v, n)
  BY <1>1, <1>2, EditedPhases
<1> QED
  BY <1>2, <1>3, <1>4, <1>5 DEF Sound, v

(* Upsert writes an entry over the one of its key. *)
LEMMA UpsertIs ==
    ASSUME NEW w, w \in Memories, NEW kind \in EntryKind, NEW name \in Nat,
           NEW pinned \in BOOLEAN, NEW step \in 0..MaxSteps
    PROVE  \E f \in Entry :
            /\ f.kind = kind /\ f.name = name /\ f.at = step
            /\ Upsert(w, kind, name, pinned, step) \in Memories
            /\ Upsert(w, kind, name, pinned, step).entries =
                    {e \in w.entries : ~(e.kind = kind /\ e.name = name)} \cup {f}
            /\ Upsert(w, kind, name, pinned, step).reads = w.reads
            /\ Upsert(w, kind, name, pinned, step).promoted = w.promoted
            /\ Upsert(w, kind, name, pinned, step).over = w.over
<1>1. PICK b \in BOOLEAN : b = (pinned \/ kind = "error")
  OBVIOUS
<1> DEFINE f == [kind |-> kind, name |-> name, at |-> step, pinned |-> b]
           rest == {e \in w.entries : ~(e.kind = kind /\ e.name = name)}
<1>2. f \in Entry /\ f.kind = kind /\ f.name = name /\ f.at = step
  BY DEF Entry
<1>3. Drop(w, kind, name).entries = rest
  BY DropIs
<1>4. Upsert(w, kind, name, pinned, step) = [w EXCEPT !.entries = rest \cup {f}]
  BY <1>1, <1>3 DEF Upsert
<1>5. rest \cup {f} \in SUBSET Entry
  BY <1>2 DEF Memories
<1> HIDE DEF f
<1>6. PICK new : new = rest \cup {f}
  OBVIOUS
<1>7. Upsert(w, kind, name, pinned, step) =
        [entries |-> new, reads |-> w.reads, promoted |-> w.promoted, over |-> w.over]
  BY <1>4, <1>6 DEF Memories
<1>8. Upsert(w, kind, name, pinned, step) \in Memories
  BY <1>5, <1>6, <1>7 DEF Memories
<1> f \in Entry
  BY <1>2
<1> WITNESS f \in Entry
<1> QED
  BY <1>2, <1>6, <1>7, <1>8

LEMMA UpsertSound ==
    ASSUME NEW w, NEW n, Sound(w, n), NEW kind \in EntryKind, kind # "event",
           NEW name \in Nat, NEW pinned \in BOOLEAN, NEW step \in 0..MaxSteps
    PROVE  Sound(Upsert(w, kind, name, pinned, step), n)
<1>1. w \in Memories /\ IsFiniteSet(w.entries) /\ Keyed(w) /\ Phases(w, n)
  BY DEF Sound
<1> DEFINE v == Upsert(w, kind, name, pinned, step)
           rest == {e \in w.entries : ~(e.kind = kind /\ e.name = name)}
<1>2. PICK f \in Entry :
        /\ f.kind = kind /\ f.name = name /\ v \in Memories
        /\ v.entries = rest \cup {f}
        /\ v.reads = w.reads /\ v.promoted = w.promoted /\ v.over = w.over
  BY <1>1, UpsertIs
<1> HIDE DEF v
<1>3. IsFiniteSet(v.entries)
  <2>1. rest \in SUBSET w.entries
    OBVIOUS
  <2>2. IsFiniteSet(rest)
    BY <1>1, <2>1, FS_Subset
  <2> HIDE DEF rest
  <2> QED
    BY <1>2, <2>2, FS_AddElement
<1>4. Keyed(v)
  BY <1>1, <1>2 DEF Keyed
<1>5. Edited(v, w)
  BY <1>2 DEF Edited
<1>6. Phases(v, n)
  BY <1>1, <1>5, EditedPhases
<1> QED
  BY <1>2, <1>3, <1>4, <1>6 DEF Sound, v

(* The event of a step is new: no phase promoted so far has it. *)
LEMMA EventSound ==
    ASSUME NEW w, NEW n \in Nat, Sound(w, n), n + 1 \in 0..MaxSteps
    PROVE  Sound(Upsert(w, "event", n + 1, FALSE, n + 1), n + 1)
<1>1. w \in Memories /\ IsFiniteSet(w.entries) /\ Keyed(w) /\ Phases(w, n)
  BY DEF Sound
<1>b. PICK no \in BOOLEAN : no = FALSE
  OBVIOUS
<1> DEFINE v == Upsert(w, "event", n + 1, no, n + 1)
           rest == {e \in w.entries : ~(e.kind = "event" /\ e.name = n + 1)}
<1>k. "event" \in EntryKind /\ n + 1 \in Nat
  BY Kinds
<1>2. PICK f \in Entry :
        /\ f.kind = "event" /\ f.name = n + 1 /\ v \in Memories
        /\ v.entries = rest \cup {f}
        /\ v.reads = w.reads /\ v.promoted = w.promoted /\ v.over = w.over
  BY <1>1, <1>k, UpsertIs
<1> HIDE DEF v
<1>3. IsFiniteSet(v.entries)
  <2>1. rest \in SUBSET w.entries
    OBVIOUS
  <2>2. IsFiniteSet(rest)
    BY <1>1, <2>1, FS_Subset
  <2> HIDE DEF rest
  <2> QED
    BY <1>2, <2>2, FS_AddElement
<1>4. Keyed(v)
  BY <1>1, <1>2 DEF Keyed
<1>5. Phases(v, n + 1)
  <2>1. \A i, j \in 1..Len(v.promoted) : i < j => Apart(v.promoted[i], v.promoted[j], j - i)
    BY <1>1, <1>2 DEF Phases
  <2>2. \A i \in 1..Len(v.promoted) : v.promoted[i] \in Promotion
    BY <1>2 DEF Memories
  <2>3. ASSUME NEW i \in 1..Len(v.promoted)
        PROVE  \A a \in v.promoted[i].actions : a <= n + 1 /\ a # n + 1
    <3>1. \A a \in v.promoted[i].actions : a <= n /\ a \in Nat
      BY <1>1, <1>2, <2>2 DEF Phases, Promotion
    <3> QED
      BY <3>1
  <2>4. ASSUME NEW e \in v.entries, e.kind = "event"
        PROVE  /\ e.name <= n + 1
               /\ \A i \in 1..Len(v.promoted) : e.name \notin v.promoted[i].actions
    <3>1. CASE e = f
      BY <3>1, <1>2, <2>3
    <3>2. CASE e \in w.entries
      <4>1. e.name <= n /\ e.name \in Nat
        BY <1>1, <3>2, <2>4 DEF Phases, Memories, Entry
      <4> QED
        BY <1>1, <1>2, <3>2, <2>4, <4>1 DEF Phases
    <3> QED
      BY <3>1, <3>2, <1>2
  <2> QED
    BY <2>1, <2>3, <2>4 DEF Phases
<1>6. Sound(v, n + 1)
  BY <1>2, <1>3, <1>4, <1>5 DEF Sound
<1> QED
  BY <1>6, <1>b DEF v

(* Evictions spare what is pinned and every error. *)
LEMMA RebalancedIs ==
    ASSUME NEW w, w \in Memories
    PROVE  /\ Rebalanced(w) \in Memories
           /\ Rebalanced(w).entries \subseteq w.entries
           /\ w.entries \ Rebalanced(w).entries \subseteq Evictable(w)
           /\ Rebalanced(w).reads = w.reads /\ Rebalanced(w).promoted = w.promoted
           /\ w.over => Rebalanced(w).over
           /\ ~Rebalanced(w).over => Rebalanced(w).entries \subseteq w.entries
<1> DEFINE choices == Evictable(w)
           before  == [e \in choices |-> Cardinality({f \in choices : EvictedBefore(f, e)})]
           left(n) == w.entries \ {e \in choices : before[e] < n}
           fits    == {n \in 0..Cardinality(choices) : Estimate(left(n)) <= WorkingBudget}
<1>1. PICK least : least = Min(fits)
  OBVIOUS
<1>2. PICK gone : gone = {e \in choices : before[e] < least}
  OBVIOUS
<1>3. PICK new : new = w.entries \ gone
  OBVIOUS
<1>4. Rebalanced(w) = IF fits = {} THEN [w EXCEPT !.over = TRUE] ELSE [w EXCEPT !.entries = new]
  BY <1>1, <1>2, <1>3 DEF Rebalanced
<1>5. gone \subseteq Evictable(w)
  BY <1>2
<1> HIDE DEF choices, before, left, fits
<1>6. new \in SUBSET Entry /\ new \subseteq w.entries /\ w.entries \ new \subseteq Evictable(w)
  BY <1>3, <1>5 DEF Memories
<1>7. CASE fits = {}
  <2>1. PICK b \in BOOLEAN : b = TRUE
    OBVIOUS
  <2>2. Rebalanced(w) = [entries |-> w.entries, reads |-> w.reads, promoted |-> w.promoted,
                         over |-> b]
    BY <1>4, <1>7, <2>1 DEF Memories
  <2>3. Rebalanced(w) \in Memories
    BY <2>2 DEF Memories
  <2> QED
    BY <2>1, <2>2, <2>3
<1>8. CASE fits # {}
  <2>2. Rebalanced(w) = [entries |-> new, reads |-> w.reads, promoted |-> w.promoted,
                         over |-> w.over]
    BY <1>4, <1>8 DEF Memories
  <2>3. Rebalanced(w) \in Memories
    BY <2>2, <1>6 DEF Memories
  <2> QED
    BY <1>6, <2>2, <2>3
<1> QED
  BY <1>7, <1>8

LEMMA RebalancedSound ==
    ASSUME NEW w, NEW n, Sound(w, n)
    PROVE  /\ Sound(Rebalanced(w), n)
           /\ ErrorNames(Rebalanced(w)) = ErrorNames(w)
           /\ Rebalanced(w).reads = w.reads
           /\ Rebalanced(w).promoted = w.promoted
           /\ w.over => Rebalanced(w).over
<1>1. w \in Memories /\ IsFiniteSet(w.entries) /\ Keyed(w) /\ Phases(w, n)
  BY DEF Sound
<1> DEFINE v == Rebalanced(w)
<1>2. /\ v \in Memories /\ v.entries \subseteq w.entries
      /\ w.entries \ v.entries \subseteq Evictable(w)
      /\ v.reads = w.reads /\ v.promoted = w.promoted /\ (w.over => v.over)
  BY <1>1, RebalancedIs
<1> HIDE DEF v
<1>3. IsFiniteSet(v.entries)
  BY <1>1, <1>2, FS_Subset
<1>4. Keyed(v)
  BY <1>1, <1>2 DEF Keyed
<1>5. Phases(v, n)
  BY <1>1, <1>2 DEF Phases
<1>6. Entries(v, "error") = Entries(w, "error")
  BY <1>2 DEF Entries, Evictable
<1>7. ErrorNames(v) = ErrorNames(w)
  BY <1>6 DEF ErrorNames
<1> QED
  BY <1>2, <1>3, <1>4, <1>5, <1>7 DEF Sound, v

(* What an observation keeps of the error names. *)
LEMMA OtherErrors ==
    ASSUME NEW w, w \in Memories, NEW kind \in EntryKind, kind # "error", NEW name \in Nat,
           NEW pinned \in BOOLEAN, NEW step \in 0..MaxSteps
    PROVE  /\ ErrorNames(Upsert(w, kind, name, pinned, step)) = ErrorNames(w)
           /\ ErrorNames(Drop(w, kind, name)) = ErrorNames(w)
<1> DEFINE v == Upsert(w, kind, name, pinned, step)
           d == Drop(w, kind, name)
           rest == {e \in w.entries : ~(e.kind = kind /\ e.name = name)}
<1>1. PICK f \in Entry : f.kind = kind /\ f.name = name /\ v.entries = rest \cup {f}
  BY UpsertIs
<1>2. d.entries = rest
  BY DropIs
<1> HIDE DEF v, d
<1>3. Entries(v, "error") = Entries(w, "error") /\ Entries(d, "error") = Entries(w, "error")
  BY <1>1, <1>2 DEF Entries
<1> QED
  BY <1>3 DEF ErrorNames, v, d

LEMMA ThisError ==
    ASSUME NEW w, w \in Memories, NEW name \in Nat, NEW step \in 0..MaxSteps
    PROVE  /\ ErrorNames(Upsert(w, "error", name, TRUE, step)) = ErrorNames(w) \cup {name}
           /\ ErrorNames(Drop(w, "error", name)) = ErrorNames(w) \ {name}
<1>b. PICK yes \in BOOLEAN : yes = TRUE
  OBVIOUS
<1> DEFINE v == Upsert(w, "error", name, yes, step)
           d == Drop(w, "error", name)
           rest == {e \in w.entries : ~(e.kind = "error" /\ e.name = name)}
<1>k. "error" \in EntryKind
  BY Kinds
<1>1. PICK f \in Entry : f.kind = "error" /\ f.name = name /\ v.entries = rest \cup {f}
  BY <1>k, UpsertIs
<1>2. d.entries = rest
  BY DropIs
<1> HIDE DEF v, d
<1>3. Entries(v, "error") = Entries(d, "error") \cup {f}
  BY <1>1, <1>2 DEF Entries
<1>4. Entries(d, "error") = {e \in Entries(w, "error") : e.name # name}
  BY <1>2 DEF Entries
<1>5. ErrorNames(d) = ErrorNames(w) \ {name}
  BY <1>4 DEF ErrorNames
<1>6. ErrorNames(v) = ErrorNames(d) \cup {name}
  BY <1>3, <1>1 DEF ErrorNames
<1>7. ErrorNames(v) = ErrorNames(w) \cup {name}
  BY <1>5, <1>6 DEF ErrorNames
<1> QED
  BY <1>5, <1>7, <1>b DEF v, d

----------------------------------------------------------------------------
(* The parts of an observation. *)

Calls == [tool : Tool, path : Path \cup {None}]

LEMMA Tools ==
    /\ Tool = {"read_file", "run_tests", "update_plan", "write_file"}
    /\ DOMAIN ToolName = 1..4
<1>1. DOMAIN ToolName = 1..4
  BY DEF ToolName
<1>2. Range(ToolName) = {ToolName[1], ToolName[2], ToolName[3], ToolName[4]}
  BY <1>1 DEF Range
<1> QED
  BY <1>1, <1>2 DEF Tool, ToolName

(* A tool's number is its own. *)
LEMMA Numbers ==
    ASSUME NEW t \in Tool
    PROVE  Number(t) \in Nat /\ ToolName[Number(t)] = t
<1>1. \E n \in DOMAIN ToolName : ToolName[n] = t
  BY Tools DEF ToolName
<1>2. Number(t) \in DOMAIN ToolName /\ ToolName[Number(t)] = t
  BY <1>1 DEF Number
<1> QED
  BY <1>2, Tools

LEMMA InvalidatedIs ==
    ASSUME NEW w, NEW n, Sound(w, n), NEW call, NEW ok \in BOOLEAN, call.path \in Nat \/ call.tool # "write_file"
    PROVE  /\ Sound(Invalidated(w, call, ok), n)
           /\ ErrorNames(Invalidated(w, call, ok)) = ErrorNames(w)
           /\ Invalidated(w, call, ok).over = w.over
           /\ Invalidated(w, call, ok).promoted = w.promoted
           /\ Invalidated(w, call, ok).reads =
                IF call.tool = "write_file" /\ ok THEN w.reads \ {call.path} ELSE w.reads
<1>1. CASE ~(call.tool = "write_file" /\ ok)
  BY <1>1 DEF Invalidated
<1>2. CASE call.tool = "write_file" /\ ok
  <2> DEFINE d == Drop(w, "read", call.path)
  <2>1. w \in Memories /\ Phases(w, n)
    BY DEF Sound
  <2>2. Sound(d, n) /\ d \in Memories
    BY DropSound DEF Sound
  <2>3. /\ d.reads = w.reads /\ d.over = w.over /\ d.promoted = w.promoted
        /\ d.entries \subseteq w.entries
    BY <2>1, DropIs DEF Edited
  <2>4. ErrorNames(d) = ErrorNames(w)
    <3>1. d.entries = {e \in w.entries : ~(e.kind = "read" /\ e.name = call.path)}
      BY <2>1, DropIs
    <3> HIDE DEF d
    <3>2. Entries(d, "error") = Entries(w, "error")
      BY <3>1 DEF Entries
    <3> QED
      BY <3>2 DEF ErrorNames
  <2> HIDE DEF d
  <2>5. PICK left : left = d.reads \ {call.path}
    OBVIOUS
  <2>6. Invalidated(w, call, ok) = [d EXCEPT !.reads = left]
    BY <1>2, <2>5 DEF Invalidated, d
  <2>7. Invalidated(w, call, ok) = [entries |-> d.entries, reads |-> left,
                                    promoted |-> d.promoted, over |-> d.over]
    BY <2>2, <2>6 DEF Memories
  <2>8. Invalidated(w, call, ok) \in Memories
    BY <2>2, <2>5, <2>7 DEF Memories
  <2>9. Sound(Invalidated(w, call, ok), n)
    BY <2>2, <2>7, <2>8 DEF Sound, Keyed, Phases
  <2>10. ErrorNames(Invalidated(w, call, ok)) = ErrorNames(d)
    BY <2>7 DEF ErrorNames, Entries
  <2>11. Invalidated(w, call, ok).reads = w.reads \ {call.path}
    BY <2>3, <2>5, <2>7
  <2>12. Invalidated(w, call, ok).over = w.over /\ Invalidated(w, call, ok).promoted = w.promoted
    BY <2>3, <2>7
  <2> QED
    BY <1>2, <2>4, <2>9, <2>10, <2>11, <2>12
<1> QED
  BY <1>1, <1>2

LEMMA UpsertKeeps ==
    ASSUME NEW w, NEW n, Sound(w, n), NEW kind \in EntryKind, kind \notin {"event", "error"},
           NEW name \in Nat, NEW pinned \in BOOLEAN, NEW step \in 0..MaxSteps
    PROVE  /\ Sound(Upsert(w, kind, name, pinned, step), n)
           /\ ErrorNames(Upsert(w, kind, name, pinned, step)) = ErrorNames(w)
           /\ Upsert(w, kind, name, pinned, step).over = w.over
           /\ Upsert(w, kind, name, pinned, step).promoted = w.promoted
           /\ Upsert(w, kind, name, pinned, step).reads = w.reads
<1>1. w \in Memories
  BY DEF Sound
<1>2. ErrorNames(Upsert(w, kind, name, pinned, step)) = ErrorNames(w)
  BY <1>1, OtherErrors
<1>3. /\ Upsert(w, kind, name, pinned, step).over = w.over
      /\ Upsert(w, kind, name, pinned, step).promoted = w.promoted
      /\ Upsert(w, kind, name, pinned, step).reads = w.reads
  BY <1>1, UpsertIs
<1> QED
  BY <1>2, <1>3, UpsertSound

LEMMA LoggedIs ==
    ASSUME NEW w, NEW n \in Nat, Sound(w, n), n + 1 \in 0..MaxSteps,
           NEW call, call.tool \in Tool
    PROVE  /\ Sound(Logged(w, call, n + 1), n + 1)
           /\ ErrorNames(Logged(w, call, n + 1)) = ErrorNames(w)
           /\ Logged(w, call, n + 1).over = w.over
           /\ Logged(w, call, n + 1).promoted = w.promoted
           /\ Logged(w, call, n + 1).reads = w.reads
<1>b. PICK no \in BOOLEAN : no = FALSE
  OBVIOUS
<1> DEFINE v == Upsert(w, "event", n + 1, no, n + 1)
           u == Upsert(v, "result", Number(call.tool), no, n + 1)
<1>k. {"event", "result"} \subseteq EntryKind /\ n + 1 \in Nat /\ Number(call.tool) \in Nat
  BY Kinds, Numbers
<1>1. w \in Memories
  BY DEF Sound
<1>2. Sound(v, n + 1)
  BY EventSound, <1>b
<1>3. ErrorNames(v) = ErrorNames(w)
  BY <1>1, <1>k, OtherErrors
<1>4. v.over = w.over /\ v.promoted = w.promoted /\ v.reads = w.reads
  BY <1>1, <1>k, UpsertIs
<1> HIDE DEF v
<1>5. /\ Sound(u, n + 1) /\ ErrorNames(u) = ErrorNames(v)
      /\ u.over = v.over /\ u.promoted = v.promoted /\ u.reads = v.reads
  BY <1>2, <1>k, UpsertKeeps
<1>6. Logged(w, call, n + 1) = u
  BY <1>b DEF Logged, v, u
<1> QED
  BY <1>3, <1>4, <1>5, <1>6

LEMMA ReadNotedIs ==
    ASSUME NEW w, NEW n, Sound(w, n), NEW step \in 0..MaxSteps, NEW ok \in BOOLEAN,
           NEW call, call.tool = "read_file" => call.path \in Path
    PROVE  /\ Sound(ReadNoted(w, call, ok, step), n)
           /\ ErrorNames(ReadNoted(w, call, ok, step)) = ErrorNames(w)
           /\ ReadNoted(w, call, ok, step).over = w.over
           /\ ReadNoted(w, call, ok, step).promoted = w.promoted
           /\ ReadNoted(w, call, ok, step).reads =
                IF call.tool = "read_file" /\ ok THEN w.reads \cup {call.path} ELSE w.reads
<1>1. CASE ~(call.tool = "read_file" /\ ok)
  BY <1>1 DEF ReadNoted
<1>2. CASE call.tool = "read_file" /\ ok
  <2>1. w \in Memories
    BY DEF Sound
  <2>2. PICK more : more = w.reads \cup {call.path}
    OBVIOUS
  <2>3. more \in SUBSET Path /\ call.path \in Nat
    BY <1>2, <2>1, <2>2, Constants DEF Memories
  <2>4. PICK v : v = [w EXCEPT !.reads = more]
    OBVIOUS
  <2>5. v = [entries |-> w.entries, reads |-> more, promoted |-> w.promoted, over |-> w.over]
    BY <2>1, <2>4 DEF Memories
  <2>6. v \in Memories
    BY <2>1, <2>3, <2>5 DEF Memories
  <2>7. Sound(v, n)
    BY <2>5, <2>6 DEF Sound, Keyed, Phases
  <2>8. ErrorNames(v) = ErrorNames(w)
    BY <2>5 DEF ErrorNames, Entries
  <2>9. PICK no \in BOOLEAN : no = FALSE
    OBVIOUS
  <2> DEFINE u == Upsert(v, "read", call.path, no, step)
  <2>10. "read" \in EntryKind
    BY Kinds
  <2>11. /\ Sound(u, n) /\ ErrorNames(u) = ErrorNames(v)
         /\ u.over = v.over /\ u.promoted = v.promoted /\ u.reads = v.reads
    BY <2>3, <2>7, <2>10, UpsertKeeps
  <2>12. ReadNoted(w, call, ok, step) = u
    BY <1>2, <2>2, <2>4, <2>9 DEF ReadNoted
  <2> HIDE DEF u
  <2> QED
    BY <1>2, <2>2, <2>5, <2>8, <2>11, <2>12
<1> QED
  BY <1>1, <1>2

LEMMA EvidenceNotedIs ==
    ASSUME NEW w, NEW n, Sound(w, n), NEW step \in 0..MaxSteps, NEW ok \in BOOLEAN,
           NEW matches \in BOOLEAN
    PROVE  /\ Sound(EvidenceNoted(w, ok, matches, step), n)
           /\ ErrorNames(EvidenceNoted(w, ok, matches, step)) = ErrorNames(w)
           /\ EvidenceNoted(w, ok, matches, step).over = w.over
           /\ EvidenceNoted(w, ok, matches, step).promoted = w.promoted
           /\ EvidenceNoted(w, ok, matches, step).reads = w.reads
<1>1. PICK no \in BOOLEAN : no = FALSE
  OBVIOUS
<1> DEFINE u == Upsert(w, "evidence", 1, no, step)
<1>2. "evidence" \in EntryKind /\ 1 \in Nat
  BY Kinds
<1>3. /\ Sound(u, n) /\ ErrorNames(u) = ErrorNames(w)
      /\ u.over = w.over /\ u.promoted = w.promoted /\ u.reads = w.reads
  BY <1>2, UpsertKeeps
<1>4. EvidenceNoted(w, ok, matches, step) = u \/ EvidenceNoted(w, ok, matches, step) = w
  BY <1>1 DEF EvidenceNoted
<1> HIDE DEF u
<1> QED
  BY <1>3, <1>4

LEMMA ErrorNotedIs ==
    ASSUME NEW w, NEW n, Sound(w, n), NEW step \in 0..MaxSteps, NEW ok \in BOOLEAN,
           NEW call, call.tool \in Tool
    PROVE  /\ Sound(ErrorNoted(w, call, ok, step), n)
           /\ ok => ErrorNames(ErrorNoted(w, call, ok, step)) =
                        ErrorNames(w) \ {Number(call.tool)}
           /\ ~ok => ErrorNames(ErrorNoted(w, call, ok, step)) =
                        ErrorNames(w) \cup {Number(call.tool)}
           /\ ErrorNoted(w, call, ok, step).over = w.over
           /\ ErrorNoted(w, call, ok, step).promoted = w.promoted
           /\ ErrorNoted(w, call, ok, step).reads = w.reads
<1>1. w \in Memories
  BY DEF Sound
<1>2. PICK yes \in BOOLEAN : yes = TRUE
  OBVIOUS
<1>k. "error" \in EntryKind /\ "error" # "event" /\ Number(call.tool) \in Nat
  BY Kinds, Numbers
<1> DEFINE u == Upsert(w, "error", Number(call.tool), yes, step)
           d == Drop(w, "error", Number(call.tool))
<1>3. Sound(u, n)
  BY <1>k, UpsertSound
<1>4. u.over = w.over /\ u.promoted = w.promoted /\ u.reads = w.reads
  BY <1>1, <1>k, UpsertIs
<1>5. Sound(d, n)
  BY DropSound
<1>6. d.over = w.over /\ d.promoted = w.promoted /\ d.reads = w.reads
  BY <1>1, DropIs DEF Edited
<1>7. /\ ErrorNames(u) = ErrorNames(w) \cup {Number(call.tool)}
      /\ ErrorNames(d) = ErrorNames(w) \ {Number(call.tool)}
  BY <1>1, <1>2, <1>k, ThisError
<1>8. ErrorNoted(w, call, ok, step) = IF ok THEN d ELSE u
  BY <1>2 DEF ErrorNoted
<1> HIDE DEF u, d
<1> QED
  BY <1>3, <1>4, <1>5, <1>6, <1>7, <1>8

LEMMA NamedFinite ==
    ASSUME NEW S, NEW names, IsFiniteSet(names), \A e \in S : e.name \in names,
           \A e, f \in S : e.name = f.name => e = f
    PROVE  IsFiniteSet(S)
<1> DEFINE g == [e \in S |-> e.name]
<1>1. g \in [S -> names]
  OBVIOUS
<1>2. \A e, f \in S : g[e] = g[f] => e = f
  OBVIOUS
<1> HIDE DEF g
<1>3. g \in Injection(S, names)
  BY <1>1, <1>2 DEF Injection, IsInjective
<1> QED
  BY <1>3, FS_Injection

(* The entries of one kind are replaced together. *)
Replaced(w, kind, S) == [w EXCEPT !.entries = {e \in w.entries : e.kind # kind} \cup S]

LEMMA ReplacedSound ==
    ASSUME NEW w, NEW n, Sound(w, n), NEW kind \in EntryKind, kind \notin {"event", "error"},
           NEW S \in SUBSET Entry, NEW names, IsFiniteSet(names),
           \A e \in S : e.kind = kind /\ e.name \in names,
           \A e, f \in S : e.name = f.name => e = f,
           NEW v, v = Replaced(w, kind, S)
    PROVE  /\ Sound(v, n)
           /\ ErrorNames(v) = ErrorNames(w)
           /\ v.over = w.over /\ v.promoted = w.promoted /\ v.reads = w.reads
<1>1. w \in Memories /\ IsFiniteSet(w.entries) /\ Keyed(w) /\ Phases(w, n)
  BY DEF Sound
<1>2. PICK rest : rest = {e \in w.entries : e.kind # kind}
  OBVIOUS
<1>3. v = [entries |-> rest \cup S, reads |-> w.reads, promoted |-> w.promoted, over |-> w.over]
  BY <1>1, <1>2 DEF Memories, Replaced
<1>4. rest \in SUBSET w.entries /\ rest \cup S \in SUBSET Entry
  BY <1>1, <1>2 DEF Memories
<1>5. v \in Memories
  BY <1>1, <1>3, <1>4 DEF Memories
<1>6. IsFiniteSet(rest) /\ IsFiniteSet(S)
  BY <1>1, <1>4, FS_Subset, NamedFinite
<1>7. IsFiniteSet(v.entries)
  <2>1. IsFiniteSet(rest \cup S)
    BY <1>6, FS_Union
  <2> QED
    BY <1>3, <2>1
<1>8. Keyed(v)
  BY <1>1, <1>2, <1>3 DEF Keyed
<1>9. Edited(v, w)
  BY <1>2, <1>3 DEF Edited
<1>10. Phases(v, n)
  BY <1>1, <1>9, EditedPhases
<1>11. Entries(v, "error") = Entries(w, "error")
  BY <1>2, <1>3 DEF Entries
<1>12. ErrorNames(v) = ErrorNames(w)
  BY <1>11 DEF ErrorNames
<1> QED
  BY <1>3, <1>5, <1>7, <1>8, <1>10, <1>12 DEF Sound

LEMMA LeastNatural ==
    ASSUME NEW S \in SUBSET Nat, S # {}
    PROVE  Min(S) \in S /\ \A x \in S : Min(S) <= x
<1>1. \E x \in S : \A y \in S : x <= y
  <2>1. IsWellFoundedOn(OpToRel(<, Nat), Nat)
    BY NatLessThanWellFounded
  <2>2. PICK x \in S : \A y \in S : ~(<<y, x>> \in OpToRel(<, Nat))
    BY <2>1, WFMin
  <2>3. \A y \in S : ~(y < x)
    BY <2>2 DEF OpToRel
  <2> QED
    BY <2>3
<1> QED
  BY <1>1 DEF Min

(* An eviction that succeeds leaves what fits the budget. *)
LEMMA RebalancedFits ==
    ASSUME NEW w, w \in Memories, IsFiniteSet(w.entries)
    PROVE  Rebalanced(w).over \/ Estimate(Rebalanced(w).entries) <= WorkingBudget
<1> DEFINE choices == Evictable(w)
           before  == [e \in choices |-> Cardinality({f \in choices : EvictedBefore(f, e)})]
           left(n) == w.entries \ {e \in choices : before[e] < n}
           fits    == {n \in 0..Cardinality(choices) : Estimate(left(n)) <= WorkingBudget}
<1>1. PICK least : least = Min(fits)
  OBVIOUS
<1>2. PICK new : new = left(least)
  OBVIOUS
<1>3. Rebalanced(w) = IF fits = {} THEN [w EXCEPT !.over = TRUE] ELSE [w EXCEPT !.entries = new]
  BY <1>1, <1>2 DEF Rebalanced
<1>4. fits \in SUBSET Nat
  <2>1. choices \in SUBSET w.entries
    BY DEF Evictable
  <2>2. Cardinality(choices) \in Nat
    BY <2>1, FS_Subset, FS_CardinalityType
  <2> HIDE DEF choices
  <2> QED
    BY <2>2
<1>5. CASE fits = {}
  <2>1. Rebalanced(w) = [w EXCEPT !.over = TRUE]
    BY <1>3, <1>5
  <2> QED
    BY <2>1 DEF Memories
<1>6. CASE fits # {}
  <2>1. least \in fits
    BY <1>1, <1>4, <1>6, LeastNatural
  <2>2. Estimate(new) <= WorkingBudget
    BY <1>2, <2>1
  <2>3. Rebalanced(w) = [w EXCEPT !.entries = new]
    BY <1>3, <1>6
  <2> HIDE DEF fits, left, choices, before
  <2>4. Rebalanced(w).entries = new
    BY <2>3 DEF Memories
  <2> QED
    BY <2>2, <2>4
<1> QED
  BY <1>5, <1>6

Fits(w) == w.over \/ Estimate(w.entries) <= WorkingBudget

LEMMA SyncChangedPathsIs ==
    ASSUME NEW w, NEW n, Sound(w, n), NEW step \in 0..MaxSteps, NEW changes \in SUBSET Path
    PROVE  /\ Sound(SyncChangedPaths(w, changes, step), n)
           /\ ErrorNames(SyncChangedPaths(w, changes, step)) = ErrorNames(w)
           /\ SyncChangedPaths(w, changes, step).promoted = w.promoted
           /\ SyncChangedPaths(w, changes, step).reads = w.reads
           /\ Fits(SyncChangedPaths(w, changes, step))
<1>1. PICK no \in BOOLEAN : no = FALSE
  OBVIOUS
<1> DEFINE S == {[kind |-> "changed", name |-> p, at |-> step, pinned |-> no] : p \in changes}
<1>2. IsFiniteSet(changes) /\ changes \subseteq Nat
  BY FS_Subset, WorkingAssumption
<1>3. "changed" \in EntryKind /\ "changed" \notin {"event", "error"}
  BY Kinds
<1>4. S \in SUBSET Entry
  BY <1>2, <1>3 DEF Entry
<1>5. \A e \in S : e.kind = "changed" /\ e.name \in changes
  OBVIOUS
<1>6. \A e, f \in S : e.name = f.name => e = f
  OBVIOUS
<1>7. PICK v : v = Replaced(w, "changed", S)
  OBVIOUS
<1>8. SyncChangedPaths(w, changes, step) = Rebalanced(v)
  BY <1>1, <1>7 DEF SyncChangedPaths, Replaced
<1> HIDE DEF S
<1>9. /\ Sound(v, n) /\ ErrorNames(v) = ErrorNames(w)
      /\ v.promoted = w.promoted /\ v.reads = w.reads
  BY <1>2, <1>3, <1>4, <1>5, <1>6, <1>7, ReplacedSound
<1>10. Fits(Rebalanced(v))
  BY <1>9, RebalancedFits DEF Sound, Fits
<1> QED
  BY <1>8, <1>9, <1>10, RebalancedSound

(* v is w with a promotion more, and with the entries in rest left.        *)
Extends(v, w, key, actions, rest) ==
    /\ actions \in SUBSET PhaseActions(w) /\ rest \in SUBSET w.entries
    /\ \A e \in w.entries : e.kind = "error" => e \in rest
    /\ \A e \in rest : e.kind = "event" => e.name \notin actions
    /\ v = [entries |-> rest, reads |-> w.reads,
            promoted |-> Append(w.promoted, [key |-> key, actions |-> actions]),
            over |-> w.over]

(* A promotion whose key is not remembered takes events of the open phase, *)
(* which ends, or nothing.                                                 *)
LEMMA PromotionSound ==
    ASSUME NEW w, NEW n, Sound(w, n), NEW key \in {"plan", "verification"} \X Nat,
           key \notin Recalled(w), NEW v, NEW actions, NEW rest, Extends(v, w, key, actions, rest)
    PROVE  Sound(v, n) /\ ErrorNames(v) = ErrorNames(w)
<1>0. /\ actions \in SUBSET PhaseActions(w) /\ rest \in SUBSET w.entries
      /\ \A e \in w.entries : e.kind = "error" => e \in rest
      /\ \A e \in rest : e.kind = "event" => e.name \notin actions
  BY DEF Extends
<1>1. w \in Memories /\ IsFiniteSet(w.entries) /\ Keyed(w) /\ Phases(w, n)
  BY DEF Sound
<1>2. PICK old, q : /\ old = w.promoted /\ q = [key |-> key, actions |-> actions]
                    /\ old \in Seq(Promotion)
  BY <1>1 DEF Memories
<1>3. actions \in SUBSET Nat
  BY <1>0, <1>1 DEF PhaseActions, Entries, Memories, Entry
<1>4. q \in Promotion /\ q.key = key /\ q.actions = actions
  BY <1>2, <1>3 DEF Promotion
<1> DEFINE L == Len(old)
<1>5. /\ v = [entries |-> rest, reads |-> w.reads, promoted |-> Append(old, q), over |-> w.over]
      /\ v.promoted = Append(old, q) /\ v.entries = rest /\ v.reads = w.reads /\ v.over = w.over
  <2>1. v = [entries |-> rest, reads |-> w.reads,
             promoted |-> Append(w.promoted, [key |-> key, actions |-> actions]), over |-> w.over]
    BY DEF Extends
  <2>2. v = [entries |-> rest, reads |-> w.reads, promoted |-> Append(old, q), over |-> w.over]
    BY <1>2, <2>1, Zenon
  <2>3. PICK all : all = Append(old, q)
    OBVIOUS
  <2>4. v = [entries |-> rest, reads |-> w.reads, promoted |-> all, over |-> w.over]
    BY <2>2, <2>3, Zenon
  <2>5. /\ v.promoted = all /\ v.entries = rest /\ v.reads = w.reads /\ v.over = w.over
    BY <2>4
  <2> QED BY <2>2, <2>3, <2>5, Zenon
<1>6. /\ Append(old, q) \in Seq(Promotion) /\ L \in Nat /\ Len(v.promoted) = L + 1
      /\ v.promoted[L + 1] = q /\ \A i \in 1..L : v.promoted[i] = old[i]
  BY <1>2, <1>4, <1>5
<1>7. v \in Memories
  BY <1>0, <1>1, <1>5, <1>6 DEF Memories
<1>8. \A a \in actions : a <= n /\ \A i \in 1..L : a \notin old[i].actions
  BY <1>0, <1>1, <1>2 DEF PhaseActions, Entries, Phases
<1>9. ASSUME NEW i \in 1..L PROVE Apart(old[i], q, (L + 1) - i)
  <2>1. old[i].key = key => (L + 1) - i > MaxKeys
    <3>1. SUFFICES ASSUME old[i].key = key, ~((L + 1) - i > MaxKeys) PROVE FALSE
      OBVIOUS
    <3>2. MaxKeys \in Nat
      BY WorkingAssumption
    <3>3. i \in DOMAIN old /\ i > L - MaxKeys
      BY <1>6, <3>1, <3>2
    <3>4. key \in Recalled(w)
      BY <1>2, <3>1, <3>3 DEF Recalled
    <3> QED BY <3>4
  <2> QED BY <1>4, <1>8, <2>1 DEF Apart
<1> HIDE DEF L
<1>10. ASSUME NEW i \in 1..(L + 1), NEW j \in 1..(L + 1), i < j
       PROVE  Apart(v.promoted[i], v.promoted[j], j - i)
  <2>1. CASE j = L + 1
    <3>1. i \in 1..L
      BY <1>6, <1>10, <2>1
    <3> QED BY <1>6, <1>9, <2>1, <3>1
  <2>2. CASE j # L + 1
    <3>1. i \in 1..L /\ j \in 1..L
      BY <1>6, <1>10, <2>2
    <3> QED BY <1>1, <1>2, <1>6, <1>10, <3>1 DEF Phases, L
  <2> QED BY <2>1, <2>2
<1>11. \A i \in 1..(L + 1) : i \in 1..L \/ i = L + 1
  BY <1>6
<1>12. ASSUME NEW e \in rest, e.kind = "event"
       PROVE  e.name <= n /\ \A i \in 1..(L + 1) : e.name \notin v.promoted[i].actions
  <2>1. e.name <= n /\ \A i \in 1..L : e.name \notin old[i].actions
    BY <1>0, <1>1, <1>2, <1>12 DEF Phases, L
  <2> QED BY <1>0, <1>4, <1>6, <1>11, <1>12, <2>1
<1>13. \A i \in 1..(L + 1) : \A a \in v.promoted[i].actions : a <= n
  <2>1. \A i \in 1..L : \A a \in old[i].actions : a <= n
    BY <1>1, <1>2 DEF Phases, L
  <2> QED BY <1>4, <1>6, <1>8, <1>11, <2>1
<1>14. Phases(v, n)
  BY <1>5, <1>6, <1>10, <1>12, <1>13 DEF Phases
<1>15. IsFiniteSet(v.entries) /\ Keyed(v)
  BY <1>0, <1>1, <1>5, FS_Subset DEF Keyed
<1>16. Entries(v, "error") = Entries(w, "error")
  BY <1>0, <1>5 DEF Entries
<1> QED BY <1>7, <1>14, <1>15, <1>16 DEF Sound, ErrorNames

(* v promotes some of the open phase of w. *)
Promotes(v, w, n) ==
    /\ Sound(v, n) /\ ErrorNames(v) = ErrorNames(w)
    /\ v.reads = w.reads /\ v.over = w.over

LEMMA PromoteItemIs ==
    ASSUME NEW w, NEW n, Sound(w, n), NEW i \in Nat
    PROVE  Promotes(PromoteItem(w, i), w, n)
<1>1. CASE <<"plan", i>> \in Recalled(w)
  BY <1>1 DEF PromoteItem, Promotes
<1>2. CASE <<"plan", i>> \notin Recalled(w)
  <2> DEFINE v == PromoteItem(w, i)
  <2>1. PICK key, actions, rest, all :
          /\ key = <<"plan", i>> /\ actions = PhaseActions(w)
          /\ rest = {e \in w.entries : e.kind # "event"}
          /\ all = Append(w.promoted, [key |-> key, actions |-> actions])
    OBVIOUS
  <2>2. w \in Memories
    BY DEF Sound
  <2>3. v = [[w EXCEPT !.promoted = all] EXCEPT !.entries = rest]
    <3>1. PICK p : p = QueuePromotion(w, key, actions)
      OBVIOUS
    <3>2. p = [w EXCEPT !.promoted = all] /\ p.entries = w.entries
      BY <2>1, <2>2, <3>1 DEF QueuePromotion, Memories
    <3>3. v = [p EXCEPT !.entries = {e \in @ : e.kind # "event"}]
      BY <1>2, <2>1, <3>1 DEF PromoteItem
    <3> QED BY <2>1, <3>2, <3>3
  <2>4. v = [entries |-> rest, reads |-> w.reads, promoted |-> all, over |-> w.over]
    BY <2>2, <2>3 DEF Memories
  <2> HIDE DEF v
  <2>5. key \in {"plan", "verification"} \X Nat /\ key \notin Recalled(w)
    BY <1>2, <2>1
  <2>6. Extends(v, w, key, actions, rest)
    BY <2>1, <2>4 DEF Extends
  <2>7. v.reads = w.reads /\ v.over = w.over
    BY <2>4
  <2>8. Sound(v, n) /\ ErrorNames(v) = ErrorNames(w)
    BY <2>5, <2>6, PromotionSound
  <2>9. Promotes(v, w, n)
    BY <2>7, <2>8 DEF Promotes
  <2> QED BY <2>9 DEF v
<1> QED BY <1>1, <1>2

(* g[k] is the working memory after the items up to k. *)
Loop(g, w, completed, top) ==
    g = [k \in 0..top |-> IF k = 0 THEN w
                          ELSE IF k \in completed THEN PromoteItem(g[k - 1], k) ELSE g[k - 1]]

LEMMA LoopGrows ==
    ASSUME NEW w, NEW completed, NEW m \in Nat, NEW h, Loop(h, w, completed, m)
    PROVE  \E g : Loop(g, w, completed, m + 1)
<1> DEFINE last == IF m + 1 \in completed THEN PromoteItem(h[m], m + 1) ELSE h[m]
           g == [k \in 0..(m + 1) |-> IF k = m + 1 THEN last ELSE h[k]]
<1>1. ASSUME NEW k \in 0..(m + 1)
      PROVE  g[k] = IF k = 0 THEN w
                    ELSE IF k \in completed THEN PromoteItem(g[k - 1], k) ELSE g[k - 1]
  <2>1. CASE k = m + 1
    <3>1. g[k] = last /\ k # 0 /\ k - 1 = m /\ m \in 0..(m + 1) /\ m # m + 1
      BY <2>1
    <3>2. g[k - 1] = h[m]
      BY <3>1
    <3> QED BY <2>1, <3>1, <3>2
  <2>2. CASE k # m + 1
    <3>1. k \in 0..m /\ g[k] = h[k]
      BY <2>2
    <3>2. h[k] = IF k = 0 THEN w
                 ELSE IF k \in completed THEN PromoteItem(h[k - 1], k) ELSE h[k - 1]
      BY <3>1 DEF Loop
    <3>3. k # 0 => g[k - 1] = h[k - 1]
      <4>1. SUFFICES ASSUME k # 0 PROVE g[k - 1] = h[k - 1]
        OBVIOUS
      <4>2. k - 1 \in 0..(m + 1) /\ k - 1 # m + 1
        BY <3>1, <4>1
      <4> QED BY <4>2
    <3> QED BY <3>1, <3>2, <3>3
  <2> QED BY <2>1, <2>2
<1>2. g = [k \in 0..(m + 1) |-> g[k]]
  OBVIOUS
<1> HIDE DEF g
<1>3. Loop(g, w, completed, m + 1)
  BY <1>1, <1>2 DEF Loop
<1> QED BY <1>3

LEMMA LoopExists ==
    ASSUME NEW w, NEW completed, NEW top \in Nat
    PROVE  \E g : Loop(g, w, completed, top)
<1> DEFINE C == {k \in Nat : ~\E g : Loop(g, w, completed, k)}
<1> SUFFICES ASSUME C # {} PROVE FALSE
  OBVIOUS
<1>1. PICK m : m = Min(C)
  OBVIOUS
<1>2. m \in C /\ \A k \in C : m <= k
  <2>1. C \in SUBSET Nat
    OBVIOUS
  <2> HIDE DEF C
  <2> QED BY <1>1, <2>1, LeastNatural
<1>3. CASE m = 0
  <2>1. PICK g : g = [k \in 0..0 |-> w]
    OBVIOUS
  <2>2. g[0] = w
    BY <2>1
  <2>3. \A k \in 0..0 : k = 0
    OBVIOUS
  <2>4. Loop(g, w, completed, 0)
    BY <2>1, <2>2, <2>3 DEF Loop
  <2> QED BY <1>2, <1>3, <2>4
<1>4. CASE m # 0
  <2>1. m - 1 \in Nat /\ m - 1 \notin C /\ (m - 1) + 1 = m
    BY <1>2, <1>4
  <2>2. PICK h : Loop(h, w, completed, m - 1)
    BY <2>1
  <2>3. \E g : Loop(g, w, completed, m)
    BY <2>1, <2>2, LoopGrows
  <2> QED BY <1>2, <2>3
<1> QED BY <1>3, <1>4

LEMMA LoopPromotes ==
    ASSUME NEW w, NEW n, Sound(w, n), NEW completed, NEW top \in Nat,
           NEW g, Loop(g, w, completed, top)
    PROVE  Promotes(g[top], w, n)
<1> DEFINE C == {k \in 0..top : ~Promotes(g[k], w, n)}
<1> SUFFICES ASSUME C # {} PROVE FALSE
  OBVIOUS
<1>1. PICK m : m = Min(C)
  OBVIOUS
<1>2. m \in C /\ \A k \in C : m <= k
  <2>1. C \in SUBSET Nat
    OBVIOUS
  <2> HIDE DEF C
  <2> QED BY <1>1, <2>1, LeastNatural
<1>3. m \in 0..top /\ ~Promotes(g[m], w, n)
  BY <1>2
<1>4. g[m] = IF m = 0 THEN w
             ELSE IF m \in completed THEN PromoteItem(g[m - 1], m) ELSE g[m - 1]
  BY <1>3 DEF Loop
<1>5. CASE m = 0
  BY <1>3, <1>4, <1>5 DEF Promotes
<1>6. CASE m # 0
  <2>1. m - 1 \in 0..top /\ m - 1 \notin C /\ m \in Nat
    BY <1>2, <1>3, <1>6
  <2>2. Promotes(g[m - 1], w, n)
    BY <2>1
  <2>3. Promotes(PromoteItem(g[m - 1], m), g[m - 1], n)
    BY <2>1, <2>2, PromoteItemIs DEF Promotes
  <2> QED BY <1>3, <1>4, <1>6, <2>2, <2>3 DEF Promotes
<1> QED BY <1>5, <1>6

LEMMA GreatestNatural ==
    ASSUME NEW S \in SUBSET Nat, IsFiniteSet(S), S # {}
    PROVE  Max(S) \in S
<1> DEFINE Top(T) == \E x \in T : \A y \in T : x >= y
           C == {c \in Nat : \E T \in SUBSET Nat :
                    IsFiniteSet(T) /\ T # {} /\ Cardinality(T) = c /\ ~Top(T)}
<1>1. ASSUME C # {} PROVE FALSE
  <2>1. PICK m : m = Min(C)
    OBVIOUS
  <2>2. m \in C /\ \A c \in C : m <= c
    <3>1. C \in SUBSET Nat
      OBVIOUS
    <3> HIDE DEF C
    <3> QED BY <1>1, <2>1, <3>1, LeastNatural
  <2>3. PICK T \in SUBSET Nat : IsFiniteSet(T) /\ T # {} /\ Cardinality(T) = m /\ ~Top(T)
    BY <2>2
  <2>4. PICK x \in T : TRUE
    BY <2>3
  <2>5. PICK R \in SUBSET Nat : R = T \ {x}
    OBVIOUS
  <2>6. IsFiniteSet(R) /\ Cardinality(R) = m - 1 /\ m - 1 \in Nat
    <3>1. IsFiniteSet(R) /\ Cardinality(R) = Cardinality(T) - 1
      BY <2>3, <2>4, <2>5, FS_RemoveElement
    <3>2. Cardinality(R) \in Nat
      BY <3>1, FS_CardinalityType
    <3> QED BY <2>3, <3>1, <3>2
  <2>7. CASE R = {}
    <3>1. \A y \in T : y = x
      BY <2>5, <2>7
    <3>2. x >= x
      BY <2>4
    <3> QED BY <2>3, <2>4, <3>1, <3>2
  <2>8. CASE R # {}
    <3>1. m - 1 \notin C
      BY <2>2, <2>6
    <3>2. Top(R)
      BY <2>6, <2>8, <3>1
    <3>3. PICK z \in R : \A y \in R : z >= y
      BY <3>2
    <3>4. \A y \in T : y = x \/ y \in R
      BY <2>5
    <3>5. Top(T)
      <4>1. CASE x >= z
        BY <2>4, <3>3, <3>4, <4>1
      <4>2. CASE ~(x >= z)
        <5>1. z >= x /\ z \in T
          BY <2>4, <2>5, <3>3, <4>2
        <5> QED BY <3>3, <3>4, <5>1
      <4> QED BY <4>1, <4>2
    <3> QED BY <2>3, <3>5
  <2> QED BY <2>7, <2>8
<1>2. Cardinality(S) \in Nat
  BY FS_CardinalityType
<1>3. Top(S)
  BY <1>1, <1>2
<1>4. Max(S) = CHOOSE x \in S : \A y \in S : x >= y
  BY DEF Max
<1> QED BY <1>3, <1>4

(* Completed items take the open phase, which ends. *)
LEMMA PromoteCompletedIs ==
    ASSUME NEW w, NEW n, Sound(w, n), NEW completed \in SUBSET Nat, IsFiniteSet(completed)
    PROVE  Promotes(PromoteCompleted(w, completed), w, n)
<1>1. PICK top : top = Max(completed \cup {0})
  OBVIOUS
<1>2. top \in Nat
  <2>1. IsFiniteSet(completed \cup {0}) /\ completed \cup {0} \subseteq Nat
        /\ completed \cup {0} # {}
    BY FS_AddElement
  <2> QED BY <1>1, <2>1, GreatestNatural
<1>3. PICK g : g = CHOOSE h : Loop(h, w, completed, top)
  OBVIOUS
<1>4. Loop(g, w, completed, top)
  BY <1>2, <1>3, LoopExists
<1>5. PromoteCompleted(w, completed) = g[top]
  BY <1>1, <1>3 DEF PromoteCompleted, Loop
<1> QED BY <1>2, <1>4, <1>5, LoopPromotes

LEMMA SyncPlanIs ==
    ASSUME NEW w, NEW n, Sound(w, n), NEW step \in 0..MaxSteps,
           NEW items \in SUBSET PlanItem, NEW plan \in [items -> Status]
    PROVE  /\ Sound(SyncPlan(w, plan, step), n)
           /\ ErrorNames(SyncPlan(w, plan, step)) = ErrorNames(w)
           /\ SyncPlan(w, plan, step).reads = w.reads
           /\ w.over => SyncPlan(w, plan, step).over
           /\ Fits(SyncPlan(w, plan, step))
<1> DEFINE completed == {i \in items : plan[i] = "completed"}
           S == {[kind |-> "plan", name |-> i, at |-> step, pinned |-> plan[i] = "running"] :
                    i \in items \ completed}
           v == Replaced(w, "plan", S)
<1>1. DOMAIN plan = items
  OBVIOUS
<1>2. SyncPlan(w, plan, step) = Rebalanced(PromoteCompleted(v, completed))
  BY <1>1 DEF SyncPlan, Replaced
<1>3. IsFiniteSet(items) /\ items \subseteq Nat
  BY FS_Subset, WorkingAssumption
<1>4. "plan" \in EntryKind /\ "plan" \notin {"event", "error"}
  BY Kinds
<1>5. S \in SUBSET Entry
  <2>1. ASSUME NEW e \in S
        PROVE  e \in Entry
    <3>1. PICK i \in items \ completed :
            e = [kind |-> "plan", name |-> i, at |-> step, pinned |-> plan[i] = "running"]
      OBVIOUS
    <3>2. PICK b \in BOOLEAN : b = (plan[i] = "running")
      OBVIOUS
    <3> QED
      BY <1>3, <1>4, <3>1, <3>2 DEF Entry
  <2> QED
    BY <2>1
<1>6. \A e \in S : e.kind = "plan" /\ e.name \in items
  OBVIOUS
<1>7. \A e, f \in S : e.name = f.name => e = f
  OBVIOUS
<1>8. completed \in SUBSET Nat /\ IsFiniteSet(completed)
  BY <1>3, FS_Subset
<1> HIDE DEF S
<1>9. /\ Sound(v, n) /\ ErrorNames(v) = ErrorNames(w) /\ v.over = w.over /\ v.reads = w.reads
  BY <1>3, <1>4, <1>5, <1>6, <1>7, ReplacedSound
<1> DEFINE u == PromoteCompleted(v, completed)
<1> HIDE DEF v, completed
<1>10. Sound(u, n) /\ ErrorNames(u) = ErrorNames(v) /\ u.reads = v.reads /\ u.over = v.over
  BY <1>8, <1>9, PromoteCompletedIs DEF Promotes
<1> HIDE DEF u
<1>11. /\ Sound(Rebalanced(u), n) /\ ErrorNames(Rebalanced(u)) = ErrorNames(u)
       /\ Rebalanced(u).reads = u.reads /\ (u.over => Rebalanced(u).over)
  BY <1>10, RebalancedSound
<1>12. Fits(Rebalanced(u))
  BY <1>10, RebalancedFits DEF Sound, Fits
<1>13. SyncPlan(w, plan, step) = Rebalanced(u)
  BY <1>2 DEF u
<1> QED
  BY <1>9, <1>10, <1>11, <1>12, <1>13

(* A verification takes no events. *)
LEMMA PromoteVerificationIs ==
    ASSUME NEW w, NEW n, Sound(w, n), NEW step \in Nat
    PROVE  /\ Promotes(PromoteVerification(w, step), w, n)
           /\ PromoteVerification(w, step).entries = w.entries
<1>1. CASE <<"verification", step>> \in Recalled(w)
  BY <1>1 DEF PromoteVerification, Promotes
<1>2. CASE <<"verification", step>> \notin Recalled(w)
  <2> DEFINE v == PromoteVerification(w, step)
  <2>1. PICK key, rest, all :
          /\ key = <<"verification", step>> /\ rest = w.entries
          /\ all = Append(w.promoted, [key |-> key, actions |-> {}])
    OBVIOUS
  <2>2. w \in Memories
    BY DEF Sound
  <2>3. v = [w EXCEPT !.promoted = all]
    BY <1>2, <2>1, <2>2 DEF PromoteVerification, QueuePromotion, Memories
  <2>4. v = [entries |-> rest, reads |-> w.reads,
             promoted |-> Append(w.promoted, [key |-> key, actions |-> {}]), over |-> w.over]
    BY <2>1, <2>2, <2>3 DEF Memories
  <2> HIDE DEF v
  <2>5. /\ key \in {"plan", "verification"} \X Nat /\ key \notin Recalled(w)
        /\ Extends(v, w, key, {}, rest)
    BY <1>2, <2>1, <2>4 DEF Extends
  <2>6. Sound(v, n) /\ ErrorNames(v) = ErrorNames(w)
    BY <2>5, PromotionSound
  <2>7. Promotes(v, w, n) /\ v.entries = w.entries
    BY <2>1, <2>4, <2>6 DEF Promotes
  <2> QED BY <2>7 DEF v
<1> QED BY <1>1, <1>2

(* The signatures after an observation. *)
ReadsAfter(reads, call, ok) ==
    IF call.tool = "read_file" /\ ok THEN reads \cup {call.path}
    ELSE IF call.tool = "write_file" /\ ok THEN reads \ {call.path} ELSE reads

(* The calls that are made. *)
CallShape(call) ==
    /\ call.tool \in Tool
    /\ call.tool \in {"read_file", "write_file"} => call.path \in Path

LEMMA ObservedIs ==
    ASSUME NEW w, NEW n \in Nat, Sound(w, n), n + 1 \in 0..MaxSteps,
           NEW call, CallShape(call), NEW ok \in BOOLEAN, NEW matches \in BOOLEAN,
           NEW items \in SUBSET PlanItem, NEW plan, ok => plan \in [items -> Status],
           NEW changes \in SUBSET Path
    PROVE  /\ Sound(Observed(w, call, ok, matches, n + 1, plan, changes), n + 1)
           /\ Fits(Observed(w, call, ok, matches, n + 1, plan, changes))
           /\ ok => ErrorNames(Observed(w, call, ok, matches, n + 1, plan, changes)) =
                        ErrorNames(w) \ {Number(call.tool)}
           /\ ~ok => ErrorNames(Observed(w, call, ok, matches, n + 1, plan, changes)) =
                        ErrorNames(w) \cup {Number(call.tool)}
           /\ Observed(w, call, ok, matches, n + 1, plan, changes).reads =
                ReadsAfter(w.reads, call, ok)
<1> DEFINE inv == Invalidated(w, call, ok)
           log == Logged(inv, call, n + 1)
           rd == ReadNoted(log, call, ok, n + 1)
           ev == EvidenceNoted(rd, ok, matches, n + 1)
           err == ErrorNoted(ev, call, ok, n + 1)
           synced == SyncChangedPaths(err, changes, n + 1)
           phased == IF call.tool = "update_plan" /\ ok THEN SyncPlan(synced, plan, n + 1) ELSE synced
           done == Observed(w, call, ok, matches, n + 1, plan, changes)
<1>0. done = IF call.tool = "run_tests" /\ ok THEN PromoteVerification(phased, n + 1) ELSE phased
  BY DEF Observed
<1>n. n + 1 \in Nat /\ call.tool \in Tool
  BY DEF CallShape
<1>1. /\ Sound(inv, n) /\ ErrorNames(inv) = ErrorNames(w) /\ inv.promoted = w.promoted
      /\ inv.reads = IF call.tool = "write_file" /\ ok THEN w.reads \ {call.path} ELSE w.reads
  <2>1. call.path \in Nat \/ call.tool # "write_file"
    BY Constants DEF CallShape
  <2> QED
    BY <2>1, InvalidatedIs
<1> HIDE DEF inv
<1>2. /\ Sound(log, n + 1) /\ ErrorNames(log) = ErrorNames(inv) /\ log.promoted = inv.promoted
      /\ log.reads = inv.reads
  BY <1>1, <1>n, LoggedIs
<1> HIDE DEF log
<1>3. /\ Sound(rd, n + 1) /\ ErrorNames(rd) = ErrorNames(log) /\ rd.promoted = log.promoted
      /\ rd.reads = IF call.tool = "read_file" /\ ok THEN log.reads \cup {call.path} ELSE log.reads
  <2>1. call.tool = "read_file" => call.path \in Path
    BY DEF CallShape
  <2> QED
    BY <1>2, <2>1, ReadNotedIs
<1> HIDE DEF rd
<1>4. /\ Sound(ev, n + 1) /\ ErrorNames(ev) = ErrorNames(rd) /\ ev.promoted = rd.promoted
      /\ ev.reads = rd.reads
  BY <1>3, EvidenceNotedIs
<1> HIDE DEF ev
<1>5. /\ Sound(err, n + 1) /\ err.promoted = ev.promoted /\ err.reads = ev.reads
      /\ ok => ErrorNames(err) = ErrorNames(ev) \ {Number(call.tool)}
      /\ ~ok => ErrorNames(err) = ErrorNames(ev) \cup {Number(call.tool)}
  BY <1>4, <1>n, ErrorNotedIs
<1> HIDE DEF err
<1>6. /\ Sound(synced, n + 1) /\ ErrorNames(synced) = ErrorNames(err)
      /\ synced.promoted = err.promoted /\ synced.reads = err.reads /\ Fits(synced)
  BY <1>5, SyncChangedPathsIs
<1> HIDE DEF synced
<1>8. /\ Sound(phased, n + 1) /\ ErrorNames(phased) = ErrorNames(synced)
      /\ phased.reads = synced.reads /\ Fits(phased)
  <2>1. CASE call.tool = "update_plan" /\ ok
    BY <1>6, <2>1, SyncPlanIs
  <2>2. CASE ~(call.tool = "update_plan" /\ ok)
    BY <1>6, <2>2
  <2> QED
    BY <2>1, <2>2
<1> HIDE DEF phased
<1>9. /\ Sound(done, n + 1) /\ ErrorNames(done) = ErrorNames(phased)
      /\ done.reads = phased.reads /\ Fits(done)
  <2>1. CASE call.tool = "run_tests" /\ ok
    <3>3. /\ Promotes(PromoteVerification(phased, n + 1), phased, n + 1)
          /\ PromoteVerification(phased, n + 1).entries = phased.entries
      BY <1>8, <1>n, PromoteVerificationIs
    <3>4. done = PromoteVerification(phased, n + 1)
      BY <1>0, <2>1 DEF phased
    <3> HIDE DEF done
    <3>5. Fits(done)
      BY <1>8, <3>3, <3>4 DEF Fits, Promotes
    <3> QED
      BY <3>3, <3>4, <3>5 DEF Promotes
  <2>2. CASE ~(call.tool = "run_tests" /\ ok)
    <3>1. done = phased
      BY <1>0, <2>2 DEF phased
    <3> QED
      BY <1>8, <3>1
  <2> QED
    BY <2>1, <2>2
<1> HIDE DEF done
<1>10. done.reads = ReadsAfter(w.reads, call, ok)
  BY <1>1, <1>2, <1>3, <1>4, <1>5, <1>6, <1>8, <1>9 DEF ReadsAfter
<1>11. /\ ok => ErrorNames(done) = ErrorNames(w) \ {Number(call.tool)}
       /\ ~ok => ErrorNames(done) = ErrorNames(w) \cup {Number(call.tool)}
  BY <1>1, <1>2, <1>3, <1>4, <1>5, <1>6, <1>8, <1>9
<1> QED
  BY <1>9, <1>10, <1>11 DEF done

----------------------------------------------------------------------------
(* The steps. *)

Group == [tokens : Nat, relevance : {0, 1}]

(* The counts and sets of the state. *)
Counted ==
    /\ status \in {"build", "request", "call", "failed"}
    /\ groups \in Seq(Group)
    /\ Len(groups) <= MaxSteps
    /\ status = "call" => Len(groups) < MaxSteps
    /\ changed \subseteq Path
    /\ outdated \subseteq Path
    /\ failing \subseteq Tool
    /\ status # "request" => window = None

(* The working memory after the steps taken so far. *)
Remembered ==
    /\ Sound(wm, Len(groups))
    /\ Fits(wm)
    /\ status # "failed" => ~wm.over

ErrorsInv == ErrorNames(wm) = {Number(t) : t \in failing}

IInv == Counted /\ Remembered /\ ErrorsInv /\ SkippedReadsFresh

LEMMA OpenedIs ==
    /\ Sound(Opened, 0) /\ Fits(Opened)
    /\ ErrorNames(Opened) = {} /\ Opened.reads = {}
<1>1. PICK yes \in BOOLEAN : yes = TRUE
  OBVIOUS
<1>2. PICK no \in BOOLEAN : no = FALSE
  OBVIOUS
<1> DEFINE S == {[kind |-> "constraint", name |-> c, at |-> 0, pinned |-> yes] : c \in Constraint}
           w == [entries |-> S, reads |-> {}, promoted |-> <<>>, over |-> no]
<1>3. Opened = Rebalanced(w)
  BY <1>1, <1>2 DEF Opened
<1>4. S \in SUBSET Entry
  BY Kinds, Constants DEF Entry
<1>5. \A e \in S : e.name \in Constraint /\ e.kind = "constraint"
  OBVIOUS
<1>6. \A e, f \in S : e.name = f.name => e = f
  OBVIOUS
<1>7. IsFiniteSet(S)
  BY <1>5, <1>6, WorkingAssumption, NamedFinite
<1> HIDE DEF S
<1>8. w \in Memories
  BY <1>4 DEF Memories
<1>9. /\ w.entries = S /\ w.promoted = <<>> /\ w.reads = {}
  OBVIOUS
<1> HIDE DEF w
<1>10. Sound(w, 0)
  BY <1>5, <1>6, <1>7, <1>8, <1>9 DEF Sound, Keyed, Phases
<1>11. ErrorNames(w) = {}
  <2>1. Entries(w, "error") = {}
    BY <1>5, <1>9 DEF Entries
  <2> QED
    BY <2>1 DEF ErrorNames
<1>12. Fits(Rebalanced(w))
  BY <1>7, <1>8, <1>9, RebalancedFits DEF Fits
<1> QED
  BY <1>3, <1>9, <1>10, <1>11, <1>12, RebalancedSound

LEMMA InitIInv == Init => IInv
<1> SUFFICES ASSUME Init PROVE IInv
  OBVIOUS
<1> USE DEF Init
<1>1. Len(groups) = 0 /\ groups \in Seq(Group) /\ Len(groups) <= MaxSteps
  BY Constants
<1>2. Counted
  BY <1>1 DEF Counted
<1>3. Remembered
  BY <1>1, OpenedIs DEF Remembered
<1>4. ErrorsInv /\ SkippedReadsFresh
  BY OpenedIs DEF ErrorsInv, SkippedReadsFresh
<1> QED
  BY <1>2, <1>3, <1>4 DEF IInv

(* One observation, whatever the tool: the history and the working memory  *)
(* move on together, and the errors shown follow the failing tools.        *)
LEMMA ObserveStep ==
    ASSUME IInv, status = "call", NEW call, CallShape(call),
           NEW ok \in BOOLEAN, NEW matches \in BOOLEAN,
           NEW items \in SUBSET PlanItem, NEW plan, ok => plan \in [items -> Status],
           NEW changes \in SUBSET Path,
           Observe(call, ok, matches, plan, changes)
    PROVE  /\ Remembered' /\ ErrorsInv'
           /\ outdated' \subseteq Path => Counted'
           /\ wm'.reads = ReadsAfter(wm.reads, call, ok)
<1> DEFINE n == Len(groups)
           seen == Observed(wm, call, ok, matches, n + 1, plan, changes)
<1>1. /\ n \in Nat /\ n + 1 \in 0..MaxSteps /\ n + 1 <= MaxSteps /\ Sound(wm, n)
      /\ groups \in Seq(Group)
  BY Constants DEF IInv, Counted, Remembered
<1>2. /\ wm' = seen /\ status' = IF seen.over THEN "failed" ELSE "build"
      /\ changed' = changes
      /\ window' = window
      /\ failing' = IF ok THEN failing \ {call.tool} ELSE failing \cup {call.tool}
  BY DEF Observe
<1>3. \E g \in Group : groups' = Append(groups, g)
  <2>1. PICK tokens : tokens = IF HasReadCall(wm, call) THEN SkipTokens ELSE CallTokens[call.tool]
    OBVIOUS
  <2>2. PICK relevance : relevance = IF matches THEN 1 ELSE 0
    OBVIOUS
  <2>3. tokens \in Nat /\ relevance \in {0, 1}
    BY <2>1, <2>2, ContextAssumption DEF CallShape
  <2>4. groups' = Append(groups, [tokens |-> tokens, relevance |-> relevance])
    BY <2>1, <2>2 DEF Observe
  <2>5. [tokens |-> tokens, relevance |-> relevance] \in Group
    BY <2>3 DEF Group
  <2> QED
    BY <2>4, <2>5
<1>4. groups' \in Seq(Group) /\ Len(groups') = n + 1
  BY <1>1, <1>3
<1>5. /\ Sound(seen, n + 1) /\ Fits(seen)
      /\ ok => ErrorNames(seen) = ErrorNames(wm) \ {Number(call.tool)}
      /\ ~ok => ErrorNames(seen) = ErrorNames(wm) \cup {Number(call.tool)}
      /\ seen.reads = ReadsAfter(wm.reads, call, ok)
  <2> HIDE DEF n
  <2> DEFINE w == wm
  <2>1. Sound(w, n) /\ n \in Nat /\ n + 1 \in 0..MaxSteps
    BY <1>1
  <2> HIDE DEF w
  <2> DEFINE v == Observed(w, call, ok, matches, n + 1, plan, changes)
  <2>2. /\ Sound(v, n + 1) /\ Fits(v)
        /\ ok => ErrorNames(v) = ErrorNames(w) \ {Number(call.tool)}
        /\ ~ok => ErrorNames(v) = ErrorNames(w) \cup {Number(call.tool)}
        /\ v.reads = ReadsAfter(w.reads, call, ok)
    BY <2>1, ObservedIs
  <2> QED
    BY <2>2 DEF w
<1> HIDE DEF seen
<1>6. Remembered'
  <2>1. status' # "failed" => ~seen.over
    BY <1>2
  <2> QED
    BY <1>2, <1>4, <1>5, <2>1 DEF Remembered
<1>7. ErrorsInv'
  <2>1. ErrorNames(wm) = {Number(t) : t \in failing} /\ failing \subseteq Tool
    BY DEF IInv, ErrorsInv, Counted
  <2>2. call.tool \in Tool
    BY DEF CallShape
  <2>3. \A s, t \in Tool : Number(s) = Number(t) => s = t
    BY Numbers
  <2>4. CASE ok
    <3>1. failing' = failing \ {call.tool}
      BY <1>2, <2>4
    <3>2. {Number(t) : t \in failing} \ {Number(call.tool)} = {Number(t) : t \in failing \ {call.tool}}
      BY <2>1, <2>2, <2>3
    <3> QED
      BY <1>2, <1>5, <2>1, <2>4, <3>1, <3>2 DEF ErrorsInv
  <2>5. CASE ~ok
    <3>1. failing' = failing \cup {call.tool}
      BY <1>2, <2>5
    <3> QED
      BY <1>2, <1>5, <2>1, <2>5, <3>1 DEF ErrorsInv
  <2> QED
    BY <2>4, <2>5
<1>8. ASSUME outdated' \subseteq Path
      PROVE  Counted'
  <2>1. failing' \subseteq Tool
    BY <1>2 DEF IInv, Counted, CallShape
  <2>2. status' \in {"build", "failed"} /\ window' = None
    BY <1>2 DEF IInv, Counted
  <2> QED
    BY <1>1, <1>2, <1>4, <1>8, <2>1, <2>2 DEF Counted
<1> QED
  BY <1>2, <1>5, <1>6, <1>7, <1>8

LEMMA ReadFileStep ==
    ASSUME IInv, NEW path \in Path, NEW ok \in BOOLEAN, NEW matches \in BOOLEAN,
           ReadFile(path, ok, matches)
    PROVE  IInv'
<1> DEFINE call == [tool |-> "read_file", path |-> path]
<1>1. /\ status = "call" /\ Observe(call, ok, matches, <<>>, changed)
      /\ HasReadCall(wm, call) => ok
      /\ outdated' = IF ok /\ ~HasReadCall(wm, call) THEN outdated \ {path} ELSE outdated
  BY DEF ReadFile
<1>2. CallShape(call) /\ call.tool = "read_file" /\ call.path = path
  BY Tools DEF CallShape
<1>3. <<>> \in [{} -> Status] /\ {} \in SUBSET PlanItem /\ changed \in SUBSET Path
  BY DEF IInv, Counted
<1>4. outdated' \subseteq Path
  BY <1>1 DEF IInv, Counted
<1> HIDE DEF call
<1>5. Remembered' /\ ErrorsInv' /\ Counted' /\ wm'.reads = ReadsAfter(wm.reads, call, ok)
  BY <1>1, <1>2, <1>3, <1>4, ObserveStep
<1>6. SkippedReadsFresh'
  <2>1. HasReadCall(wm, call) <=> path \in wm.reads
    BY <1>2 DEF HasReadCall
  <2> QED
    BY <1>1, <1>2, <1>5, <2>1 DEF IInv, SkippedReadsFresh, ReadsAfter
<1> QED
  BY <1>5, <1>6 DEF IInv

LEMMA WriteFileStep ==
    ASSUME IInv, NEW path \in Path, NEW ok \in BOOLEAN, NEW restores \in BOOLEAN,
           WriteFile(path, ok, restores)
    PROVE  IInv'
<1> DEFINE call == [tool |-> "write_file", path |-> path]
<1>0. PICK no \in BOOLEAN : no = FALSE
  OBVIOUS
<1>c. PICK changes :
        changes = IF ~ok THEN changed ELSE IF restores THEN changed \ {path} ELSE changed \cup {path}
  OBVIOUS
<1>d. changes \in SUBSET Path
  BY <1>c DEF IInv, Counted
<1>1. /\ status = "call" /\ Observe(call, ok, no, <<>>, changes)
      /\ outdated' = IF ok THEN outdated \cup {path} ELSE outdated
  BY <1>0, <1>c DEF WriteFile
<1>2. CallShape(call) /\ call.tool = "write_file" /\ call.path = path
  BY Tools DEF CallShape
<1>3. <<>> \in [{} -> Status] /\ {} \in SUBSET PlanItem
  OBVIOUS
<1>4. outdated' \subseteq Path
  BY <1>1 DEF IInv, Counted
<1> HIDE DEF call
<1>5. Remembered' /\ ErrorsInv' /\ Counted' /\ wm'.reads = ReadsAfter(wm.reads, call, ok)
  BY <1>1, <1>2, <1>3, <1>4, <1>d, ObserveStep, ZenonT(60)
<1>6. SkippedReadsFresh'
  BY <1>1, <1>2, <1>5 DEF IInv, SkippedReadsFresh, ReadsAfter
<1> QED
  BY <1>5, <1>6 DEF IInv

LEMMA RunTestsStep ==
    ASSUME IInv, NEW ok \in BOOLEAN, NEW matches \in BOOLEAN, RunTests(ok, matches)
    PROVE  IInv'
<1> DEFINE call == [tool |-> "run_tests", path |-> None]
<1>1. /\ status = "call" /\ Observe(call, ok, matches, <<>>, changed) /\ outdated' = outdated
  BY DEF RunTests
<1>2. CallShape(call) /\ call.tool = "run_tests"
  BY Tools DEF CallShape
<1>3. <<>> \in [{} -> Status] /\ {} \in SUBSET PlanItem /\ changed \in SUBSET Path
  BY DEF IInv, Counted
<1>4. outdated' \subseteq Path
  BY <1>1 DEF IInv, Counted
<1> HIDE DEF call
<1>5. Remembered' /\ ErrorsInv' /\ Counted' /\ wm'.reads = ReadsAfter(wm.reads, call, ok)
  BY <1>1, <1>2, <1>3, <1>4, ObserveStep
<1>6. SkippedReadsFresh'
  BY <1>1, <1>2, <1>5 DEF IInv, SkippedReadsFresh, ReadsAfter
<1> QED
  BY <1>5, <1>6 DEF IInv

LEMMA UpdatePlanStep ==
    ASSUME IInv, NEW ok \in BOOLEAN, NEW items \in SUBSET PlanItem, NEW plan,
           ok => plan \in [items -> Status], UpdatePlan(plan, ok)
    PROVE  IInv'
<1> DEFINE call == [tool |-> "update_plan", path |-> None]
<1>0. PICK no \in BOOLEAN : no = FALSE
  OBVIOUS
<1>1. /\ status = "call" /\ Observe(call, ok, no, plan, changed) /\ outdated' = outdated
  BY <1>0 DEF UpdatePlan
<1>2. CallShape(call) /\ call.tool = "update_plan"
  BY Tools DEF CallShape
<1>3. changed \in SUBSET Path
  BY DEF IInv, Counted
<1>4. outdated' \subseteq Path
  BY <1>1 DEF IInv, Counted
<1> HIDE DEF call
<1>5. Remembered' /\ ErrorsInv' /\ Counted' /\ wm'.reads = ReadsAfter(wm.reads, call, ok)
  BY <1>1, <1>2, <1>3, <1>4, ObserveStep
<1>6. SkippedReadsFresh'
  BY <1>1, <1>2, <1>5 DEF IInv, SkippedReadsFresh, ReadsAfter
<1> QED
  BY <1>5, <1>6 DEF IInv

(* The requests and answers leave the working memory alone. *)
LEMMA RequestSteps ==
    ASSUME IInv,
           \/ Respond
           \/ UNCHANGED vars
           \/ \E prefix \in PrefixTokens, tail \in TailTokens, episodic \in EpisodicTokens,
                 active \in Stored \cup {None} : Assemble(prefix, tail, episodic, active)
    PROVE  IInv'
<1>1. /\ wm' = wm /\ changed' = changed /\ groups' = groups
      /\ failing' = failing /\ outdated' = outdated
  <2>1. CASE Respond
    BY <2>1 DEF Respond
  <2>2. CASE UNCHANGED vars
    BY <2>2 DEF vars
  <2>3. ASSUME NEW prefix, NEW tail, NEW episodic, NEW active,
               Assemble(prefix, tail, episodic, active)
        PROVE  UNCHANGED <<wm, changed, groups, failing, outdated>>
    BY <2>3 DEF Assemble
  <2> QED
    BY <2>1, <2>2, <2>3
<1>2. /\ status' \in {"build", "request", "call", "failed"}
      /\ status' = "call" => Len(groups) < MaxSteps
      /\ status' # "request" => window' = None
      /\ status' # "failed" => status # "failed"
  <2>1. CASE Respond
    BY <2>1 DEF Respond
  <2>2. CASE UNCHANGED vars
    BY <2>2 DEF vars, IInv, Counted
  <2>3. ASSUME NEW prefix, NEW tail, NEW episodic, NEW active,
               Assemble(prefix, tail, episodic, active)
        PROVE  /\ status = "build" /\ status' \in {"request", "failed"}
               /\ status' # "request" => window' = window
    BY <2>3 DEF Assemble
  <2> QED
    BY <2>1, <2>2, <2>3 DEF IInv, Counted
<1>3. Counted'
  BY <1>1, <1>2 DEF IInv, Counted
<1>4. Remembered' /\ ErrorsInv' /\ SkippedReadsFresh'
  BY <1>1, <1>2 DEF IInv, Remembered, ErrorsInv, SkippedReadsFresh
<1> QED
  BY <1>3, <1>4 DEF IInv

LEMMA NextIInv == IInv /\ [Next]_vars => IInv'
<1> SUFFICES ASSUME IInv, [Next]_vars PROVE IInv'
  OBVIOUS
<1>1. ASSUME NEW path \in Path, NEW ok \in BOOLEAN, NEW matches \in BOOLEAN,
             ReadFile(path, ok, matches)
      PROVE  IInv'
  BY <1>1, ReadFileStep
<1>2. ASSUME NEW path \in Path, NEW ok \in BOOLEAN, NEW restores \in BOOLEAN,
             WriteFile(path, ok, restores)
      PROVE  IInv'
  BY <1>2, WriteFileStep
<1>3. ASSUME NEW ok \in BOOLEAN, NEW matches \in BOOLEAN, RunTests(ok, matches)
      PROVE  IInv'
  BY <1>3, RunTestsStep
<1>4. ASSUME NEW plan \in PlanUpdate, UpdatePlan(plan, TRUE)
      PROVE  IInv'
  <2>1. PICK items \in SUBSET PlanItem : plan \in [items -> Status]
    BY DEF PlanUpdate
  <2>2. PICK yes \in BOOLEAN : yes = TRUE
    OBVIOUS
  <2> QED
    BY <1>4, <2>1, <2>2, UpdatePlanStep
<1>5. ASSUME UpdatePlan(<<>>, FALSE)
      PROVE  IInv'
  <2>1. {} \in SUBSET PlanItem
    OBVIOUS
  <2>2. PICK no \in BOOLEAN : no = FALSE
    OBVIOUS
  <2> QED
    BY <1>5, <2>1, <2>2, UpdatePlanStep
<1>6. ASSUME Respond \/ UNCHANGED vars PROVE IInv'
  BY <1>6, RequestSteps
<1>7. ASSUME \E prefix \in PrefixTokens, tail \in TailTokens, episodic \in EpisodicTokens,
                active \in Stored \cup {None} : Assemble(prefix, tail, episodic, active)
      PROVE  IInv'
  BY <1>7, RequestSteps
<1> QED
  BY <1>1, <1>2, <1>3, <1>4, <1>5, <1>6, <1>7 DEF Next

LEMMA StepsInvariant == Spec => []IInv
<1>1. Init => IInv
  BY InitIInv
<1>2. IInv /\ [Next]_vars => IInv'
  BY NextIInv
<1> QED
  BY <1>1, <1>2, PTL DEF Spec

(* Whatever is evicted, the model sees exactly the errors of the tools     *)
(* that failed last, for any budget, tokens and constraints.               *)
THEOREM ErrorsStayVisible == Spec => []ErrorsVisible
<1>1. IInv => ErrorsVisible
  BY DEF IInv, ErrorsInv, ErrorsVisible, ErrorNames
<1> QED
  BY <1>1, StepsInvariant, PTL

(* A read is skipped only when the model was shown the file since its last *)
(* write.                                                                  *)
THEOREM SkipsAreFresh == Spec => []SkippedReadsFresh
<1>1. IInv => SkippedReadsFresh
  BY DEF IInv
<1> QED
  BY <1>1, StepsInvariant, PTL

(* No action belongs to two phases, and a key is not promoted again before *)
(* MaxKeys others, however plans are replaced and items reopened.          *)
THEOREM PhasesPartition == Spec => []PhaseOnce
<1>1. IInv => PhaseOnce
  <2> SUFFICES ASSUME IInv PROVE PhaseOnce
    OBVIOUS
  <2>1. Phases(wm, Len(groups)) /\ DOMAIN wm.promoted = 1..Len(wm.promoted)
    BY DEF IInv, Remembered, Sound, Memories
  <2> QED BY <2>1 DEF Phases, Apart, PhaseOnce
<1> QED
  BY <1>1, StepsInvariant, PTL

----------------------------------------------------------------------------
(* Sums over finite sets.  MapThenSumSet takes the members of a set in     *)
(* some order; its value does not depend on it.                            *)

Member(s) == CHOOSE x \in s : TRUE

IsSum(g, f, S) ==
    g = [s \in SUBSET S |-> IF s = {} THEN 0 ELSE f[Member(s)] + g[s \ {Member(s)}]]

SumOver(f, S) == (CHOOSE g : IsSum(g, f, S))[S]

(* A property of finite sets that fails somewhere fails at a smallest set. *)
LEMMA SmallestSet ==
    ASSUME NEW S, IsFiniteSet(S), NEW C \in SUBSET (SUBSET S), C # {}
    PROVE  \E T \in C : \A U \in C : U \subseteq T => U = T
<1> DEFINE sizes == {Cardinality(T) : T \in C}
<1>1. \A T \in C : IsFiniteSet(T) /\ Cardinality(T) \in Nat
  BY FS_Subset, FS_CardinalityType
<1>2. sizes \in SUBSET Nat /\ sizes # {}
  BY <1>1
<1>3. PICK T \in C : Cardinality(T) = Min(sizes)
  BY <1>2, LeastNatural, ZenonT(60)
<1>4. ASSUME NEW U \in C, U \subseteq T
      PROVE  U = T
  <2>1. Cardinality(T) <= Cardinality(U)
    <3>1. Cardinality(U) \in sizes
      OBVIOUS
    <3> HIDE DEF sizes
    <3>2. \A x \in sizes : Min(sizes) <= x
      BY <1>2, LeastNatural
    <3> QED
      BY <1>3, <3>1, <3>2
  <2>2. Cardinality(U) <= Cardinality(T) /\ (Cardinality(T) = Cardinality(U) => T = U)
    BY <1>1, <1>4, FS_Subset
  <2> QED
    BY <1>1, <2>1, <2>2
<1> QED
  BY <1>4

LEMMA AnyIn == ASSUME NEW s, s # {} PROVE Member(s) \in s
BY DEF Member

LEMMA SumUnique ==
    ASSUME NEW f, NEW S, NEW g, IsSum(g, f, S), NEW T, NEW h, IsSum(h, f, T),
           NEW R, IsFiniteSet(R), R \subseteq S, R \subseteq T
    PROVE  g[R] = h[R]
<1> DEFINE C == {s \in SUBSET R : g[s] # h[s]}
<1> SUFFICES ASSUME C # {} PROVE FALSE
  <2>1. R \in SUBSET R
    OBVIOUS
  <2> QED
    BY <2>1
<1>1. PICK s \in C : \A U \in C : U \subseteq s => U = s
  <2>1. C \in SUBSET (SUBSET R)
    OBVIOUS
  <2> HIDE DEF C
  <2> QED
    BY <2>1, SmallestSet
<1>2. s \in SUBSET S /\ s \in SUBSET T /\ s \in SUBSET R
  BY <1>1
<1>3. /\ g[s] = IF s = {} THEN 0 ELSE f[Member(s)] + g[s \ {Member(s)}]
      /\ h[s] = IF s = {} THEN 0 ELSE f[Member(s)] + h[s \ {Member(s)}]
  BY <1>2 DEF IsSum
<1>4. s # {}
  BY <1>1, <1>3
<1>5. s \ {Member(s)} \in SUBSET R /\ s \ {Member(s)} # s
  BY <1>2, <1>4, AnyIn
<1>6. g[s \ {Member(s)}] = h[s \ {Member(s)}]
  BY <1>1, <1>5
<1> QED
  BY <1>1, <1>3, <1>4, <1>6

LEMMA SumExists ==
    ASSUME NEW f, NEW S, IsFiniteSet(S)
    PROVE  \E g : IsSum(g, f, S)
<1> DEFINE C == {s \in SUBSET S : ~\E g : IsSum(g, f, s)}
<1> SUFFICES ASSUME C # {} PROVE FALSE
  <2>1. S \in SUBSET S
    OBVIOUS
  <2> QED
    BY <2>1
<1>1. PICK T \in C : \A U \in C : U \subseteq T => U = T
  <2>1. C \in SUBSET (SUBSET S)
    OBVIOUS
  <2> HIDE DEF C
  <2> QED
    BY <2>1, SmallestSet
<1>2. T \in SUBSET S /\ ~\E g : IsSum(g, f, T)
  BY <1>1
<1> DEFINE part(s) == CHOOSE g : IsSum(g, f, s)
<1>3. \A s \in SUBSET T : s # T => IsSum(part(s), f, s)
  <2>1. ASSUME NEW s \in SUBSET T, s # T
        PROVE  \E g : IsSum(g, f, s)
    BY <1>1, <1>2, <2>1
  <2> QED
    BY <2>1
<1> DEFINE h == [s \in SUBSET T |->
                    IF s = {} THEN 0 ELSE f[Member(s)] + part(s \ {Member(s)})[s \ {Member(s)}]]
<1>4. ASSUME NEW s \in SUBSET T, s # T
      PROVE  h[s] = part(s)[s]
  <2> HIDE DEF part
  <2>1. IsSum(part(s), f, s)
    BY <1>3, <1>4
  <2>2. part(s)[s] = IF s = {} THEN 0 ELSE f[Member(s)] + part(s)[s \ {Member(s)}]
    BY <2>1 DEF IsSum
  <2>3. CASE s = {}
    BY <2>2, <2>3
  <2>4. CASE s # {}
    <3> DEFINE r == s \ {Member(s)}
    <3>1. r \in SUBSET T /\ r # T /\ r \subseteq s /\ r \in SUBSET S
      BY <1>2, <2>4, AnyIn
    <3>2. IsSum(part(r), f, r)
      BY <1>3, <3>1
    <3>3. IsFiniteSet(r)
      BY <3>1, FS_Subset
    <3> HIDE DEF r
    <3>4. part(s)[r] = part(r)[r]
      BY <2>1, <3>1, <3>2, <3>3, SumUnique
    <3> QED
      BY <2>2, <2>4, <3>4 DEF r
  <2> QED
    BY <2>3, <2>4
<1>5. ASSUME NEW s \in SUBSET T
      PROVE  h[s] = IF s = {} THEN 0 ELSE f[Member(s)] + h[s \ {Member(s)}]
  <2> HIDE DEF part
  <2>1. CASE s = {}
    BY <2>1
  <2>2. CASE s # {}
    <3>1. s \ {Member(s)} \in SUBSET T /\ s \ {Member(s)} # T
      BY <2>2, AnyIn
    <3>2. h[s \ {Member(s)}] = part(s \ {Member(s)})[s \ {Member(s)}]
      BY <1>4, <3>1
    <3> QED
      BY <2>2, <3>2
  <2> QED
    BY <2>1, <2>2
<1>6. h = [s \in SUBSET T |-> h[s]]
  <2> HIDE DEF part
  <2> QED
    OBVIOUS
<1> HIDE DEF h
<1>9. IsSum(h, f, T)
  BY <1>5, <1>6 DEF IsSum
<1> QED
  BY <1>2, <1>9

(* Any function with the recursion of the sum has its value. *)
LEMMA SumFrom ==
    ASSUME NEW f, NEW S, IsFiniteSet(S), NEW g, IsSum(g, f, S), NEW R \in SUBSET S
    PROVE  g[R] = SumOver(f, R)
<1>1. IsFiniteSet(R)
  BY FS_Subset
<1>2. PICK h : h = CHOOSE k : IsSum(k, f, R)
  OBVIOUS
<1>3. IsSum(h, f, R)
  BY <1>1, <1>2, SumExists
<1>4. g[R] = h[R]
  BY <1>1, <1>3, SumUnique
<1> QED
  BY <1>2, <1>4 DEF SumOver

LEMMA SumAt ==
    ASSUME NEW f, NEW S, IsFiniteSet(S), NEW g, IsSum(g, f, S)
    PROVE  g[S] = SumOver(f, S)
<1>1. S \in SUBSET S
  OBVIOUS
<1> QED
  BY <1>1, SumFrom

LEMMA SumStep ==
    ASSUME NEW f, NEW S, IsFiniteSet(S)
    PROVE  SumOver(f, S) = IF S = {} THEN 0 ELSE f[Member(S)] + SumOver(f, S \ {Member(S)})
<1>1. PICK g : IsSum(g, f, S)
  BY SumExists
<1>2. g[S] = IF S = {} THEN 0 ELSE f[Member(S)] + g[S \ {Member(S)}]
  BY <1>1 DEF IsSum
<1>3. g[S] = SumOver(f, S)
  <2>1. S \in SUBSET S
    OBVIOUS
  <2> QED
    BY <1>1, <2>1, SumFrom
<1>4. g[S \ {Member(S)}] = SumOver(f, S \ {Member(S)})
  <2>1. S \ {Member(S)} \in SUBSET S
    OBVIOUS
  <2> QED
    BY <1>1, <2>1, SumFrom, ZenonT(60)
<1> QED
  BY <1>2, <1>3, <1>4

LEMMA SumNat ==
    ASSUME NEW f, NEW S, IsFiniteSet(S), \A x \in S : f[x] \in Nat
    PROVE  SumOver(f, S) \in Nat
<1> DEFINE C == {s \in SUBSET S : SumOver(f, s) \notin Nat}
<1> SUFFICES ASSUME C # {} PROVE FALSE
  <2>1. S \in SUBSET S
    OBVIOUS
  <2> QED
    BY <2>1
<1>1. PICK s \in C : \A U \in C : U \subseteq s => U = s
  <2>1. C \in SUBSET (SUBSET S)
    OBVIOUS
  <2> HIDE DEF C
  <2> QED
    BY <2>1, SmallestSet
<1>2. s \in SUBSET S /\ SumOver(f, s) \notin Nat /\ IsFiniteSet(s)
  BY <1>1, FS_Subset
<1>3. SumOver(f, s) = IF s = {} THEN 0 ELSE f[Member(s)] + SumOver(f, s \ {Member(s)})
  BY <1>2, SumStep
<1>4. s # {}
  BY <1>2, <1>3
<1>5. Member(s) \in S /\ s \ {Member(s)} \in SUBSET S /\ s \ {Member(s)} # s
  BY <1>2, <1>4, AnyIn
<1>6. SumOver(f, s \ {Member(s)}) \in Nat
  BY <1>1, <1>5
<1> QED
  BY <1>2, <1>3, <1>4, <1>5, <1>6

LEMMA SumSame ==
    ASSUME NEW f, NEW g, NEW S, IsFiniteSet(S), \A x \in S : f[x] = g[x]
    PROVE  SumOver(f, S) = SumOver(g, S)
<1> DEFINE C == {s \in SUBSET S : SumOver(f, s) # SumOver(g, s)}
<1> SUFFICES ASSUME C # {} PROVE FALSE
  <2>1. S \in SUBSET S
    OBVIOUS
  <2> QED
    BY <2>1
<1>1. PICK s \in C : \A U \in C : U \subseteq s => U = s
  <2>1. C \in SUBSET (SUBSET S)
    OBVIOUS
  <2> HIDE DEF C
  <2> QED
    BY <2>1, SmallestSet
<1>2. s \in SUBSET S /\ SumOver(f, s) # SumOver(g, s) /\ IsFiniteSet(s)
  BY <1>1, FS_Subset
<1>3. /\ SumOver(f, s) = IF s = {} THEN 0 ELSE f[Member(s)] + SumOver(f, s \ {Member(s)})
      /\ SumOver(g, s) = IF s = {} THEN 0 ELSE g[Member(s)] + SumOver(g, s \ {Member(s)})
  BY <1>2, SumStep
<1>4. s # {}
  BY <1>2, <1>3
<1>5. Member(s) \in S /\ s \ {Member(s)} \in SUBSET S /\ s \ {Member(s)} # s
  BY <1>2, <1>4, AnyIn
<1>6. SumOver(f, s \ {Member(s)}) = SumOver(g, s \ {Member(s)})
  BY <1>1, <1>5
<1> QED
  BY <1>2, <1>3, <1>4, <1>5, <1>6

(* Any member may be taken first. *)
LEMMA SumRemove ==
    ASSUME NEW f, NEW S, IsFiniteSet(S), \A y \in S : f[y] \in Nat, NEW x \in S
    PROVE  SumOver(f, S) = f[x] + SumOver(f, S \ {x})
<1> DEFINE C == {s \in SUBSET S : \E z \in s : SumOver(f, s) # f[z] + SumOver(f, s \ {z})}
<1> SUFFICES ASSUME C # {} PROVE FALSE
  <2>1. S \in SUBSET S
    OBVIOUS
  <2> QED
    BY <2>1
<1>1. PICK s \in C : \A U \in C : U \subseteq s => U = s
  <2>1. C \in SUBSET (SUBSET S)
    OBVIOUS
  <2> HIDE DEF C
  <2> QED
    BY <2>1, SmallestSet
<1>2. s \in SUBSET S /\ IsFiniteSet(s)
  BY <1>1, FS_Subset
<1>3. PICK z \in s : SumOver(f, s) # f[z] + SumOver(f, s \ {z})
  BY <1>1
<1> DEFINE y == Member(s)
<1>4. y \in s /\ SumOver(f, s) = f[y] + SumOver(f, s \ {y})
  BY <1>2, <1>3, SumStep, AnyIn
<1> HIDE DEF y
<1>5. y # z
  BY <1>3, <1>4
<1>6. /\ s \ {y} \in SUBSET S /\ s \ {y} # s /\ z \in s \ {y}
      /\ s \ {z} \in SUBSET S /\ s \ {z} # s /\ y \in s \ {z}
  BY <1>2, <1>4, <1>5
<1>7. SumOver(f, s \ {y}) = f[z] + SumOver(f, (s \ {y}) \ {z})
  BY <1>1, <1>6
<1>8. SumOver(f, s \ {z}) = f[y] + SumOver(f, (s \ {z}) \ {y})
  BY <1>1, <1>6
<1>9. (s \ {z}) \ {y} = (s \ {y}) \ {z}
  OBVIOUS
<1>10. f[y] \in Nat /\ f[z] \in Nat /\ SumOver(f, (s \ {y}) \ {z}) \in Nat
  <2>1. (s \ {y}) \ {z} \in SUBSET S
    BY <1>2
  <2>2. IsFiniteSet((s \ {y}) \ {z}) /\ \A q \in (s \ {y}) \ {z} : f[q] \in Nat
    BY <2>1, FS_Subset
  <2> QED
    BY <1>2, <1>3, <1>4, <2>2, SumNat
<1>11. SumOver(f, s) = f[y] + (f[z] + SumOver(f, (s \ {y}) \ {z}))
  BY <1>4, <1>7
<1>12. f[z] + SumOver(f, s \ {z}) = f[z] + (f[y] + SumOver(f, (s \ {y}) \ {z}))
  BY <1>8, <1>9
<1>13. SumOver(f, s) = f[z] + SumOver(f, s \ {z})
  BY <1>10, <1>11, <1>12
<1> QED
  BY <1>3, <1>13

LEMMA SumAdd ==
    ASSUME NEW f, NEW S, IsFiniteSet(S), NEW x, x \notin S, \A y \in S \cup {x} : f[y] \in Nat
    PROVE  SumOver(f, S \cup {x}) = SumOver(f, S) + f[x]
<1>1. IsFiniteSet(S \cup {x})
  BY FS_AddElement
<1>2. x \in S \cup {x} /\ (S \cup {x}) \ {x} = S
  OBVIOUS
<1>3. SumOver(f, S \cup {x}) = f[x] + SumOver(f, (S \cup {x}) \ {x})
  BY <1>1, <1>2, SumRemove
<1>4. SumOver(f, S) \in Nat /\ f[x] \in Nat
  BY SumNat
<1> QED
  BY <1>2, <1>3, <1>4

LEMMA SumMonotone ==
    ASSUME NEW f, NEW S, IsFiniteSet(S), \A y \in S : f[y] \in Nat, NEW T \in SUBSET S
    PROVE  SumOver(f, T) <= SumOver(f, S)
<1> DEFINE C == {s \in SUBSET S : T \subseteq s /\ ~(SumOver(f, T) <= SumOver(f, s))}
<1> SUFFICES ASSUME C # {} PROVE FALSE
  <2>1. S \in SUBSET S
    OBVIOUS
  <2> QED
    BY <2>1
<1>1. PICK s \in C : \A U \in C : U \subseteq s => U = s
  <2>1. C \in SUBSET (SUBSET S)
    OBVIOUS
  <2> HIDE DEF C
  <2> QED
    BY <2>1, SmallestSet
<1>2. s \in SUBSET S /\ IsFiniteSet(s) /\ T \subseteq s /\ ~(SumOver(f, T) <= SumOver(f, s))
  BY <1>1, FS_Subset
<1>3. SumOver(f, T) \in Nat
  <2>1. IsFiniteSet(T) /\ \A y \in T : f[y] \in Nat
    BY FS_Subset
  <2> QED
    BY <2>1, SumNat
<1>4. T # s
  BY <1>2, <1>3
<1>5. PICK x \in s : x \notin T
  BY <1>2, <1>4
<1>6. s \ {x} \in SUBSET S /\ T \subseteq s \ {x} /\ s \ {x} # s
  BY <1>2, <1>5
<1>7. SumOver(f, T) <= SumOver(f, s \ {x})
  BY <1>1, <1>6
<1>8. SumOver(f, s) = f[x] + SumOver(f, s \ {x})
  BY <1>2, SumRemove
<1>9. f[x] \in Nat /\ SumOver(f, s \ {x}) \in Nat
  <2>1. IsFiniteSet(s \ {x}) /\ \A y \in s \ {x} : f[y] \in Nat
    BY <1>6, FS_Subset
  <2> QED
    BY <1>2, <2>1, SumNat
<1> QED
  BY <1>2, <1>3, <1>7, <1>8, <1>9

----------------------------------------------------------------------------
(* The window. *)

GroupSizes == [i \in DOMAIN groups |-> groups[i].tokens]

LEMMA GroupFacts ==
    ASSUME groups \in Seq(Group)
    PROVE  /\ Len(groups) \in Nat /\ DOMAIN groups = 1..Len(groups)
           /\ IsFiniteSet(DOMAIN groups) /\ Cardinality(DOMAIN groups) = Len(groups)
           /\ \A i \in DOMAIN groups :
                /\ groups[i].tokens \in Nat /\ groups[i].relevance \in Nat
                /\ GroupSizes[i] = groups[i].tokens
<1>1. Len(groups) \in Nat /\ DOMAIN groups = 1..Len(groups)
  OBVIOUS
<1>2. \A i \in DOMAIN groups : groups[i] \in Group
  BY <1>1
<1>3. IsFiniteSet(1..Len(groups)) /\ Cardinality(1..Len(groups)) = Len(groups)
  BY <1>1, FS_Interval, SMTT(40)
<1> QED
  BY <1>1, <1>2, <1>3 DEF Group, GroupSizes

FoldedTokens(gs, S) == MapThenSumSet(LAMBDA i : gs[i].tokens, S)

LEMMA GroupFold ==
    ASSUME NEW S, IsFiniteSet(S), NEW f, NEW gs, \A x \in S : f[x] = gs[x].tokens
    PROVE  FoldedTokens(gs, S) = SumOver(f, S)
<1> DEFINE F(g) == g = [s \in SUBSET S |->
                          IF s = {} THEN 0 ELSE gs[Member(s)].tokens + g[s \ {Member(s)}]]
<1>1. \A s \in SUBSET S : s # {} => f[Member(s)] = gs[Member(s)].tokens
  BY AnyIn
<1>2. \A g : F(g) <=> IsSum(g, f, S)
  <2>1. ASSUME NEW g
        PROVE  [s \in SUBSET S |-> IF s = {} THEN 0 ELSE gs[Member(s)].tokens + g[s \ {Member(s)}]]
             = [s \in SUBSET S |-> IF s = {} THEN 0 ELSE f[Member(s)] + g[s \ {Member(s)}]]
    BY <1>1
  <2> QED
    BY <2>1 DEF IsSum
<1>3. PICK h : h = CHOOSE g : F(g)
  OBVIOUS
<1>4. \E g : F(g)
  BY <1>2, SumExists
<1>5. F(h)
  <2> HIDE DEF F
  <2> QED
    BY <1>3, <1>4
<1>6. IsSum(h, f, S)
  BY <1>2, <1>5
<1> HIDE DEF F
<1>7. h[S] = SumOver(f, S)
  BY <1>6, SumAt
<1>8. FoldedTokens(gs, S) = (CHOOSE g : F(g))[S]
  BY DEF F, FoldedTokens, MapThenSumSet, MapThenFoldSet, Member
<1> QED
  BY <1>3, <1>7, <1>8

LEMMA GroupTokensIs ==
    ASSUME groups \in Seq(Group), NEW steps \in SUBSET DOMAIN groups
    PROVE  GroupTokens(steps) = SumOver(GroupSizes, steps)
<1>1. GroupTokens(steps) = FoldedTokens(groups, steps)
  BY DEF GroupTokens, FoldedTokens
<1>2. IsFiniteSet(steps) /\ \A i \in steps : GroupSizes[i] = groups[i].tokens
  BY GroupFacts, FS_Subset
<1> QED
  BY <1>1, <1>2, GroupFold

LEMMA GroupTokensNat ==
    ASSUME groups \in Seq(Group), NEW steps \in SUBSET DOMAIN groups
    PROVE  GroupTokens(steps) \in Nat
<1>1. IsFiniteSet(steps) /\ \A i \in steps : GroupSizes[i] \in Nat
  BY GroupFacts, FS_Subset
<1> QED
  BY <1>1, SumNat, GroupTokensIs

LEMMA GroupTokensAdd ==
    ASSUME groups \in Seq(Group), NEW steps \in SUBSET DOMAIN groups,
           NEW i \in DOMAIN groups, i \notin steps
    PROVE  GroupTokens(steps \cup {i}) = GroupTokens(steps) + groups[i].tokens
<1>1. IsFiniteSet(steps) /\ \A j \in steps \cup {i} : GroupSizes[j] \in Nat
  BY GroupFacts, FS_Subset
<1>2. SumOver(GroupSizes, steps \cup {i}) = SumOver(GroupSizes, steps) + GroupSizes[i]
  BY <1>1, SumAdd
<1>3. steps \cup {i} \in SUBSET DOMAIN groups /\ GroupSizes[i] = groups[i].tokens
  BY GroupFacts
<1>4. /\ GroupTokens(steps \cup {i}) = SumOver(GroupSizes, steps \cup {i})
      /\ GroupTokens(steps) = SumOver(GroupSizes, steps)
  BY <1>3, GroupTokensIs
<1> QED
  BY <1>2, <1>3, <1>4

LEMMA GroupTokensMonotone ==
    ASSUME groups \in Seq(Group), NEW steps \in SUBSET DOMAIN groups, NEW part \in SUBSET steps
    PROVE  GroupTokens(part) <= GroupTokens(steps)
<1>1. IsFiniteSet(steps) /\ \A j \in steps : GroupSizes[j] \in Nat
  BY GroupFacts, FS_Subset
<1>2. SumOver(GroupSizes, part) <= SumOver(GroupSizes, steps)
  BY <1>1, SumMonotone
<1>3. part \in SUBSET DOMAIN groups
  OBVIOUS
<1> QED
  BY <1>2, <1>3, GroupTokensIs

(* The ranking is a strict total order, and positions number it. *)
Ahead(i) == {j \in DOMAIN groups : RankedBefore(j, i)}

Position(i) == Cardinality(Ahead(i)) + 1

LEMMA Ranking ==
    ASSUME groups \in Seq(Group)
    PROVE  /\ \A i \in DOMAIN groups : ~RankedBefore(i, i)
           /\ \A i, j, k \in DOMAIN groups :
                RankedBefore(i, j) /\ RankedBefore(j, k) => RankedBefore(i, k)
           /\ \A i, j \in DOMAIN groups : i # j => RankedBefore(i, j) \/ RankedBefore(j, i)
<1>1. \A i \in DOMAIN groups : i \in Nat /\ groups[i].relevance \in Nat
  BY GroupFacts
<1>2. \A i : Recent(i) \in BOOLEAN
  BY DEF Recent
<1>3. \A i \in DOMAIN groups : ~RankedBefore(i, i)
  BY <1>1, <1>2 DEF RankedBefore
<1>4. ASSUME NEW i \in DOMAIN groups, NEW j \in DOMAIN groups, NEW k \in DOMAIN groups,
             RankedBefore(i, j), RankedBefore(j, k)
      PROVE  RankedBefore(i, k)
  BY <1>1, <1>2, <1>4 DEF RankedBefore
<1>5. ASSUME NEW i \in DOMAIN groups, NEW j \in DOMAIN groups, i # j
      PROVE  RankedBefore(i, j) \/ RankedBefore(j, i)
  BY <1>1, <1>2, <1>5 DEF RankedBefore
<1> QED
  BY <1>3, <1>4, <1>5

LEMMA Positions ==
    ASSUME groups \in Seq(Group)
    PROVE  /\ \A i \in DOMAIN groups : Position(i) \in 1..Len(groups)
           /\ \A i, j \in DOMAIN groups : RankedBefore(i, j) <=> Position(i) < Position(j)
           /\ \A i, j \in DOMAIN groups : Position(i) = Position(j) => i = j
<1>1. \A i \in DOMAIN groups : Ahead(i) \in SUBSET DOMAIN groups /\ i \notin Ahead(i)
  BY Ranking DEF Ahead
<1>2. \A i \in DOMAIN groups : IsFiniteSet(Ahead(i)) /\ Cardinality(Ahead(i)) \in Nat
  BY <1>1, GroupFacts, FS_Subset, FS_CardinalityType
<1>3. ASSUME NEW i \in DOMAIN groups
      PROVE  Position(i) \in 1..Len(groups)
  <2>1. Cardinality(Ahead(i)) <= Len(groups) /\ Cardinality(Ahead(i)) # Len(groups)
    <3>1. Cardinality(Ahead(i)) <= Cardinality(DOMAIN groups)
          /\ (Cardinality(DOMAIN groups) = Cardinality(Ahead(i)) => DOMAIN groups = Ahead(i))
      BY <1>1, GroupFacts, FS_Subset
    <3> QED
      BY <3>1, <1>1, GroupFacts
  <2> QED
    BY <1>2, <2>1, GroupFacts DEF Position
<1>4. ASSUME NEW i \in DOMAIN groups, NEW j \in DOMAIN groups, RankedBefore(i, j)
      PROVE  Position(i) < Position(j)
  <2>1. Ahead(i) \in SUBSET Ahead(j) /\ i \in Ahead(j) /\ i \notin Ahead(i)
    BY <1>4, Ranking DEF Ahead
  <2>2. Cardinality(Ahead(i)) <= Cardinality(Ahead(j))
        /\ (Cardinality(Ahead(j)) = Cardinality(Ahead(i)) => Ahead(j) = Ahead(i))
    BY <1>2, <2>1, FS_Subset
  <2>3. Cardinality(Ahead(i)) < Cardinality(Ahead(j))
    BY <1>2, <2>1, <2>2
  <2> QED
    BY <1>2, <2>3 DEF Position
<1>5. \A i \in DOMAIN groups : Position(i) \in Nat
  BY <1>2 DEF Position
<1>6. ASSUME NEW i \in DOMAIN groups, NEW j \in DOMAIN groups
      PROVE  /\ RankedBefore(i, j) <=> Position(i) < Position(j)
             /\ Position(i) = Position(j) => i = j
  <2>1. CASE i = j
    BY <2>1, <1>5, Ranking
  <2>2. CASE i # j /\ RankedBefore(i, j)
    BY <2>2, <1>4, <1>5
  <2>3. CASE i # j /\ ~RankedBefore(i, j)
    <3>1. RankedBefore(j, i)
      BY <2>3, Ranking
    <3>2. Position(j) < Position(i)
      BY <3>1, <1>4
    <3> QED
      BY <2>3, <3>2, <1>5
  <2> QED
    BY <2>1, <2>2, <2>3
<1> QED
  BY <1>3, <1>6

(* The groups added at position n, when those before it are kept. *)
Added(kept, n, budget) ==
    {i \in DOMAIN groups : Position(i) = n /\ GroupTokens(kept) + groups[i].tokens <= budget}

IsKept(g, budget, N) ==
    g = [n \in 0..N |-> IF n = 0 THEN {} ELSE g[n - 1] \cup Added(g[n - 1], n, budget)]

LEMMA KeptExists ==
    ASSUME NEW budget, NEW N \in Nat
    PROVE  \E g : IsKept(g, budget, N)
<1> DEFINE C == {n \in Nat : ~\E g : IsKept(g, budget, n)}
<1> SUFFICES ASSUME C # {} PROVE FALSE
  OBVIOUS
<1>1. C \in SUBSET Nat
  OBVIOUS
<1>2. PICK m : m = Min(C)
  OBVIOUS
<1>3. m \in C /\ \A n \in C : m <= n
  <2> HIDE DEF C
  <2> QED
    BY <1>1, <1>2, LeastNatural
<1>4. m \in Nat /\ ~\E g : IsKept(g, budget, m)
  BY <1>3
<1>5. CASE m = 0
  <2>1. PICK g : g = [n \in 0..0 |-> {}]
    OBVIOUS
  <2>2. IsKept(g, budget, 0)
    BY <2>1 DEF IsKept
  <2> QED
    BY <1>4, <1>5, <2>2
<1>6. CASE m # 0
  <2>1. m - 1 \in Nat /\ m - 1 \notin C
    BY <1>3, <1>4, <1>6
  <2>2. PICK g : IsKept(g, budget, m - 1)
    BY <2>1
  <2>3. PICK new : new = g[m - 1] \cup Added(g[m - 1], m, budget)
    OBVIOUS
  <2>4. PICK h : h = [n \in 0..m |-> IF n = m THEN new ELSE g[n]]
    OBVIOUS
  <2>5. ASSUME NEW n \in 0..m
        PROVE  h[n] = IF n = 0 THEN {} ELSE h[n - 1] \cup Added(h[n - 1], n, budget)
    <3>1. CASE n = 0
      BY <1>4, <1>6, <2>1, <2>2, <2>4, <3>1 DEF IsKept
    <3>2. CASE n # 0 /\ n # m
      <4>1. n \in 0..(m - 1) /\ n - 1 \in 0..m /\ n - 1 # m
        BY <1>4, <3>2
      <4>2. g[n] = g[n - 1] \cup Added(g[n - 1], n, budget)
        BY <2>2, <3>2, <4>1 DEF IsKept
      <4> QED
        BY <2>4, <3>2, <4>1, <4>2
    <3>3. CASE n # 0 /\ n = m
      <4>1. n - 1 \in 0..m /\ n - 1 # m
        BY <1>4, <3>3
      <4> QED
        BY <2>3, <2>4, <3>3, <4>1
    <3> QED
      BY <3>1, <3>2, <3>3
  <2>6. h = [n \in 0..m |-> h[n]]
    BY <2>4
  <2>7. IsKept(h, budget, m)
    BY <2>5, <2>6 DEF IsKept
  <2> QED
    BY <1>4, <2>7
<1> QED
  BY <1>5, <1>6

LEMMA SelectedIsKept ==
    ASSUME groups \in Seq(Group), NEW budget
    PROVE  \E g : IsKept(g, budget, Len(groups)) /\ Selected(budget) = g[Len(groups)]
<1>1. PICK g : g = CHOOSE h : IsKept(h, budget, Len(groups))
  OBVIOUS
<1>2. Len(groups) \in Nat
  BY GroupFacts
<1>3. IsKept(g, budget, Len(groups))
  BY <1>1, <1>2, KeptExists
<1>4. Selected(budget) = g[Len(groups)]
  BY <1>1 DEF Selected, IsKept, Added, Position, Ahead
<1> QED
  BY <1>3, <1>4

(* What has been kept after n positions. *)
KeptSoFar(g, budget, n) ==
    /\ g[n] \in SUBSET DOMAIN groups
    /\ \A i \in g[n] : Position(i) <= n
    /\ GroupTokens(g[n]) <= budget
    /\ \A m \in 0..n : g[m] = {i \in g[n] : Position(i) <= m}

LEMMA KeptInduction ==
    ASSUME groups \in Seq(Group), NEW budget \in Nat, NEW g, IsKept(g, budget, Len(groups)),
           NEW n \in 1..Len(groups), KeptSoFar(g, budget, n - 1)
    PROVE  KeptSoFar(g, budget, n)
<1> DEFINE old == g[n - 1]
           new == Added(old, n, budget)
<1>0. Len(groups) \in Nat /\ n - 1 \in Nat /\ n \in 0..Len(groups) /\ n # 0
  BY GroupFacts
<1>1. g[n] = old \cup new
  BY <1>0 DEF IsKept
<1>2. /\ old \in SUBSET DOMAIN groups /\ GroupTokens(old) <= budget
      /\ \A i \in old : Position(i) <= n - 1
      /\ \A m \in 0..(n - 1) : g[m] = {i \in old : Position(i) <= m}
  BY DEF KeptSoFar
<1>3. /\ new \in SUBSET DOMAIN groups
      /\ \A i \in new : Position(i) = n /\ GroupTokens(old) + groups[i].tokens <= budget
  BY DEF Added
<1>4. \A i \in DOMAIN groups : Position(i) \in Nat
  BY Positions
<1> HIDE DEF old, new
<1>5. g[n] \in SUBSET DOMAIN groups /\ \A i \in g[n] : Position(i) <= n
  BY <1>0, <1>1, <1>2, <1>3, <1>4
<1>6. GroupTokens(g[n]) <= budget
  <2>1. CASE new = {}
    BY <1>1, <1>2, <2>1
  <2>2. CASE new # {}
    <3>1. PICK i \in new : TRUE
      BY <2>2
    <3>2. \A j \in new : j = i
      BY <1>3, <3>1, Positions
    <3>3. g[n] = old \cup {i}
      BY <1>1, <3>1, <3>2
    <3>4. i \notin old /\ i \in DOMAIN groups
      BY <1>0, <1>2, <1>3, <3>1
    <3>5. GroupTokens(old \cup {i}) = GroupTokens(old) + groups[i].tokens
      BY <1>2, <3>4, GroupTokensAdd
    <3> QED
      BY <1>3, <3>1, <3>3, <3>5
  <2> QED
    BY <2>1, <2>2
<1>7. ASSUME NEW m \in 0..n
      PROVE  g[m] = {i \in g[n] : Position(i) <= m}
  <2>1. CASE m = n
    BY <1>5, <2>1
  <2>2. CASE m # n
    <3>1. m \in 0..(n - 1) /\ m < n
      BY <1>0, <2>2
    <3>2. \A i \in new : ~(Position(i) <= m)
      BY <1>0, <1>3, <3>1
    <3> QED
      BY <1>1, <1>2, <3>1, <3>2
  <2> QED
    BY <2>1, <2>2
<1> QED
  BY <1>5, <1>6, <1>7 DEF KeptSoFar

LEMMA KeptAll ==
    ASSUME groups \in Seq(Group), NEW budget \in Nat, NEW g, IsKept(g, budget, Len(groups))
    PROVE  KeptSoFar(g, budget, Len(groups))
<1> DEFINE N == Len(groups)
           C == {n \in 0..N : ~KeptSoFar(g, budget, n)}
<1>0. N \in Nat
  BY GroupFacts
<1> SUFFICES ASSUME C # {} PROVE FALSE
  BY <1>0
<1>1. C \in SUBSET Nat
  BY <1>0
<1>2. PICK m : m = Min(C)
  OBVIOUS
<1>3. m \in C /\ \A n \in C : m <= n
  <2> HIDE DEF C
  <2> QED
    BY <1>1, <1>2, LeastNatural
<1>4. m \in 0..N /\ ~KeptSoFar(g, budget, m)
  BY <1>3
<1>5. CASE m = 0
  <2>1. g[0] = {}
    BY <1>0 DEF IsKept
  <2>2. GroupTokens({}) <= budget
    <3>1. {} \in SUBSET DOMAIN groups /\ IsFiniteSet({})
      BY FS_EmptySet
    <3>2. SumOver(GroupSizes, {}) = 0
      BY <3>1, SumStep
    <3> QED
      BY <3>1, <3>2, GroupTokensIs
  <2>3. KeptSoFar(g, budget, 0)
    BY <2>1, <2>2 DEF KeptSoFar
  <2> QED
    BY <1>4, <1>5, <2>3
<1>6. CASE m # 0
  <2>1. m - 1 \in 0..N /\ m - 1 \notin C /\ m \in 1..N
    BY <1>0, <1>3, <1>4, <1>6
  <2>2. KeptSoFar(g, budget, m - 1)
    BY <2>1
  <2>3. KeptSoFar(g, budget, m)
    BY <2>1, <2>2, KeptInduction
  <2> QED
    BY <1>4, <2>3
<1> QED
  BY <1>5, <1>6

(* The selection fits its budget, and a group is left out only when those  *)
(* ranked before it and kept leave no room for it.                         *)
LEMMA SelectedIs ==
    ASSUME groups \in Seq(Group), NEW budget \in Nat
    PROVE  /\ Selected(budget) \in SUBSET DOMAIN groups
           /\ GroupTokens(Selected(budget)) <= budget
           /\ \A i \in DOMAIN groups \ Selected(budget) :
                GroupTokens({j \in Selected(budget) : RankedBefore(j, i)}) + groups[i].tokens
                    > budget
<1> DEFINE N == Len(groups)
<1>1. PICK g : IsKept(g, budget, N) /\ Selected(budget) = g[N]
  BY SelectedIsKept
<1>2. KeptSoFar(g, budget, N)
  BY <1>1, KeptAll
<1>3. ASSUME NEW i \in DOMAIN groups, i \notin g[N]
      PROVE  GroupTokens({j \in g[N] : RankedBefore(j, i)}) + groups[i].tokens > budget
  <2> DEFINE p == Position(i)
  <2>1. p \in 1..N /\ N \in Nat
    BY Positions, GroupFacts
  <2>2. p \in 0..N /\ p - 1 \in 0..N /\ p # 0
    BY <2>1
  <2>3. g[p] = g[p - 1] \cup Added(g[p - 1], p, budget)
    BY <1>1, <2>2 DEF IsKept
  <2>4. i \notin g[p]
    BY <1>2, <1>3, <2>2 DEF KeptSoFar
  <2>5. ~(GroupTokens(g[p - 1]) + groups[i].tokens <= budget)
    BY <2>3, <2>4 DEF Added
  <2>6. g[p - 1] = {j \in g[N] : Position(j) <= p - 1}
    BY <1>2, <2>2 DEF KeptSoFar
  <2>7. \A j \in g[N] : j \in DOMAIN groups /\ Position(j) \in Nat
    BY <1>2, Positions DEF KeptSoFar
  <2>8. \A j \in g[N] : RankedBefore(j, i) <=> Position(j) <= p - 1
    <3>1. ASSUME NEW j \in g[N]
          PROVE  RankedBefore(j, i) <=> Position(j) <= p - 1
      <4>1. RankedBefore(j, i) <=> Position(j) < p
        BY <2>7, Positions
      <4> QED
        BY <2>1, <2>7, <4>1
    <3> QED
      BY <3>1
  <2>9. g[p - 1] = {j \in g[N] : RankedBefore(j, i)}
    BY <2>6, <2>8
  <2>10. GroupTokens(g[p - 1]) \in Nat /\ groups[i].tokens \in Nat
    <3>1. g[p - 1] \in SUBSET DOMAIN groups
      BY <2>6, <2>7
    <3> QED
      BY <3>1, GroupTokensNat, GroupFacts
  <2> QED
    BY <2>5, <2>9, <2>10
<1> QED
  BY <1>1, <1>2, <1>3 DEF KeptSoFar

Lesser(a, b) == Min({a, b})

Larger(a, b) == Max({a, b})

LEMMA MinTwo ==
    ASSUME NEW a \in Int, NEW b \in Int
    PROVE  (Lesser(a, b) = a \/ Lesser(a, b) = b) /\ Lesser(a, b) <= a /\ Lesser(a, b) <= b
<1>1. \E x \in {a, b} : \A y \in {a, b} : x <= y
  OBVIOUS
<1>2. Min({a, b}) \in {a, b} /\ \A y \in {a, b} : Min({a, b}) <= y
  BY <1>1 DEF Min
<1> QED
  BY <1>2 DEF Lesser, Larger

LEMMA MaxTwo ==
    ASSUME NEW a \in Int, NEW b \in Int
    PROVE  (Larger(a, b) = a \/ Larger(a, b) = b) /\ Larger(a, b) >= a /\ Larger(a, b) >= b
<1>1. \E x \in {a, b} : \A y \in {a, b} : x >= y
  OBVIOUS
<1>2. Max({a, b}) \in {a, b} /\ \A y \in {a, b} : Max({a, b}) >= y
  BY <1>1 DEF Max
<1> QED
  BY <1>2 DEF Lesser, Larger

(* What WindowSound says of a window. *)
WindowFits(w) ==
    /\ WindowTokens(w) <= ContextTokens
    /\ GroupTokens(w.kept) + w.memory <= w.history
    /\ GroupTokens(DOMAIN groups) <= w.history => w.kept = DOMAIN groups
    /\ \A i \in DOMAIN groups \ w.kept :
         GroupTokens({j \in w.kept : RankedBefore(j, i)}) + groups[i].tokens > w.history - w.reserve

LEMMA ReserveIs ==
    ASSUME groups \in Seq(Group), NEW history \in Nat, NEW taskMemory \in BOOLEAN
    PROVE  /\ Reserve(history, taskMemory) \in Nat
           /\ Reserve(history, taskMemory) <= history
           /\ GroupTokens(DOMAIN groups) <= history => Reserve(history, taskMemory) = 0
<1>1. MinReserve \in Nat /\ MaxReserve \in Nat
  BY ContextAssumption
<1>2. history \div 3 \in Nat /\ history \div 3 <= history
  OBVIOUS
<1>3. PICK third : third = history \div 3
  OBVIOUS
<1>4. PICK share : share = Larger(MinReserve, third)
  OBVIOUS
<1>5. (share = MinReserve \/ share = third) /\ share \in Nat
  BY <1>1, <1>2, <1>3, <1>4, MaxTwo
<1>6. PICK room : room = Lesser(MaxReserve, share)
  OBVIOUS
<1>7. room \in Nat /\ room <= share
  BY <1>1, <1>5, <1>6, MinTwo
<1>8. GroupTokens(DOMAIN groups) \in Nat
  BY GroupTokensNat
<1>9. Reserve(history, taskMemory) =
        IF taskMemory /\ GroupTokens(DOMAIN groups) > history /\ history >= MinReserve
        THEN room ELSE 0
  BY <1>3, <1>4, <1>6 DEF Reserve, Lesser, Larger
<1> QED
  BY <1>1, <1>2, <1>3, <1>5, <1>7, <1>8, <1>9

LEMMA TaskMemorySizesIs ==
    ASSUME NEW dropped, NEW limit \in Nat, NEW n \in TaskMemorySizes(dropped, limit)
    PROVE  n \in Nat /\ n <= limit
<1>1. MemoryMessage \in Nat
  BY ContextAssumption
<1>2. PICK top : top = MemoryMessage + Cardinality(dropped)
  OBVIOUS
<1>3. n = 0 \/ (n \in MemoryMessage..top /\ n <= limit)
  BY <1>2 DEF TaskMemorySizes
<1> QED
  BY <1>1, <1>3

LEMMA BuildWindowIs ==
    ASSUME groups \in Seq(Group), NEW fixed \in Nat, fixed <= ContextTokens,
           NEW budget \in Nat, NEW taskMemory \in BOOLEAN,
           NEW w \in BuildWindow(fixed, budget, taskMemory)
    PROVE  WindowFits(w) /\ w.kept \in SUBSET DOMAIN groups
<1>0. ContextTokens \in Nat /\ ContextTokens - fixed \in Nat
  BY Constants
<1> DEFINE history == Lesser(ContextTokens - fixed, budget)
           reserve == Reserve(history, taskMemory)
           kept == Selected(history - reserve)
           limit == history - GroupTokens(kept)
<1>1. PICK n : /\ w = [fixed |-> fixed, history |-> history, reserve |-> reserve, kept |-> kept,
                       memory |-> n]
               /\ n \in IF taskMemory THEN TaskMemorySizes(DOMAIN groups \ kept, limit) ELSE {0}
  BY DEF BuildWindow, Lesser
<1>2. /\ w.fixed = fixed /\ w.history = history /\ w.reserve = reserve /\ w.kept = kept
      /\ w.memory = n
  BY <1>1
<1>3. history \in Nat /\ history <= ContextTokens - fixed
  BY <1>0, MinTwo
<1> HIDE DEF history
<1>4. /\ reserve \in Nat /\ reserve <= history
      /\ GroupTokens(DOMAIN groups) <= history => reserve = 0
  BY <1>3, ReserveIs
<1> HIDE DEF reserve
<1>5. history - reserve \in Nat
  BY <1>3, <1>4
<1>6. PICK room : room = history - reserve
  OBVIOUS
<1>7. /\ kept \in SUBSET DOMAIN groups /\ GroupTokens(kept) <= room
      /\ \A i \in DOMAIN groups \ kept :
            GroupTokens({j \in kept : RankedBefore(j, i)}) + groups[i].tokens > room
  BY <1>5, <1>6, SelectedIs
<1> HIDE DEF kept
<1>8. GroupTokens(kept) \in Nat
  BY <1>7, GroupTokensNat
<1>9. limit \in Nat
  BY <1>3, <1>4, <1>5, <1>6, <1>7, <1>8
<1>10. n \in Nat /\ n <= limit
  <2> HIDE DEF limit
  <2>1. CASE taskMemory
    BY <1>1, <1>9, <2>1, TaskMemorySizesIs
  <2>2. CASE ~taskMemory
    BY <1>1, <1>9, <2>2
  <2> QED
    BY <2>1, <2>2
<1>11. GroupTokens(kept) + n <= history
  BY <1>3, <1>8, <1>10
<1>12. fixed + n + GroupTokens(kept) <= ContextTokens
  BY <1>0, <1>3, <1>8, <1>10, <1>11
<1>13. ASSUME GroupTokens(DOMAIN groups) <= history
       PROVE  kept = DOMAIN groups
  <2> SUFFICES ASSUME NEW i \in DOMAIN groups, i \notin kept PROVE FALSE
    BY <1>7
  <2> DEFINE ahead == {j \in kept : RankedBefore(j, i)}
  <2>1. GroupTokens(ahead) + groups[i].tokens > room /\ room = history
    BY <1>3, <1>4, <1>6, <1>7, <1>13
  <2>2. ahead \in SUBSET DOMAIN groups /\ i \notin ahead /\ ahead \cup {i} \in SUBSET DOMAIN groups
    BY <1>7
  <2> HIDE DEF ahead
  <2>3. GroupTokens(ahead \cup {i}) = GroupTokens(ahead) + groups[i].tokens
    BY <2>2, GroupTokensAdd
  <2>4. DOMAIN groups \in SUBSET DOMAIN groups
    OBVIOUS
  <2>5. GroupTokens(ahead \cup {i}) <= GroupTokens(DOMAIN groups)
    BY <2>2, <2>4, GroupTokensMonotone
  <2>6. GroupTokens(ahead \cup {i}) \in Nat /\ GroupTokens(DOMAIN groups) \in Nat
    BY <2>2, <2>4, GroupTokensNat
  <2> QED
    BY <1>3, <1>13, <2>1, <2>3, <2>5, <2>6
<1> QED
  BY <1>2, <1>6, <1>7, <1>11, <1>12, <1>13 DEF WindowFits, WindowTokens

(* The shares of the layers add up to what retrieval may use. *)
LEMMA AllocateIs ==
    ASSUME NEW cap \in Nat
    PROVE  LET a == Allocate(ContextTokens, cap)
           IN /\ a.retrieval \in Nat /\ a.retrieval <= ContextTokens
              /\ a.recent \in Nat
              /\ a.working \in Nat /\ a.semantic \in Nat /\ a.episodic \in Nat
              /\ cap >= (ContextTokens * 40) \div 100 => a.working >= ContextTokens \div 5
<1> DEFINE most == (ContextTokens * 40) \div 100
           avail == Lesser(most, cap)
           work == (avail * 50) \div 100
           sem == (avail * 30) \div 100
<1>0. ContextTokens \in Nat
  BY Constants
<1>1. most \in Nat /\ most <= ContextTokens
  BY <1>0
<1>2. Allocate(ContextTokens, cap) =
        [working |-> work, semantic |-> sem, episodic |-> avail - work - sem,
         retrieval |-> avail, recent |-> ContextTokens - avail]
  BY DEF Allocate, Lesser
<1>3. avail \in Nat /\ avail <= most /\ (cap >= most => avail = most)
  <2> HIDE DEF most
  <2> QED
    BY <1>1, MinTwo
<1>4. ASSUME cap >= most
      PROVE  work >= ContextTokens \div 5
  <2>1. avail = most
    BY <1>3, <1>4
  <2>2. ((((ContextTokens * 40) \div 100) * 50) \div 100) >= ContextTokens \div 5
    BY <1>0
  <2> QED
    BY <2>1, <2>2
<1> HIDE DEF most, avail
<1>5. work \in Nat /\ sem \in Nat /\ work + sem <= avail
  BY <1>3
<1> HIDE DEF work, sem
<1>6. avail - work - sem \in Nat /\ ContextTokens - avail \in Nat /\ avail <= ContextTokens
  BY <1>0, <1>1, <1>3, <1>5
<1>7. /\ Allocate(ContextTokens, cap).retrieval = avail
      /\ Allocate(ContextTokens, cap).recent = ContextTokens - avail
      /\ Allocate(ContextTokens, cap).working = work
      /\ Allocate(ContextTokens, cap).semantic = sem
      /\ Allocate(ContextTokens, cap).episodic = avail - work - sem
  BY <1>2
<1> QED
  BY <1>3, <1>4, <1>5, <1>6, <1>7 DEF most

LEMMA RetrieveAllocation ==
    ASSUME NEW working, NEW episodic, NEW active, NEW changes, NEW total, NEW cap
    PROVE  Retrieve(working, episodic, active, changes, total, cap).allocation = Allocate(total, cap)
BY DEF Retrieve

(* What a request is made of. *)
Requested(prefix, tail, episodic, active, memory, w) ==
    LET cap == Max({0, ContextTokens - prefix - RetrievalMargin})
        history == IF memory = None THEN ContextTokens ELSE memory.allocation.recent
    IN /\ status = "build"
       /\ prefix + tail <= ContextTokens
       /\ w \in BuildWindow(prefix + tail, history, memory = None)
       /\ window' = [window |-> w, retrieved |-> memory, cap |-> cap]
       /\ memory # None =>
            /\ active # None
            /\ memory = Retrieve(Estimate(wm.entries), episodic, active, changed,
                                 ContextTokens, cap)

LEMMA AssembleIs ==
    ASSUME NEW prefix \in Nat, NEW tail \in Nat, NEW episodic, NEW active,
           Assemble(prefix, tail, episodic, active), status' = "request"
    PROVE  \E memory, w : Requested(prefix, tail, episodic, active, memory, w)
<1> DEFINE cap == Max({0, ContextTokens - prefix - RetrievalMargin})
<1> DEFINE memory == RetrieveMemory(episodic, active, cap)
<1>1. memory # None =>
        /\ active # None
        /\ memory = Retrieve(Estimate(wm.entries), episodic, active, changed, ContextTokens, cap)
  BY DEF RetrieveMemory
<1>3. PICK history : history = IF memory = None THEN ContextTokens ELSE memory.allocation.recent
  OBVIOUS
<1> HIDE DEF memory
<1>4. /\ status = "build"
      /\ IF prefix + tail > ContextTokens
         THEN status' = "failed" /\ UNCHANGED window
         ELSE /\ status' = "request"
              /\ \E w \in BuildWindow(prefix + tail, history, memory = None) :
                    window' = [window |-> w, retrieved |-> memory, cap |-> cap]
  BY <1>3 DEF Assemble, memory
<1>5. ~(prefix + tail > ContextTokens)
  BY <1>4
<1>6. prefix + tail <= ContextTokens
  BY <1>5, Constants
<1>7. PICK w \in BuildWindow(prefix + tail, history, memory = None) :
        window' = [window |-> w, retrieved |-> memory, cap |-> cap]
  BY <1>4, <1>5
<1> QED
  BY <1>1, <1>3, <1>4, <1>6, <1>7 DEF Requested

LEMMA CapNat ==
    ASSUME NEW prefix \in Nat
    PROVE  Max({0, ContextTokens - prefix - RetrievalMargin}) \in Nat
<1>1. ContextTokens - prefix - RetrievalMargin \in Int
  BY Constants, ContextAssumption
<1>2. Larger(0, ContextTokens - prefix - RetrievalMargin) \in Nat
  BY <1>1, MaxTwo
<1> QED
  BY <1>2 DEF Larger

LEMMA RequestedWindow ==
    ASSUME groups \in Seq(Group), NEW prefix \in Nat, NEW tail \in Nat, NEW episodic, NEW active,
           NEW memory, NEW w, Requested(prefix, tail, episodic, active, memory, w)
    PROVE  WindowFits(w) /\ w.kept \in SUBSET DOMAIN groups
<1> DEFINE cap == Max({0, ContextTokens - prefix - RetrievalMargin})
<1>1. PICK history : history = IF memory = None THEN ContextTokens ELSE memory.allocation.recent
  OBVIOUS
<1>2. PICK b \in BOOLEAN : b = (memory = None)
  OBVIOUS
<1>3. /\ prefix + tail <= ContextTokens /\ prefix + tail \in Nat
      /\ w \in BuildWindow(prefix + tail, history, b)
      /\ memory # None => memory = Retrieve(Estimate(wm.entries), episodic, active, changed,
                                            ContextTokens, cap)
  BY <1>1, <1>2 DEF Requested
<1>4. cap \in Nat
  BY CapNat
<1> HIDE DEF cap
<1>5. history \in Nat
  <2>1. CASE memory = None
    BY <1>1, <2>1, Constants
  <2>2. CASE memory # None
    <3>1. memory.allocation = Allocate(ContextTokens, cap)
      BY <1>3, <2>2, RetrieveAllocation
    <3>2. Allocate(ContextTokens, cap).recent \in Nat
      BY <1>4, AllocateIs
    <3> QED
      BY <1>1, <2>2, <3>1, <3>2
  <2> QED
    BY <2>1, <2>2
<1> QED
  BY <1>3, <1>5, BuildWindowIs

(* Between requests no window is shown. *)
LEMMA RequestOnly ==
    ASSUME Next, status' = "request"
    PROVE  \E prefix \in PrefixTokens, tail \in TailTokens, episodic \in EpisodicTokens,
              active \in Stored \cup {None} : Assemble(prefix, tail, episodic, active)
<1>1. ASSUME NEW call, NEW ok, NEW matches, NEW plan, NEW changes,
             Observe(call, ok, matches, plan, changes)
      PROVE  status' # "request"
  BY <1>1 DEF Observe
<1>2. ~Respond
  BY DEF Respond
<1>3. \A path, ok, matches : ~ReadFile(path, ok, matches)
  BY <1>1 DEF ReadFile
<1>4. \A path, ok, restores : ~WriteFile(path, ok, restores)
  BY <1>1 DEF WriteFile
<1>5. \A ok, matches : ~RunTests(ok, matches)
  BY <1>1 DEF RunTests
<1>6. \A plan, ok : ~UpdatePlan(plan, ok)
  BY <1>1 DEF UpdatePlan
<1>7. \A plan : ~UpdatePlan(plan, TRUE)
  BY <1>6
<1>8. ~UpdatePlan(<<>>, FALSE)
  BY <1>6
<1> QED
  BY <1>2, <1>3, <1>4, <1>5, <1>7, <1>8 DEF Next

(* WindowFits, of a given history. *)
RankedIn(gs, i, j) ==
    LET recent(k) == k > Len(gs) - RecentSteps
    IN \/ recent(i) /\ ~recent(j)
       \/ /\ recent(i) = recent(j)
          /\ \/ gs[i].relevance > gs[j].relevance
             \/ gs[i].relevance = gs[j].relevance /\ i > j

FitsIn(gs, w) ==
    /\ w.fixed + w.memory + FoldedTokens(gs, w.kept) <= ContextTokens
    /\ FoldedTokens(gs, w.kept) + w.memory <= w.history
    /\ FoldedTokens(gs, DOMAIN gs) <= w.history => w.kept = DOMAIN gs
    /\ \A i \in DOMAIN gs \ w.kept :
         FoldedTokens(gs, {j \in w.kept : RankedIn(gs, j, i)}) + gs[i].tokens > w.history - w.reserve

LEMMA FitsInIs == ASSUME NEW w PROVE WindowFits(w) <=> FitsIn(groups, w)
<1>1. \A S : GroupTokens(S) = FoldedTokens(groups, S)
  BY DEF GroupTokens, FoldedTokens
<1>2. \A i, j : RankedBefore(i, j) <=> RankedIn(groups, i, j)
  BY DEF RankedBefore, RankedIn, Recent
<1>3. \A i : {j \in w.kept : RankedBefore(j, i)} = {j \in w.kept : RankedIn(groups, j, i)}
  BY <1>2
<1> QED
  BY <1>1, <1>3 DEF WindowFits, FitsIn, WindowTokens

WindowInv ==
    status = "request" => FitsIn(groups, window.window) /\ window.window.kept \subseteq DOMAIN groups

LEMMA WindowStep == IInv /\ WindowInv /\ [Next]_vars => WindowInv'
<1> SUFFICES ASSUME IInv, WindowInv, [Next]_vars, status' = "request"
             PROVE  FitsIn(groups', window'.window) /\ window'.window.kept \subseteq DOMAIN groups'
  BY DEF WindowInv
<1>1. CASE UNCHANGED vars
  BY <1>1 DEF vars, WindowInv
<1>2. CASE Next
  <2>1. PICK prefix \in PrefixTokens, tail \in TailTokens, episodic \in EpisodicTokens,
             active \in Stored \cup {None} : Assemble(prefix, tail, episodic, active)
    BY <1>2, RequestOnly
  <2>2. prefix \in Nat /\ tail \in Nat
    BY ContextAssumption
  <2>3. PICK memory, w : Requested(prefix, tail, episodic, active, memory, w)
    BY <2>1, <2>2, AssembleIs
  <2>4. FitsIn(groups, w) /\ w.kept \in SUBSET DOMAIN groups
    BY <2>2, <2>3, RequestedWindow, FitsInIs DEF IInv, Counted
  <2>5. groups' = groups
    BY <2>1 DEF Assemble
  <2>6. window'.window = w
    BY <2>3 DEF Requested
  <2> QED
    BY <2>4, <2>5, <2>6
<1> QED
  BY <1>1, <1>2

(* Every assembled window fits the context, keeps the whole history when   *)
(* that fits, and drops a step only for steps ranked before it, for any    *)
(* sizes of the prompt, the memory and the history.                        *)
THEOREM WindowsFit == Spec => []WindowSound
<1>1. Init => WindowInv
  BY DEF Init, WindowInv
<1>2. IInv /\ WindowInv /\ [Next]_vars => WindowInv'
  BY WindowStep
<1>3. WindowInv => WindowSound
  BY FitsInIs DEF WindowInv, WindowSound, WindowFits
<1> QED
  BY <1>1, <1>2, <1>3, StepsInvariant, PTL DEF Spec

----------------------------------------------------------------------------
(* Retrieval: the tokens of selections and entries. *)

LEMMA TokenFold ==
    ASSUME NEW S, IsFiniteSet(S), NEW f, \A x \in S : f[x] = x.tokens
    PROVE  TokensOf(S) = SumOver(f, S)
<1> DEFINE F(g) == g = [s \in SUBSET S |->
                          IF s = {} THEN 0 ELSE Member(s).tokens + g[s \ {Member(s)}]]
<1>1. \A s \in SUBSET S : s # {} => f[Member(s)] = Member(s).tokens
  BY AnyIn
<1>2. \A g : F(g) <=> IsSum(g, f, S)
  <2>1. ASSUME NEW g
        PROVE  [s \in SUBSET S |-> IF s = {} THEN 0 ELSE Member(s).tokens + g[s \ {Member(s)}]]
             = [s \in SUBSET S |-> IF s = {} THEN 0 ELSE f[Member(s)] + g[s \ {Member(s)}]]
    BY <1>1
  <2> QED
    BY <2>1 DEF IsSum
<1>3. PICK h : h = CHOOSE g : F(g)
  OBVIOUS
<1>4. \E g : F(g)
  BY <1>2, SumExists
<1>5. F(h)
  <2> HIDE DEF F
  <2> QED
    BY <1>3, <1>4
<1>6. IsSum(h, f, S)
  BY <1>2, <1>5
<1> HIDE DEF F
<1>7. h[S] = SumOver(f, S)
  BY <1>6, SumAt
<1>8. TokensOf(S) = (CHOOSE g : F(g))[S]
  BY DEF F, TokensOf, MapThenSumSet, MapThenFoldSet, Member
<1> QED
  BY <1>3, <1>7, <1>8

LEMMA EstimateFold ==
    ASSUME NEW S, IsFiniteSet(S), NEW f, \A x \in S : f[x] = Tokens[x.kind]
    PROVE  Estimate(S) = SumOver(f, S)
<1> DEFINE F(g) == g = [s \in SUBSET S |->
                          IF s = {} THEN 0 ELSE Tokens[Member(s).kind] + g[s \ {Member(s)}]]
<1>1. \A s \in SUBSET S : s # {} => f[Member(s)] = Tokens[Member(s).kind]
  BY AnyIn
<1>2. \A g : F(g) <=> IsSum(g, f, S)
  <2>1. ASSUME NEW g
        PROVE  [s \in SUBSET S |-> IF s = {} THEN 0 ELSE Tokens[Member(s).kind] + g[s \ {Member(s)}]]
             = [s \in SUBSET S |-> IF s = {} THEN 0 ELSE f[Member(s)] + g[s \ {Member(s)}]]
    BY <1>1
  <2> QED
    BY <2>1 DEF IsSum
<1>3. PICK h : h = CHOOSE g : F(g)
  OBVIOUS
<1>4. \E g : F(g)
  BY <1>2, SumExists
<1>5. F(h)
  <2> HIDE DEF F
  <2> QED
    BY <1>3, <1>4
<1>6. IsSum(h, f, S)
  BY <1>2, <1>5
<1> HIDE DEF F
<1>7. h[S] = SumOver(f, S)
  BY <1>6, SumAt
<1>8. Estimate(S) = (CHOOSE g : F(g))[S]
  BY DEF F, Estimate, MapThenSumSet, MapThenFoldSet, Member
<1> QED
  BY <1>3, <1>7, <1>8

LEMMA EstimateNat ==
    ASSUME NEW S, IsFiniteSet(S), S \subseteq Entry
    PROVE  Estimate(S) \in Nat
<1>1. PICK f : f = [x \in S |-> Tokens[x.kind]]
  OBVIOUS
<1>2. \A x \in S : f[x] = Tokens[x.kind] /\ f[x] \in Nat
  BY <1>1, TokensAssumption DEF Entry
<1>3. SumOver(f, S) \in Nat
  BY <1>2, SumNat
<1> QED
  BY <1>2, <1>3, EstimateFold

Sized(S) == IsFiniteSet(S) /\ \A s \in S : s.tokens \in Nat

LEMMA TokensNat == ASSUME NEW S, Sized(S) PROVE TokensOf(S) \in Nat
<1>1. PICK f : f = [x \in S |-> x.tokens]
  OBVIOUS
<1>2. IsFiniteSet(S) /\ \A x \in S : f[x] = x.tokens /\ f[x] \in Nat
  BY <1>1 DEF Sized
<1>3. SumOver(f, S) \in Nat
  BY <1>2, SumNat
<1> QED
  BY <1>2, <1>3, TokenFold

LEMMA TokensEmpty == TokensOf({}) = 0
<1>1. PICK f : f = [x \in {} |-> x.tokens]
  OBVIOUS
<1>2. IsFiniteSet({}) /\ \A x \in {} : f[x] = x.tokens
  BY FS_EmptySet
<1>3. SumOver(f, {}) = 0
  BY <1>2, SumStep
<1> QED
  BY <1>2, <1>3, TokenFold

LEMMA TokensAdd ==
    ASSUME NEW S, NEW x, Sized(S), x \notin S, x.tokens \in Nat
    PROVE  TokensOf(S \cup {x}) = TokensOf(S) + x.tokens
<1> DEFINE T == S \cup {x}
<1>1. PICK f : f = [y \in T |-> y.tokens]
  OBVIOUS
<1>2. IsFiniteSet(S) /\ IsFiniteSet(T)
  BY FS_AddElement DEF Sized
<1>3. \A y \in T : f[y] = y.tokens /\ f[y] \in Nat
  BY <1>1 DEF Sized
<1>4. SumOver(f, S \cup {x}) = SumOver(f, S) + f[x]
  BY <1>2, <1>3, SumAdd
<1>5. \A y \in S : f[y] = y.tokens
  BY <1>3
<1>6. TokensOf(S) = SumOver(f, S)
  BY <1>2, <1>5, TokenFold
<1> HIDE DEF T
<1>7. TokensOf(T) = SumOver(f, T)
  BY <1>2, <1>3, TokenFold
<1>8. f[x] = x.tokens
  BY <1>3 DEF T
<1> QED
  BY <1>4, <1>6, <1>7, <1>8 DEF T

LEMMA TokensMonotone ==
    ASSUME NEW S, Sized(S), NEW T \in SUBSET S
    PROVE  TokensOf(T) <= TokensOf(S)
<1>1. PICK f : f = [x \in S |-> x.tokens]
  OBVIOUS
<1>2. IsFiniteSet(S) /\ \A x \in S : f[x] = x.tokens /\ f[x] \in Nat
  BY <1>1 DEF Sized
<1>3. IsFiniteSet(T) /\ \A x \in T : f[x] = x.tokens
  BY <1>2, FS_Subset
<1>4. SumOver(f, T) <= SumOver(f, S)
  BY <1>2, SumMonotone
<1>5. TokensOf(T) = SumOver(f, T)
  BY <1>3, TokenFold
<1>6. TokensOf(S) = SumOver(f, S)
  BY <1>2, TokenFold
<1> QED
  BY <1>4, <1>5, <1>6

LEMMA SizedPart == ASSUME NEW S, Sized(S), NEW T \in SUBSET S PROVE Sized(T)
BY FS_Subset DEF Sized

(* A finite set has an element that comes first in a lexicographic order.  *)
LEMMA LexLeast ==
    ASSUME NEW S, IsFiniteSet(S), S # {}, NEW a \in [S -> Int], NEW b \in [S -> Int],
           NEW c \in [S -> Int]
    PROVE  \E s \in S : \A t \in S :
                \/ a[s] < a[t]
                \/ a[s] = a[t] /\ b[s] < b[t]
                \/ a[s] = a[t] /\ b[s] = b[t] /\ c[s] <= c[t]
<1> DEFINE least(s, t) ==
                \/ a[s] < a[t]
                \/ a[s] = a[t] /\ b[s] < b[t]
                \/ a[s] = a[t] /\ b[s] = b[t] /\ c[s] <= c[t]
           C == {T \in SUBSET S : T # {} /\ ~\E s \in T : \A t \in T : least(s, t)}
<1>0. /\ \A s, t, u \in S : least(s, t) /\ least(t, u) => least(s, u)
      /\ \A s, t \in S : least(s, t) \/ least(t, s)
  OBVIOUS
<1> HIDE DEF least
<1> SUFFICES ASSUME C # {} PROVE FALSE
  <2>1. S \notin C
    OBVIOUS
  <2>2. \E s \in S : \A t \in S : least(s, t)
    BY <2>1
  <2> QED
    BY <2>2 DEF least
<1>1. C \in SUBSET (SUBSET S)
  OBVIOUS
<1>2. PICK T \in C : \A U \in C : U \subseteq T => U = T
  <2> HIDE DEF C
  <2> QED
    BY <1>1, SmallestSet
<1>3. T \in SUBSET S /\ T # {} /\ ~\E s \in T : \A t \in T : least(s, t)
  OBVIOUS
<1>4. PICK x \in T : TRUE
  BY <1>3
<1>5. T \ {x} \notin C
  BY <1>2, <1>4
<1>6. CASE T \ {x} = {}
  <2>1. \A t \in T : t = x
    BY <1>6
  <2> QED
    BY <1>0, <1>3, <1>4, <2>1
<1>7. CASE T \ {x} # {}
  <2>1. PICK s \in T \ {x} : \A t \in T \ {x} : least(s, t)
    BY <1>3, <1>5, <1>7
  <2>2. CASE least(s, x)
    BY <1>3, <2>1, <2>2
  <2>3. CASE least(x, s)
    <3>1. \A t \in T : t = x \/ least(x, t)
      BY <1>0, <1>3, <1>4, <2>1, <2>3
    <3>2. least(x, x)
      BY <1>0, <1>3, <1>4
    <3> QED
      BY <1>3, <1>4, <3>1, <3>2
  <2> QED
    BY <1>0, <1>3, <1>4, <2>1, <2>2, <2>3
<1> QED
  BY <1>6, <1>7

(* What _select_diverse prefers, and one turn of it. *)
Value(s, taken) ==
    s.score - 12 * Cardinality({t \in taken : t.key = s.key})
            - (IF \E t \in taken : t.terms = s.terms THEN 15 ELSE 0)

Best(rest, taken) ==
    CHOOSE s \in rest : \A t \in rest :
        \/ Value(s, taken) > Value(t, taken)
        \/ Value(s, taken) = Value(t, taken) /\ s.id <= t.id

Turn(taken, rest, budget) ==
    LET s == Best(rest, taken)
        admitted == /\ Cardinality({t \in taken : t.key = s.key}) < PerKey
                    /\ TokensOf(taken) + s.tokens <= budget
    IN [taken |-> IF admitted THEN taken \cup {s} ELSE taken,
        rest  |-> rest \ {s}]

(* What candidates and snapshots have in common. *)
Offers(S) ==
    /\ Sized(S)
    /\ \A s \in S : s.score \in Int /\ s.id \in Nat

LEMMA BestIn ==
    ASSUME NEW rest, Offers(rest), rest # {}, NEW taken, IsFiniteSet(taken)
    PROVE  Best(rest, taken) \in rest
<1>1. PICK a : a = [s \in rest |-> -Value(s, taken)]
  OBVIOUS
<1>2. PICK b : b = [s \in rest |-> s.id]
  OBVIOUS
<1>3. \A s \in rest : Value(s, taken) \in Int
  <2> TAKE s \in rest
  <2>1. PICK same : same = {t \in taken : t.key = s.key}
    OBVIOUS
  <2>2. same \subseteq taken
    BY <2>1
  <2>3. Cardinality(same) \in Nat
    BY <2>2, FS_Subset, FS_CardinalityType
  <2>4. s.score \in Int
    BY DEF Offers
  <2> QED
    BY <2>1, <2>3, <2>4 DEF Value
<1>4. a \in [rest -> Int] /\ b \in [rest -> Int] /\ IsFiniteSet(rest)
  BY <1>1, <1>2, <1>3 DEF Offers, Sized
<1>5. PICK s \in rest : \A t \in rest :
                \/ a[s] < a[t]
                \/ a[s] = a[t] /\ b[s] < b[t]
                \/ a[s] = a[t] /\ b[s] = b[t] /\ b[s] <= b[t]
  BY <1>4, LexLeast
<1>6. \A t \in rest : \/ Value(s, taken) > Value(t, taken)
                      \/ Value(s, taken) = Value(t, taken) /\ s.id <= t.id
  <2> TAKE t \in rest
  <2>1. a[s] = -Value(s, taken) /\ a[t] = -Value(t, taken) /\ b[s] = s.id /\ b[t] = t.id
    BY <1>1, <1>2
  <2>2. s.id \in Nat /\ t.id \in Nat
    BY DEF Offers
  <2> QED
    BY <1>3, <1>5, <2>1, <2>2
<1> QED
  BY <1>6 DEF Best

(* The turns one after the other. *)
Later(state, budget, limit) ==
    IF Cardinality(state.taken) >= limit THEN state
    ELSE Turn(state.taken, state.rest, budget)

IsPass(g, candidates, budget, limit, N) ==
    g = [n \in 0..N |-> IF n = 0 THEN [taken |-> {}, rest |-> candidates]
                        ELSE Later(g[n - 1], budget, limit)]

LEMMA PassExists ==
    ASSUME NEW candidates, NEW budget, NEW limit, NEW N \in Nat
    PROVE  \E g : IsPass(g, candidates, budget, limit, N)
<1> DEFINE C == {n \in Nat : ~\E g : IsPass(g, candidates, budget, limit, n)}
<1> SUFFICES ASSUME C # {} PROVE FALSE
  OBVIOUS
<1>1. C \in SUBSET Nat
  OBVIOUS
<1>2. PICK m : m = Min(C)
  OBVIOUS
<1>3. m \in C /\ \A n \in C : m <= n
  <2> HIDE DEF C
  <2> QED
    BY <1>1, <1>2, LeastNatural
<1>4. m \in Nat /\ ~\E g : IsPass(g, candidates, budget, limit, m)
  BY <1>3
<1>0. PICK first : first = [taken |-> {}, rest |-> candidates]
  OBVIOUS
<1>5. CASE m = 0
  <2>1. PICK g : g = [n \in 0..0 |-> first]
    OBVIOUS
  <2>2. IsPass(g, candidates, budget, limit, 0)
    BY <1>0, <2>1 DEF IsPass
  <2> QED
    BY <1>4, <1>5, <2>2
<1>6. CASE m # 0
  <2>1. m - 1 \in Nat /\ m - 1 \notin C
    BY <1>3, <1>4, <1>6
  <2>2. PICK g : IsPass(g, candidates, budget, limit, m - 1)
    BY <2>1
  <2>3. PICK new : new = Later(g[m - 1], budget, limit)
    OBVIOUS
  <2>4. PICK h : h = [n \in 0..m |-> IF n = m THEN new ELSE g[n]]
    OBVIOUS
  <2>5. ASSUME NEW n \in 0..m
        PROVE  h[n] = IF n = 0 THEN first ELSE Later(h[n - 1], budget, limit)
    <3>1. CASE n = 0
      BY <1>0, <1>4, <1>6, <2>1, <2>2, <2>4, <3>1 DEF IsPass
    <3>2. CASE n # 0 /\ n # m
      <4>1. n \in 0..(m - 1) /\ n - 1 \in 0..m /\ n - 1 # m
        BY <1>4, <3>2
      <4>2. g[n] = Later(g[n - 1], budget, limit)
        BY <2>2, <3>2, <4>1 DEF IsPass
      <4> QED
        BY <2>4, <3>2, <4>1, <4>2
    <3>3. CASE n # 0 /\ n = m
      <4>1. n - 1 \in 0..m /\ n - 1 # m
        BY <1>4, <3>3
      <4> QED
        BY <2>3, <2>4, <3>3, <4>1
    <3> QED
      BY <3>1, <3>2, <3>3
  <2>6. h = [n \in 0..m |-> h[n]]
    BY <2>4
  <2>7. IsPass(h, candidates, budget, limit, m)
    BY <1>0, <2>5, <2>6 DEF IsPass
  <2> QED
    BY <1>4, <2>7
<1> QED
  BY <1>5, <1>6

LEMMA SelectDiverseIsPass ==
    ASSUME NEW candidates, IsFiniteSet(candidates), NEW budget, NEW limit
    PROVE  \E g : /\ IsPass(g, candidates, budget, limit, Cardinality(candidates))
                  /\ SelectDiverse(candidates, budget, limit) = g[Cardinality(candidates)].taken
<1>1. PICK g : g = CHOOSE h : IsPass(h, candidates, budget, limit, Cardinality(candidates))
  OBVIOUS
<1>2. Cardinality(candidates) \in Nat
  BY FS_CardinalityType
<1>3. IsPass(g, candidates, budget, limit, Cardinality(candidates))
  BY <1>1, <1>2, PassExists, ZenonT(30)
<1>4. SelectDiverse(candidates, budget, limit) = g[Cardinality(candidates)].taken
  BY <1>1 DEF SelectDiverse, IsPass, Later, Turn, Best, Value
<1> QED
  BY <1>3, <1>4

(* What has been taken after some turns, with so many left at least. *)
Taking(state, candidates, budget, left) ==
    /\ state.taken \in SUBSET candidates /\ state.rest \in SUBSET candidates
    /\ TokensOf(state.taken) <= budget
    /\ Cardinality(state.rest) >= left

LEMMA TurnTakes ==
    ASSUME NEW candidates, Offers(candidates), NEW budget \in Nat, NEW state,
           NEW left \in Nat \ {0}, Taking(state, candidates, budget, left)
    PROVE  Taking(Turn(state.taken, state.rest, budget), candidates, budget, left - 1)
<1>1. PICK taken, rest : taken = state.taken /\ rest = state.rest
  OBVIOUS
<1>2. /\ taken \in SUBSET candidates /\ rest \in SUBSET candidates
      /\ TokensOf(taken) <= budget /\ Cardinality(rest) >= left
  BY <1>1 DEF Taking
<1>3. Sized(taken) /\ Sized(rest) /\ IsFiniteSet(taken) /\ IsFiniteSet(rest)
  BY <1>2, SizedPart DEF Offers, Sized
<1>4. Offers(rest)
  BY <1>2, <1>3 DEF Offers
<1>5. rest # {} /\ Cardinality(rest) \in Nat
  BY <1>2, <1>3, FS_EmptySet, FS_CardinalityType
<1>6. PICK s : s = Best(rest, taken)
  OBVIOUS
<1>7. s \in rest /\ s \in candidates /\ s.tokens \in Nat
  BY <1>2, <1>3, <1>4, <1>5, <1>6, BestIn DEF Sized
<1>8. PICK admitted \in BOOLEAN :
        admitted = (/\ Cardinality({t \in taken : t.key = s.key}) < PerKey
                    /\ TokensOf(taken) + s.tokens <= budget)
  OBVIOUS
<1>9. PICK next : next = IF admitted THEN taken \cup {s} ELSE taken
  OBVIOUS
<1>10. Turn(state.taken, state.rest, budget) = [taken |-> next, rest |-> rest \ {s}]
  BY <1>1, <1>6, <1>8, <1>9 DEF Turn
<1>11. next \in SUBSET candidates
  BY <1>2, <1>7, <1>9
<1>12. TokensOf(next) <= budget
  <2>1. CASE ~admitted \/ s \in taken
    <3>1. next = taken
      BY <1>9, <2>1
    <3> QED
      BY <1>2, <3>1
  <2>2. CASE admitted /\ s \notin taken
    <3>1. next = taken \cup {s}
      BY <1>9, <2>2
    <3>2. TokensOf(taken \cup {s}) = TokensOf(taken) + s.tokens
      BY <1>3, <1>7, <2>2, TokensAdd
    <3> QED
      BY <1>8, <2>2, <3>1, <3>2
  <2> QED
    BY <2>1, <2>2
<1>13. Cardinality(rest \ {s}) = Cardinality(rest) - 1
  BY <1>3, <1>7, FS_RemoveElement
<1>14. Cardinality(rest \ {s}) >= left - 1
  BY <1>2, <1>5, <1>13
<1> QED
  BY <1>2, <1>10, <1>11, <1>12, <1>14 DEF Taking

(* The selected candidates fit the budget of their layer. *)
LEMMA SelectDiverseFits ==
    ASSUME NEW candidates, Offers(candidates), NEW budget \in Nat, NEW limit
    PROVE  /\ SelectDiverse(candidates, budget, limit) \in SUBSET candidates
           /\ TokensOf(SelectDiverse(candidates, budget, limit)) <= budget
<1>1. PICK N : N = Cardinality(candidates)
  OBVIOUS
<1>2. IsFiniteSet(candidates) /\ N \in Nat
  BY <1>1, FS_CardinalityType DEF Offers, Sized
<1>3. PICK g : /\ IsPass(g, candidates, budget, limit, N)
               /\ SelectDiverse(candidates, budget, limit) = g[N].taken
  BY <1>1, <1>2, SelectDiverseIsPass
<1> DEFINE C == {n \in 0..N : ~Taking(g[n], candidates, budget, N - n)}
<1>4. C = {}
  <2> SUFFICES ASSUME C # {} PROVE FALSE
    OBVIOUS
  <2>1. C \in SUBSET Nat
    BY <1>2
  <2>2. PICK m : m = Min(C)
    OBVIOUS
  <2>3. m \in C /\ \A n \in C : m <= n
    <3> HIDE DEF C
    <3> QED
      BY <2>1, <2>2, LeastNatural
  <2>4. m \in 0..N /\ ~Taking(g[m], candidates, budget, N - m)
    BY <2>3
  <2>5. CASE m = 0
    <3>1. g[0] = [taken |-> {}, rest |-> candidates]
      BY <1>2, <1>3 DEF IsPass
    <3>2. g[0].taken = {} /\ g[0].rest = candidates
      BY <3>1
    <3>3. Taking(g[0], candidates, budget, N)
      BY <1>1, <1>2, <3>2, TokensEmpty DEF Taking
    <3> QED
      BY <1>2, <2>4, <2>5, <3>3
  <2>6. CASE m # 0
    <3>1. m - 1 \in 0..N /\ m - 1 \notin C /\ N - (m - 1) \in Nat \ {0} /\ N - (m - 1) - 1 = N - m
      BY <1>2, <2>3, <2>4, <2>6
    <3>2. Taking(g[m - 1], candidates, budget, N - (m - 1))
      BY <3>1
    <3>3. g[m] = Later(g[m - 1], budget, limit)
      BY <1>3, <2>4, <2>6 DEF IsPass
    <3>4. CASE Cardinality(g[m - 1].taken) >= limit
      <4>1. g[m] = g[m - 1]
        BY <3>3, <3>4 DEF Later
      <4>2. Cardinality(g[m - 1].rest) \in Nat
        BY <1>2, <3>2, FS_Subset, FS_CardinalityType DEF Taking
      <4>3. Cardinality(g[m - 1].rest) >= N - m
        BY <1>2, <2>4, <3>2, <4>2 DEF Taking
      <4> QED
        BY <2>4, <3>2, <4>1, <4>3 DEF Taking
    <3>5. CASE ~(Cardinality(g[m - 1].taken) >= limit)
      <4>1. g[m] = Turn(g[m - 1].taken, g[m - 1].rest, budget)
        BY <3>3, <3>5 DEF Later
      <4>2. PICK left : left = N - (m - 1)
        OBVIOUS
      <4>3. Taking(Turn(g[m - 1].taken, g[m - 1].rest, budget), candidates, budget, left - 1)
        BY <3>1, <3>2, <4>2, TurnTakes
      <4> QED
        BY <2>4, <3>1, <4>1, <4>2, <4>3
    <3> QED
      BY <3>4, <3>5
  <2> QED
    BY <2>5, <2>6
<1>5. N \in 0..N /\ N - N = 0
  BY <1>2
<1>6. Taking(g[N], candidates, budget, N - N)
  BY <1>4, <1>5
<1> QED
  BY <1>3, <1>6 DEF Taking

(* The order of _enforce_global_diversity. *)
First(s) == s.layer = "semantic" /\ s.key[1] = "path"

Precedes(s, t) ==
    \/ First(s) /\ ~First(t)
    \/ First(s) = First(t) /\ s.score > t.score
    \/ First(s) = First(t) /\ s.score = t.score /\ s.id < t.id

(* A snapshot has its key to itself, a record its id. *)
Distinct(S) ==
    /\ \A s, t \in S : s.pinned /\ s.key = t.key => s = t
    /\ \A s, t \in S : ~s.pinned /\ ~t.pinned /\ s.id = t.id => s = t

Diverse(S) == \A s \in S : Cardinality({t \in S : t.key = s.key}) <= PerKey

LEMMA LastOf ==
    ASSUME NEW S, Offers(S), S # {}, \A s, t \in S : s.id = t.id => s = t
    PROVE  \E s \in S : \A t \in S : t = s \/ Precedes(t, s)
<1>1. PICK a : a = [s \in S |-> IF First(s) THEN 1 ELSE 0]
  OBVIOUS
<1>2. PICK b : b = [s \in S |-> s.score]
  OBVIOUS
<1>3. PICK c : c = [s \in S |-> -s.id]
  OBVIOUS
<1>4. \A s \in S : s.score \in Int /\ s.id \in Nat
  BY DEF Offers
<1>5. /\ a \in [S -> Int] /\ b \in [S -> Int] /\ c \in [S -> Int]
      /\ IsFiniteSet(S) /\ S # {}
  BY <1>1, <1>2, <1>3, <1>4 DEF Offers, Sized
<1>6. PICK s \in S : \A t \in S :
                \/ a[s] < a[t]
                \/ a[s] = a[t] /\ b[s] < b[t]
                \/ a[s] = a[t] /\ b[s] = b[t] /\ c[s] <= c[t]
  BY ONLY <1>5, LexLeast, SMTT(40)
<1>7. ASSUME NEW t \in S
      PROVE  t = s \/ Precedes(t, s)
  <2>1. /\ a[s] = (IF First(s) THEN 1 ELSE 0) /\ a[t] = (IF First(t) THEN 1 ELSE 0)
        /\ b[s] = s.score /\ b[t] = t.score /\ c[s] = -s.id /\ c[t] = -t.id
    BY <1>1, <1>2, <1>3
  <2>2. CASE a[s] < a[t]
    BY <2>1, <2>2 DEF Precedes
  <2>3. CASE a[s] = a[t] /\ b[s] < b[t]
    <3>1. First(s) = First(t) /\ t.score > s.score
      BY <1>4, <2>1, <2>3 DEF First
    <3> QED
      BY <3>1 DEF Precedes
  <2>4. CASE a[s] = a[t] /\ b[s] = b[t] /\ c[s] <= c[t]
    <3>1. First(s) = First(t) /\ t.score = s.score /\ t.id <= s.id
      BY <1>4, <2>1, <2>4 DEF First
    <3>2. t.id = s.id \/ t.id < s.id
      BY <1>4, <3>1
    <3> QED
      BY <3>1, <3>2 DEF Precedes
  <2> QED
    BY <1>6, <2>2, <2>3, <2>4
<1> QED
  BY <1>7

LEMMA EnforceIs ==
    ASSUME NEW S
    PROVE  EnforceGlobalDiversity(S) =
             {s \in S : \/ s.pinned
                        \/ Cardinality({t \in S : t.key = s.key /\ Precedes(t, s)}) < PerKey}
BY DEF EnforceGlobalDiversity, Precedes, First

(* No key keeps more than its share, whatever the layers took of it. *)
LEMMA EnforceDiverse ==
    ASSUME NEW S, Offers(S), Distinct(S)
    PROVE  Diverse(EnforceGlobalDiversity(S))
<1>1. PICK D : D = EnforceGlobalDiversity(S)
  OBVIOUS
<1>2. /\ D \in SUBSET S
      /\ \A s \in D : ~s.pinned =>
            Cardinality({t \in S : t.key = s.key /\ Precedes(t, s)}) < PerKey
  BY <1>1, EnforceIs
<1>3. ASSUME NEW s \in D
      PROVE  Cardinality({t \in D : t.key = s.key}) <= PerKey
  <2>1. PICK K : K = {t \in D : t.key = s.key}
    OBVIOUS
  <2>2. K \in SUBSET S /\ s \in K /\ IsFiniteSet(S) /\ IsFiniteSet(K) /\ Cardinality(K) \in Nat
    BY <1>2, <2>1, FS_Subset, FS_CardinalityType DEF Offers, Sized
  <2>3. CASE s.pinned
    <3>1. K = {s}
      BY <1>2, <2>1, <2>3 DEF Distinct
    <3>2. Cardinality(K) = 1
      BY <3>1, FS_Singleton
    <3> QED
      BY <2>1, <3>2, RetrievalAssumption
  <2>4. CASE ~s.pinned
    <3>1. \A t \in K : ~t.pinned
      BY <1>2, <2>1, <2>2, <2>4 DEF Distinct
    <3>2. \A t, u \in K : t.id = u.id => t = u
      BY <2>2, <3>1 DEF Distinct
    <3>3. Offers(K)
      BY <2>2, SizedPart DEF Offers
    <3>4. PICK l \in K : \A t \in K : t = l \/ Precedes(t, l)
      BY <2>2, <3>2, <3>3, LastOf
    <3>5. PICK before : before = {t \in S : t.key = l.key /\ Precedes(t, l)}
      OBVIOUS
    <3>6. K \ {l} \subseteq before /\ before \subseteq S
      BY <2>1, <2>2, <3>4, <3>5
    <3>7. IsFiniteSet(before) /\ Cardinality(before) \in Nat
      BY <2>2, <3>6, FS_Subset, FS_CardinalityType
    <3>8. Cardinality(K \ {l}) <= Cardinality(before)
      BY <3>6, <3>7, FS_Subset
    <3>9. Cardinality(K \ {l}) = Cardinality(K) - 1
      BY <2>2, <3>4, FS_RemoveElement
    <3>10. Cardinality(before) < PerKey
      BY <1>2, <2>1, <3>1, <3>4, <3>5
    <3> QED
      BY <2>1, <2>2, <3>7, <3>8, <3>9, <3>10, RetrievalAssumption
  <2> QED
    BY <2>3, <2>4
<1> QED
  BY <1>1, <1>3 DEF Diverse

LEMMA DiversePart ==
    ASSUME NEW S, IsFiniteSet(S), Diverse(S), NEW T \in SUBSET S
    PROVE  Diverse(T)
<1>1. ASSUME NEW s \in T
      PROVE  Cardinality({t \in T : t.key = s.key}) <= PerKey
  <2>1. PICK K, L : K = {t \in T : t.key = s.key} /\ L = {t \in S : t.key = s.key}
    OBVIOUS
  <2>2. K \subseteq L /\ L \subseteq S
    BY <2>1
  <2>3. IsFiniteSet(L) /\ Cardinality(L) \in Nat /\ IsFiniteSet(K) /\ Cardinality(K) \in Nat
    BY <2>2, FS_Subset, FS_CardinalityType
  <2>4. Cardinality(K) <= Cardinality(L)
    BY <2>2, <2>3, FS_Subset
  <2>5. Cardinality(L) <= PerKey
    BY <2>1 DEF Diverse
  <2> QED
    BY <2>1, <2>3, <2>4, <2>5, RetrievalAssumption
<1> QED
  BY <1>1 DEF Diverse

(* The order in which _fit_render leaves selections out. *)
Goes(s, t) ==
    \/ ~s.pinned /\ t.pinned
    \/ ~s.pinned /\ ~t.pinned
       /\ \/ s.score < t.score
          \/ s.score = t.score /\ s.tokens > t.tokens
          \/ s.score = t.score /\ s.tokens = t.tokens /\ s.id < t.id
    \/ s.pinned /\ t.pinned
       /\ \/ s.tokens > t.tokens
          \/ s.tokens = t.tokens /\ s.layer = "episodic" /\ t.layer = "working"

Remaining(S, n) == {s \in S : Cardinality({t \in S : Goes(t, s)}) >= n}

LEMMA FitRenderIs ==
    ASSUME NEW S, IsFiniteSet(S), NEW allocation, allocation.retrieval \in Nat
    PROVE  LET fitted == FitRender(S, allocation)
           IN /\ fitted.rendered <= allocation.retrieval
              /\ \/ fitted.kept = {}
                 \/ \E n \in Nat : fitted.kept = Remaining(S, n)
<1> DEFINE before  == [s \in S |-> Cardinality({t \in S : Goes(t, s)})]
           kept(n) == {s \in S : before[s] >= n}
           fits    == {n \in 0..Cardinality(S) : RenderTokens(kept(n)) <= allocation.retrieval}
<1>1. FitRender(S, allocation) =
        IF fits = {} THEN [kept |-> {}, rendered |-> 0]
        ELSE [kept |-> kept(Min(fits)), rendered |-> RenderTokens(kept(Min(fits)))]
  BY DEF FitRender, Goes
<1>2. \A n : kept(n) = Remaining(S, n)
  BY DEF Remaining
<1>3. CASE fits = {}
  <2>1. FitRender(S, allocation) = [kept |-> {}, rendered |-> 0]
    BY <1>1, <1>3
  <2>2. FitRender(S, allocation).kept = {} /\ FitRender(S, allocation).rendered = 0
    BY <2>1
  <2> QED
    BY <2>2
<1>4. CASE fits # {}
  <2>1. Cardinality(S) \in Nat
    BY FS_CardinalityType
  <2>2. fits \in SUBSET Nat
    BY <2>1
  <2>3. PICK n : n = Min(fits)
    OBVIOUS
  <2>4. n \in fits
    <3> HIDE DEF fits
    <3> QED
      BY <1>4, <2>2, <2>3, LeastNatural
  <2>5. n \in Nat /\ RenderTokens(kept(n)) <= allocation.retrieval
    BY <2>2, <2>4
  <2>6. FitRender(S, allocation) = [kept |-> kept(n), rendered |-> RenderTokens(kept(n))]
    BY <1>1, <1>4, <2>3
  <2> HIDE DEF kept, fits, before
  <2>7. /\ FitRender(S, allocation).kept = Remaining(S, n)
        /\ FitRender(S, allocation).rendered <= allocation.retrieval
    BY <1>2, <2>5, <2>6
  <2> QED
    BY <2>5, <2>7
<1> QED
  BY <1>3, <1>4

(* A record is left out before any snapshot. *)
LEMMA SnapshotsStay ==
    ASSUME NEW S, IsFiniteSet(S), NEW n \in Nat, NEW s \in Remaining(S, n), ~s.pinned,
           NEW d \in S, d.pinned
    PROVE  d \in Remaining(S, n)
<1>1. PICK A, B : A = {t \in S : Goes(t, s)} /\ B = {t \in S : Goes(t, d)}
  OBVIOUS
<1>2. \A t \in S : Goes(t, s) => Goes(t, d)
  BY DEF Goes
<1>3. A \subseteq B /\ B \subseteq S
  BY <1>1, <1>2
<1>4. /\ IsFiniteSet(B) /\ Cardinality(B) \in Nat /\ IsFiniteSet(A) /\ Cardinality(A) \in Nat
  BY <1>3, FS_Subset, FS_CardinalityType
<1>5. Cardinality(A) <= Cardinality(B)
  BY <1>3, <1>4, FS_Subset
<1>6. Cardinality(A) >= n
  BY <1>1 DEF Remaining
<1>7. Cardinality(B) >= n
  BY <1>4, <1>5, <1>6
<1> QED
  BY <1>1, <1>7 DEF Remaining

(* A snapshot: truncated to its layer's budget, whole when it fits. *)
Snapshot(s, layer, tokens, budget) ==
    /\ s.id = 0 /\ s.layer = layer /\ s.score = 100 /\ s.key = <<layer, 0>> /\ s.pinned = TRUE
    /\ s.tokens \in Nat /\ s.tokens <= budget
    /\ tokens <= budget => s.tokens = tokens

LEMMA DirectSelectionIs ==
    ASSUME NEW layer, NEW tokens \in Nat, NEW budget \in Nat
    PROVE  \/ DirectSelection(layer, tokens, budget) = {}
           \/ \E s : /\ Snapshot(s, layer, tokens, budget)
                     /\ DirectSelection(layer, tokens, budget) = {s}
<1>1. PICK bounded : bounded = TruncateToTokens(tokens, budget)
  OBVIOUS
<1>2. bounded \in Nat /\ bounded <= budget /\ (tokens <= budget => bounded = tokens)
  <2>1. SuffixTokens \in Nat /\ SuffixTokens >= 2
    BY RetrievalAssumption
  <2> QED
    BY <1>1, <2>1 DEF TruncateToTokens
<1>3. PICK s : s = [id |-> 0, layer |-> layer, tokens |-> bounded, score |-> 100,
                    key |-> <<layer, 0>>, terms |-> 0, pinned |-> TRUE]
  OBVIOUS
<1>4. Snapshot(s, layer, tokens, budget)
  BY <1>2, <1>3 DEF Snapshot
<1>5. \/ DirectSelection(layer, tokens, budget) = {}
      \/ DirectSelection(layer, tokens, budget) = {s}
  BY <1>1, <1>3 DEF DirectSelection
<1> QED
  BY <1>4, <1>5

(* A record as a candidate. *)
Ranked(r, active, changes) ==
    LET older == Cardinality({q \in active : q.id < r.id})
        recency == (10 * older) \div Max({1, Cardinality(active) - 1})
    IN r.base + recency + (IF r.path \in changes THEN 15 ELSE 0)

Candidate(r, active, changes) ==
    [id     |-> r.id,
     layer  |-> r.layer,
     tokens |-> r.tokens,
     score  |-> Ranked(r, active, changes),
     key    |-> DiversityKey(r),
     terms  |-> r.terms,
     pinned |-> FALSE]

LEMMA RankedInt ==
    ASSUME NEW active \in SUBSET Record, NEW changes, NEW r \in Record
    PROVE  Ranked(r, active, changes) \in Int
<1>1. PICK older : older = {q \in active : q.id < r.id}
  OBVIOUS
<1>2. IsFiniteSet(active) /\ older \subseteq active
  BY <1>1, FS_Subset, RetrievalAssumption
<1>3. Cardinality(older) \in Nat /\ Cardinality(active) \in Nat
  BY <1>2, FS_Subset, FS_CardinalityType
<1>4. PICK n : n = Larger(1, Cardinality(active) - 1)
  OBVIOUS
<1>5. n \in Nat /\ n >= 1
  <2>1. Cardinality(active) - 1 \in Int
    BY <1>3
  <2> QED
    BY <1>3, <1>4, <2>1, MaxTwo
<1>6. (10 * Cardinality(older)) \div n \in Int
  <2>1. 10 * Cardinality(older) \in Int /\ n > 0
    BY <1>3, <1>5
  <2> QED
    BY <1>5, <2>1
<1>7. r.base \in Nat
  BY RetrievalAssumption
<1>8. Ranked(r, active, changes) =
        r.base + ((10 * Cardinality(older)) \div n) + (IF r.path \in changes THEN 15 ELSE 0)
  BY <1>1, <1>4 DEF Ranked, Larger
<1> QED
  BY <1>6, <1>7, <1>8

LEMMA CandidateIs ==
    ASSUME NEW active \in SUBSET Record, NEW changes, NEW r \in active
    PROVE  LET c == Candidate(r, active, changes)
           IN /\ c.id = r.id /\ c.id \in Nat \ {0} /\ c.layer \in Layer \ {"working"}
              /\ c.tokens \in Nat /\ c.score \in Int /\ c.pinned = FALSE
              /\ \A layer \in Layer : c.key # <<layer, 0>>
<1>1. PICK c : c = Candidate(r, active, changes)
  OBVIOUS
<1>2. /\ c.id = r.id /\ c.layer = r.layer /\ c.tokens = r.tokens /\ c.pinned = FALSE
      /\ c.score = Ranked(r, active, changes) /\ c.key = DiversityKey(r)
  BY <1>1 DEF Candidate
<1>3. r.id \in Nat \ {0} /\ r.layer \in Layer \ {"working"} /\ r.tokens \in Nat
  BY RetrievalAssumption
<1>4. Ranked(r, active, changes) \in Int
  BY RankedInt
<1>5. \A layer \in Layer : DiversityKey(r) # <<layer, 0>>
  <2>1. \/ DiversityKey(r) = <<"path", r.path>>
        \/ \E t \in {"subject", "tool"} : DiversityKey(r) = <<t, r.topic>>
        \/ DiversityKey(r) = <<r.layer, r.id>>
    BY DEF DiversityKey
  <2>2. ASSUME NEW layer \in Layer, DiversityKey(r) = <<layer, 0>>
        PROVE  FALSE
    <3>1. DiversityKey(r)[1] = layer /\ DiversityKey(r)[2] = 0
      BY <2>2
    <3>2. layer \notin {"path", "subject", "tool"}
      BY DEF Layer
    <3>3. r.id # 0
      BY <1>3
    <3>6. CASE \E t \in {"subject", "tool"} : DiversityKey(r) = <<t, r.topic>>
      <4>1. DiversityKey(r)[1] \in {"subject", "tool"}
        BY <3>6
      <4> QED
        BY <3>1, <3>2, <4>1
    <3>4. CASE DiversityKey(r) = <<"path", r.path>>
      <4>1. DiversityKey(r)[1] = "path"
        BY <3>4
      <4> QED
        BY <3>1, <3>2, <4>1
    <3>5. CASE DiversityKey(r) = <<r.layer, r.id>>
      <4>1. DiversityKey(r)[2] = r.id
        BY <3>5
      <4> QED
        BY <3>1, <3>3, <4>1
    <3> QED
      BY <2>1, <3>4, <3>5, <3>6
  <2> QED
    BY <2>2
<1> QED
  BY <1>1, <1>2, <1>3, <1>4, <1>5

(* The candidates: unpinned, told apart by their ids. *)
Records(S) ==
    /\ Offers(S)
    /\ \A s \in S : /\ s.pinned = FALSE /\ s.layer \in Layer \ {"working"}
                    /\ \A layer \in Layer : s.key # <<layer, 0>>
    /\ \A s, t \in S : s.id = t.id => s = t

LEMMA RecordCandidatesAre ==
    ASSUME NEW active \in SUBSET Record, NEW changes
    PROVE  Records(RecordCandidates(active, changes))
<1>1. PICK f : f = [r \in active |-> Candidate(r, active, changes)]
  OBVIOUS
<1>2. PICK C : C = RecordCandidates(active, changes)
  OBVIOUS
<1>3. C = {Candidate(r, active, changes) : r \in active}
  BY <1>2 DEF RecordCandidates, Candidate, Ranked
<1>4. C = {f[r] : r \in active}
  BY <1>1, <1>3
<1>5. IsFiniteSet(active)
  BY FS_Subset, RetrievalAssumption
<1>6. IsFiniteSet(C)
  <2>1. f \in [active -> C]
    BY <1>1, <1>4
  <2>2. \A s \in C : \E r \in active : f[r] = s
    BY <1>4
  <2>3. f \in Surjection(active, C)
    BY <2>1, <2>2 DEF Surjection
  <2> QED
    BY <1>5, <2>3, FS_Surjection
<1>9. \A s \in C : \E r \in active : s = Candidate(r, active, changes) /\ s.id = r.id
  <2> TAKE s \in C
  <2>1. PICK r \in active : s = Candidate(r, active, changes)
    BY <1>3
  <2>2. Candidate(r, active, changes).id = r.id
    BY CandidateIs, ZenonT(60)
  <2> QED
    BY <2>1, <2>2
<1>7. ASSUME NEW s \in C
      PROVE  /\ s.id \in Nat /\ s.tokens \in Nat /\ s.score \in Int /\ s.pinned = FALSE
             /\ s.layer \in Layer \ {"working"}
             /\ \A layer \in Layer : s.key # <<layer, 0>>
  <2>1. PICK r \in active : s = Candidate(r, active, changes)
    BY <1>3
  <2> QED
    BY <2>1, CandidateIs, ZenonT(60)
<1>8. ASSUME NEW s \in C, NEW t \in C, s.id = t.id
      PROVE  s = t
  <2>1. PICK r \in active : s = Candidate(r, active, changes) /\ s.id = r.id
    BY <1>9
  <2>2. PICK q \in active : t = Candidate(q, active, changes) /\ t.id = q.id
    BY <1>9
  <2>3. r.id = q.id /\ r \in Record /\ q \in Record
    BY <1>8, <2>1, <2>2
  <2>4. r = q
    BY <2>3, RetrievalAssumption
  <2> QED
    BY <2>1, <2>2, <2>4
<1> QED
  BY <1>2, <1>6, <1>7, <1>8 DEF Records, Offers, Sized

LEMMA RecordsPart == ASSUME NEW S, Records(S), NEW T \in SUBSET S PROVE Records(T)
<1>1. Sized(T)
  BY SizedPart DEF Records, Offers
<1> QED
  BY <1>1 DEF Records, Offers

(* What a layer has of its snapshot: nothing or one selection. *)
SnapshotOnly(D, layer, tokens, budget) ==
    \/ D = {}
    \/ \E s : Snapshot(s, layer, tokens, budget) /\ D = {s}

Lone(D, layer) ==
    /\ Offers(D)
    /\ \A s \in D : s.pinned = TRUE /\ s.layer = layer /\ s.key = <<layer, 0>>
    /\ \A s, t \in D : s = t

LEMMA SnapshotOnlyIs ==
    ASSUME NEW layer, NEW tokens \in Nat, NEW budget \in Nat, NEW D,
           SnapshotOnly(D, layer, tokens, budget)
    PROVE  /\ Lone(D, layer)
           /\ TokensOf(D) \in Nat /\ TokensOf(D) <= budget
           /\ tokens <= budget => \A s \in D : s.tokens = tokens
<1>1. CASE D = {}
  <2>1. IsFiniteSet(D)
    BY <1>1, FS_EmptySet
  <2> QED
    BY <1>1, <2>1, TokensEmpty DEF Offers, Sized, Lone
<1>2. CASE D # {}
  <2>1. PICK s : Snapshot(s, layer, tokens, budget) /\ D = {s}
    BY <1>2 DEF SnapshotOnly
  <2>2. /\ s.id = 0 /\ s.layer = layer /\ s.score = 100 /\ s.key = <<layer, 0>> /\ s.pinned = TRUE
        /\ s.tokens \in Nat /\ s.tokens <= budget /\ (tokens <= budget => s.tokens = tokens)
    BY <2>1 DEF Snapshot
  <2>3. IsFiniteSet({}) /\ IsFiniteSet(D)
    BY <2>1, FS_EmptySet, FS_Singleton
  <2>4. Offers(D)
    BY <2>1, <2>2, <2>3 DEF Offers, Sized
  <2>5. TokensOf(D) = s.tokens
    <3>1. PICK none : none = {}
      OBVIOUS
    <3>2. Sized(none) /\ s \notin none /\ TokensOf(none) = 0
      BY <2>3, <3>1, TokensEmpty DEF Sized
    <3>3. TokensOf(none \cup {s}) = TokensOf(none) + s.tokens
      BY <2>2, <3>2, TokensAdd
    <3>4. none \cup {s} = D
      BY <2>1, <3>1
    <3> QED
      BY <2>2, <3>2, <3>3, <3>4
  <2> QED
    BY <2>1, <2>2, <2>4, <2>5 DEF Lone
<1> QED
  BY <1>1, <1>2

(* The selections of a retrieval before the diversity of both layers is    *)
(* enforced: the snapshots, and the records chosen for either layer.       *)
Chosen(dw, de, sem, rec) == (dw \cup de) \cup sem \cup rec

LEMMA ChosenIs ==
    ASSUME NEW dw, Lone(dw, "working"), NEW de, Lone(de, "episodic"), NEW C, Records(C),
           NEW sem \in SUBSET InLayer(C, "semantic"), NEW rec \in SUBSET InLayer(C, "episodic")
    PROVE  LET S == Chosen(dw, de, sem, rec)
           IN /\ Offers(S) /\ Distinct(S)
              /\ InLayer(S, "working") = dw
              /\ InLayer(S, "semantic") = sem
              /\ InLayer(S, "episodic") = de \cup rec
              /\ \A s \in dw \cup de : s.pinned
<1>1. PICK S : S = Chosen(dw, de, sem, rec)
  OBVIOUS
<1>2. /\ Offers(dw) /\ \A s, t \in dw : s = t
      /\ \A s \in dw : s.pinned = TRUE /\ s.layer = "working" /\ s.key = <<"working", 0>>
  BY DEF Lone
<1>3. /\ Offers(de) /\ \A s, t \in de : s = t
      /\ \A s \in de : s.pinned = TRUE /\ s.layer = "episodic" /\ s.key = <<"episodic", 0>>
  BY DEF Lone
<1>4. /\ Offers(C)
      /\ \A s \in C : /\ s.pinned = FALSE /\ s.layer \in Layer \ {"working"}
                      /\ s.key # <<"working", 0>> /\ s.key # <<"episodic", 0>>
      /\ \A s, t \in C : s.id = t.id => s = t
  BY DEF Records, Layer
<1>5. /\ sem \in SUBSET C /\ \A s \in sem : s.layer = "semantic"
      /\ rec \in SUBSET C /\ \A s \in rec : s.layer = "episodic"
  BY DEF InLayer
<1>6. Offers(S)
  <2>1. IsFiniteSet(dw) /\ IsFiniteSet(de) /\ IsFiniteSet(sem) /\ IsFiniteSet(rec)
    BY <1>2, <1>3, <1>4, <1>5, FS_Subset DEF Offers, Sized
  <2>2. IsFiniteSet(dw \cup de)
    BY <2>1, FS_Union
  <2>3. IsFiniteSet((dw \cup de) \cup sem)
    BY <2>1, <2>2, FS_Union
  <2>4. IsFiniteSet((dw \cup de) \cup sem \cup rec)
    BY <2>1, <2>3, FS_Union
  <2>5. \A s \in S : s \in dw \/ s \in de \/ s \in C
    BY <1>1, <1>5 DEF Chosen
  <2>6. \A s \in S : s.tokens \in Nat /\ s.score \in Int /\ s.id \in Nat
    BY <1>2, <1>3, <1>4, <2>5 DEF Offers, Sized
  <2>7. IsFiniteSet(S)
    BY <1>1, <2>4 DEF Chosen
  <2> QED
    BY <2>6, <2>7 DEF Offers, Sized
<1>7. \A s \in S : \/ s \in dw
                   \/ s \in de
                   \/ s \in C
  BY <1>1, <1>5 DEF Chosen
<1>8. ASSUME NEW s \in S, NEW t \in S, s.pinned, s.key = t.key
      PROVE  s = t
  <2>1. <<"working", 0>> # <<"episodic", 0>>
    OBVIOUS
  <2>2. s \in dw \/ s \in de
    BY <1>4, <1>7, <1>8
  <2>3. CASE s \in dw
    <3>1. t \in dw
      BY <1>2, <1>3, <1>4, <1>7, <1>8, <2>1, <2>3
    <3> QED
      BY <1>2, <2>3, <3>1
  <2>4. CASE s \in de
    <3>1. t \in de
      BY <1>2, <1>3, <1>4, <1>7, <1>8, <2>1, <2>4
    <3> QED
      BY <1>3, <2>4, <3>1
  <2> QED
    BY <2>2, <2>3, <2>4
<1>9. ASSUME NEW s \in S, NEW t \in S, ~s.pinned, ~t.pinned, s.id = t.id
      PROVE  s = t
  <2>1. s \in C /\ t \in C
    BY <1>2, <1>3, <1>7, <1>9
  <2> QED
    BY <1>4, <1>9, <2>1
<1>10. Distinct(S)
  BY <1>8, <1>9 DEF Distinct
<1>11. InLayer(S, "working") = dw
  BY <1>1, <1>2, <1>3, <1>5 DEF InLayer, Chosen
<1>12. InLayer(S, "semantic") = sem
  BY <1>1, <1>2, <1>3, <1>5 DEF InLayer, Chosen
<1>13. InLayer(S, "episodic") = de \cup rec
  BY <1>1, <1>2, <1>3, <1>5 DEF InLayer, Chosen
<1> QED
  BY <1>1, <1>2, <1>3, <1>6, <1>10, <1>11, <1>12, <1>13

(* What SelectionValid says of a retrieval. *)
Valid(r, cap, size) ==
    LET whole == {s \in r.selections : s.layer = "working" /\ s.tokens = size}
    IN /\ r.rendered <= r.allocation.retrieval
       /\ \A layer \in Layer : TokensOf(InLayer(r.selections, layer)) <= r.allocation[layer]
       /\ Diverse(r.selections)
       /\ MinWorking <= ContextTokens \div 5 =>
            /\ cap >= (ContextTokens * 40) \div 100 => InLayer(r.selections, "working") = whole
            /\ (\E s \in r.selections : ~s.pinned) => r.direct \subseteq r.selections

(* The budget of a layer is what its snapshot leaves. *)
LEMMA LayerBudgetIs ==
    ASSUME NEW allocation, NEW layer, allocation[layer] \in Nat, NEW direct, NEW D,
           InLayer(direct, layer) = D, TokensOf(D) \in Nat, TokensOf(D) <= allocation[layer]
    PROVE  LayerBudget(allocation, direct, layer) = allocation[layer] - TokensOf(D)
<1>1. PICK left : left = allocation[layer] - TokensOf(D)
  OBVIOUS
<1>2. left \in Nat
  BY <1>1
<1>3. Larger(0, left) = left
  <2>1. left \in Int /\ left >= 0
    BY <1>2
  <2>2. (Larger(0, left) = 0 \/ Larger(0, left) = left) /\ Larger(0, left) >= left
    BY <2>1, MaxTwo
  <2> QED
    BY <2>1, <2>2
<1>4. LayerBudget(allocation, direct, layer) = Larger(0, left)
  BY <1>1 DEF LayerBudget, Larger
<1> QED
  BY <1>1, <1>3, <1>4

(* A retrieval from its parts. *)
RetrieveParts(r, working, episodic, active, changes, cap, dw, de, C, sem, rec, E, sl, rl) ==
    LET allocation == Allocate(ContextTokens, cap)
        direct == dw \cup de
    IN /\ dw = DirectSelection("working", working, allocation.working)
       /\ de = DirectSelection("episodic", episodic, allocation.episodic)
       /\ C = RecordCandidates(active, changes)
       /\ sem = SelectDiverse(InLayer(C, "semantic"),
                              LayerBudget(allocation, direct, "semantic"), sl)
       /\ rec = SelectDiverse(InLayer(C, "episodic"),
                              LayerBudget(allocation, direct, "episodic"), rl)
       /\ E = EnforceGlobalDiversity(Chosen(dw, de, sem, rec))
       /\ r.allocation = allocation /\ r.direct = direct
       /\ r.selections = FitRender(E, allocation).kept
       /\ r.rendered = FitRender(E, allocation).rendered

LEMMA RetrievePartsExist ==
    ASSUME NEW working, NEW episodic, NEW active, NEW changes, NEW cap,
           NEW r, r = Retrieve(working, episodic, active, changes, ContextTokens, cap)
    PROVE  \E dw, de, C, sem, rec, E, sl, rl :
             RetrieveParts(r, working, episodic, active, changes, cap, dw, de, C, sem, rec, E, sl, rl)
<1>1. PICK allocation : allocation = Allocate(ContextTokens, cap)
  OBVIOUS
<1>2. PICK dw, de : /\ dw = DirectSelection("working", working, allocation.working)
                    /\ de = DirectSelection("episodic", episodic, allocation.episodic)
  OBVIOUS
<1>3. PICK direct : direct = dw \cup de
  OBVIOUS
<1>4. PICK C : C = RecordCandidates(active, changes)
  OBVIOUS
<1>5. PICK capacity : capacity = Max({0, MaxResults - Cardinality(direct)})
  OBVIOUS
<1>6. PICK sl : sl = (capacity * 6 + 9) \div 10
  OBVIOUS
<1>7. PICK sem : sem = SelectDiverse(InLayer(C, "semantic"),
                                     LayerBudget(allocation, direct, "semantic"), sl)
  OBVIOUS
<1>8. PICK rl : rl = Max({0, capacity - Cardinality(sem)})
  OBVIOUS
<1>9. PICK rec : rec = SelectDiverse(InLayer(C, "episodic"),
                                     LayerBudget(allocation, direct, "episodic"), rl)
  OBVIOUS
<1>10. PICK E : E = EnforceGlobalDiversity(direct \cup sem \cup rec)
  OBVIOUS
<1>11. r = [allocation |-> allocation,
            direct     |-> direct,
            offered    |-> direct \cup C # {},
            selections |-> FitRender(E, allocation).kept,
            rendered   |-> FitRender(E, allocation).rendered]
  BY <1>1, <1>2, <1>3, <1>4, <1>5, <1>6, <1>7, <1>8, <1>9, <1>10 DEF Retrieve
<1>12. /\ r.allocation = allocation /\ r.direct = direct
       /\ r.selections = FitRender(E, allocation).kept
       /\ r.rendered = FitRender(E, allocation).rendered
  BY <1>11
<1>13. E = EnforceGlobalDiversity(Chosen(dw, de, sem, rec))
  BY <1>3, <1>10 DEF Chosen
<1> QED
  BY <1>1, <1>2, <1>3, <1>4, <1>7, <1>9, <1>12, <1>13, SMTT(40) DEF RetrieveParts

(* The records chosen for a layer fit what its snapshot leaves. *)
LEMMA ChosenFits ==
    ASSUME NEW D, NEW layer, Lone(D, layer), NEW R, Offers(R), \A s \in R : s.pinned = FALSE,
           NEW share \in Nat, TokensOf(D) \in Nat, TokensOf(R) <= share - TokensOf(D)
    PROVE  TokensOf(D \cup R) <= share
<1>1. CASE D = {}
  <2>1. D \cup R = R
    BY <1>1
  <2>2. TokensOf(R) \in Nat
    BY TokensNat DEF Offers
  <2> QED
    BY <2>1, <2>2
<1>2. CASE D # {}
  <2>1. PICK d \in D : TRUE
    BY <1>2
  <2>2. D = {d} /\ d.pinned = TRUE /\ d.tokens \in Nat
    BY <2>1 DEF Lone, Offers, Sized
  <2>3. d \notin R
    BY <2>2
  <2>4. TokensOf(R \cup {d}) = TokensOf(R) + d.tokens
    BY <2>2, <2>3, TokensAdd DEF Offers
  <2>5. TokensOf(D) = d.tokens
    <3>1. PICK none : none = {}
      OBVIOUS
    <3>2. Sized(none) /\ d \notin none /\ TokensOf(none) = 0
      BY <3>1, FS_EmptySet, TokensEmpty DEF Sized
    <3>3. TokensOf(none \cup {d}) = TokensOf(none) + d.tokens
      BY <2>2, <3>2, TokensAdd
    <3>4. none \cup {d} = D
      BY <2>2, <3>1
    <3>5. TokensOf(D) = TokensOf(none) + d.tokens
      BY ONLY <3>3, <3>4
    <3> QED
      BY ONLY <2>2, <3>2, <3>5
  <2>6. D \cup R = R \cup {d}
    BY <2>2
  <2>7. TokensOf(R) \in Nat
    BY TokensNat DEF Offers
  <2>8. TokensOf(D \cup R) = TokensOf(R) + d.tokens
    BY ONLY <2>4, <2>6
  <2> QED
    BY <2>2, <2>5, <2>7, <2>8
<1> QED
  BY <1>1, <1>2

LEMMA InLayerRecords ==
    ASSUME NEW C, Records(C), NEW layer
    PROVE  InLayer(C, layer) \in SUBSET C /\ Offers(InLayer(C, layer))
<1>1. InLayer(C, layer) \in SUBSET C
  BY DEF InLayer
<1>2. Records(InLayer(C, layer))
  BY <1>1, RecordsPart
<1> QED
  BY <1>1, <1>2 DEF Records

LEMMA OffersPart == ASSUME NEW S, Offers(S), NEW T \in SUBSET S PROVE Offers(T)
<1>1. Sized(T)
  BY SizedPart DEF Offers
<1> QED
  BY <1>1 DEF Offers

LEMMA RetrieveValid ==
    ASSUME NEW working \in Nat, MinWorking <= ContextTokens \div 5 => working <= ContextTokens \div 5,
           NEW episodic \in Nat, NEW active \in SUBSET Record, NEW changes, NEW cap \in Nat,
           NEW r, r = Retrieve(working, episodic, active, changes, ContextTokens, cap)
    PROVE  Valid(r, cap, working)
<1>1. PICK dw, de, C, sem, rec, E, sl, rl :
        RetrieveParts(r, working, episodic, active, changes, cap, dw, de, C, sem, rec, E, sl, rl)
  BY RetrievePartsExist
<1>2. PICK al : al = Allocate(ContextTokens, cap)
  OBVIOUS
<1>3. /\ al.retrieval \in Nat /\ al.working \in Nat /\ al.semantic \in Nat /\ al.episodic \in Nat
      /\ cap >= (ContextTokens * 40) \div 100 => al.working >= ContextTokens \div 5
  BY <1>2, AllocateIs
<1>4. PICK direct : direct = dw \cup de
  OBVIOUS
<1>5. /\ dw = DirectSelection("working", working, al.working)
      /\ de = DirectSelection("episodic", episodic, al.episodic)
      /\ C = RecordCandidates(active, changes)
      /\ sem = SelectDiverse(InLayer(C, "semantic"), LayerBudget(al, direct, "semantic"), sl)
      /\ rec = SelectDiverse(InLayer(C, "episodic"), LayerBudget(al, direct, "episodic"), rl)
      /\ E = EnforceGlobalDiversity(Chosen(dw, de, sem, rec))
      /\ r.allocation = al /\ r.direct = direct
      /\ r.selections = FitRender(E, al).kept
      /\ r.rendered = FitRender(E, al).rendered
  BY <1>1, <1>2, <1>4 DEF RetrieveParts
<1>6. SnapshotOnly(dw, "working", working, al.working)
  BY <1>3, <1>5, DirectSelectionIs DEF SnapshotOnly
<1>7. SnapshotOnly(de, "episodic", episodic, al.episodic)
  <2>1. PICK layer, share : layer = "episodic" /\ share = al.episodic
    OBVIOUS
  <2>2. \/ DirectSelection(layer, episodic, share) = {}
        \/ \E s : /\ Snapshot(s, layer, episodic, share)
                  /\ DirectSelection(layer, episodic, share) = {s}
    BY <1>3, <2>1, DirectSelectionIs
  <2> QED
    BY <1>5, <2>1, <2>2 DEF SnapshotOnly
<1>8. /\ Lone(dw, "working") /\ TokensOf(dw) \in Nat /\ TokensOf(dw) <= al.working
      /\ working <= al.working => \A s \in dw : s.tokens = working
  BY <1>3, <1>6, SnapshotOnlyIs
<1>9. Lone(de, "episodic") /\ TokensOf(de) \in Nat /\ TokensOf(de) <= al.episodic
  <2>1. PICK layer, share : layer = "episodic" /\ share = al.episodic
    OBVIOUS
  <2>2. SnapshotOnly(de, layer, episodic, share) /\ share \in Nat
    BY <1>3, <1>7, <2>1
  <2>3. Lone(de, layer) /\ TokensOf(de) \in Nat /\ TokensOf(de) <= share
    BY <2>2, SnapshotOnlyIs
  <2> QED
    BY <2>1, <2>3
<1>10. Records(C)
  BY <1>5, RecordCandidatesAre
<1>11. InLayer(direct, "semantic") = {} /\ InLayer(direct, "episodic") = de
  <2>1. \A s \in dw : s.layer = "working"
    BY <1>8 DEF Lone
  <2>2. \A s \in de : s.layer = "episodic"
    BY <1>9 DEF Lone
  <2> QED
    BY <1>4, <2>1, <2>2 DEF InLayer
<1>12. LayerBudget(al, direct, "semantic") = al.semantic
  <2>1. PICK layer, none : layer = "semantic" /\ none = {}
    OBVIOUS
  <2>2. al[layer] \in Nat /\ InLayer(direct, layer) = none /\ TokensOf(none) = 0
    BY <1>3, <1>11, <2>1, TokensEmpty
  <2>3. LayerBudget(al, direct, layer) = al[layer] - TokensOf(none)
    BY <2>2, LayerBudgetIs
  <2> QED
    BY <2>1, <2>2, <2>3
<1>13. LayerBudget(al, direct, "episodic") = al.episodic - TokensOf(de)
  <2>1. PICK layer : layer = "episodic"
    OBVIOUS
  <2>2. /\ al[layer] \in Nat /\ InLayer(direct, layer) = de /\ TokensOf(de) \in Nat
        /\ TokensOf(de) <= al[layer]
    BY <1>3, <1>9, <1>11, <2>1
  <2>3. LayerBudget(al, direct, layer) = al[layer] - TokensOf(de)
    BY <2>2, LayerBudgetIs
  <2> QED
    BY <2>1, <2>3
<1>14. sem \in SUBSET InLayer(C, "semantic") /\ TokensOf(sem) <= al.semantic
  <2>1. PICK P, share : P = InLayer(C, "semantic") /\ share = al.semantic
    OBVIOUS
  <2>2. Offers(P) /\ share \in Nat
    BY <1>3, <1>10, <2>1, InLayerRecords
  <2>3. SelectDiverse(P, share, sl) \in SUBSET P /\ TokensOf(SelectDiverse(P, share, sl)) <= share
    BY <2>2, SelectDiverseFits
  <2> QED
    BY <1>5, <1>12, <2>1, <2>3
<1>15. rec \in SUBSET InLayer(C, "episodic") /\ TokensOf(rec) <= al.episodic - TokensOf(de)
  <2>1. PICK P, share : P = InLayer(C, "episodic") /\ share = al.episodic - TokensOf(de)
    OBVIOUS
  <2>2. Offers(P) /\ share \in Nat
    BY <1>3, <1>9, <1>10, <2>1, InLayerRecords
  <2>3. SelectDiverse(P, share, rl) \in SUBSET P /\ TokensOf(SelectDiverse(P, share, rl)) <= share
    BY <2>2, SelectDiverseFits
  <2> QED
    BY <1>5, <1>13, <2>1, <2>3
<1>16. PICK S : S = Chosen(dw, de, sem, rec)
  OBVIOUS
<1>17. /\ Offers(S) /\ Distinct(S)
       /\ InLayer(S, "working") = dw /\ InLayer(S, "semantic") = sem
       /\ InLayer(S, "episodic") = de \cup rec
       /\ \A s \in dw \cup de : s.pinned
  BY <1>8, <1>9, <1>10, <1>14, <1>15, <1>16, ChosenIs
<1>18. TokensOf(de \cup rec) <= al.episodic
  <2>1. Offers(rec) /\ \A s \in rec : s.pinned = FALSE
    <3>1. rec \in SUBSET C
      BY <1>10, <1>15, InLayerRecords
    <3>2. Offers(C) /\ \A s \in C : s.pinned = FALSE
      BY <1>10 DEF Records
    <3>3. Offers(rec)
      BY <3>1, <3>2, OffersPart
    <3> QED
      BY <3>1, <3>2, <3>3
  <2>2. PICK layer, share : layer = "episodic" /\ share = al.episodic
    OBVIOUS
  <2>3. /\ Lone(de, layer) /\ share \in Nat /\ TokensOf(de) \in Nat
        /\ TokensOf(rec) <= share - TokensOf(de)
    BY <1>3, <1>9, <1>15, <2>2
  <2>4. TokensOf(de \cup rec) <= share
    BY <2>1, <2>3, ChosenFits
  <2> QED
    BY <2>2, <2>4
<1>19. /\ E \in SUBSET S /\ Diverse(E)
       /\ \A s \in S : s.pinned => s \in E
  BY <1>5, <1>16, <1>17, EnforceDiverse, EnforceIs
<1>20. IsFiniteSet(S) /\ IsFiniteSet(E)
  BY <1>17, <1>19, FS_Subset DEF Offers, Sized
<1>21. /\ r.rendered <= al.retrieval
       /\ r.selections = {} \/ \E n \in Nat : r.selections = Remaining(E, n)
  BY <1>3, <1>5, <1>20, FitRenderIs
<1>22. r.selections \in SUBSET E /\ r.selections \in SUBSET S
  BY <1>19, <1>21 DEF Remaining
<1>23. Diverse(r.selections)
  BY <1>19, <1>20, <1>22, DiversePart
<1>24. ASSUME NEW layer \in Layer
       PROVE  TokensOf(InLayer(r.selections, layer)) <= al[layer]
  <2>1. PICK K, L : K = InLayer(r.selections, layer) /\ L = InLayer(S, layer)
    OBVIOUS
  <2>2. K \in SUBSET L /\ L \in SUBSET S
    BY <1>22, <2>1 DEF InLayer
  <2>3. Sized(L) /\ Sized(K)
    BY <1>17, <2>2, SizedPart DEF Offers
  <2>4. TokensOf(K) <= TokensOf(L) /\ TokensOf(K) \in Nat /\ TokensOf(L) \in Nat
    BY <2>2, <2>3, TokensMonotone, TokensNat
  <2>5. TokensOf(L) <= al[layer] /\ al[layer] \in Nat
    <3>1. CASE layer = "working"
      BY <1>3, <1>8, <1>17, <2>1, <3>1
    <3>2. CASE layer = "semantic"
      BY <1>3, <1>14, <1>17, <2>1, <3>2
    <3>3. CASE layer = "episodic"
      BY <1>3, <1>17, <1>18, <2>1, <3>3
    <3> QED
      BY <3>1, <3>2, <3>3 DEF Layer
  <2> QED
    BY <2>1, <2>4, <2>5
<1>25. ASSUME MinWorking <= ContextTokens \div 5, cap >= (ContextTokens * 40) \div 100
       PROVE  InLayer(r.selections, "working")
                = {s \in r.selections : s.layer = "working" /\ s.tokens = working}
  <2>1. PICK fifth : fifth = ContextTokens \div 5
    OBVIOUS
  <2>2. fifth \in Nat
    BY <2>1, Constants
  <2>3. working <= fifth /\ al.working >= fifth
    BY <1>3, <1>25, <2>1
  <2>4. working <= al.working
    BY <1>3, <2>2, <2>3
  <2>5. \A s \in r.selections : s.layer = "working" => s \in dw
    BY <1>17, <1>22 DEF InLayer
  <2>6. \A s \in r.selections : s.layer = "working" => s.tokens = working
    BY <1>8, <2>4, <2>5
  <2> QED
    BY <2>6 DEF InLayer
<1>26. ASSUME NEW s \in r.selections, ~s.pinned
       PROVE  r.direct \subseteq r.selections
  <2>1. PICK n \in Nat : r.selections = Remaining(E, n)
    BY <1>21
  <2>2. ASSUME NEW d \in direct
        PROVE  d \in Remaining(E, n)
    <3>1. d.pinned /\ d \in S
      BY <1>4, <1>16, <1>17, <2>2 DEF Chosen
    <3>2. d \in E
      BY <1>19, <3>1
    <3> QED
      BY <1>20, <1>26, <2>1, <3>1, <3>2, SnapshotsStay
  <2> QED
    BY <1>5, <2>1, <2>2
<1> QED
  BY <1>5, <1>21, <1>23, <1>24, <1>25, <1>26 DEF Valid

(* What the working memory holds is no more than its layer's share. *)
LEMMA WorkingShare ==
    ASSUME NEW size \in Nat, size <= WorkingBudget, MinWorking <= ContextTokens \div 5
    PROVE  size <= ContextTokens \div 5
<1>1. PICK fifth, share : fifth = ContextTokens \div 5 /\ share = Larger(MinWorking, fifth)
  OBVIOUS
<1>2. fifth \in Nat /\ MinWorking \in Nat /\ MaxWorking \in Nat /\ MinWorking <= fifth
  BY <1>1, Constants
<1>3. (share = MinWorking \/ share = fifth) /\ share >= fifth
  BY <1>1, <1>2, MaxTwo
<1>4. share = fifth
  BY <1>2, <1>3
<1>5. WorkingBudget = Lesser(MaxWorking, share)
  BY <1>1 DEF WorkingBudget, Lesser, Larger
<1>6. WorkingBudget <= fifth /\ WorkingBudget \in Nat
  BY <1>2, <1>4, <1>5, MinTwo
<1> QED
  BY <1>1, <1>2, <1>6

SelectionInv ==
    status = "request" /\ window.retrieved # None =>
        Valid(window.retrieved, window.cap, Estimate(wm.entries))

LEMMA SelectionStep == IInv /\ SelectionInv /\ [Next]_vars => SelectionInv'
<1> SUFFICES ASSUME IInv, SelectionInv, [Next]_vars, status' = "request", window'.retrieved # None
             PROVE  Valid(window'.retrieved, window'.cap, Estimate(wm'.entries))
  BY DEF SelectionInv
<1>1. CASE UNCHANGED vars
  BY <1>1 DEF vars, SelectionInv
<1>2. CASE Next
  <2>1. PICK prefix \in PrefixTokens, tail \in TailTokens, episodic \in EpisodicTokens,
             active \in Stored \cup {None} : Assemble(prefix, tail, episodic, active)
    BY <1>2, RequestOnly
  <2>2. prefix \in Nat /\ tail \in Nat /\ episodic \in Nat
    BY ContextAssumption
  <2>3. PICK memory, w : Requested(prefix, tail, episodic, active, memory, w)
    BY <2>1, <2>2, AssembleIs
  <2>4. PICK cap : cap = Max({0, ContextTokens - prefix - RetrievalMargin})
    OBVIOUS
  <2>5. PICK size : size = Estimate(wm.entries)
    OBVIOUS
  <2>6. /\ status = "build"
        /\ window' = [window |-> w, retrieved |-> memory, cap |-> cap]
        /\ memory # None => /\ active # None
                            /\ memory = Retrieve(size, episodic, active, changed, ContextTokens, cap)
    BY <2>3, <2>4, <2>5 DEF Requested
  <2>7. window'.retrieved = memory /\ window'.cap = cap
    BY <2>6
  <2>8. /\ memory = Retrieve(size, episodic, active, changed, ContextTokens, cap)
        /\ active \in SUBSET Record
    BY <2>6, <2>7, ContextAssumption
  <2>9. IsFiniteSet(wm.entries) /\ wm.entries \subseteq Entry
    BY DEF IInv, Remembered, Sound, Memories
  <2>10. size \in Nat
    BY <2>5, <2>9, EstimateNat
  <2>11. size <= WorkingBudget
    BY <2>5, <2>6 DEF IInv, Remembered, Fits
  <2>12. MinWorking <= ContextTokens \div 5 => size <= ContextTokens \div 5
    BY <2>10, <2>11, WorkingShare
  <2>13. cap \in Nat
    BY <2>2, <2>4, CapNat
  <2>14. Valid(memory, cap, size)
    BY <2>2, <2>8, <2>10, <2>12, <2>13, RetrieveValid
  <2>15. wm' = wm
    BY <2>1 DEF Assemble
  <2> QED
    BY <2>5, <2>7, <2>14, <2>15
<1> QED
  BY <1>1, <1>2

(* Every retrieval passes the checks of LayeredMemoryContext, in every     *)
(* layer, and shows the working memory whole before any record whenever    *)
(* the prompt leaves retrieval its share, for any records and sizes.       *)
THEOREM SelectionsValid == Spec => []SelectionValid
<1>1. Init => SelectionInv
  BY DEF Init, SelectionInv
<1>2. IInv /\ SelectionInv /\ [Next]_vars => SelectionInv'
  BY SelectionStep
<1>3. SelectionInv => SelectionValid
  BY DEF SelectionInv, SelectionValid, Valid, Diverse
<1> QED
  BY <1>1, <1>2, <1>3, StepsInvariant, PTL DEF Spec

(* The state keeps its types, and a working memory never ends above its    *)
(* budget unless the step fails with its error.                            *)
THEOREM TypeCorrect == Spec => []TypeOK
<1>1. IInv /\ WindowInv => TypeOK
  <2> SUFFICES ASSUME IInv, WindowInv PROVE TypeOK
    OBVIOUS
  <2>1. /\ wm.entries \subseteq Entry /\ wm.reads \subseteq Path
        /\ \A e, f \in wm.entries : e.kind = f.kind /\ e.name = f.name => e = f
    BY DEF IInv, Remembered, Sound, Memories, Keyed
  <2>2. \A e \in wm.entries : e.kind \in EntryKind /\ e.at \in 0..MaxSteps
    BY <2>1 DEF Entry
  <2>3. \A e, f \in wm.entries : <<e.kind, e.name>> = <<f.kind, f.name>> => e = f
    BY <2>1
  <2>4. status # "failed" => ~wm.over /\ Estimate(wm.entries) <= WorkingBudget
    BY DEF IInv, Remembered, Fits
  <2>5. IF status = "request" THEN window.window.kept \subseteq DOMAIN groups ELSE window = None
    BY DEF IInv, Counted, WindowInv
  <2> QED
    BY <2>1, <2>2, <2>3, <2>4, <2>5 DEF TypeOK, IInv, Counted
<1>2. Init => WindowInv
  BY DEF Init, WindowInv
<1>3. IInv /\ WindowInv /\ [Next]_vars => WindowInv'
  BY WindowStep
<1> QED
  BY <1>1, <1>2, <1>3, StepsInvariant, PTL DEF Spec
============================================================================
