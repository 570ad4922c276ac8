---------------------------- MODULE MemoryProofs ----------------------------
(***************************************************************************)
(* Theorems about Memory: the chains of facts, the episodic state and the  *)
(* completeness of the store, for any number of files, calls, crashes and  *)
(* faults, and any compression thresholds.                                 *)
(***************************************************************************)
EXTENDS Memory, FiniteSetTheorems, WellFoundedInduction, TLAPS

(* Tables of records. *)
FactTable == UNION {[D -> Fact] : D \in SUBSET FactId}
EpisodeTable == UNION {[D -> Episode] : D \in SUBSET EpisodeId}
SourceTable == UNION {[D -> [Path -> 0..MaxValue]] : D \in SUBSET SourceId}

Manager == [pc : PC, snap : Snapshot, facts : FactTable, epis : EpisodeTable,
            at : Nat, event : Event \cup {None}]
Checkpoint == [start : Nat, snap : Snapshot]

(* A result names the path that its tool has. *)
Types ==
    /\ disk \in [Path -> 0..MaxValue]
    /\ results \in Seq(Calls) /\ Len(results) <= MaxCalls
    /\ facts \in FactTable /\ epis \in EpisodeTable /\ srcs \in SourceTable
    /\ mgr \in Manager /\ mgr.at <= Len(results)
    /\ ckpt \in Checkpoint /\ ckpt.start <= Len(results)
    /\ failed \in {None, "replay"}
    /\ budget \in [crashes : 0..MaxCrashes, faults : 0..MaxFaults]

-----------------------------------------------------------------------------
(* Facts: a slot with facts has one active fact; the links of a chain go   *)
(* both ways; only an invalidated fact has a conflict.                     *)

OneActive(f) ==
    \A i, j \in DOMAIN f :
        i.slot = j.slot /\ f[i].state = "active" /\ f[j].state = "active" => i = j
HasActive(f) ==
    \A i \in DOMAIN f : \E j \in DOMAIN f : j.slot = i.slot /\ f[j].state = "active"
Linked(f) ==
    \A i \in DOMAIN f :
        /\ f[i].by # None =>
             f[i].by \in DOMAIN f /\ f[f[i].by].of = i /\ Replaces(f[i].by, i)
        /\ f[i].of # None => f[i].of \in DOMAIN f /\ f[f[i].of].by = i
        /\ f[i].state = "superseded" <=> f[i].by # None
Unrejected(f) == \A i \in DOMAIN f : f[i].state # "invalidated" => f[i].conflict = None

Chains ==
    /\ OneActive(facts) /\ HasActive(facts) /\ Linked(facts) /\ Unrejected(facts)
    /\ OneActive(mgr.facts) /\ HasActive(mgr.facts)

-----------------------------------------------------------------------------
(* Episodes.  The history of an uninterrupted run over the results res.    *)

RecoveredIn(res, open, k) ==
    IF ~res[k].ok THEN {}
    ELSE IF res[k].tool = "run_tests" THEN open
    ELSE {c \in open : res[c].tool = res[k].tool}
KnownIn(res, open, k) == \E c \in open : SameAction(res[c], res[k])
OpenAfter(res, open, k) ==
    (open \ RecoveredIn(res, open, k))
    \cup (IF res[k].ok \/ KnownIn(res, open, k) THEN {} ELSE {k})
VerifiedAfter(res, verified, k) ==
    IF res[k].ok /\ res[k].tool = "run_tests" THEN k ELSE verified

After(res, snap, k) ==
    [snap EXCEPT !.open = OpenAfter(res, snap.open, k),
                 !.verified = VerifiedAfter(res, snap.verified, k)]

History(h, res, n) ==
    /\ h \in [0..n -> Snapshot]
    /\ h[0] = NoSnapshot
    /\ \A k \in 1..n : h[k] = After(res, h[k - 1], k)
    /\ \A k \in 0..n : h[k].open \subseteq 1..k

(* The snapshot knows the first n calls, and tells what an uninterrupted   *)
(* run over the first m does.                                              *)
Knows(snap, n) == snap.done \cap Call = 1..n
Tells(res, snap, m) ==
    \E h : History(h, res, m) /\ snap.open = h[m].open /\ snap.verified = h[m].verified

Pending == IF mgr.pc = "compress" /\ mgr.event \in Call THEN 1 ELSE 0

Progress ==
    /\ \E n \in 0..Len(results) :
           /\ Knows(mgr.snap, n) /\ mgr.at <= n /\ n + Pending <= Len(results)
           /\ Tells(results, mgr.snap, n + Pending)
           /\ mgr.pc = "compress" /\ mgr.event \in Call => mgr.event = n + 1
    /\ \E n \in 0..Len(results) :
           Knows(ckpt.snap, n) /\ ckpt.start <= n /\ Tells(results, ckpt.snap, n)
    /\ mgr.pc # "down" => ckpt.start <= mgr.at
    /\ mgr.pc = "compress" => mgr.event \in Event

-----------------------------------------------------------------------------
(* The store. *)

(* What the snapshot may name: failed calls and passed verifications. *)
Fails(res, c) == c \in 1..Len(res) /\ ~res[c].ok
Verifies(res, c) == c \in 1..Len(res) /\ res[c].ok /\ res[c].tool = "run_tests"
Names(res, snap) ==
    /\ \A c \in snap.open : Fails(res, c)
    /\ snap.verified # None => Verifies(res, snap.verified)

Covered(f, done) == \A e \in done : \E i \in ActiveEpisodes(f) : e \in i.base
Served(f, snap) ==
    \A c \in snap.open \cup ({snap.verified} \ {None}) : EpisodeOf(c) \in ActiveEpisodes(f)

Stored ==
    /\ Names(results, mgr.snap) /\ Names(results, ckpt.snap)
    /\ mgr.pc # "down" /\ ~mgr.snap.fallback =>
           /\ mgr.facts = facts /\ mgr.epis = epis
           /\ Covered(epis, mgr.snap.done) /\ Served(epis, mgr.snap)
           /\ mgr.pc = "compress" => EpisodeOf(mgr.event) \in ActiveEpisodes(epis)
    /\ ~ckpt.snap.fallback => Covered(epis, ckpt.snap.done) /\ Served(epis, ckpt.snap)

IInv == Types /\ Chains /\ Progress /\ Stored
-----------------------------------------------------------------------------
(* Constants, tables and sets. *)

LEMMA Constants ==
    /\ MaxValue \in Nat /\ MaxValue > 0 /\ MaxCalls \in Nat /\ MaxCrashes \in Nat /\ MaxFaults \in Nat
    /\ StepLen \in Nat /\ StepLen > 0 /\ MaxGeneration \in Nat /\ MaxGeneration > 0
    /\ IsFiniteSet(Path) /\ None \notin Path /\ "tests" \notin Path
    /\ None \notin FactId /\ None \notin Call
BY MemoryAssumption, NoneAssumption

LEMMA LeastExists ==
    ASSUME NEW S \in SUBSET Nat, S # {}
    PROVE  \E i \in S : \A j \in S : i <= j
<1>1. PICK i \in S : \A j \in S : ~(<<j, i>> \in OpToRel(<, Nat))
  BY NatLessThanWellFounded, WFMin
<1>2. ASSUME NEW j \in S PROVE i <= j
  <2>1. ~(j < i)
    BY <1>1 DEF OpToRel
  <2> QED BY <2>1
<1> QED BY <1>2

LEMMA WithFactTable ==
    ASSUME NEW f \in FactTable, NEW i \in FactId, NEW row \in Fact
    PROVE  With(f, i, row) \in FactTable
<1>1. PICK D \in SUBSET FactId : f \in [D -> Fact]
  BY DEF FactTable
<1>2. With(f, i, row) \in [D \cup {i} -> Fact]
  BY <1>1 DEF With
<1>3. D \cup {i} \in SUBSET FactId
  OBVIOUS
<1> QED BY <1>2, <1>3 DEF FactTable

LEMMA WithEpisodeTable ==
    ASSUME NEW f \in EpisodeTable, NEW i \in EpisodeId, NEW row \in Episode
    PROVE  With(f, i, row) \in EpisodeTable
<1>1. PICK D \in SUBSET EpisodeId : f \in [D -> Episode]
  BY DEF EpisodeTable
<1>2. With(f, i, row) \in [D \cup {i} -> Episode]
  BY <1>1 DEF With
<1>3. D \cup {i} \in SUBSET EpisodeId
  OBVIOUS
<1> QED BY <1>2, <1>3 DEF EpisodeTable

LEMMA FactTableFacts ==
    ASSUME NEW f \in FactTable
    PROVE  /\ DOMAIN f \subseteq FactId /\ f = [i \in DOMAIN f |-> f[i]]
           /\ \A i \in DOMAIN f : f[i] \in Fact
BY DEF FactTable

LEMMA EpisodeTableFacts ==
    ASSUME NEW f \in EpisodeTable
    PROVE  /\ DOMAIN f \subseteq EpisodeId /\ f = [i \in DOMAIN f |-> f[i]]
           /\ \A i \in DOMAIN f : f[i] \in Episode
BY DEF EpisodeTable

LEMMA EmptyTables ==
    /\ Empty \in FactTable /\ Empty \in EpisodeTable /\ Empty \in SourceTable
    /\ DOMAIN Empty = {}
<1>1. Empty \in [{} -> Fact] /\ Empty \in [{} -> Episode] /\ Empty \in [{} -> [Path -> 0..MaxValue]]
  BY DEF Empty
<1>2. {} \in SUBSET FactId /\ {} \in SUBSET EpisodeId /\ {} \in SUBSET SourceId
  OBVIOUS
<1> QED BY <1>1, <1>2 DEF Empty, FactTable, EpisodeTable, SourceTable

(* A finite set as a sequence: its elements, each once. *)
LEMMA SetAsSeq ==
    ASSUME NEW S, IsFiniteSet(S)
    PROVE  /\ Cardinality(S) \in Nat
           /\ SetToSeq(S) \in [1..Cardinality(S) -> S]
           /\ \A i, j \in 1..Cardinality(S) : SetToSeq(S)[i] = SetToSeq(S)[j] => i = j
<1>1. PICK n : n = Cardinality(S)
  OBVIOUS
<1>2. n \in Nat /\ ExistsBijection(1..n, S)
  BY <1>1, FS_CardinalityType
<1>3. PICK f \in [1..n -> S] : \A a, b \in 1..n : f[a] = f[b] => a = b
  BY <1>2 DEF ExistsBijection, Bijection, Injection, IsInjective
<1>4. \E g \in [1..n -> S] : IsInjective(g)
  BY <1>3 DEF IsInjective
<1>5. SetToSeq(S) \in [1..n -> S] /\ IsInjective(SetToSeq(S))
  BY <1>1, <1>4 DEF SetToSeq
<1> QED BY <1>1, <1>2, <1>5 DEF IsInjective

-----------------------------------------------------------------------------
(* The drafts of a result. *)

DraftType == [slot : Slot, value : 0..MaxValue, status : DOMAIN Authority]
Distinct(D) == \A i, j \in DOMAIN D : D[i].slot = D[j].slot => i = j

LEMMA FunctionAsSeq ==
    ASSUME NEW T, NEW n \in Nat, NEW f \in [1..n -> T]
    PROVE  f \in Seq(T) /\ Len(f) = n
OBVIOUS

LEMMA DiffDrafts ==
    ASSUME NEW status \in DOMAIN Authority, disk \in [Path -> 0..MaxValue]
    PROVE  /\ DiffFacts(status) \in Seq(DraftType)
           /\ \A i \in DOMAIN DiffFacts(status) : DiffFacts(status)[i].slot \in Path
           /\ Distinct(DiffFacts(status))
<1>1. IsFiniteSet(Changed)
  BY Constants, FS_Subset DEF Changed
<1>2. PICK n, s : n = Cardinality(Changed) /\ s = SetToSeq(Changed)
  OBVIOUS
<1>3. n \in Nat /\ s \in [1..n -> Changed] /\ \A i, j \in 1..n : s[i] = s[j] => i = j
  BY <1>1, <1>2, SetAsSeq
<1>4. Changed \subseteq Path
  BY DEF Changed
<1>5. DiffFacts(status) = [i \in 1..n |-> Draft(s[i], disk[s[i]], status)]
  BY <1>2, <1>3 DEF DiffFacts
<1>6. \A i \in 1..n : Draft(s[i], disk[s[i]], status) \in DraftType
  BY <1>3, <1>4 DEF Draft, DraftType, Slot
<1>7. DiffFacts(status) \in [1..n -> DraftType]
  BY <1>5, <1>6
<1>8. Distinct(DiffFacts(status))
  BY <1>3, <1>5 DEF Distinct, Draft
<1>9. \A i \in 1..n : DiffFacts(status)[i].slot \in Path
  BY <1>3, <1>4, <1>5 DEF Draft
<1>10. DiffFacts(status) \in Seq(DraftType) /\ DOMAIN DiffFacts(status) = 1..n
  BY <1>3, <1>7, FunctionAsSeq
<1> QED BY <1>8, <1>9, <1>10

LEMMA DraftsSound ==
    ASSUME NEW r \in Calls, disk \in [Path -> 0..MaxValue]
    PROVE  Drafts(r) \in Seq(DraftType) /\ Distinct(Drafts(r))
<1>0. /\ Path \subseteq Slot /\ "tests" \in Slot /\ "observed" \in DOMAIN Authority
      /\ "verified" \in DOMAIN Authority
  BY DEF Slot, Authority
<1>1. CASE r.tool = "read_file"
  <2>1. r.path \in Path /\ r.value \in 0..MaxValue
    BY <1>1 DEF Calls
  <2>2. Drafts(r) = <<Draft(r.path, r.value, "observed")>>
    BY <1>1 DEF Drafts
  <2>3. Draft(r.path, r.value, "observed") \in DraftType
    BY <1>0, <2>1 DEF Draft, DraftType
  <2> QED BY <2>2, <2>3 DEF Distinct
<1>2. CASE r.tool = "write_file"
  <2>1. Drafts(r) = IF r.ok THEN DiffFacts("observed") ELSE <<>>
    BY <1>2 DEF Drafts
  <2>2. DiffFacts("observed") \in Seq(DraftType)
    BY <1>0, DiffDrafts
  <2>3. Distinct(DiffFacts("observed"))
    BY <1>0, DiffDrafts
  <2>4. Distinct(<<>>)
    BY DEF Distinct
  <2> QED BY <2>1, <2>2, <2>3, <2>4
<1>3. CASE r.tool = "run_tests"
  <2>0. Drafts(r) = IF r.ok THEN <<Draft("tests", 1, "verified")>> \o DiffFacts("verified")
                            ELSE <<Draft("tests", 0, "observed")>>
    BY <1>3 DEF Drafts
  <2>1. CASE ~r.ok
    <3>1. Draft("tests", 0, "observed") \in DraftType
      BY <1>0, Constants DEF Draft, DraftType
    <3> QED BY <2>0, <2>1, <3>1 DEF Distinct
  <2>2. CASE r.ok
    <3>1. Draft("tests", 1, "verified") \in DraftType
      BY <1>0, Constants DEF Draft, DraftType
    <3>2. PICK D : D = DiffFacts("verified")
      OBVIOUS
    <3>5. D \in Seq(DraftType) /\ Distinct(D) /\ \A i \in DOMAIN D : D[i].slot \in Path
      BY <1>0, <3>2, DiffDrafts
    <3>6. PICK e : e = Draft("tests", 1, "verified")
      OBVIOUS
    <3>7. PICK E : E = <<e>> \o D
      OBVIOUS
    <3>8. /\ E \in Seq(DraftType) /\ Len(E) = Len(D) + 1 /\ E[1] = e
          /\ \A i \in 2..Len(E) : E[i] = D[i - 1]
      BY <3>1, <3>5, <3>6, <3>7
    <3>9. e.slot = "tests"
      BY <3>6 DEF Draft
    <3>10. Distinct(E)
      <4>1. ASSUME NEW i \in 1..Len(E), NEW j \in 1..Len(E), E[i].slot = E[j].slot PROVE i = j
        <5>1. CASE i = 1
          BY <3>5, <3>8, <3>9, <4>1, <5>1, Constants
        <5>2. CASE j = 1
          BY <3>5, <3>8, <3>9, <4>1, <5>2, Constants
        <5>3. CASE i # 1 /\ j # 1
          <6>1. i - 1 \in DOMAIN D /\ j - 1 \in DOMAIN D /\ D[i - 1].slot = D[j - 1].slot
            BY <3>5, <3>8, <4>1, <5>3
          <6> QED BY <3>5, <6>1 DEF Distinct
        <5> QED BY <5>1, <5>2, <5>3
      <4> QED BY <3>8, <4>1 DEF Distinct
    <3> QED BY <2>0, <2>2, <3>2, <3>6, <3>7, <3>8, <3>10
  <2> QED BY <2>1, <2>2
<1> QED BY <1>1, <1>2, <1>3 DEF Calls
-----------------------------------------------------------------------------
(* What one draft does to the records: it adds the first fact of its slot, *)
(* is rejected, or supersedes the active fact of its slot.                 *)

Acc == [facts : FactTable, saved : SUBSET FactId, refused : BOOLEAN]

Becomes(acc, new, table, ids) ==
    /\ new \in Acc
    /\ new.facts = table /\ new.saved = acc.saved \cup ids

Adds(acc, new, slot) ==
    \E i \in FactId :
        /\ i.slot = slot /\ ActiveIn(acc.facts, slot) = {}
        /\ Becomes(acc, new, With(acc.facts, i, NewFact("active")), {i})
Rejects(acc, new, slot) ==
    \E i \in FactId, c \in ActiveIn(acc.facts, slot) :
        /\ i.slot = slot /\ i \notin ActiveIn(acc.facts, slot)
        /\ i \in DOMAIN acc.facts => acc.facts[i].state # "invalidated"
        /\ Becomes(acc, new,
                   With(acc.facts, i, [NewFact("invalidated") EXCEPT !.conflict = c]), {i})
Replaced(acc, new, slot) ==
    \E n \in FactId, c \in ActiveIn(acc.facts, slot) :
        /\ n.slot = slot /\ n \notin DOMAIN acc.facts /\ Replaces(n, c)
        /\ Becomes(acc, new, Supersede(acc.facts, c, n), {c, n})

LEMMA NewFactType ==
    ASSUME NEW state \in {"active", "superseded", "invalidated"}
    PROVE  /\ NewFact(state) \in Fact /\ NewFact(state).state = state
           /\ NewFact(state).by = None /\ NewFact(state).of = None
           /\ NewFact(state).conflict = None
           /\ \A c \in FactId :
                /\ [NewFact(state) EXCEPT !.conflict = c] \in Fact
                /\ [NewFact(state) EXCEPT !.conflict = c].state = state
                /\ [NewFact(state) EXCEPT !.conflict = c].by = None
                /\ [NewFact(state) EXCEPT !.conflict = c].of = None
                /\ [NewFact(state) EXCEPT !.conflict = c].conflict = c
                /\ [NewFact(state) EXCEPT !.of = c] \in Fact
                /\ [NewFact(state) EXCEPT !.of = c].state = state
                /\ [NewFact(state) EXCEPT !.of = c].by = None
                /\ [NewFact(state) EXCEPT !.of = c].of = c
                /\ [NewFact(state) EXCEPT !.of = c].conflict = None
BY DEF NewFact, Fact

LEMMA SupersedeFacts ==
    ASSUME NEW f \in FactTable, NEW c \in DOMAIN f, NEW n \in FactId, n # c
    PROVE  /\ Supersede(f, c, n) \in FactTable
           /\ DOMAIN Supersede(f, c, n) = DOMAIN f \cup {n}
           /\ Supersede(f, c, n)[c] = [f[c] EXCEPT !.state = "superseded", !.by = n]
           /\ Supersede(f, c, n)[n] = [NewFact("active") EXCEPT !.of = c]
           /\ \A x \in DOMAIN f : x # c /\ x # n => Supersede(f, c, n)[x] = f[x]
<1>1. c \in FactId /\ f[c] \in Fact
  BY FactTableFacts
<1>2. PICK row : row = [f[c] EXCEPT !.state = "superseded", !.by = n]
  OBVIOUS
<1>3. row \in Fact
  BY <1>1, <1>2 DEF Fact
<1>4. PICK g : g = With(f, c, row)
  OBVIOUS
<1>5. g \in FactTable /\ DOMAIN g = DOMAIN f /\ g[c] = row /\ \A x \in DOMAIN f : x # c => g[x] = f[x]
  <2>1. g \in FactTable
    BY <1>1, <1>3, <1>4, WithFactTable
  <2>2. DOMAIN g = DOMAIN f /\ g[c] = row /\ \A x \in DOMAIN f : x # c => g[x] = f[x]
    BY <1>4 DEF With
  <2> QED BY <2>1, <2>2
<1>6. PICK fresh : fresh = [NewFact("active") EXCEPT !.of = c]
  OBVIOUS
<1>7. fresh \in Fact
  BY <1>1, <1>6, NewFactType
<1>8. Supersede(f, c, n) = With(g, n, fresh)
  BY <1>2, <1>4, <1>6 DEF Supersede
<1>9. With(g, n, fresh) \in FactTable
  BY <1>5, <1>7, WithFactTable
<1>10. /\ DOMAIN With(g, n, fresh) = DOMAIN g \cup {n} /\ With(g, n, fresh)[n] = fresh
       /\ \A x \in DOMAIN g : x # n => With(g, n, fresh)[x] = g[x]
  BY DEF With
<1> QED BY <1>2, <1>5, <1>6, <1>8, <1>9, <1>10

LEMMA ResolveCases ==
    ASSUME NEW acc \in Acc, NEW d \in DraftType, NEW k \in Call, OneActive(acc.facts),
           NEW new, new = Resolve(acc, d, k)
    PROVE  \/ new \in Acc /\ new.facts = acc.facts /\ new.saved = acc.saved
           \/ Adds(acc, new, d.slot) \/ Rejects(acc, new, d.slot) \/ Replaced(acc, new, d.slot)
<1>1. PICK f, s, b : f = acc.facts /\ s = acc.saved /\ b = acc.refused
  OBVIOUS
<1>2. f \in FactTable /\ s \in SUBSET FactId /\ b \in BOOLEAN
      /\ acc = [facts |-> f, saved |-> s, refused |-> b]
  BY <1>1 DEF Acc
<1>3. PICK fresh : fresh = [slot |-> d.slot, value |-> d.value, status |-> d.status, from |-> {k}]
  OBVIOUS
<1>4. fresh \in FactId /\ fresh.slot = d.slot /\ fresh.value = d.value /\ fresh.status = d.status
  BY <1>3 DEF FactId, DraftType
<1>5. PICK active : active = ActiveIn(f, d.slot)
  OBVIOUS
<1>6. PICK current : current = CHOOSE i \in active : TRUE
  OBVIOUS
<1>7. PICK n : n = IF d.value = current.value
                   THEN [fresh EXCEPT !.from = current.from \cup {k}] ELSE fresh
  OBVIOUS
<1>8. new = IF b \/ Suppressed(f, d, fresh) THEN acc
            ELSE IF active = {}
            THEN [acc EXCEPT !.facts = With(f, fresh, NewFact("active")), !.saved = s \cup {fresh}]
            ELSE IF ~Replaces(d, current)
                 THEN [acc EXCEPT
                         !.facts = With(f, fresh, [NewFact("invalidated") EXCEPT
                                                     !.conflict = current]),
                         !.saved = s \cup {fresh}]
                 ELSE IF ChainRefuses(f, n) THEN [acc EXCEPT !.refused = TRUE]
                 ELSE [acc EXCEPT !.facts = Supersede(f, current, n),
                                  !.saved = s \cup {current, n}]
  BY <1>1, <1>3, <1>5, <1>6, <1>7 DEF Resolve
<1>9. CASE b \/ Suppressed(f, d, fresh)
  BY <1>8, <1>9
<1>10. CASE ~(b \/ Suppressed(f, d, fresh)) /\ active = {}
  <2>1. PICK table : table = With(f, fresh, NewFact("active"))
    OBVIOUS
  <2>2. table \in FactTable
    BY <1>2, <1>4, <2>1, WithFactTable, NewFactType
  <2>3. new = [facts |-> table, saved |-> s \cup {fresh}, refused |-> b]
    BY <1>2, <1>8, <1>10, <2>1
  <2>4. Becomes(acc, new, table, {fresh})
    BY <1>1, <1>2, <1>4, <2>2, <2>3 DEF Becomes, Acc
  <2> QED BY <1>1, <1>4, <1>5, <1>10, <2>1, <2>4 DEF Adds
<1>11. CASE ~(b \/ Suppressed(f, d, fresh)) /\ active # {}
  <2>1. current \in active
    BY <1>6, <1>11
  <2>2. current \in DOMAIN f /\ current.slot = d.slot /\ f[current].state = "active"
    BY <1>5, <2>1 DEF ActiveIn
  <2>3. current \in FactId
    BY <1>2, <2>2, FactTableFacts
  <2>4. CASE ~Replaces(d, current)
    <3>1. PICK row : row = [NewFact("invalidated") EXCEPT !.conflict = current]
      OBVIOUS
    <3>2. row \in Fact
      BY <2>3, <3>1, NewFactType
    <3>3. PICK table : table = With(f, fresh, row)
      OBVIOUS
    <3>4. table \in FactTable
      BY <1>2, <1>4, <3>2, <3>3, WithFactTable
    <3>5. new = [facts |-> table, saved |-> s \cup {fresh}, refused |-> b]
      BY <1>2, <1>8, <1>11, <2>4, <3>1, <3>3
    <3>6. Becomes(acc, new, table, {fresh})
      BY <1>1, <1>2, <1>4, <3>4, <3>5 DEF Becomes, Acc
    <3>7. d.value # current.value /\ ~(Authority[d.status] >= Authority[current.status])
      BY <2>4 DEF Replaces
    <3>8. fresh \notin active
      <4>1. fresh # current
        BY <1>4, <3>7
      <4>2. ASSUME fresh \in active PROVE FALSE
        <5>1. fresh \in DOMAIN f /\ f[fresh].state = "active"
          BY <1>5, <4>2 DEF ActiveIn
        <5> QED BY <1>1, <1>4, <2>2, <4>1, <5>1 DEF OneActive
      <4> QED BY <4>2
    <3>9. Authority[d.status] < Authority[current.status]
      <4>1. /\ d.status \in {"observed", "verified"} /\ current.status \in {"observed", "verified"}
            /\ Authority["observed"] = 50 /\ Authority["verified"] = 100
        BY <2>3 DEF DraftType, FactId, Authority
      <4>2. Authority[d.status] \in Int /\ Authority[current.status] \in Int
        BY <4>1
      <4> QED BY <3>7, <4>2
    <3>10. fresh \in DOMAIN f => f[fresh].state # "invalidated"
      BY <1>5, <1>11, <2>1, <3>9 DEF Suppressed
    <3> QED BY <1>1, <1>4, <1>5, <2>1, <3>1, <3>3, <3>6, <3>8, <3>10 DEF Rejects
  <2>5. CASE Replaces(d, current) /\ ChainRefuses(f, n)
    <3>1. new = [facts |-> f, saved |-> s, refused |-> TRUE]
      BY <1>2, <1>8, <1>11, <2>5
    <3>2. new.facts = f /\ new.saved = s
      BY <3>1
    <3>3. PICK t \in BOOLEAN : t = TRUE
      OBVIOUS
    <3>4. [facts |-> f, saved |-> s, refused |-> t] \in Acc
      BY <1>2 DEF Acc
    <3> QED BY <1>1, <3>1, <3>2, <3>3, <3>4
  <2>6. CASE Replaces(d, current) /\ ~ChainRefuses(f, n)
    <3>1. n \in FactId /\ n.slot = d.slot /\ n.value = d.value /\ n.status = d.status
      <4>1. current.from \cup {k} \in SUBSET Call
        BY <2>3 DEF FactId
      <4>2. CASE d.value = current.value
        <5>1. n = [slot |-> d.slot, value |-> d.value, status |-> d.status,
                   from |-> current.from \cup {k}]
          BY <1>3, <1>7, <4>2
        <5> QED BY <4>1, <5>1 DEF FactId, DraftType
      <4>3. CASE d.value # current.value
        BY <1>4, <1>7, <4>3
      <4> QED BY <4>2, <4>3
    <3>2. n \notin DOMAIN f /\ n # current
      BY <2>2, <2>6 DEF ChainRefuses
    <3>3. Replaces(n, current)
      BY <2>6, <3>1 DEF Replaces
    <3>4. PICK table : table = Supersede(f, current, n)
      OBVIOUS
    <3>5. table \in FactTable
      BY <1>2, <2>2, <3>1, <3>2, <3>4, SupersedeFacts
    <3>6. new = [facts |-> table, saved |-> s \cup {current, n}, refused |-> b]
      BY <1>2, <1>8, <1>11, <2>6, <3>4
    <3>7. Becomes(acc, new, table, {current, n})
      BY <1>1, <1>2, <2>3, <3>1, <3>5, <3>6 DEF Becomes, Acc
    <3> QED BY <1>1, <1>5, <2>1, <3>1, <3>2, <3>3, <3>4, <3>7 DEF Replaced
  <2> QED BY <2>4, <2>5, <2>6
<1> QED BY <1>9, <1>10, <1>11
-----------------------------------------------------------------------------
(* The drafts up to one: only the slots in used have changed; every change *)
(* is among the ids to be saved; and if the records were chains, they      *)
(* still are, or a record to be saved collides with the one it replaces.   *)

Clash(base, acc) ==
    \E i \in acc.saved :
        i \in DOMAIN base /\ base[i].conflict = None /\ acc.facts[i].conflict # None

Resolved(base, acc, used) ==
    /\ acc \in Acc
    /\ DOMAIN base \subseteq DOMAIN acc.facts /\ acc.saved \subseteq DOMAIN acc.facts
    /\ \A i \in DOMAIN acc.facts \ acc.saved : i \in DOMAIN base /\ acc.facts[i] = base[i]
    /\ \A i \in acc.saved : i.slot \in used
    /\ OneActive(acc.facts) /\ HasActive(acc.facts)
    /\ Linked(base) /\ Unrejected(base)
       => (Linked(acc.facts) /\ Unrejected(acc.facts)) \/ Clash(base, acc)

(* Only the slot's records change: a clash elsewhere stays. *)
LEMMA ClashStays ==
    ASSUME NEW base \in FactTable, NEW acc, NEW new, NEW used, NEW slot, slot \notin used,
           Resolved(base, acc, used), acc.saved \subseteq new.saved,
           \A i \in acc.saved : i.slot # slot => new.facts[i] = acc.facts[i],
           Clash(base, acc)
    PROVE  Clash(base, new)
BY DEF Clash, Resolved

LEMMA AddsKeeps ==
    ASSUME NEW base \in FactTable, NEW acc, NEW new, NEW used, NEW slot, slot \notin used,
           Resolved(base, acc, used), Adds(acc, new, slot)
    PROVE  Resolved(base, new, used \cup {slot})
<1>1. PICK i \in FactId : /\ i.slot = slot /\ ActiveIn(acc.facts, slot) = {}
                          /\ Becomes(acc, new, With(acc.facts, i, NewFact("active")), {i})
  BY DEF Adds
<1>2. PICK f, g : f = acc.facts /\ g = new.facts
  OBVIOUS
<1>3. /\ DOMAIN g = DOMAIN f \cup {i} /\ g[i] = NewFact("active")
      /\ \A x \in DOMAIN f : x # i => g[x] = f[x]
      /\ new \in Acc /\ new.saved = acc.saved \cup {i}
  BY <1>1, <1>2 DEF Becomes, With
<1>4. \A x \in DOMAIN f : x.slot # slot
  BY <1>1, <1>2 DEF Resolved, HasActive, ActiveIn
<1>5. i \notin DOMAIN f
  BY <1>1, <1>4
<1>6. /\ NewFact("active").state = "active" /\ NewFact("active").by = None
      /\ NewFact("active").of = None /\ NewFact("active").conflict = None
  BY NewFactType
<1>7. /\ acc.saved \subseteq DOMAIN f /\ DOMAIN base \subseteq DOMAIN f
      /\ \A x \in DOMAIN f \ acc.saved : x \in DOMAIN base /\ f[x] = base[x]
      /\ \A x \in acc.saved : x.slot \in used
      /\ OneActive(f) /\ HasActive(f)
  BY <1>2 DEF Resolved
<1>8. OneActive(g)
  BY <1>1, <1>3, <1>4, <1>6, <1>7 DEF OneActive
<1>9. HasActive(g)
  BY <1>1, <1>3, <1>5, <1>6, <1>7 DEF HasActive
<1>10. ASSUME Linked(base), Unrejected(base)
       PROVE  (Linked(g) /\ Unrejected(g)) \/ Clash(base, new)
  <2>1. CASE Linked(f) /\ Unrejected(f)
    <3>1. Unrejected(g)
      BY <1>3, <1>6, <2>1 DEF Unrejected
    <3>2. Linked(g)
      BY <1>3, <1>5, <1>6, <2>1 DEF Linked
    <3> QED BY <3>1, <3>2
  <2>2. CASE Clash(base, acc)
    BY <1>1, <1>2, <1>3, <1>5, <1>7, <2>2, ClashStays
  <2> QED BY <1>2, <1>10, <2>1, <2>2 DEF Resolved
<1>11. DOMAIN base \subseteq DOMAIN g /\ new.saved \subseteq DOMAIN g
       /\ (\A x \in DOMAIN g \ new.saved : x \in DOMAIN base /\ g[x] = base[x])
       /\ \A x \in new.saved : x.slot \in used \cup {slot}
  BY <1>1, <1>3, <1>7
<1> QED BY <1>2, <1>3, <1>8, <1>9, <1>10, <1>11 DEF Resolved

(* A rejected draft that takes the id of a superseded record collides.     *)
LEMMA RejectsKeeps ==
    ASSUME NEW base \in FactTable, NEW acc, NEW new, NEW used, NEW slot, slot \notin used,
           Resolved(base, acc, used), Rejects(acc, new, slot)
    PROVE  Resolved(base, new, used \cup {slot})
<1>1. PICK i \in FactId, c \in ActiveIn(acc.facts, slot) :
        /\ i.slot = slot /\ i \notin ActiveIn(acc.facts, slot)
        /\ i \in DOMAIN acc.facts => acc.facts[i].state # "invalidated"
        /\ Becomes(acc, new,
                   With(acc.facts, i, [NewFact("invalidated") EXCEPT !.conflict = c]), {i})
  BY DEF Rejects
<1>2. PICK f, g : f = acc.facts /\ g = new.facts
  OBVIOUS
<1>3. PICK row : row = [NewFact("invalidated") EXCEPT !.conflict = c]
  OBVIOUS
<1>4. /\ DOMAIN g = DOMAIN f \cup {i} /\ g[i] = row
      /\ \A x \in DOMAIN f : x # i => g[x] = f[x]
      /\ new \in Acc /\ new.saved = acc.saved \cup {i}
  BY <1>1, <1>2, <1>3 DEF Becomes, With
<1>5. c \in DOMAIN f /\ c.slot = slot /\ f[c].state = "active" /\ c # i
  BY <1>1, <1>2 DEF ActiveIn
<1>6. f \in FactTable /\ c \in FactId
  BY <1>2, <1>5, FactTableFacts DEF Resolved, Acc
<1>7. row.state = "invalidated" /\ row.by = None /\ row.of = None /\ row.conflict = c /\ c # None
  BY <1>3, <1>6, NewFactType, Constants
<1>8. /\ acc.saved \subseteq DOMAIN f /\ DOMAIN base \subseteq DOMAIN f
      /\ \A x \in DOMAIN f \ acc.saved : x \in DOMAIN base /\ f[x] = base[x]
      /\ \A x \in acc.saved : x.slot \in used
      /\ OneActive(f) /\ HasActive(f)
  BY <1>2 DEF Resolved
<1>9. i \in DOMAIN f => f[i].state # "active" /\ f[i].state # "invalidated"
  BY <1>1, <1>2 DEF ActiveIn
<1>10. OneActive(g)
  BY <1>4, <1>7, <1>8 DEF OneActive
<1>11. HasActive(g)
  <2>1. g[c].state = "active" /\ c \in DOMAIN g
    BY <1>4, <1>5
  <2>2. ASSUME NEW x \in DOMAIN g PROVE \E j \in DOMAIN g : j.slot = x.slot /\ g[j].state = "active"
    <3>1. CASE x = i
      BY <1>1, <1>5, <2>1, <3>1
    <3>2. CASE x # i
      <4>1. PICK j \in DOMAIN f : j.slot = x.slot /\ f[j].state = "active"
        BY <1>4, <1>8, <3>2 DEF HasActive
      <4>2. j # i
        BY <1>9, <4>1
      <4> QED BY <1>4, <4>1, <4>2
    <3> QED BY <3>1, <3>2
  <2> QED BY <2>2 DEF HasActive
<1>12. ASSUME Linked(base), Unrejected(base)
       PROVE  (Linked(g) /\ Unrejected(g)) \/ Clash(base, new)
  <2>1. CASE Linked(f) /\ Unrejected(f) /\ i \notin DOMAIN f
    <3>1. Unrejected(g)
      BY <1>4, <1>7, <2>1 DEF Unrejected
    <3>2. Linked(g)
      BY <1>4, <1>7, <2>1 DEF Linked
    <3> QED BY <3>1, <3>2
  <2>2. CASE i \in DOMAIN f
    <3>1. i \notin acc.saved
      BY <1>1, <1>8
    <3>2. i \in DOMAIN base /\ f[i] = base[i]
      BY <1>8, <2>2, <3>1
    <3>3. base[i].conflict = None
      BY <1>9, <1>12, <2>2, <3>2 DEF Unrejected
    <3>4. i \in new.saved /\ g[i].conflict # None
      BY <1>4, <1>7
    <3> QED BY <1>2, <3>2, <3>3, <3>4 DEF Clash
  <2>3. CASE Clash(base, acc)
    BY <1>1, <1>2, <1>4, <1>8, <2>3, ClashStays
  <2> QED BY <1>2, <1>12, <2>1, <2>2, <2>3 DEF Resolved
<1>13. DOMAIN base \subseteq DOMAIN g /\ new.saved \subseteq DOMAIN g
       /\ (\A x \in DOMAIN g \ new.saved : x \in DOMAIN base /\ g[x] = base[x])
       /\ \A x \in new.saved : x.slot \in used \cup {slot}
  BY <1>1, <1>4, <1>8
<1> QED BY <1>2, <1>4, <1>10, <1>11, <1>12, <1>13 DEF Resolved

LEMMA ReplacedKeeps ==
    ASSUME NEW base \in FactTable, NEW acc, NEW new, NEW used, NEW slot, slot \notin used,
           Resolved(base, acc, used), Replaced(acc, new, slot)
    PROVE  Resolved(base, new, used \cup {slot})
<1>1. PICK n \in FactId, c \in ActiveIn(acc.facts, slot) :
        /\ n.slot = slot /\ n \notin DOMAIN acc.facts /\ Replaces(n, c)
        /\ Becomes(acc, new, Supersede(acc.facts, c, n), {c, n})
  BY DEF Replaced
<1>2. PICK f, g : f = acc.facts /\ g = new.facts
  OBVIOUS
<1>3. c \in DOMAIN f /\ c.slot = slot /\ f[c].state = "active" /\ c # n
  BY <1>1, <1>2 DEF ActiveIn
<1>4. f \in FactTable /\ c \in FactId /\ f[c] \in Fact
  BY <1>2, <1>3, FactTableFacts DEF Resolved, Acc
<1>5. g = Supersede(f, c, n) /\ new \in Acc /\ new.saved = acc.saved \cup {c, n}
  BY <1>1, <1>2 DEF Becomes
<1>6. /\ DOMAIN g = DOMAIN f \cup {n}
      /\ g[c] = [f[c] EXCEPT !.state = "superseded", !.by = n]
      /\ g[n] = [NewFact("active") EXCEPT !.of = c]
      /\ \A x \in DOMAIN f : x # c => g[x] = f[x]
  <2>1. /\ DOMAIN Supersede(f, c, n) = DOMAIN f \cup {n}
        /\ Supersede(f, c, n)[c] = [f[c] EXCEPT !.state = "superseded", !.by = n]
        /\ Supersede(f, c, n)[n] = [NewFact("active") EXCEPT !.of = c]
        /\ \A x \in DOMAIN f : x # c /\ x # n => Supersede(f, c, n)[x] = f[x]
    BY <1>3 DEF Supersede, With
  <2>2. n \notin DOMAIN f
    BY <1>1, <1>2
  <2> QED BY <1>5, <2>1, <2>2
<1>7. /\ g[c].state = "superseded" /\ g[c].by = n /\ g[c].of = f[c].of
      /\ g[c].conflict = f[c].conflict
  BY <1>4, <1>6 DEF Fact
<1>8. g[n].state = "active" /\ g[n].by = None /\ g[n].of = c /\ g[n].conflict = None
  BY <1>4, <1>6, NewFactType
<1>9. /\ acc.saved \subseteq DOMAIN f /\ DOMAIN base \subseteq DOMAIN f
      /\ \A x \in DOMAIN f \ acc.saved : x \in DOMAIN base /\ f[x] = base[x]
      /\ \A x \in acc.saved : x.slot \in used
      /\ OneActive(f) /\ HasActive(f)
  BY <1>2 DEF Resolved
<1>10. n \notin DOMAIN f /\ n # None /\ c # None /\ \A x \in DOMAIN f : x # None
  BY <1>1, <1>2, <1>4, Constants, FactTableFacts
<1>11. OneActive(g)
  <2>1. \A x \in DOMAIN f : x.slot = slot /\ f[x].state = "active" => x = c
    BY <1>3, <1>9 DEF OneActive
  <2>2. \A x \in DOMAIN g : x.slot = slot /\ g[x].state = "active" => x = n
    BY <1>6, <1>7, <2>1
  <2>3. \A x \in DOMAIN g : x.slot # slot => x \in DOMAIN f /\ g[x] = f[x]
    BY <1>1, <1>3, <1>6
  <2> QED BY <1>9, <2>2, <2>3 DEF OneActive
<1>12. HasActive(g)
  <2>1. ASSUME NEW x \in DOMAIN g PROVE \E j \in DOMAIN g : j.slot = x.slot /\ g[j].state = "active"
    <3>1. CASE x.slot = slot
      BY <1>1, <1>6, <1>8, <3>1
    <3>2. CASE x.slot # slot
      <4>1. PICK j \in DOMAIN f : j.slot = x.slot /\ f[j].state = "active"
        BY <1>1, <1>6, <1>9, <3>2 DEF HasActive
      <4> QED BY <1>3, <1>6, <3>2, <4>1
    <3> QED BY <3>1, <3>2
  <2> QED BY <2>1 DEF HasActive
<1>13. ASSUME Linked(base), Unrejected(base)
       PROVE  (Linked(g) /\ Unrejected(g)) \/ Clash(base, new)
  <2>1. CASE Linked(f) /\ Unrejected(f)
    <3>1. Unrejected(g)
      <4>1. f[c].conflict = None
        BY <1>3, <2>1 DEF Unrejected
      <4> QED BY <1>6, <1>7, <1>8, <2>1, <4>1, ZenonT(60) DEF Unrejected
    <3>2. f[c].by = None
      BY <1>3, <2>1 DEF Linked
    <3>3. ASSUME NEW x \in DOMAIN g
          PROVE  /\ g[x].by # None =>
                      g[x].by \in DOMAIN g /\ g[g[x].by].of = x /\ Replaces(g[x].by, x)
                 /\ g[x].of # None => g[x].of \in DOMAIN g /\ g[g[x].of].by = x
                 /\ g[x].state = "superseded" <=> g[x].by # None
      <4>1. CASE x = n
        BY <1>3, <1>6, <1>7, <1>8, <4>1
      <4>2. CASE x = c
        <5>1. f[c].of # None => f[c].of \in DOMAIN f /\ f[f[c].of].by = c
          BY <1>3, <2>1 DEF Linked
        <5>2. f[c].of # None => f[c].of # c /\ f[c].of # n
          BY <1>10, <3>2, <5>1
        <5>3. f[c].of # None => g[f[c].of] = f[f[c].of]
          BY <1>6, <5>1, <5>2
        <5> QED BY <1>1, <1>6, <1>7, <1>8, <1>10, <4>2, <5>1, <5>3
      <4>3. CASE x # n /\ x # c
        <5>1. x \in DOMAIN f /\ g[x] = f[x]
          BY <1>6, <4>3
        <5>2. f[x].state = "superseded" <=> f[x].by # None
          BY <2>1, <5>1 DEF Linked
        <5>3. ASSUME f[x].by # None
              PROVE  f[x].by \in DOMAIN g /\ g[f[x].by].of = x /\ Replaces(f[x].by, x)
          <6>1. f[x].by \in DOMAIN f /\ f[f[x].by].of = x /\ Replaces(f[x].by, x)
            BY <2>1, <5>1, <5>3 DEF Linked
          <6>2. g[f[x].by].of = f[f[x].by].of
            BY <1>6, <1>7, <6>1
          <6> QED BY <1>6, <6>1, <6>2
        <5>4. ASSUME f[x].of # None
              PROVE  f[x].of \in DOMAIN g /\ g[f[x].of].by = x
          <6>1. f[x].of \in DOMAIN f /\ f[f[x].of].by = x
            BY <2>1, <5>1, <5>4 DEF Linked
          <6>2. f[x].of # c
            BY <1>10, <3>2, <5>1, <6>1
          <6> QED BY <1>6, <6>1, <6>2
        <5> QED BY <5>1, <5>2, <5>3, <5>4
      <4> QED BY <4>1, <4>2, <4>3
    <3>4. Linked(g)
      BY <3>3 DEF Linked
    <3> QED BY <3>1, <3>4
  <2>2. CASE Clash(base, acc)
    <3>1. \A x \in acc.saved : x.slot # slot => new.facts[x] = acc.facts[x]
      BY <1>2, <1>3, <1>6, <1>9
    <3> QED BY <1>5, <2>2, <3>1, ClashStays
  <2> QED BY <1>2, <1>13, <2>1, <2>2 DEF Resolved
<1>14. DOMAIN base \subseteq DOMAIN g /\ new.saved \subseteq DOMAIN g
       /\ (\A x \in DOMAIN g \ new.saved : x \in DOMAIN base /\ g[x] = base[x])
       /\ \A x \in new.saved : x.slot \in used \cup {slot}
  BY <1>1, <1>3, <1>5, <1>6, <1>9
<1> QED BY <1>2, <1>5, <1>11, <1>12, <1>13, <1>14 DEF Resolved

LEMMA ResolveKeeps ==
    ASSUME NEW base \in FactTable, NEW acc, NEW used, NEW d \in DraftType, d.slot \notin used,
           NEW k \in Call, Resolved(base, acc, used)
    PROVE  Resolved(base, Resolve(acc, d, k), used \cup {d.slot})
<1>1. PICK new : new = Resolve(acc, d, k)
  OBVIOUS
<1>2. \/ new \in Acc /\ new.facts = acc.facts /\ new.saved = acc.saved
      \/ Adds(acc, new, d.slot) \/ Rejects(acc, new, d.slot) \/ Replaced(acc, new, d.slot)
  BY <1>1, ResolveCases DEF Resolved
<1>3. CASE new \in Acc /\ new.facts = acc.facts /\ new.saved = acc.saved
  BY <1>1, <1>3 DEF Resolved, Clash
<1> QED BY <1>1, <1>2, <1>3, AddsKeeps, RejectsKeeps, ReplacedKeeps
-----------------------------------------------------------------------------
(* All drafts of a result. *)

First(f) == [facts |-> f, saved |-> {}, refused |-> FALSE]

ResolveSteps(g, f, D, k, n) ==
    g = [m \in 0..n |-> IF m = 0 THEN First(f) ELSE Resolve(g[m - 1], D[m], k)]

LEMMA ResolveStepsExist ==
    ASSUME NEW f, NEW D, NEW k, NEW n \in Nat
    PROVE  \E g : ResolveSteps(g, f, D, k, n)
<1>1. PICK S : S = {m \in Nat : ~\E g : ResolveSteps(g, f, D, k, m)}
  OBVIOUS
<1>2. ASSUME S # {} PROVE FALSE
  <2>1. PICK m \in S : \A j \in S : m <= j
    BY <1>1, <1>2, LeastExists
  <2>2. m \in Nat /\ ~\E g : ResolveSteps(g, f, D, k, m)
    BY <1>1, <2>1
  <2>3. CASE m = 0
    <3>1. PICK g : g = [j \in 0..0 |-> First(f)]
      OBVIOUS
    <3>2. g = [j \in 0..0 |-> IF j = 0 THEN First(f) ELSE Resolve(g[j - 1], D[j], k)]
      BY <3>1
    <3> QED BY <2>2, <2>3, <3>2 DEF ResolveSteps
  <2>4. CASE m # 0
    <3>1. m - 1 \in Nat /\ m - 1 \notin S
      BY <2>1, <2>2, <2>4
    <3>2. PICK h : ResolveSteps(h, f, D, k, m - 1)
      BY <1>1, <3>1
    <3>3. PICK last : last = Resolve(h[m - 1], D[m], k)
      OBVIOUS
    <3>4. PICK g : g = [j \in 0..m |-> IF j = m THEN last ELSE h[j]]
      OBVIOUS
    <3>5. ASSUME NEW j \in 0..m
          PROVE  g[j] = IF j = 0 THEN First(f) ELSE Resolve(g[j - 1], D[j], k)
      <4>1. CASE j = m
        <5>1. g[j - 1] = h[m - 1]
          BY <2>2, <2>4, <3>4, <4>1
        <5> QED BY <2>4, <3>3, <3>4, <4>1, <5>1
      <4>2. CASE j # m
        <5>1. j \in 0..(m - 1) /\ g[j] = h[j]
          BY <2>2, <3>4, <4>2
        <5>2. h[j] = IF j = 0 THEN First(f) ELSE Resolve(h[j - 1], D[j], k)
          BY <3>2, <5>1 DEF ResolveSteps
        <5>3. j # 0 => g[j - 1] = h[j - 1]
          BY <2>2, <3>4, <5>1
        <5> QED BY <5>1, <5>2, <5>3
      <4> QED BY <4>1, <4>2
    <3>6. g = [j \in 0..m |-> g[j]]
      BY <3>4
    <3>7. g = [j \in 0..m |-> IF j = 0 THEN First(f) ELSE Resolve(g[j - 1], D[j], k)]
      BY <3>5, <3>6
    <3> QED BY <2>2, <3>7 DEF ResolveSteps
  <2> QED BY <2>3, <2>4
<1> QED BY <1>1, <1>2

SlotsOf(D, n) == {D[m].slot : m \in 1..n}

LEMMA ResolveStepsSound ==
    ASSUME NEW f \in FactTable, OneActive(f), HasActive(f), NEW k \in Call,
           NEW D \in Seq(DraftType), Distinct(D), NEW g, ResolveSteps(g, f, D, k, Len(D))
    PROVE  \A n \in 0..Len(D) : Resolved(f, g[n], SlotsOf(D, n))
<1>1. PICK S : S = {n \in 0..Len(D) : ~Resolved(f, g[n], SlotsOf(D, n))}
  OBVIOUS
<1>2. S \in SUBSET Nat
  BY <1>1
<1>3. ASSUME S # {} PROVE FALSE
  <2>1. PICK n \in S : \A j \in S : n <= j
    BY <1>2, <1>3, LeastExists
  <2>2. n \in 0..Len(D) /\ ~Resolved(f, g[n], SlotsOf(D, n))
    BY <1>1, <2>1
  <2>3. g[n] = IF n = 0 THEN First(f) ELSE Resolve(g[n - 1], D[n], k)
    BY <2>2 DEF ResolveSteps
  <2>4. CASE n = 0
    <3>1. PICK acc : acc = g[n]
      OBVIOUS
    <3>2. acc = [facts |-> f, saved |-> {}, refused |-> FALSE]
      BY <2>3, <2>4, <3>1 DEF First
    <3>3. PICK b \in BOOLEAN : b = FALSE
      OBVIOUS
    <3>4. [facts |-> f, saved |-> {}, refused |-> b] \in Acc
      BY DEF Acc
    <3>5. acc \in Acc /\ acc.facts = f /\ acc.saved = {}
      BY <3>2, <3>3, <3>4
    <3>6. Resolved(f, acc, SlotsOf(D, n))
      BY <3>5 DEF Resolved
    <3> QED BY <2>2, <3>1, <3>6
  <2>5. CASE n # 0
    <3>1. n - 1 \in 0..Len(D) /\ n - 1 \notin S /\ n \in 1..Len(D)
      BY <2>1, <2>2, <2>5
    <3>2. Resolved(f, g[n - 1], SlotsOf(D, n - 1))
      BY <1>1, <3>1
    <3>3. D[n] \in DraftType
      BY <3>1
    <3>4. D[n].slot \notin SlotsOf(D, n - 1)
      BY <3>1 DEF SlotsOf, Distinct
    <3>5. SlotsOf(D, n - 1) \cup {D[n].slot} = SlotsOf(D, n)
      BY <3>1 DEF SlotsOf
    <3>6. Resolved(f, Resolve(g[n - 1], D[n], k), SlotsOf(D, n - 1) \cup {D[n].slot})
      BY <3>2, <3>3, <3>4, ResolveKeeps
    <3> QED BY <2>2, <2>3, <2>5, <3>5, <3>6
  <2> QED BY <2>4, <2>5
<1> QED BY <1>1, <1>3

LEMMA ResolveAllSound ==
    ASSUME NEW f \in FactTable, OneActive(f), HasActive(f), NEW k \in Call,
           results[k] \in Calls, disk \in [Path -> 0..MaxValue]
    PROVE  \E used : Resolved(f, ResolveAll(f, k), used)
<1>1. PICK D : D = Drafts(results[k])
  OBVIOUS
<1>2. D \in Seq(DraftType) /\ Distinct(D)
  BY <1>1, DraftsSound
<1>3. PICK g : g = CHOOSE h : ResolveSteps(h, f, D, k, Len(D))
  OBVIOUS
<1>4. ResolveSteps(g, f, D, k, Len(D))
  BY <1>2, <1>3, ResolveStepsExist, SMTT(40)
<1>5. ResolveAll(f, k) = g[Len(D)]
  BY <1>1, <1>3 DEF ResolveAll, ResolveSteps, First
<1>6. Resolved(f, g[Len(D)], SlotsOf(D, Len(D)))
  BY <1>2, <1>4, ResolveStepsSound
<1> QED BY <1>5, <1>6
-----------------------------------------------------------------------------
(* The episodic state of an uninterrupted run. *)

LEMMA SnapshotFacts ==
    ASSUME NEW snap \in Snapshot
    PROVE  /\ snap.done \in SUBSET Event /\ snap.open \in SUBSET Call
           /\ snap.verified \in Call \cup {None} /\ snap.fallback \in BOOLEAN
           /\ snap = [done |-> snap.done, open |-> snap.open, verified |-> snap.verified,
                      fallback |-> snap.fallback]
BY DEF Snapshot

LEMMA NoSnapshotType ==
    /\ NoSnapshot \in Snapshot /\ NoSnapshot.done = {} /\ NoSnapshot.open = {}
    /\ NoSnapshot.verified = None /\ NoSnapshot.fallback = FALSE
<1>1. PICK b \in BOOLEAN : b = FALSE
  OBVIOUS
<1>2. [done |-> {}, open |-> {}, verified |-> None, fallback |-> b] \in Snapshot
  BY DEF Snapshot
<1> QED BY <1>1, <1>2 DEF NoSnapshot

LEMMA ApplyReferenceIs ==
    ASSUME NEW snap \in Snapshot, NEW k
    PROVE  ApplyReference(snap, k) = After(results, snap, k)
BY SnapshotFacts DEF ApplyReference, After, OpenAfter, VerifiedAfter, KnownIn, RecoveredIn, RecoveredBy

LEMMA AfterType ==
    ASSUME NEW res, NEW snap \in Snapshot, NEW k \in Call
    PROVE  /\ After(res, snap, k) \in Snapshot
           /\ After(res, snap, k).done = snap.done /\ After(res, snap, k).fallback = snap.fallback
           /\ After(res, snap, k).open = OpenAfter(res, snap.open, k)
           /\ After(res, snap, k).verified = VerifiedAfter(res, snap.verified, k)
           /\ OpenAfter(res, snap.open, k) \subseteq snap.open \cup {k}
<1>1. PICK o, v : o = OpenAfter(res, snap.open, k) /\ v = VerifiedAfter(res, snap.verified, k)
  OBVIOUS
<1>2. o \subseteq snap.open \cup {k}
  BY <1>1 DEF OpenAfter
<1>3. v \in Call \cup {None} /\ o \in SUBSET Call
  BY <1>1, <1>2, SnapshotFacts DEF VerifiedAfter
<1>4. After(res, snap, k) =
        [done |-> snap.done, open |-> o, verified |-> v, fallback |-> snap.fallback]
  <2>1. After(res, snap, k) = [snap EXCEPT !.open = o, !.verified = v]
    BY <1>1 DEF After
  <2> QED BY <2>1 DEF Snapshot
<1>5. After(res, snap, k) \in Snapshot
  BY <1>3, <1>4, SnapshotFacts DEF Snapshot
<1> QED BY <1>1, <1>2, <1>4, <1>5

LEMMA HistoryStart ==
    ASSUME NEW res
    PROVE  \A snap : snap.open = {} /\ snap.verified = None => Tells(res, snap, 0)
<1>1. PICK h : h = [k \in 0..0 |-> NoSnapshot]
  OBVIOUS
<1>2. h \in [0..0 -> Snapshot] /\ h[0] = NoSnapshot
  BY <1>1, NoSnapshotType
<1>3. History(h, res, 0)
  BY <1>2, NoSnapshotType DEF History
<1> QED BY <1>2, <1>3, NoSnapshotType DEF Tells

LEMMA HistoryGrows ==
    ASSUME NEW res, NEW new, NEW n \in Nat, NEW h, History(h, res, n),
           \A k \in 1..n : new[k] = res[k]
    PROVE  History(h, new, n)
<1>1. ASSUME NEW k \in 1..n PROVE After(new, h[k - 1], k) = After(res, h[k - 1], k)
  <2>1. PICK open : open = h[k - 1].open
    OBVIOUS
  <2>2. k - 1 \in 0..n /\ 1..(k - 1) \subseteq 1..n
    OBVIOUS
  <2>3. open \subseteq 1..n
    BY <2>1, <2>2 DEF History
  <2>4. new[k] = res[k] /\ \A c \in open : new[c] = res[c]
    BY <2>3
  <2>5. RecoveredIn(new, open, k) = RecoveredIn(res, open, k)
    BY <2>4 DEF RecoveredIn
  <2>6. KnownIn(new, open, k) = KnownIn(res, open, k)
    BY <2>4 DEF KnownIn
  <2>7. OpenAfter(new, open, k) = OpenAfter(res, open, k)
    BY <2>4, <2>5, <2>6 DEF OpenAfter
  <2>8. VerifiedAfter(new, h[k - 1].verified, k) = VerifiedAfter(res, h[k - 1].verified, k)
    BY <2>4 DEF VerifiedAfter
  <2> QED BY <2>1, <2>7, <2>8 DEF After
<1> QED BY <1>1 DEF History

LEMMA TellsGrows ==
    ASSUME NEW res, NEW new, NEW n \in Nat, NEW snap, Tells(res, snap, n),
           \A k \in 1..n : new[k] = res[k]
    PROVE  Tells(new, snap, n)
BY HistoryGrows DEF Tells

LEMMA TellsNext ==
    ASSUME NEW res, NEW n \in Nat, n + 1 \in Call, NEW snap, Tells(res, snap, n),
           NEW new, new.open = OpenAfter(res, snap.open, n + 1),
           new.verified = VerifiedAfter(res, snap.verified, n + 1)
    PROVE  Tells(res, new, n + 1)
<1>1. PICK h : History(h, res, n) /\ snap.open = h[n].open /\ snap.verified = h[n].verified
  BY DEF Tells
<1>2. PICK s : s = h[n]
  OBVIOUS
<1>12. /\ h \in [0..n -> Snapshot] /\ s \in Snapshot /\ s.open \subseteq 1..n
       /\ s.open = snap.open /\ s.verified = snap.verified /\ h[0] = NoSnapshot
  <2>1. n \in 0..n
    OBVIOUS
  <2>2. h \in [0..n -> Snapshot] /\ h[0] = NoSnapshot /\ \A k \in 0..n : h[k].open \subseteq 1..k
    BY <1>1 DEF History
  <2> QED BY <1>1, <1>2, <2>1, <2>2
<1>3. PICK last : last = After(res, s, n + 1)
  OBVIOUS
<1>4. /\ last \in Snapshot /\ last.open = new.open /\ last.verified = new.verified
      /\ last.open \subseteq s.open \cup {n + 1}
  <2>1. PICK k \in Call : k = n + 1
    OBVIOUS
  <2>2. /\ After(res, s, k) \in Snapshot
        /\ After(res, s, k).open = OpenAfter(res, s.open, k)
        /\ After(res, s, k).verified = VerifiedAfter(res, s.verified, k)
        /\ OpenAfter(res, s.open, k) \subseteq s.open \cup {k}
    <3>1. s \in Snapshot
      BY <1>12
    <3> QED BY <3>1, AfterType
  <2> QED BY <1>12, <1>3, <2>1, <2>2
<1>5. PICK g : g = [k \in 0..(n + 1) |-> IF k = n + 1 THEN last ELSE h[k]]
  OBVIOUS
<1>6. g \in [0..(n + 1) -> Snapshot] /\ g[n + 1] = last /\ \A k \in 0..n : g[k] = h[k]
  BY <1>12, <1>4, <1>5
<1>7. ASSUME NEW k \in 1..(n + 1)
      PROVE  g[k] = After(res, g[k - 1], k)
  <2>1. k - 1 \in 0..n /\ g[k - 1] = h[k - 1]
    BY <1>6
  <2>2. CASE k = n + 1
    <3>1. g[k - 1] = s /\ g[k] = last
      BY <1>2, <1>6, <2>1, <2>2
    <3> QED BY <1>3, <2>2, <3>1
  <2>3. CASE k # n + 1
    <3>1. k \in 1..n /\ g[k] = h[k]
      BY <1>6, <2>3
    <3> QED BY <1>1, <2>1, <3>1 DEF History
  <2> QED BY <2>2, <2>3
<1>8. \A k \in 0..(n + 1) : g[k].open \subseteq 1..k
  <2>1. \A k \in 0..n : g[k].open \subseteq 1..k
    BY <1>1, <1>6 DEF History
  <2>2. g[n + 1].open \subseteq 1..(n + 1)
    BY <1>12, <1>4, <1>6
  <2> QED BY <2>1, <2>2
<1>9. g[0] = NoSnapshot
  BY <1>12, <1>6
<1>10. History(g, res, n + 1)
  BY <1>6, <1>7, <1>8, <1>9 DEF History
<1> QED BY <1>4, <1>6, <1>10 DEF Tells

IsUninterrupted(g, n) ==
    g = [k \in 0..n |-> IF k = 0 THEN NoSnapshot ELSE ApplyReference(g[k - 1], k)]

LEMMA UninterruptedIs ==
    ASSUME NEW n \in Nat, NEW h, History(h, results, n)
    PROVE  Uninterrupted(n) = h[n]
<1>1. ASSUME NEW k \in 0..n
      PROVE  h[k] = IF k = 0 THEN NoSnapshot ELSE ApplyReference(h[k - 1], k)
  <2>1. CASE k = 0
    BY <2>1 DEF History
  <2>2. CASE k # 0
    <3>1. k \in 1..n /\ k - 1 \in 0..n
      BY <2>2
    <3>2. h[k - 1] \in Snapshot
      BY <3>1 DEF History
    <3> QED BY <2>2, <3>1, <3>2, ApplyReferenceIs DEF History
  <2> QED BY <2>1, <2>2
<1>2. h = [k \in 0..n |-> h[k]]
  BY DEF History
<1>3. IsUninterrupted(h, n)
  BY <1>1, <1>2 DEF IsUninterrupted
<1>4. PICK g : g = CHOOSE x : IsUninterrupted(x, n)
  OBVIOUS
<1>5. IsUninterrupted(g, n)
  BY <1>3, <1>4
<1>6. Uninterrupted(n) = g[n]
  BY <1>4 DEF Uninterrupted, IsUninterrupted
<1>7. /\ \A k \in 0..n : k = 0 => g[k] = h[k]
      /\ \A k \in 0..n : k # 0 /\ g[k - 1] = h[k - 1] => g[k] = h[k]
  BY <1>3, <1>5 DEF IsUninterrupted
<1>8. PICK S : S = {k \in 0..n : g[k] # h[k]}
  OBVIOUS
<1>9. ASSUME S # {} PROVE FALSE
  <2>1. S \in SUBSET Nat
    BY <1>8
  <2>2. PICK i \in S : \A j \in S : i <= j
    BY <1>9, <2>1, LeastExists
  <2>3. i \in 0..n /\ g[i] # h[i] /\ i # 0
    BY <1>7, <1>8, <2>2
  <2>4. i - 1 \in 0..n /\ i - 1 \notin S
    BY <2>2, <2>3
  <2> QED BY <1>7, <1>8, <2>3, <2>4
<1> QED BY <1>6, <1>8, <1>9
-----------------------------------------------------------------------------
(* A write: the records are remembered, and the store takes them unless    *)
(* memory has fallen back or they collide.                                 *)

LEMMA FallbackFacts ==
    ASSUME NEW snap \in Snapshot
    PROVE  /\ Fallback(snap) \in Snapshot /\ Fallback(snap).done = snap.done
           /\ Fallback(snap).open = snap.open /\ Fallback(snap).verified = snap.verified
           /\ Fallback(snap).fallback
<1>1. PICK b \in BOOLEAN : b = TRUE
  OBVIOUS
<1>2. Fallback(snap) = [snap EXCEPT !.fallback = b]
  BY <1>1 DEF Fallback
<1>3. Fallback(snap) = [done |-> snap.done, open |-> snap.open, verified |-> snap.verified,
                        fallback |-> b]
  BY <1>2 DEF Snapshot
<1>4. Fallback(snap) \in Snapshot
  BY <1>3, SnapshotFacts DEF Snapshot
<1> QED BY <1>1, <1>3, <1>4

LEMMA ManagerFacts ==
    ASSUME NEW m \in Manager
    PROVE  /\ m.pc \in PC /\ m.snap \in Snapshot /\ m.facts \in FactTable
           /\ m.epis \in EpisodeTable /\ m.at \in Nat /\ m.event \in Event \cup {None}
BY DEF Manager

LEMMA DownFacts ==
    /\ Down \in Manager /\ Down.pc = "down" /\ Down.snap = NoSnapshot /\ Down.facts = Empty
    /\ Down.epis = Empty /\ Down.at = 0 /\ Down.event = None
BY EmptyTables, NoSnapshotType DEF Down, Manager, PC

(* The records that a result leads to. *)
Learnt(base, sem) ==
    /\ sem.facts \in FactTable /\ sem.saved \in SUBSET FactId
    /\ DOMAIN base \subseteq DOMAIN sem.facts /\ sem.saved \subseteq DOMAIN sem.facts
    /\ \A i \in DOMAIN sem.facts \ sem.saved : i \in DOMAIN base /\ sem.facts[i] = base[i]
    /\ OneActive(sem.facts) /\ HasActive(sem.facts)
    /\ Linked(base) /\ Unrejected(base)
       => (Linked(sem.facts) /\ Unrejected(sem.facts)) \/ Clash(base, sem)

LEMMA SavedIs ==
    ASSUME NEW sem, facts \in FactTable, Learnt(facts, sem)
    PROVE  Saved(sem.facts, sem.saved) = sem.facts
<1>1. PICK g, ids : g = sem.facts /\ ids = sem.saved
  OBVIOUS
<1>2. DOMAIN facts \cup ids = DOMAIN g
  BY <1>1 DEF Learnt
<1>3. g = [i \in DOMAIN g |-> g[i]]
  BY <1>1, FactTableFacts DEF Learnt
<1>4. \A i \in DOMAIN g : g[i] = IF i \in ids THEN g[i] ELSE facts[i]
  BY <1>1 DEF Learnt
<1> QED BY <1>1, <1>2, <1>3, <1>4 DEF Saved

LEMMA SavedLinked ==
    ASSUME NEW sem, NEW k, facts \in FactTable, Learnt(facts, sem),
           Linked(facts), Unrejected(facts), ~FactCollides(sem.facts, sem.saved, k)
    PROVE  Linked(sem.facts) /\ Unrejected(sem.facts)
BY DEF Learnt, Clash, FactCollides

LEMMA SourcesTyped ==
    ASSUME NEW ids \in SUBSET FactId, NEW k
    PROVE  SourcesOf(ids, k) \subseteq SourceId
BY DEF SourcesOf, SourceId, FactId

LEMMA ActiveWith ==
    ASSUME NEW f, NEW i, NEW row, row.active = TRUE
    PROVE  /\ ActiveEpisodes(f) \subseteq ActiveEpisodes(With(f, i, row))
           /\ i \in ActiveEpisodes(With(f, i, row))
BY DEF ActiveEpisodes, With

LEMMA EpisodeOfType ==
    ASSUME NEW e \in Event
    PROVE  EpisodeOf(e) \in EpisodeId /\ e \in EpisodeOf(e).base
BY Constants DEF EpisodeOf, EpisodeId

Wrote(event, snap, sem, row, written) ==
    /\ mgr' \in Manager
    /\ mgr'.pc = "compress" /\ mgr'.event = event /\ mgr'.at = mgr.at
    /\ mgr'.facts = sem.facts /\ mgr'.epis = With(mgr.epis, EpisodeOf(event), row)
    /\ mgr'.snap = IF written THEN snap ELSE Fallback(snap)
    /\ written => /\ ~snap.fallback /\ ~FactCollides(sem.facts, sem.saved, event)
                  /\ facts' = Saved(sem.facts, sem.saved)
                  /\ epis' = With(epis, EpisodeOf(event), row)
                  /\ srcs' = [x \in DOMAIN srcs \cup SourcesOf(sem.saved, event) |->
                                IF x \in DOMAIN srcs THEN srcs[x] ELSE disk]
    /\ ~written => facts' = facts /\ epis' = epis /\ srcs' = srcs
    /\ budget' \in [crashes : 0..MaxCrashes, faults : 0..MaxFaults]
    /\ failed' = failed

LEMMA FaultSpent ==
    ASSUME budget \in [crashes : 0..MaxCrashes, faults : 0..MaxFaults], NEW fault \in BOOLEAN,
           fault => budget.faults > 0,
           budget' = IF fault THEN [budget EXCEPT !.faults = @ - 1] ELSE budget
    PROVE  budget' \in [crashes : 0..MaxCrashes, faults : 0..MaxFaults]
<1>1. CASE fault
  <2>1. budget.faults - 1 \in 0..MaxFaults
    BY <1>1, Constants
  <2> QED BY <1>1, <2>1
<1>2. CASE ~fault
  BY <1>2
<1> QED BY <1>1, <1>2

LEMMA WriteIs ==
    ASSUME Types, NEW event \in Event, NEW snap \in Snapshot, NEW sem, Learnt(mgr.facts, sem),
           NEW row \in Episode, NEW fault \in BOOLEAN, Write(event, snap, sem, row, fault)
    PROVE  \E written \in BOOLEAN : Wrote(event, snap, sem, row, written)
<1>1. PICK written \in BOOLEAN :
        written = (~snap.fallback /\ ~fault
                   /\ ~(FactCollides(sem.facts, sem.saved, event)
                        \/ EpisodeCollides(EpisodeOf(event), row)))
  OBVIOUS
<1>2. PICK s : s = IF written THEN snap ELSE Fallback(snap)
  OBVIOUS
<1>3. s \in Snapshot
  BY <1>2, FallbackFacts
<1>4. PICK table : table = With(mgr.epis, EpisodeOf(event), row)
  OBVIOUS
<1>5. table \in EpisodeTable
  BY <1>4, WithEpisodeTable, EpisodeOfType, ManagerFacts DEF Types
<1>6. PICK g : g = sem.facts
  OBVIOUS
<1>7. g \in FactTable
  BY <1>6 DEF Learnt
<1>8. mgr' = [mgr EXCEPT !.pc = "compress", !.event = event, !.snap = s, !.facts = g, !.epis = table]
  BY <1>1, <1>2, <1>4, <1>6 DEF Write
<1>9. mgr \in Manager
  BY DEF Types
<1>10. mgr' = [pc |-> "compress", snap |-> s, facts |-> g, epis |-> table, at |-> mgr.at,
               event |-> event]
  BY <1>8, <1>9 DEF Manager
<1>11. mgr' \in Manager
  BY <1>3, <1>5, <1>7, <1>9, <1>10, ManagerFacts DEF Manager, PC
<1>12. /\ mgr'.pc = "compress" /\ mgr'.event = event /\ mgr'.at = mgr.at
       /\ mgr'.facts = g /\ mgr'.epis = table /\ mgr'.snap = s
  BY <1>10
<1>13. budget' \in [crashes : 0..MaxCrashes, faults : 0..MaxFaults]
  BY FaultSpent DEF Types, Write
<1>14. written => /\ ~snap.fallback /\ ~FactCollides(sem.facts, sem.saved, event)
                  /\ facts' = Saved(sem.facts, sem.saved)
                  /\ epis' = With(epis, EpisodeOf(event), row)
                  /\ srcs' = [x \in DOMAIN srcs \cup SourcesOf(sem.saved, event) |->
                                IF x \in DOMAIN srcs THEN srcs[x] ELSE disk]
  BY <1>1 DEF Write
<1>15. ~written => facts' = facts /\ epis' = epis /\ srcs' = srcs
  BY <1>1 DEF Write, store
<1>16. failed' = failed
  BY DEF Write
<1> QED BY <1>2, <1>4, <1>6, <1>11, <1>12, <1>13, <1>14, <1>15, <1>16 DEF Wrote
(* What the caller of a write gives it. *)
Ready(event, snap, sem, row) ==
    /\ event \in Event /\ snap \in Snapshot /\ Learnt(mgr.facts, sem)
    /\ row \in Episode /\ row.active = TRUE
    /\ snap.done = mgr.snap.done /\ snap.fallback = mgr.snap.fallback /\ Names(results, snap)
    /\ snap.open \cup ({snap.verified} \ {None})
         \subseteq mgr.snap.open \cup ({mgr.snap.verified} \ {None}) \cup {event}

LEMMA WroteKeeps ==
    ASSUME IInv, mgr.pc = "loop", NEW event, NEW snap, NEW sem, NEW row,
           Ready(event, snap, sem, row),
           NEW written \in BOOLEAN, Wrote(event, snap, sem, row, written),
           disk' = disk, results' = results, ckpt' = ckpt
    PROVE  Types' /\ Chains' /\ Stored'
<1> USE DEF Ready
<1>0. /\ facts \in FactTable /\ epis \in EpisodeTable /\ mgr \in Manager /\ srcs \in SourceTable
      /\ disk \in [Path -> 0..MaxValue]
  BY DEF IInv, Types
<1>1. PICK i : i = EpisodeOf(event)
  OBVIOUS
<1>2. i \in EpisodeId
  BY <1>1, EpisodeOfType
<1>3. PICK g, ids : g = sem.facts /\ ids = sem.saved
  OBVIOUS
<1>4. /\ g \in FactTable /\ ids \in SUBSET FactId /\ OneActive(g) /\ HasActive(g)
  BY <1>3 DEF Learnt
<1>5. /\ mgr' \in Manager /\ mgr'.pc = "compress" /\ mgr'.event = event /\ mgr'.at = mgr.at
      /\ mgr'.facts = g /\ mgr'.epis = With(mgr.epis, i, row)
      /\ mgr'.snap = IF written THEN snap ELSE Fallback(snap)
      /\ failed' = failed
      /\ budget' \in [crashes : 0..MaxCrashes, faults : 0..MaxFaults]
  BY <1>1, <1>3 DEF Wrote
<1>6. /\ mgr'.snap.done = snap.done /\ mgr'.snap.open = snap.open
      /\ mgr'.snap.verified = snap.verified
  BY <1>5, FallbackFacts
<1>7. ASSUME written
      PROVE  /\ mgr.facts = facts /\ mgr.epis = epis
             /\ facts' = g /\ epis' = With(epis, i, row) /\ srcs' \in SourceTable
             /\ Linked(g) /\ Unrejected(g)
             /\ Covered(epis, mgr.snap.done) /\ Served(epis, mgr.snap)
  <2>1. /\ mgr.facts = facts /\ mgr.epis = epis
        /\ Covered(epis, mgr.snap.done) /\ Served(epis, mgr.snap)
    BY <1>7 DEF Wrote, IInv, Stored
  <2>2. facts' = g
    BY <1>0, <1>3, <1>7, <2>1, SavedIs DEF Wrote
  <2>3. Linked(g) /\ Unrejected(g)
    BY <1>0, <1>3, <1>7, <2>1, SavedLinked DEF Wrote, IInv, Chains
  <2>4. srcs' \in SourceTable
    <3>1. PICK D : D \in SUBSET SourceId /\ srcs \in [D -> [Path -> 0..MaxValue]]
      BY <1>0 DEF SourceTable
    <3>2. PICK E : E = SourcesOf(ids, event)
      OBVIOUS
    <3>3. E \subseteq SourceId
      BY <1>4, <3>2, SourcesTyped
    <3>4. srcs' = [x \in D \cup E |-> IF x \in D THEN srcs[x] ELSE disk]
      BY <1>3, <1>7, <3>1, <3>2 DEF Wrote
    <3>5. srcs' \in [D \cup E -> [Path -> 0..MaxValue]]
      BY <1>0, <3>1, <3>4
    <3> QED BY <3>1, <3>3, <3>5, ZenonT(60) DEF SourceTable
  <2>5. epis' = With(epis, i, row)
    BY <1>1, <1>7 DEF Wrote
  <2> QED BY <2>1, <2>2, <2>3, <2>4, <2>5
<1>8. ~written => facts' = facts /\ epis' = epis /\ srcs' = srcs
  BY DEF Wrote
<1>9. Types'
  <2>1. facts' \in FactTable /\ epis' \in EpisodeTable /\ srcs' \in SourceTable
    BY <1>0, <1>2, <1>4, <1>7, <1>8, WithEpisodeTable
  <2> QED BY <1>5, <2>1 DEF IInv, Types
<1>10. Chains'
  <2>1. OneActive(facts') /\ HasActive(facts') /\ Linked(facts') /\ Unrejected(facts')
    BY <1>4, <1>7, <1>8 DEF IInv, Chains
  <2>2. OneActive(mgr'.facts) /\ HasActive(mgr'.facts)
    BY <1>4, <1>5
  <2> QED BY <2>1, <2>2 DEF Chains
<1>11. ActiveEpisodes(epis) \subseteq ActiveEpisodes(epis')
  BY <1>7, <1>8, ActiveWith
<1>12. Names(results', mgr'.snap) /\ Names(results', ckpt'.snap)
  BY <1>6 DEF Names, IInv, Stored
<1>13. ASSUME ~mgr'.snap.fallback
       PROVE  /\ mgr'.facts = facts' /\ mgr'.epis = epis'
              /\ Covered(epis', mgr'.snap.done) /\ Served(epis', mgr'.snap)
              /\ EpisodeOf(mgr'.event) \in ActiveEpisodes(epis')
  <2>1. written
    BY <1>5, <1>13, FallbackFacts
  <2>2. mgr'.facts = facts' /\ mgr'.epis = epis'
    BY <1>5, <1>7, <2>1
  <2>3. i \in ActiveEpisodes(epis')
    BY <1>7, <2>1, ActiveWith
  <2>4. Covered(epis', mgr'.snap.done)
    BY <1>6, <1>7, <1>11, <2>1 DEF Covered
  <2>5. Served(epis', mgr'.snap)
    <3>1. ASSUME NEW c \in snap.open \cup ({snap.verified} \ {None})
          PROVE  EpisodeOf(c) \in ActiveEpisodes(epis')
      <4>1. CASE c = event
        BY <1>1, <2>3, <4>1
      <4>2. CASE c # event
        BY <1>7, <1>11, <2>1, <4>2 DEF Served
      <4> QED BY <4>1, <4>2
    <3> QED BY <1>6, <3>1 DEF Served
  <2> QED BY <1>1, <1>5, <2>2, <2>3, <2>4, <2>5
<1>14. ~ckpt'.snap.fallback => Covered(epis', ckpt'.snap.done) /\ Served(epis', ckpt'.snap)
  BY <1>11 DEF IInv, Stored, Covered, Served
<1>15. Stored'
  BY <1>12, <1>13, <1>14 DEF Stored
<1> QED BY <1>9, <1>10, <1>15

-----------------------------------------------------------------------------
(* The ingestion of a result. *)

LEMMA ResultFacts ==
    ASSUME Types, NEW k \in 1..Len(results)
    PROVE  results[k] \in Calls /\ k \in Call /\ k \in Event
BY Constants DEF Types, Call, Event

LEMMA EpisodeRowType ==
    ASSUME Types, NEW k \in 1..Len(results)
    PROVE  EpisodeRow(mgr.snap, k) \in Episode /\ EpisodeRow(mgr.snap, k).active = TRUE
<1>1. results[k] \in Calls
  BY ResultFacts
<1>2. results[k].tool # "run_tests" => results[k].path \in Path
  BY <1>1 DEF Calls
<1>3. PICK p : p = IF results[k].tool = "run_tests" THEN Changed ELSE {results[k].path}
  OBVIOUS
<1>4. p \in SUBSET Path
  BY <1>2, <1>3 DEF Changed
<1>5. PICK c : c = RecoveredBy(mgr.snap.open, k)
  OBVIOUS
<1>6. mgr.snap.open \in SUBSET Call
  BY ManagerFacts, SnapshotFacts DEF Types
<1>7. c \in SUBSET Call
  BY <1>5, <1>6 DEF RecoveredBy
<1>8. PICK b \in BOOLEAN : b = TRUE
  OBVIOUS
<1>9. EpisodeRow(mgr.snap, k) = [active |-> b, paths |-> p, recovers |-> c]
  BY <1>3, <1>5, <1>8 DEF EpisodeRow
<1> QED BY <1>4, <1>7, <1>8, <1>9 DEF Episode

(* The result that is ingested is the next one. *)
LEMMA NextIsNew ==
    ASSUME IInv, mgr.pc = "loop", mgr.at + 1 <= Len(results), mgr.at + 1 \notin mgr.snap.done
    PROVE  /\ Knows(mgr.snap, mgr.at) /\ Tells(results, mgr.snap, mgr.at)
           /\ mgr.at \in Nat /\ mgr.at + 1 \in 1..Len(results)
<1>1. mgr.at \in Nat /\ Len(results) \in Nat
  BY ManagerFacts DEF IInv, Types
<1>2. PICK n \in 0..Len(results) :
          /\ Knows(mgr.snap, n) /\ mgr.at <= n /\ Tells(results, mgr.snap, n + Pending)
  BY DEF IInv, Progress
<1>3. Pending = 0
  BY DEF Pending
<1>4. mgr.at + 1 \in Call
  BY <1>1, ResultFacts DEF IInv
<1>5. mgr.at + 1 \notin 1..n
  BY <1>2, <1>4 DEF Knows
<1>6. n = mgr.at
  BY <1>1, <1>2, <1>5
<1> QED BY <1>1, <1>2, <1>3, <1>6

LEMMA LearntFromResult ==
    ASSUME IInv, NEW k \in 1..Len(results)
    PROVE  Learnt(mgr.facts, ResolveAll(mgr.facts, k))
<1>1. results[k] \in Calls /\ k \in Call
  BY ResultFacts DEF IInv
<1>2. mgr.facts \in FactTable /\ OneActive(mgr.facts) /\ HasActive(mgr.facts)
      /\ disk \in [Path -> 0..MaxValue]
  BY ManagerFacts DEF IInv, Types, Chains
<1>3. PICK sem : sem = ResolveAll(mgr.facts, k)
  OBVIOUS
<1>4. PICK used : Resolved(mgr.facts, sem, used)
  BY <1>1, <1>2, <1>3, ResolveAllSound
<1> QED BY <1>3, <1>4 DEF Resolved, Learnt, Acc

LEMMA IngestToolKeeps ==
    ASSUME IInv, NEW fault \in BOOLEAN, IngestTool(fault)
    PROVE  IInv'
<1>1. PICK k : k = mgr.at + 1
  OBVIOUS
<1>2. /\ mgr.pc = "loop" /\ failed = None /\ k <= Len(results) /\ k \notin mgr.snap.done
      /\ UNCHANGED <<disk, results, ckpt>>
  BY <1>1 DEF IngestTool, Running
<1>3. /\ Knows(mgr.snap, mgr.at) /\ Tells(results, mgr.snap, mgr.at)
      /\ mgr.at \in Nat /\ k \in 1..Len(results)
  BY <1>1, <1>2, NextIsNew
<1>4. PICK sem : sem = ResolveAll(mgr.facts, k)
  OBVIOUS
<1>5. Learnt(mgr.facts, sem)
  BY <1>3, <1>4, LearntFromResult
<1>6. mgr.snap \in Snapshot /\ k \in Call /\ k \in Event
  BY <1>3, ResultFacts, ManagerFacts DEF IInv, Types
<1>7. CASE sem.refused
  <2>1. mgr' = Down /\ failed' = "replay" /\ UNCHANGED <<facts, epis, srcs, budget>>
    BY <1>1, <1>4, <1>7 DEF IngestTool, store
  <2>2. Types'
    BY <1>2, <2>1, DownFacts DEF IInv, Types
  <2>3. Chains'
    BY <2>1, DownFacts, EmptyTables DEF IInv, Chains, OneActive, HasActive
  <2>4. Stored'
    BY <1>2, <2>1, DownFacts, NoSnapshotType DEF IInv, Stored, Names
  <2>5. Progress'
    <3>1. mgr'.pc = "down" /\ mgr'.event = None /\ mgr'.at = 0 /\ mgr'.snap = NoSnapshot
      BY <2>1, DownFacts
    <3>2. Pending' = 0
      BY <3>1 DEF Pending
    <3>3. Knows(mgr'.snap, 0) /\ Tells(results', mgr'.snap, 0)
      BY <3>1, NoSnapshotType, HistoryStart DEF Knows
    <3>4. Len(results') \in Nat /\ 0 \in 0..Len(results')
      BY <1>2 DEF IInv, Types
    <3> QED BY <1>2, <3>1, <3>2, <3>3, <3>4 DEF IInv, Progress
  <2> QED BY <2>2, <2>3, <2>4, <2>5 DEF IInv
<1>8. CASE ~sem.refused
  <2>1. PICK row : row = EpisodeRow(mgr.snap, k)
    OBVIOUS
  <2>2. row \in Episode /\ row.active = TRUE
    BY <1>3, <2>1, EpisodeRowType DEF IInv
  <2>3. PICK snap : snap = ApplyReference(mgr.snap, k)
    OBVIOUS
  <2>4. snap = After(results, mgr.snap, k)
    BY <1>6, <2>3, ApplyReferenceIs
  <2>5. /\ snap \in Snapshot /\ snap.done = mgr.snap.done /\ snap.fallback = mgr.snap.fallback
        /\ snap.open = OpenAfter(results, mgr.snap.open, k)
        /\ snap.verified = VerifiedAfter(results, mgr.snap.verified, k)
    BY <1>6, <2>4, AfterType
  <2>6. Write(k, snap, sem, row, fault)
    BY <1>1, <1>4, <1>8, <2>1, <2>3 DEF IngestTool
  <2>7. PICK written \in BOOLEAN : Wrote(k, snap, sem, row, written)
    BY <1>5, <1>6, <2>2, <2>5, <2>6, WriteIs DEF IInv
  <2>8. Names(results, snap)
    <3>1. \A c \in snap.open : Fails(results, c)
      <4>1. ASSUME NEW c \in snap.open PROVE Fails(results, c)
        <5>1. CASE c \in mgr.snap.open
          BY <5>1 DEF IInv, Stored, Names
        <5>2. CASE c \notin mgr.snap.open
          BY <1>3, <2>5, <4>1, <5>2 DEF OpenAfter, Fails
        <5> QED BY <5>1, <5>2
      <4> QED BY <4>1
    <3>2. snap.verified # None => Verifies(results, snap.verified)
      <4>1. CASE results[k].ok /\ results[k].tool = "run_tests"
        BY <1>3, <2>5, <4>1 DEF VerifiedAfter, Verifies
      <4>2. CASE ~(results[k].ok /\ results[k].tool = "run_tests")
        BY <2>5, <4>2 DEF VerifiedAfter, IInv, Stored, Names
      <4> QED BY <4>1, <4>2
    <3> QED BY <3>1, <3>2 DEF Names
  <2>9. snap.open \cup ({snap.verified} \ {None})
          \subseteq mgr.snap.open \cup ({mgr.snap.verified} \ {None}) \cup {k}
    BY <2>5 DEF OpenAfter, VerifiedAfter
  <2>12. Ready(k, snap, sem, row)
    BY <1>5, <1>6, <2>2, <2>5, <2>8, <2>9 DEF Ready
  <2>10. Types' /\ Chains' /\ Stored'
    BY <1>2, <2>7, <2>12, WroteKeeps
  <2>11. Progress'
    <3>1. /\ mgr'.pc = "compress" /\ mgr'.event = k /\ mgr'.at = mgr.at
          /\ mgr'.snap = IF written THEN snap ELSE Fallback(snap)
      BY <2>7 DEF Wrote
    <3>2. /\ mgr'.snap.done = mgr.snap.done /\ mgr'.snap.open = snap.open
          /\ mgr'.snap.verified = snap.verified
      BY <2>5, <3>1, FallbackFacts
    <3>3. Knows(mgr'.snap, mgr.at)
      BY <1>3, <3>2 DEF Knows
    <3>4. Pending' = 1 /\ k # None
      BY <1>6, <3>1, Constants DEF Pending
    <3>5. Tells(results', mgr'.snap, mgr.at + 1)
      BY <1>1, <1>2, <1>3, <1>6, <2>5, <3>2, TellsNext
    <3>6. mgr.at \in 0..Len(results') /\ mgr.at + 1 <= Len(results') /\ mgr.at <= mgr.at
      BY <1>1, <1>2, <1>3
    <3>7. ckpt.start <= mgr.at
      BY <1>2 DEF IInv, Progress
    <3>8. \E n \in 0..Len(results) :
             Knows(ckpt.snap, n) /\ ckpt.start <= n /\ Tells(results, ckpt.snap, n)
      BY DEF IInv, Progress
    <3> QED BY <1>1, <1>2, <1>6, <3>1, <3>3, <3>4, <3>5, <3>6, <3>7, <3>8 DEF Progress
  <2> QED BY <2>10, <2>11 DEF IInv
<1> QED BY <1>7, <1>8

(* The episode of a checkpoint. *)
LEMMA IngestCheckpointKeeps ==
    ASSUME IInv, NEW fault \in BOOLEAN, IngestCheckpoint(fault)
    PROVE  IInv'
<1>1. PICK e : e = Boundary(mgr.at)
  OBVIOUS
<1>2. /\ mgr.pc = "loop" /\ failed = None /\ mgr.at > ckpt.start
      /\ UNCHANGED <<disk, results, ckpt>>
  BY DEF IngestCheckpoint, Running, StepDone
<1>3. /\ mgr.snap \in Snapshot /\ mgr.at \in Nat /\ mgr.at <= Len(results) /\ ckpt.start \in Nat
      /\ Len(results) \in Nat /\ Len(results) <= MaxCalls
  BY ManagerFacts DEF IInv, Types, Checkpoint
<1>4. e \in Event /\ e \notin Call
  <2>1. mgr.at \in 1..MaxCalls
    BY <1>2, <1>3, Constants
  <2> QED BY <1>1, <2>1, Constants DEF Event, Call, Boundary
<1>5. PICK sem : sem = [facts |-> mgr.facts, saved |-> {}]
  OBVIOUS
<1>6. Learnt(mgr.facts, sem)
  BY <1>5, ManagerFacts DEF Learnt, IInv, Types, Chains
<1>7. BoundaryRow \in Episode /\ BoundaryRow.active = TRUE
  <2>1. PICK b \in BOOLEAN : b = TRUE
    OBVIOUS
  <2>2. BoundaryRow = [active |-> b, paths |-> Changed, recovers |-> {}]
    BY <2>1 DEF BoundaryRow
  <2>3. Changed \in SUBSET Path
    BY DEF Changed
  <2> QED BY <2>1, <2>2, <2>3 DEF Episode
<1>8. Write(e, mgr.snap, sem, BoundaryRow, fault)
  BY <1>1, <1>5 DEF IngestCheckpoint
<1>9. PICK written \in BOOLEAN : Wrote(e, mgr.snap, sem, BoundaryRow, written)
  BY <1>3, <1>4, <1>6, <1>7, <1>8, WriteIs DEF IInv
<1>10. Ready(e, mgr.snap, sem, BoundaryRow)
  BY <1>3, <1>4, <1>6, <1>7 DEF Ready, IInv, Stored
<1>11. Types' /\ Chains' /\ Stored'
  BY <1>2, <1>9, <1>10, WroteKeeps
<1>12. Progress'
  <2>1. /\ mgr'.pc = "compress" /\ mgr'.event = e /\ mgr'.at = mgr.at
        /\ mgr'.snap = IF written THEN mgr.snap ELSE Fallback(mgr.snap)
    BY <1>9 DEF Wrote
  <2>2. /\ mgr'.snap.done = mgr.snap.done /\ mgr'.snap.open = mgr.snap.open
        /\ mgr'.snap.verified = mgr.snap.verified
    BY <1>3, <2>1, FallbackFacts
  <2>3. Pending' = 0 /\ Pending = 0
    BY <1>2, <1>4, <2>1 DEF Pending
  <2>4. PICK n \in 0..Len(results) :
            Knows(mgr.snap, n) /\ mgr.at <= n /\ Tells(results, mgr.snap, n + Pending)
    BY DEF IInv, Progress
  <2>5. Knows(mgr'.snap, n) /\ Tells(results', mgr'.snap, n + Pending')
    BY <1>2, <2>2, <2>3, <2>4 DEF Knows, Tells
  <2>6. n + Pending' <= Len(results')
    BY <1>2, <1>3, <2>3, <2>4
  <2>7. /\ ckpt.start <= mgr.at
        /\ \E m \in 0..Len(results) :
             Knows(ckpt.snap, m) /\ ckpt.start <= m /\ Tells(results, ckpt.snap, m)
    BY <1>2 DEF IInv, Progress
  <2> QED BY <1>2, <1>4, <2>1, <2>4, <2>5, <2>6, <2>7 DEF Progress
<1> QED BY <1>11, <1>12 DEF IInv

-----------------------------------------------------------------------------
(* Compression. *)

(* A group: active episodes below the last generation, none of a failure   *)
(* or a verification.                                                      *)
Group(f, g) ==
    /\ g # {} /\ g \subseteq ActiveEpisodes(f)
    /\ \A i \in g : i.gen < MaxGeneration
    /\ \A c \in Call : Fails(results, c) \/ Verifies(results, c) => EpisodeOf(c) \notin g

LEMMA GreatestExists ==
    ASSUME NEW S \in SUBSET Nat, S # {}, NEW n \in Nat, \A i \in S : i <= n
    PROVE  \E i \in S : \A j \in S : j <= i
<1>1. PICK B : B = {m \in Nat : \A i \in S : i <= m}
  OBVIOUS
<1>2. B \in SUBSET Nat /\ B # {}
  BY <1>1
<1>3. PICK m \in B : \A j \in B : m <= j
  BY <1>2, LeastExists
<1>4. m \in Nat /\ \A i \in S : i <= m
  BY <1>1, <1>3
<1>5. CASE m \in S
  BY <1>4, <1>5
<1>6. CASE m \notin S
  <2>1. PICK i \in S : TRUE
    OBVIOUS
  <2>2. m # 0
    BY <1>4, <1>6, <2>1
  <2>3. m - 1 \in Nat /\ \A j \in S : j <= m - 1
    BY <1>4, <1>6, <2>2
  <2>4. m - 1 \in B
    BY <1>1, <2>3
  <2> QED BY <1>3, <1>4, <2>4
<1> QED BY <1>5, <1>6

LEMMA SummaryType ==
    ASSUME NEW f \in EpisodeTable, NEW g, Group(f, g)
    PROVE  /\ SummaryOf(g) \in EpisodeId
           /\ \A i \in g : i.base \subseteq SummaryOf(g).base
<1>1. g \subseteq EpisodeId
  BY EpisodeTableFacts DEF Group, ActiveEpisodes
<1>2. PICK G : G = {i.gen : i \in g}
  OBVIOUS
<1>3. G \in SUBSET Nat /\ G # {} /\ \A n \in G : n < MaxGeneration
  BY <1>1, <1>2, Constants DEF Group, EpisodeId
<1>4. PICK top : top = CHOOSE n \in G : \A i \in g : i.gen <= n
  OBVIOUS
<1>5. \E n \in G : \A i \in G : i <= n
  <2>1. MaxGeneration \in Nat /\ \A n \in G : n <= MaxGeneration
    BY <1>3, Constants
  <2> QED BY <1>3, <2>1, GreatestExists
<1>6. \E n \in G : \A i \in g : i.gen <= n
  BY <1>2, <1>5
<1>7. top \in G
  BY <1>4, <1>6
<1>8. 1 + top \in 0..MaxGeneration
  BY <1>3, <1>7, Constants
<1>9. PICK b : b = UNION {i.base : i \in g}
  OBVIOUS
<1>10. b \in SUBSET Event /\ \A i \in g : i.base \subseteq b
  BY <1>1, <1>9 DEF EpisodeId
<1>11. SummaryOf(g) = [base |-> b, gen |-> 1 + top]
  BY <1>2, <1>4, <1>9 DEF SummaryOf
<1> QED BY <1>8, <1>10, <1>11 DEF EpisodeId

LEMMA BucketsFacts ==
    ASSUME NEW key, NEW g \in Buckets(key)
    PROVE  g # {} /\ g \subseteq DOMAIN key
<1>1. PICK i \in DOMAIN key : g = {j \in DOMAIN key : key[j] = key[i]}
  BY DEF Buckets
<1> QED BY <1>1

(* The episodes that may be compressed. *)
Plain(f) == {i \in ActiveEpisodes(f) : i.gen = 0}
Eligible(f) == Plain(f) \ Protected(f, Plain(f))

LEMMA InitialGroupsWithin ==
    ASSUME NEW f, NEW g \in InitialGroups(f)
    PROVE  g # {} /\ g \subseteq Eligible(f)
<1>1. PICK key : key = [i \in Eligible(f) |->
                     IF EventOf(i) \in Call
                     THEN <<ToolOf(i), f[i].paths, Outcome(f, i), results[EventOf(i)].value>>
                     ELSE <<i>>]
  OBVIOUS
<1>2. PICK twins : twins = Buckets(key)
  OBVIOUS
<1>3. PICK rest : rest = [i \in Eligible(f) \ UNION twins |-> <<ToolOf(i), f[i].paths>>]
  OBVIOUS
<1>4. InitialGroups(f) = twins \cup Buckets(rest)
  BY <1>1, <1>2, <1>3 DEF InitialGroups, Eligible, Plain
<1>5. DOMAIN key \subseteq Eligible(f) /\ DOMAIN rest \subseteq Eligible(f)
  BY <1>1, <1>3
<1>6. g \in Buckets(key) \/ g \in Buckets(rest)
  BY <1>2, <1>4
<1>7. CASE g \in Buckets(key)
  BY <1>5, <1>7, BucketsFacts
<1>8. CASE g \in Buckets(rest)
  BY <1>5, <1>8, BucketsFacts
<1> QED BY <1>6, <1>7, <1>8

LEMMA ProtectedEpisode ==
    ASSUME NEW f, NEW c \in Call, Fails(results, c) \/ Verifies(results, c)
    PROVE  EpisodeOf(c) \notin Eligible(f)
<1>1. EventOf(EpisodeOf(c)) = c
  BY DEF EventOf, EpisodeOf
<1>2. Outcome(f, EpisodeOf(c)) \in {"failed", "verified"}
  BY <1>1 DEF Outcome, Fails, Verifies
<1> QED BY <1>2 DEF Eligible, Protected

LEMMA GroupsSound ==
    ASSUME Types, NEW g \in Groups
    PROVE  ~mgr.snap.fallback /\ Group(mgr.epis, g)
<1>1. ~mgr.snap.fallback
  BY DEF Groups
<1>2. PICK f : f = mgr.epis
  OBVIOUS
<1>3. f \in EpisodeTable
  BY <1>2, ManagerFacts DEF Types
<1>4. CASE g \in InitialGroups(f)
  <2>1. g # {} /\ g \subseteq Eligible(f)
    BY <1>4, InitialGroupsWithin
  <2>2. g \subseteq ActiveEpisodes(f) /\ \A i \in g : i.gen < MaxGeneration
    BY <2>1, Constants DEF Eligible, Plain
  <2>3. \A c \in Call : Fails(results, c) \/ Verifies(results, c) => EpisodeOf(c) \notin g
    BY <2>1, ProtectedEpisode
  <2> QED BY <1>1, <1>2, <2>1, <2>2, <2>3 DEF Group
<1>5. CASE /\ \A i \in {j \in ActiveEpisodes(f) : j.gen > 0} : i.gen < MaxGeneration
           /\ g \in GenerationGroups(f)
  <2>1. /\ g = {j \in ActiveEpisodes(f) : j.gen > 0} /\ Cardinality(g) >= 2
    BY <1>5 DEF GenerationGroups
  <2>2. g # {}
    BY <2>1, FS_EmptySet
  <2>3. \A c : EpisodeOf(c) \notin g
    BY <2>1 DEF EpisodeOf
  <2> QED BY <1>1, <1>2, <1>5, <2>1, <2>2, <2>3 DEF Group
<1> QED BY <1>2, <1>4, <1>5 DEF Groups

LEMMA CompressedFacts ==
    ASSUME NEW f \in EpisodeTable, NEW groups, \A g \in groups : Group(f, g), NEW new,
           new = Compressed(f, groups)
    PROVE  /\ new \in EpisodeTable
           /\ \A i \in ActiveEpisodes(f) \ UNION groups : i \in ActiveEpisodes(new)
           /\ \A g \in groups : SummaryOf(g) \in ActiveEpisodes(new)
           /\ \A e : (\E i \in ActiveEpisodes(f) : e \in i.base)
                     => \E i \in ActiveEpisodes(new) : e \in i.base
<1>1. PICK D : D \in SUBSET EpisodeId /\ D = DOMAIN f /\ f \in [D -> Episode]
  BY DEF EpisodeTable
<1>2. PICK E : E = {SummaryOf(g) : g \in groups}
  OBVIOUS
<1>3. E \subseteq EpisodeId
  BY <1>2, SummaryType
<1>4. \A g \in groups : g \subseteq D
  BY <1>1 DEF Group, ActiveEpisodes
<1>5. \A i : i \in E <=> \E g \in groups : i = SummaryOf(g)
  BY <1>2
<1>6. /\ DOMAIN new = D \cup E
      /\ \A i \in E : new[i] = [active |-> TRUE,
                                paths |-> UNION {f[j].paths : j \in CHOOSE g \in groups : i = SummaryOf(g)},
                                recovers |-> {}]
      /\ \A i \in D \ E : new[i] = IF \E g \in groups : i \in g THEN [f[i] EXCEPT !.active = FALSE]
                                   ELSE f[i]
      /\ new = [i \in D \cup E |-> new[i]]
  BY <1>1, <1>2, <1>5 DEF Compressed
<1>7. ASSUME NEW i \in E PROVE new[i] \in Episode /\ new[i].active = TRUE
  <2>1. PICK h : h = CHOOSE g \in groups : i = SummaryOf(g)
    OBVIOUS
  <2>2. h \in groups
    BY <1>5, <2>1
  <2>3. PICK p : p = UNION {f[j].paths : j \in h}
    OBVIOUS
  <2>4. p \in SUBSET Path
    <3>1. ASSUME NEW x \in p PROVE x \in Path
      <4>1. PICK j \in h : x \in f[j].paths
        BY <2>3, <3>1
      <4>2. f[j] \in Episode
        BY <1>1, <1>4, <2>2, <4>1
      <4> QED BY <4>1, <4>2 DEF Episode
    <3> QED BY <3>1
  <2>5. PICK b \in BOOLEAN : b = TRUE
    OBVIOUS
  <2>6. new[i] = [active |-> b, paths |-> p, recovers |-> {}]
    BY <1>6, <2>1, <2>3, <2>5
  <2> QED BY <2>4, <2>5, <2>6 DEF Episode
<1>8. ASSUME NEW i \in D \ E PROVE new[i] \in Episode
  <2>1. f[i] \in Episode
    BY <1>1
  <2>2. PICK b \in BOOLEAN : b = FALSE
    OBVIOUS
  <2>3. [f[i] EXCEPT !.active = b] \in Episode
    BY <2>1 DEF Episode
  <2> QED BY <1>6, <2>1, <2>2, <2>3
<1>9. new \in EpisodeTable
  <2>1. new \in [D \cup E -> Episode]
    BY <1>6, <1>7, <1>8
  <2> QED BY <1>1, <1>3, <2>1 DEF EpisodeTable
<1>10. \A i \in E : i \in ActiveEpisodes(new)
  BY <1>6, <1>7 DEF ActiveEpisodes
<1>11. \A i \in ActiveEpisodes(f) \ UNION groups : i \in ActiveEpisodes(new)
  <2>1. ASSUME NEW i \in ActiveEpisodes(f) \ UNION groups PROVE i \in ActiveEpisodes(new)
    <3>1. CASE i \in E
      BY <1>10, <3>1
    <3>2. CASE i \notin E
      <4>1. i \in D /\ f[i].active
        BY <1>1 DEF ActiveEpisodes
      <4>2. new[i] = f[i]
        BY <1>6, <3>2, <4>1
      <4> QED BY <1>6, <4>1, <4>2 DEF ActiveEpisodes
    <3> QED BY <3>1, <3>2
  <2> QED BY <2>1
<1>12. ASSUME NEW e, NEW i \in ActiveEpisodes(f), e \in i.base
       PROVE  \E j \in ActiveEpisodes(new) : e \in j.base
  <2>1. CASE i \in UNION groups
    <3>1. PICK g \in groups : i \in g
      BY <2>1
    <3>2. e \in SummaryOf(g).base
      BY <1>12, <3>1, SummaryType
    <3>3. SummaryOf(g) \in ActiveEpisodes(new)
      BY <1>2, <1>10
    <3> QED BY <3>2, <3>3
  <2>2. CASE i \notin UNION groups
    BY <1>11, <1>12, <2>2
  <2> QED BY <2>1, <2>2
<1> QED BY <1>2, <1>9, <1>10, <1>11, <1>12

(* The batch leaves the store with what the manager remembers. *)
LEMMA CompressedStoreIs ==
    ASSUME NEW groups, epis \in EpisodeTable, mgr.epis = epis, \A g \in groups : Group(epis, g)
    PROVE  CompressedStore(groups) = Compressed(mgr.epis, groups)
<1>1. PICK new : new = Compressed(epis, groups)
  OBVIOUS
<1>2. PICK E, U : E = {SummaryOf(g) : g \in groups} /\ U = UNION groups
  OBVIOUS
<1>3. U \subseteq DOMAIN epis
  BY <1>2 DEF Group, ActiveEpisodes
<1>4. \A i : i \in E <=> \E g \in groups : i = SummaryOf(g)
  BY <1>2
<1>5. /\ new = [i \in DOMAIN epis \cup E |-> new[i]]
      /\ \A i \in DOMAIN epis : i \notin E /\ i \notin U => new[i] = epis[i]
  BY <1>1, <1>2, <1>4 DEF Compressed
<1>6. CompressedStore(groups) =
        [i \in DOMAIN epis \cup (U \cup E) |->
           IF i \in U \cup E THEN new[i] ELSE epis[i]]
  BY <1>1, <1>2 DEF CompressedStore
<1>7. DOMAIN epis \cup (U \cup E) = DOMAIN epis \cup E
  BY <1>3
<1>8. \A i \in DOMAIN epis \cup E :
        new[i] = IF i \in U \cup E THEN new[i] ELSE epis[i]
  BY <1>5
<1>9. CompressedStore(groups) =
        [i \in DOMAIN epis \cup E |-> IF i \in U \cup E THEN new[i] ELSE epis[i]]
  BY <1>6, <1>7
<1> QED BY <1>1, <1>5, <1>8, <1>9

LEMMA FinishedFacts ==
    ASSUME Types, mgr.event \in Event
    PROVE  /\ Finished \in Manager /\ Finished.pc = "loop" /\ Finished.event = None
           /\ Finished.at = IF mgr.event \in Call THEN mgr.event ELSE mgr.at
           /\ Finished.facts = mgr.facts /\ Finished.epis = mgr.epis
           /\ Finished.snap.done = mgr.snap.done \cup {mgr.event}
           /\ Finished.snap.open = mgr.snap.open /\ Finished.snap.verified = mgr.snap.verified
           /\ Finished.snap.fallback = mgr.snap.fallback
<1>1. mgr \in Manager /\ mgr.snap \in Snapshot
  BY ManagerFacts DEF Types
<1>2. PICK s : s = [mgr.snap EXCEPT !.done = @ \cup {mgr.event}]
  OBVIOUS
<1>3. s = [done |-> mgr.snap.done \cup {mgr.event}, open |-> mgr.snap.open,
           verified |-> mgr.snap.verified, fallback |-> mgr.snap.fallback]
  BY <1>1, <1>2 DEF Snapshot
<1>4. s \in Snapshot
  BY <1>1, <1>3, SnapshotFacts DEF Snapshot
<1>5. PICK a : a = IF mgr.event \in Call THEN mgr.event ELSE mgr.at
  OBVIOUS
<1>6. a \in Nat
  BY <1>1, <1>5, ManagerFacts, Constants DEF Call
<1>7. Finished = [mgr EXCEPT !.pc = "loop", !.event = None, !.snap = s, !.at = a]
  BY <1>1, <1>2, <1>5 DEF Finished, Manager
<1>8. Finished = [pc |-> "loop", snap |-> s, facts |-> mgr.facts, epis |-> mgr.epis, at |-> a,
                  event |-> None]
  BY <1>1, <1>7 DEF Manager
<1>9. Finished \in Manager
  BY <1>1, <1>4, <1>6, <1>8, ManagerFacts DEF Manager, PC
<1> QED BY <1>3, <1>5, <1>8, <1>9

LEMMA MaybeCompressKeeps ==
    ASSUME IInv, NEW accepted \in SUBSET Groups, NEW fault \in BOOLEAN,
           MaybeCompress(accepted, fault)
    PROVE  IInv'
<1>0. /\ mgr.pc = "compress" /\ failed = None /\ failed' = failed
      /\ UNCHANGED <<disk, results, facts, srcs, ckpt>>
  BY DEF MaybeCompress
<1>1. mgr.event \in Event /\ Types
  BY <1>0 DEF IInv, Progress
<1>2. PICK m : m = Finished
  OBVIOUS
<1>3. /\ m \in Manager /\ m.pc = "loop" /\ m.event = None
      /\ m.at = IF mgr.event \in Call THEN mgr.event ELSE mgr.at
      /\ m.facts = mgr.facts /\ m.epis = mgr.epis
      /\ m.snap.done = mgr.snap.done \cup {mgr.event}
      /\ m.snap.open = mgr.snap.open /\ m.snap.verified = mgr.snap.verified
      /\ m.snap.fallback = mgr.snap.fallback
  BY <1>1, <1>2, FinishedFacts
<1>4. \A g \in accepted : ~mgr.snap.fallback /\ Group(mgr.epis, g)
  BY <1>1, GroupsSound
<1>5. epis \in EpisodeTable /\ facts \in FactTable /\ srcs \in SourceTable
  BY <1>1 DEF Types
<1>6. (* the episodes that the store serves stay covered and served *)
      /\ mgr' \in Manager /\ epis' \in EpisodeTable
      /\ mgr'.pc = "loop" /\ mgr'.event = None /\ mgr'.at = m.at /\ mgr'.facts = mgr.facts
      /\ mgr'.snap.done = m.snap.done /\ mgr'.snap.open = m.snap.open
      /\ mgr'.snap.verified = m.snap.verified
      /\ ~mgr'.snap.fallback => ~mgr.snap.fallback /\ mgr'.epis = epis'
      /\ \A e : (\E i \in ActiveEpisodes(epis) : e \in i.base)
                => \E i \in ActiveEpisodes(epis') : e \in i.base
      /\ \A c \in Call : /\ Fails(results, c) \/ Verifies(results, c)
                         /\ EpisodeOf(c) \in ActiveEpisodes(epis)
                         => EpisodeOf(c) \in ActiveEpisodes(epis')
  <2>1. CASE fault
    <3>1. mgr' = [m EXCEPT !.snap = Fallback(@)] /\ epis' = epis
      BY <1>2, <2>1 DEF MaybeCompress
    <3>2. PICK s : s = Fallback(m.snap)
      OBVIOUS
    <3>3. /\ s \in Snapshot /\ s.done = m.snap.done /\ s.open = m.snap.open
          /\ s.verified = m.snap.verified /\ s.fallback
      BY <1>3, <3>2, ManagerFacts, FallbackFacts
    <3>4. mgr' = [m EXCEPT !.snap = s]
      BY <3>1, <3>2
    <3>5. mgr' = [pc |-> m.pc, snap |-> s, facts |-> m.facts, epis |-> m.epis, at |-> m.at,
                  event |-> m.event]
      BY <1>3, <3>4 DEF Manager
    <3>6. mgr' \in Manager
      BY <1>3, <3>3, <3>5, ManagerFacts DEF Manager
    <3>7. /\ mgr'.pc = m.pc /\ mgr'.snap = s /\ mgr'.facts = m.facts /\ mgr'.at = m.at
          /\ mgr'.event = m.event
      BY <3>5
    <3> QED BY <1>3, <1>5, <3>1, <3>3, <3>6, <3>7
  <2>2. CASE ~fault /\ accepted = {}
    <3>1. mgr' = m /\ epis' = epis
      BY <1>2, <2>2 DEF MaybeCompress
    <3>2. ~mgr.snap.fallback => mgr.epis = epis
      BY <1>0 DEF IInv, Stored
    <3>3. mgr'.snap.fallback = mgr.snap.fallback /\ mgr'.epis = mgr.epis
      BY <1>3, <3>1
    <3> QED BY <1>3, <1>5, <3>1, <3>2, <3>3
  <2>3. CASE ~fault /\ accepted # {}
    <3>1. ~mgr.snap.fallback
      BY <1>4, <2>3
    <3>2. mgr.epis = epis
      BY <1>0, <3>1 DEF IInv, Stored
    <3>3. PICK new : new = Compressed(epis, accepted)
      OBVIOUS
    <3>4. \A g \in accepted : Group(epis, g)
      BY <1>4, <3>2
    <3>5. mgr' = [m EXCEPT !.epis = new] /\ epis' = new
      BY <1>2, <1>5, <2>3, <3>2, <3>3, <3>4, CompressedStoreIs DEF MaybeCompress
    <3>6. /\ new \in EpisodeTable
          /\ \A i \in ActiveEpisodes(epis) \ UNION accepted : i \in ActiveEpisodes(new)
          /\ \A e : (\E i \in ActiveEpisodes(epis) : e \in i.base)
                    => \E i \in ActiveEpisodes(new) : e \in i.base
      BY <1>5, <3>3, <3>4, CompressedFacts
    <3>7. mgr' = [pc |-> m.pc, snap |-> m.snap, facts |-> m.facts, epis |-> new, at |-> m.at,
                  event |-> m.event]
      BY <1>3, <3>5 DEF Manager
    <3>8. mgr' \in Manager
      BY <1>3, <3>6, <3>7, ManagerFacts DEF Manager
    <3>9. /\ mgr'.pc = m.pc /\ mgr'.snap = m.snap /\ mgr'.facts = m.facts /\ mgr'.at = m.at
          /\ mgr'.event = m.event /\ mgr'.epis = new
      BY <3>7
    <3>10. ASSUME NEW c \in Call, Fails(results, c) \/ Verifies(results, c),
                  EpisodeOf(c) \in ActiveEpisodes(epis)
           PROVE  EpisodeOf(c) \in ActiveEpisodes(new)
      <4>1. EpisodeOf(c) \notin UNION accepted
        BY <3>4, <3>10 DEF Group
      <4> QED BY <3>6, <3>10, <4>1
    <3> QED BY <1>3, <3>1, <3>5, <3>6, <3>8, <3>9, <3>10
  <2> QED BY <2>1, <2>2, <2>3
<1>7. budget' \in [crashes : 0..MaxCrashes, faults : 0..MaxFaults]
  BY <1>1, FaultSpent DEF MaybeCompress, Types
<1>8. PICK n \in 0..Len(results) :
        /\ Knows(mgr.snap, n) /\ mgr.at <= n /\ n + Pending <= Len(results)
        /\ Tells(results, mgr.snap, n + Pending)
        /\ mgr.event \in Call => mgr.event = n + 1
  BY <1>0 DEF IInv, Progress
<1>9. PICK p \in {0, 1} : p = Pending
  BY DEF Pending
<1>10. p = IF mgr.event \in Call THEN 1 ELSE 0
  BY <1>0, <1>9 DEF Pending
<1>11. /\ Len(results) \in Nat /\ Len(results) <= MaxCalls /\ mgr.at \in Nat
       /\ ckpt.start \in Nat /\ ckpt.start <= mgr.at /\ mgr.at <= Len(results)
  BY <1>0, ManagerFacts DEF IInv, Types, Progress, Checkpoint
<1>12. mgr'.at \in Nat /\ mgr'.at <= n + p /\ mgr'.at >= mgr.at /\ n + p \in 0..Len(results)
  BY <1>3, <1>6, <1>8, <1>9, <1>10, <1>11
<1>13. Types'
  BY <1>0, <1>6, <1>7, <1>11, <1>12, <1>1 DEF Types
<1>14. Chains'
  BY <1>0, <1>6 DEF IInv, Chains
<1>15. Progress'
  <2>1. Knows(mgr'.snap, n + p)
    <3>1. mgr'.snap.done \cap Call = (mgr.snap.done \cap Call) \cup ({mgr.event} \cap Call)
      BY <1>3, <1>6
    <3>2. mgr.snap.done \cap Call = 1..n
      BY <1>8 DEF Knows
    <3>3. {mgr.event} \cap Call = IF p = 1 THEN {n + 1} ELSE {}
      BY <1>8, <1>10
    <3>4. mgr'.snap.done \cap Call = 1..(n + p)
      BY <1>9, <3>1, <3>2, <3>3
    <3> QED BY <3>4 DEF Knows
  <2>2. Pending' = 0
    BY <1>6 DEF Pending
  <2>3. Tells(results', mgr'.snap, n + p)
    BY <1>0, <1>3, <1>6, <1>8, <1>9 DEF Tells
  <2>4. PICK k : k = n + p
    OBVIOUS
  <2>5. /\ k \in 0..Len(results') /\ Knows(mgr'.snap, k) /\ mgr'.at <= k
        /\ k + Pending' <= Len(results') /\ Tells(results', mgr'.snap, k + Pending')
    BY <1>0, <1>11, <1>12, <2>1, <2>2, <2>3, <2>4
  <2>6. ckpt'.start <= mgr'.at
    BY <1>0, <1>11, <1>12
  <2>7. \E j \in 0..Len(results) :
             Knows(ckpt.snap, j) /\ ckpt.start <= j /\ Tells(results, ckpt.snap, j)
    BY DEF IInv, Progress
  <2> QED BY <1>0, <1>6, <2>5, <2>6, <2>7 DEF Progress
<1>16. Stored'
  <2>1. Names(results', mgr'.snap) /\ Names(results', ckpt'.snap)
    BY <1>0, <1>3, <1>6 DEF IInv, Stored, Names
  <2>2. \A done : Covered(epis, done) => Covered(epis', done)
    BY <1>6 DEF Covered
  <2>3. ASSUME NEW snap \in Snapshot, Names(results, snap), Served(epis, snap)
        PROVE  Served(epis', snap)
    <3>1. ASSUME NEW c \in snap.open \cup ({snap.verified} \ {None})
          PROVE  EpisodeOf(c) \in ActiveEpisodes(epis')
      <4>1. c \in Call /\ (Fails(results, c) \/ Verifies(results, c))
        BY <2>3, <3>1, SnapshotFacts DEF Names
      <4>2. EpisodeOf(c) \in ActiveEpisodes(epis)
        BY <2>3, <3>1 DEF Served
      <4> QED BY <1>6, <4>1, <4>2
    <3> QED BY <3>1 DEF Served
  <2>4. ~ckpt'.snap.fallback => Covered(epis', ckpt'.snap.done) /\ Served(epis', ckpt'.snap)
    <3>1. ckpt.snap \in Snapshot
      BY <1>1 DEF Types, Checkpoint
    <3> QED BY <1>0, <2>2, <2>3, <3>1 DEF IInv, Stored
  <2>5. ASSUME ~mgr'.snap.fallback
        PROVE  /\ mgr'.facts = facts' /\ mgr'.epis = epis'
               /\ Covered(epis', mgr'.snap.done) /\ Served(epis', mgr'.snap)
    <3>1. ~mgr.snap.fallback /\ mgr'.epis = epis'
      BY <1>6, <2>5
    <3>2. /\ mgr.facts = facts /\ Covered(epis, mgr.snap.done) /\ Served(epis, mgr.snap)
          /\ EpisodeOf(mgr.event) \in ActiveEpisodes(epis) /\ Names(results, mgr.snap)
      BY <1>0, <3>1 DEF IInv, Stored
    <3>3. Covered(epis, m.snap.done)
      BY <1>1, <1>3, <3>2, EpisodeOfType DEF Covered
    <3>4. Covered(epis', mgr'.snap.done)
      BY <1>6, <2>2, <3>3
    <3>5. mgr.snap \in Snapshot
      BY <1>1, ManagerFacts DEF Types
    <3>6. Served(epis', mgr.snap)
      BY <2>3, <3>2, <3>5
    <3>7. Served(epis', mgr'.snap)
      BY <1>3, <1>6, <3>6 DEF Served
    <3> QED BY <1>0, <1>6, <3>1, <3>2, <3>4, <3>7
  <2> QED BY <1>6, <2>1, <2>4, <2>5 DEF Stored
<1> QED BY <1>13, <1>14, <1>15, <1>16 DEF IInv

-----------------------------------------------------------------------------
(* The other actions. *)

(* What is known of the calls stays true when a result is appended. *)
LEMMA ExecuteKeeps ==
    ASSUME IInv, NEW r \in Calls, NEW blocked \in BOOLEAN, Execute(r, blocked)
    PROVE  IInv'
<1>1. /\ results' = Append(results, r) /\ Len(results) < MaxCalls /\ mgr.pc = "loop"
      /\ disk' = IF r.tool = "write_file" /\ r.ok THEN [disk EXCEPT ![r.path] = r.value] ELSE disk
      /\ UNCHANGED <<facts, epis, srcs, mgr, ckpt, failed, budget>>
  BY DEF Execute, Running, store
<1>2. /\ results \in Seq(Calls) /\ Len(results) \in Nat /\ Len(results') = Len(results) + 1
      /\ results' \in Seq(Calls) /\ \A k \in 1..Len(results) : results'[k] = results[k]
  BY <1>1 DEF IInv, Types
<1>3. disk' \in [Path -> 0..MaxValue]
  <2>1. r.tool = "write_file" => r.path \in Path /\ r.value \in 0..MaxValue
    <3>1. CASE r \in [tool : {"write_file"}, path : Path, value : 1..MaxValue, ok : BOOLEAN]
      BY <3>1, Constants
    <3>2. CASE r.tool # "write_file"
      BY <3>2
    <3> QED BY <3>1, <3>2 DEF Calls
  <2> QED BY <1>1, <2>1 DEF IInv, Types
<1>4. /\ mgr.at \in Nat /\ mgr.at <= Len(results') /\ ckpt.start \in Nat
      /\ ckpt.start <= Len(results') /\ Len(results') <= MaxCalls
  BY <1>1, <1>2, ManagerFacts, Constants, SMTT(40) DEF IInv, Types, Checkpoint
<1>5. Types'
  BY <1>1, <1>2, <1>3, <1>4 DEF IInv, Types
<1>6. Chains'
  BY <1>1 DEF IInv, Chains
<1>7. \A n \in 0..Len(results) : \A snap :
        Tells(results, snap, n) => Tells(results', snap, n)
  <2>1. ASSUME NEW n \in 0..Len(results), NEW snap, Tells(results, snap, n)
        PROVE  Tells(results', snap, n)
    <3>1. n \in Nat /\ \A k \in 1..n : results'[k] = results[k]
      BY <1>2
    <3> QED BY <2>1, <3>1, TellsGrows
  <2> QED BY <2>1
<1>8. Progress'
  <2>1. PICK n \in 0..Len(results) :
            Knows(mgr.snap, n) /\ mgr.at <= n /\ Tells(results, mgr.snap, n + Pending)
    BY DEF IInv, Progress
  <2>2. Pending = 0 /\ Pending' = 0
    BY <1>1 DEF Pending
  <2>3. Tells(results', mgr.snap, n)
    BY <1>7, <2>1, <2>2
  <2>4. PICK c \in 0..Len(results) :
            Knows(ckpt.snap, c) /\ ckpt.start <= c /\ Tells(results, ckpt.snap, c)
    BY DEF IInv, Progress
  <2>5. Tells(results', ckpt.snap, c)
    BY <1>7, <2>4
  <2>6. n \in 0..Len(results') /\ n + Pending' <= Len(results') /\ c \in 0..Len(results')
    BY <1>2, <2>2
  <2>7. ckpt.start <= mgr.at
    BY <1>1 DEF IInv, Progress
  <2>8. n + Pending' = n
    BY <2>2
  <2> QED BY <1>1, <2>1, <2>3, <2>4, <2>5, <2>6, <2>7, <2>8 DEF Progress
<1>9. \A snap : Names(results, snap) => Names(results', snap)
  BY <1>2 DEF Names, Fails, Verifies
<1>10. Stored'
  BY <1>1, <1>9 DEF IInv, Stored
<1> QED BY <1>5, <1>6, <1>8, <1>10 DEF IInv

LEMMA DuplicateKeeps ==
    ASSUME IInv, Duplicate
    PROVE  IInv'
<1>1. /\ mgr.pc = "loop" /\ mgr.at < Len(results) /\ mgr.at + 1 \in mgr.snap.done
      /\ mgr' = [mgr EXCEPT !.at = @ + 1]
      /\ UNCHANGED <<disk, results, facts, epis, srcs, ckpt, failed, budget>>
  BY DEF Duplicate, Running, store
<1>2. mgr \in Manager /\ mgr.at \in Nat /\ Len(results) \in Nat
  BY ManagerFacts DEF IInv, Types
<1>3. mgr' = [pc |-> mgr.pc, snap |-> mgr.snap, facts |-> mgr.facts, epis |-> mgr.epis,
              at |-> mgr.at + 1, event |-> mgr.event]
  BY <1>1, <1>2 DEF Manager
<1>4. /\ mgr'.pc = mgr.pc /\ mgr'.snap = mgr.snap /\ mgr'.facts = mgr.facts
      /\ mgr'.epis = mgr.epis /\ mgr'.at = mgr.at + 1 /\ mgr'.event = mgr.event
  BY <1>3
<1>5. mgr' \in Manager
  BY <1>2, <1>3, ManagerFacts DEF Manager
<1>6. Types'
  BY <1>1, <1>2, <1>4, <1>5 DEF IInv, Types
<1>7. Chains'
  BY <1>1, <1>4 DEF IInv, Chains
<1>8. Stored'
  BY <1>1, <1>4 DEF IInv, Stored
<1>9. Progress'
  <2>1. PICK n \in 0..Len(results) :
            /\ Knows(mgr.snap, n) /\ mgr.at <= n /\ n + Pending <= Len(results)
            /\ Tells(results, mgr.snap, n + Pending)
    BY DEF IInv, Progress
  <2>2. mgr.at + 1 \in Call
    BY <1>1, <1>2, ResultFacts DEF IInv
  <2>3. mgr.at + 1 <= n
    BY <1>1, <2>1, <2>2 DEF Knows
  <2>4. Pending' = Pending
    BY <1>4 DEF Pending
  <2>5. /\ ckpt.start <= mgr.at /\ ckpt.start \in Nat
        /\ \E c \in 0..Len(results) :
            Knows(ckpt.snap, c) /\ ckpt.start <= c /\ Tells(results, ckpt.snap, c)
    BY <1>1 DEF IInv, Progress, Types, Checkpoint
  <2>6. ckpt.start <= mgr.at + 1
    BY <1>2, <2>5
  <2> QED BY <1>1, <1>4, <2>1, <2>3, <2>4, <2>5, <2>6 DEF Progress
<1> QED BY <1>6, <1>7, <1>8, <1>9 DEF IInv

LEMMA RetrieveFailsKeeps ==
    ASSUME IInv, RetrieveFails
    PROVE  IInv'
<1>1. /\ mgr.pc = "loop" /\ mgr' = [mgr EXCEPT !.snap = Fallback(@)]
      /\ budget.faults > 0 /\ budget' = [budget EXCEPT !.faults = @ - 1]
      /\ UNCHANGED <<disk, results, facts, epis, srcs, ckpt, failed>>
  BY DEF RetrieveFails, Running, store
<1>2. mgr \in Manager /\ mgr.snap \in Snapshot
  BY ManagerFacts DEF IInv, Types
<1>3. PICK s : s = Fallback(mgr.snap)
  OBVIOUS
<1>4. /\ s \in Snapshot /\ s.done = mgr.snap.done /\ s.open = mgr.snap.open
      /\ s.verified = mgr.snap.verified /\ s.fallback
  BY <1>2, <1>3, FallbackFacts
<1>5. mgr' = [mgr EXCEPT !.snap = s]
  BY <1>1, <1>3
<1>6. mgr' = [pc |-> mgr.pc, snap |-> s, facts |-> mgr.facts, epis |-> mgr.epis,
              at |-> mgr.at, event |-> mgr.event]
  BY <1>2, <1>5 DEF Manager
<1>7. /\ mgr'.pc = mgr.pc /\ mgr'.snap = s /\ mgr'.facts = mgr.facts
      /\ mgr'.epis = mgr.epis /\ mgr'.at = mgr.at /\ mgr'.event = mgr.event
  BY <1>6
<1>8. mgr' \in Manager
  BY <1>2, <1>4, <1>6, ManagerFacts DEF Manager
<1>9. budget' \in [crashes : 0..MaxCrashes, faults : 0..MaxFaults]
  <2>1. budget.faults - 1 \in 0..MaxFaults
    BY <1>1, Constants DEF IInv, Types
  <2> QED BY <1>1, <2>1 DEF IInv, Types
<1>10. Types'
  BY <1>1, <1>7, <1>8, <1>9 DEF IInv, Types
<1>11. Chains'
  BY <1>1, <1>7 DEF IInv, Chains
<1>12. Stored'
  BY <1>1, <1>4, <1>7 DEF IInv, Stored, Names
<1>13. Progress'
  <2>1. Pending' = Pending
    BY <1>7 DEF Pending
  <2>2. \A n : Knows(mgr.snap, n) => Knows(mgr'.snap, n)
    BY <1>4, <1>7 DEF Knows
  <2>3. \A n : Tells(results, mgr.snap, n) => Tells(results, mgr'.snap, n)
    BY <1>4, <1>7 DEF Tells
  <2> QED BY <1>1, <1>7, <2>1, <2>2, <2>3 DEF IInv, Progress
<1> QED BY <1>10, <1>11, <1>12, <1>13 DEF IInv

LEMMA CheckpointKeeps ==
    ASSUME IInv, SaveCheckpoint \/ SaveWaiting
    PROVE  IInv'
<1>1. /\ mgr.pc = "loop" /\ UNCHANGED <<disk, results, facts, epis, srcs, mgr, failed, budget>>
  BY DEF SaveCheckpoint, SaveWaiting, Running, store
<1>2. /\ mgr.snap \in Snapshot /\ mgr.at \in Nat /\ mgr.at <= Len(results) /\ ckpt \in Checkpoint
      /\ ckpt.start \in Nat /\ ckpt.start <= mgr.at /\ ckpt.start <= Len(results)
  BY <1>1, ManagerFacts DEF IInv, Types, Progress, Checkpoint
<1>3. PICK a : a \in {mgr.at, ckpt.start} /\ ckpt' = [start |-> a, snap |-> mgr.snap]
  <2>1. CASE SaveCheckpoint
    BY <2>1 DEF SaveCheckpoint
  <2>2. CASE SaveWaiting
    <3>1. ckpt' = [start |-> ckpt.start, snap |-> mgr.snap]
      BY <1>2, <2>2 DEF SaveWaiting, Checkpoint
    <3> QED BY <3>1
  <2> QED BY <2>1, <2>2
<1>4. a \in Nat /\ a <= mgr.at /\ a <= Len(results) /\ ckpt'.start = a /\ ckpt'.snap = mgr.snap
      /\ ckpt' \in Checkpoint
  BY <1>2, <1>3 DEF Checkpoint
<1>5. Types'
  BY <1>1, <1>4 DEF IInv, Types
<1>6. Chains'
  BY <1>1 DEF IInv, Chains
<1>7. Stored'
  BY <1>1, <1>4 DEF IInv, Stored
<1>8. Progress'
  <2>1. PICK n \in 0..Len(results) :
            /\ Knows(mgr.snap, n) /\ mgr.at <= n /\ n + Pending <= Len(results)
            /\ Tells(results, mgr.snap, n + Pending)
    BY DEF IInv, Progress
  <2>2. Pending = 0 /\ Pending' = 0 /\ n + 0 = n
    BY <1>1 DEF Pending
  <2>3. a <= n
    BY <1>2, <1>4, <2>1 DEF IInv, Types
  <2>4. Knows(ckpt'.snap, n) /\ ckpt'.start <= n /\ Tells(results', ckpt'.snap, n)
    BY <1>1, <1>4, <2>1, <2>2, <2>3
  <2> QED BY <1>1, <1>4, <2>1, <2>2, <2>4 DEF Progress
<1> QED BY <1>5, <1>6, <1>7, <1>8 DEF IInv

LEMMA CrashKeeps ==
    ASSUME IInv, Crash
    PROVE  IInv'
<1>1. /\ mgr' = Down /\ budget.crashes > 0 /\ budget' = [budget EXCEPT !.crashes = @ - 1]
      /\ UNCHANGED <<disk, results, facts, epis, srcs, ckpt, failed>>
  BY DEF Crash, store
<1>2. budget' \in [crashes : 0..MaxCrashes, faults : 0..MaxFaults]
  <2>1. budget.crashes - 1 \in 0..MaxCrashes
    BY <1>1, Constants DEF IInv, Types
  <2> QED BY <1>1, <2>1 DEF IInv, Types
<1>3. /\ mgr' \in Manager /\ mgr'.pc = "down" /\ mgr'.event = None /\ mgr'.at = 0
      /\ mgr'.snap = NoSnapshot /\ mgr'.facts = Empty
  BY <1>1, DownFacts
<1>4. Types'
  BY <1>1, <1>2, <1>3 DEF IInv, Types
<1>5. Chains'
  BY <1>1, <1>3, EmptyTables DEF IInv, Chains, OneActive, HasActive
<1>6. Stored'
  BY <1>1, <1>3, NoSnapshotType DEF IInv, Stored, Names
<1>7. Progress'
  <2>1. Pending' = 0
    BY <1>3 DEF Pending
  <2>2. Knows(mgr'.snap, 0) /\ Tells(results', mgr'.snap, 0)
    BY <1>3, NoSnapshotType, HistoryStart DEF Knows
  <2>3. Len(results') \in Nat /\ 0 \in 0..Len(results')
    BY <1>1 DEF IInv, Types
  <2> QED BY <1>1, <1>3, <2>1, <2>2, <2>3 DEF IInv, Progress
<1> QED BY <1>4, <1>5, <1>6, <1>7 DEF IInv

LEMMA ResumeKeeps ==
    ASSUME IInv, NEW fault \in BOOLEAN, NEW known \in BOOLEAN, Resume(fault, known)
    PROVE  IInv'
<1>1. PICK s : s = Restored(fault)
  OBVIOUS
<1>2. /\ mgr' = [pc |-> "loop", snap |-> s, at |-> ckpt.start, event |-> None,
                 facts |-> IF s.fallback /\ ~known THEN Empty ELSE facts,
                 epis |-> IF s.fallback THEN Empty ELSE epis]
      /\ UNCHANGED <<disk, results, facts, epis, srcs, ckpt, failed>>
  BY <1>1 DEF Resume, store
<1>3. /\ ckpt.snap \in Snapshot /\ ckpt.start \in Nat /\ ckpt.start <= Len(results)
      /\ facts \in FactTable /\ epis \in EpisodeTable
  BY DEF IInv, Types, Checkpoint
<1>4. /\ s \in Snapshot /\ s.done = ckpt.snap.done /\ s.open = ckpt.snap.open
      /\ s.verified = ckpt.snap.verified
      /\ ~s.fallback => ~ckpt.snap.fallback
  BY <1>1, <1>3, FallbackFacts DEF Restored
<1>5. PICK f, e : f = (IF s.fallback /\ ~known THEN Empty ELSE facts) /\ e = (IF s.fallback THEN Empty ELSE epis)
  OBVIOUS
<1>6. f \in FactTable /\ e \in EpisodeTable /\ OneActive(f) /\ HasActive(f)
  BY <1>3, <1>5, EmptyTables DEF IInv, Chains, OneActive, HasActive
<1>7. mgr' = [pc |-> "loop", snap |-> s, facts |-> f, epis |-> e, at |-> ckpt.start, event |-> None]
  BY <1>2, <1>5
<1>8. mgr' \in Manager
  BY <1>3, <1>4, <1>6, <1>7 DEF Manager, PC
<1>9. /\ mgr'.pc = "loop" /\ mgr'.snap = s /\ mgr'.facts = f /\ mgr'.epis = e
      /\ mgr'.at = ckpt.start /\ mgr'.event = None
  BY <1>7
<1>10. budget' \in [crashes : 0..MaxCrashes, faults : 0..MaxFaults]
  BY FaultSpent DEF IInv, Types, Resume
<1>11. Types'
  BY <1>2, <1>3, <1>8, <1>9, <1>10 DEF IInv, Types
<1>12. Chains'
  BY <1>2, <1>6, <1>9 DEF IInv, Chains
<1>13. Stored'
  <2>1. Names(results', mgr'.snap) /\ Names(results', ckpt'.snap)
    BY <1>2, <1>4, <1>9 DEF IInv, Stored, Names
  <2>2. ASSUME ~mgr'.snap.fallback
        PROVE  /\ mgr'.facts = facts' /\ mgr'.epis = epis'
               /\ Covered(epis', mgr'.snap.done) /\ Served(epis', mgr'.snap)
    BY <1>2, <1>4, <1>5, <1>9, <2>2 DEF IInv, Stored, Covered, Served
  <2>3. ~ckpt'.snap.fallback => Covered(epis', ckpt'.snap.done) /\ Served(epis', ckpt'.snap)
    BY <1>2 DEF IInv, Stored
  <2> QED BY <1>9, <2>1, <2>2, <2>3 DEF Stored
<1>14. Progress'
  <2>1. PICK c \in 0..Len(results) :
            Knows(ckpt.snap, c) /\ ckpt.start <= c /\ Tells(results, ckpt.snap, c)
    BY DEF IInv, Progress
  <2>2. Pending' = 0 /\ c + 0 = c /\ c <= Len(results)
    BY <1>9 DEF Pending, IInv, Types
  <2>3. Knows(mgr'.snap, c) /\ Tells(results', mgr'.snap, c)
    BY <1>2, <1>4, <1>9, <2>1 DEF Knows, Tells
  <2>4. ckpt.start <= ckpt.start
    BY <1>3
  <2> QED BY <1>2, <1>9, <2>1, <2>2, <2>3, <2>4 DEF Progress
<1> QED BY <1>11, <1>12, <1>13, <1>14 DEF IInv

-----------------------------------------------------------------------------
LEMMA InitInv == Init => IInv
<1> SUFFICES ASSUME Init PROVE IInv
  OBVIOUS
<1>1. mgr = [pc |-> "loop", snap |-> NoSnapshot, facts |-> Empty, epis |-> Empty, at |-> 0,
             event |-> None]
  BY DEF Init, Down
<1>2. /\ mgr.pc = "loop" /\ mgr.snap = NoSnapshot /\ mgr.facts = Empty /\ mgr.epis = Empty
      /\ mgr.at = 0 /\ mgr.event = None
  BY <1>1
<1>3. mgr \in Manager
  BY <1>1, EmptyTables, NoSnapshotType DEF Manager, PC
<1>4. ckpt \in Checkpoint /\ ckpt.start = 0 /\ ckpt.snap = NoSnapshot
  BY NoSnapshotType DEF Init, Checkpoint
<1>5. results \in Seq(Calls) /\ Len(results) = 0
  BY DEF Init
<1>6. Types
  BY <1>2, <1>3, <1>4, <1>5, EmptyTables, Constants DEF Init, Types
<1>7. Chains
  BY <1>2, EmptyTables DEF Init, Chains, OneActive, HasActive, Linked, Unrejected
<1>8. Stored
  BY <1>2, <1>4, NoSnapshotType DEF Init, Stored, Names, Covered, Served
<1>9. Progress
  <2>1. Pending = 0
    BY <1>2 DEF Pending
  <2>2. Knows(NoSnapshot, 0) /\ Tells(results, NoSnapshot, 0)
    BY NoSnapshotType, HistoryStart DEF Knows
  <2> QED BY <1>2, <1>4, <1>5, <2>1, <2>2 DEF Progress
<1> QED BY <1>6, <1>7, <1>8, <1>9 DEF IInv

LEMMA NextInv == IInv /\ [Next]_vars => IInv'
<1> SUFFICES ASSUME IInv, [Next]_vars PROVE IInv'
  OBVIOUS
<1>1. CASE \E r \in Calls, blocked \in BOOLEAN : Execute(r, blocked)
  BY <1>1, ExecuteKeeps
<1>2. CASE Duplicate
  BY <1>2, DuplicateKeeps
<1>3. CASE \E fault \in BOOLEAN : IngestTool(fault) \/ IngestCheckpoint(fault)
  BY <1>3, IngestToolKeeps, IngestCheckpointKeeps
<1>4. CASE \E accepted \in SUBSET Groups, fault \in BOOLEAN : MaybeCompress(accepted, fault)
  BY <1>4, MaybeCompressKeeps
<1>5. CASE RetrieveFails
  BY <1>5, RetrieveFailsKeeps
<1>6. CASE SaveCheckpoint \/ SaveWaiting
  BY <1>6, CheckpointKeeps
<1>7. CASE Crash
  BY <1>7, CrashKeeps
<1>8. CASE \E fault, known \in BOOLEAN : Resume(fault, known)
  BY <1>8, ResumeKeeps
<1>9. CASE UNCHANGED vars
  <2>1. UNCHANGED <<disk, results, facts, epis, srcs, mgr, ckpt, failed, budget>>
    BY <1>9 DEF vars
  <2>2. Pending' = Pending
    BY <2>1 DEF Pending
  <2> QED BY <2>1, <2>2 DEF IInv, Types, Chains, Progress, Stored
<1> QED BY <1>1, <1>2, <1>3, <1>4, <1>5, <1>6, <1>7, <1>8, <1>9 DEF Next

LEMMA Inductive == Spec => []IInv
BY InitInv, NextInv, PTL DEF Spec

(* The variables have the values the code gives them: records are only     *)
(* written with ids and contents of their types, whatever is replayed,     *)
(* refused or compressed.                                                  *)
THEOREM TypeCorrect == Spec => []TypeOK
<1>1. IInv => TypeOK
  <2> SUFFICES ASSUME IInv PROVE TypeOK
    OBVIOUS
  <2>1. Calls \subseteq Result
    <3>1. \A r \in [tool : {"read_file"}, path : Path, value : 0..MaxValue, ok : {TRUE}] : r \in Result
      BY DEF Result, Tool
    <3>2. \A r \in [tool : {"write_file"}, path : Path, value : 1..MaxValue, ok : BOOLEAN] : r \in Result
      BY Constants DEF Result, Tool
    <3>3. \A r \in [tool : {"run_tests"}, path : {None}, value : {0}, ok : BOOLEAN] : r \in Result
      BY Constants DEF Result, Tool
    <3> QED BY <3>1, <3>2, <3>3 DEF Calls
  <2>2. results \in Seq(Result)
    BY <2>1 DEF IInv, Types
  <2>3. IsFacts(facts) /\ IsFacts(mgr.facts)
    BY FactTableFacts, ManagerFacts DEF IInv, Types, IsFacts
  <2>4. IsEpisodes(epis) /\ IsEpisodes(mgr.epis)
    BY EpisodeTableFacts, ManagerFacts DEF IInv, Types, IsEpisodes
  <2>5. DOMAIN srcs \subseteq SourceId /\ \A i \in DOMAIN srcs : srcs[i] \in [Path -> 0..MaxValue]
    BY DEF IInv, Types, SourceTable
  <2>6. mgr.pc \in PC /\ mgr.snap \in Snapshot /\ mgr.at \in 0..Len(results)
        /\ mgr.event \in Event \cup {None}
    BY ManagerFacts DEF IInv, Types
  <2>7. ckpt.start \in 0..MaxCalls /\ ckpt.snap \in Snapshot
    BY Constants DEF IInv, Types, Checkpoint
  <2> QED BY <2>2, <2>3, <2>4, <2>5, <2>6, <2>7 DEF IInv, Types, TypeOK
<1> QED BY <1>1, Inductive, PTL

LEMMA AtMostOne ==
    ASSUME NEW f, OneActive(f), NEW s
    PROVE  Cardinality(ActiveIn(f, s)) <= 1
<1>1. CASE ActiveIn(f, s) = {}
  BY <1>1, FS_EmptySet
<1>2. CASE ActiveIn(f, s) # {}
  <2>1. PICK i : i \in ActiveIn(f, s)
    BY <1>2
  <2>2. ActiveIn(f, s) = {i}
    BY <2>1 DEF ActiveIn, OneActive
  <2> QED BY <2>2, FS_Singleton
<1> QED BY <1>1, <1>2

LEMMA CountTo ==
    ASSUME NEW n \in Nat
    PROVE  Cardinality(1..n) = n
<1>1. 1 \in Int /\ n \in Int
  OBVIOUS
<1> QED BY <1>1, FS_Interval

(* The facts of the store are chains at every moment, whatever is          *)
(* replayed, refused or rolled back, for any number of files, drafts and   *)
(* calls (_resolve, validate_supersession_chain, save_batch): a slot has   *)
(* one active fact, links go both ways, and a fact gave way only to its    *)
(* own value or to at least its own authority.                             *)
THEOREM FactsChained == Spec => []ChainsLinked
<1>1. IInv => ChainsLinked
  BY AtMostOne DEF IInv, Chains, Linked, ChainsLinked
<1> QED BY <1>1, Inductive, PTL

(* Crashes, duplicated and replayed results leave no trace in the open     *)
(* failures and the last verification (ingest_tool, _duplicate_update,     *)
(* _apply_reference): they are those of an uninterrupted run.              *)
THEOREM EpisodesReplayed == Spec => []EpisodesAsUninterrupted
<1>1. IInv => EpisodesAsUninterrupted
  <2> SUFFICES ASSUME IInv, mgr.pc = "loop"
               PROVE  /\ mgr.snap.open = Uninterrupted(Cardinality(mgr.snap.done \cap Call)).open
                      /\ mgr.snap.verified
                           = Uninterrupted(Cardinality(mgr.snap.done \cap Call)).verified
    BY DEF EpisodesAsUninterrupted
  <2>1. PICK n \in 0..Len(results) : Knows(mgr.snap, n) /\ Tells(results, mgr.snap, n + Pending)
    BY DEF IInv, Progress
  <2>2. Pending = 0 /\ n \in Nat /\ n + 0 = n
    BY DEF Pending, IInv, Types
  <2>3. PICK h : History(h, results, n) /\ mgr.snap.open = h[n].open /\ mgr.snap.verified = h[n].verified
    BY <2>1, <2>2 DEF Tells
  <2>4. Cardinality(mgr.snap.done \cap Call) = n
    <3>1. mgr.snap.done \cap Call = 1..n
      BY <2>1 DEF Knows
    <3> QED BY <2>2, <3>1, CountTo
  <2>5. Uninterrupted(n) = h[n]
    BY <2>2, <2>3, UninterruptedIs
  <2> QED BY <2>3, <2>4, <2>5
<1> QED BY <1>1, Inductive, PTL

(* As long as memory has not fallen back, the manager serves what the      *)
(* store holds, every processed event is in an active episode or in the    *)
(* lineage of an active summary, and compression never takes an open       *)
(* failure or the last verification (_complete_event, _maybe_compress,     *)
(* _protected_ids), for any thresholds and generations.                    *)
THEOREM StoreNeverLoses == Spec => []StoreComplete
<1>1. IInv => StoreComplete
  BY DEF IInv, Stored, StoreComplete, Covered, Served
<1> QED BY <1>1, Inductive, PTL
=============================================================================
