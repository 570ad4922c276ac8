--------------------------- MODULE StepLoopProofs ---------------------------
(***************************************************************************)
(* Theorems about StepLoop: what a step costs and counts is what it would  *)
(* have without a crash, for any number of steps and crashes and any       *)
(* budgets.                                                                *)
(***************************************************************************)
EXTENDS StepLoop, FiniteSetTheorems, SequenceTheorems, WellFoundedInduction, TLAPS

(* Points without a process; points inside a step; points past the         *)
(* response, past the call that it asks for, and past the result.          *)
Outside == {"down", "ended"}
Asking == {"request", "waiting"}
Done == {"observe", "compress", "save"}
Judged == {"tool"} \cup Done
Answered == {"clear", "account", "judge"} \cup Judged

(* Where the process is, and what is persisted of the step. *)
Places ==
    /\ run.pc \in Asking \cup Answered => step < MaxSteps
    /\ ckpt.pending \in {None, step}
    /\ run.pc \in Asking \cup {"clear"} => ckpt.pending = step
    /\ run.pc \in {"loop", "account", "judge"} \cup Judged => ckpt.pending = None
    /\ run.pc \in Asking => resp[step] = None
    /\ run.pc \in Answered => resp[step] # None
    /\ run.pc \in Judged => resp[step].call \in Call
    /\ run.pc \in Done => results[step] # None

Records ==
    \A s \in Step :
        /\ s < step => results[s] # None
        /\ s > step => resp[s] = None
        /\ results[s] # None => /\ resp[s] # None /\ results[s].call = resp[s].call
                                /\ Failing(results[s]) => results[s] \in Failure

(* The counters are the same. *)
Agree(st, q) ==
    /\ q.failures = st.failures /\ q.errors = st.errors /\ q.prev = st.prev
    /\ q.repeats = st.repeats /\ q.history = st.history
    /\ q.cache = st.cache /\ q.squeezed = st.squeezed

(* The state of the process, up to what only the end of the step saves. *)
Same ==
    /\ run.pc \in {"loop", "clear"} \cup Asking => run.st = ckpt.st
    /\ run.pc \in {"account", "judge"} => Agree(ckpt.st, run.st)
    /\ run.pc \notin Outside =>
           /\ run.st.tokens = ckpt.st.tokens /\ run.st.accounted = ckpt.st.accounted
           /\ run.st.unknown = ckpt.st.unknown

(* Requests that were lost: all but the one under way or the answered one. *)
Lost ==
    /\ \A s \in Step : resp[s] # None /\ asked[s] > 1 => s \in ckpt.st.unknown
    /\ run.pc = "request" /\ asked[step] > 0 => step \in ckpt.st.unknown
    /\ run.pc = "waiting" /\ asked[step] > 1 => step \in ckpt.st.unknown

(* The accounted steps are the finished ones, and maybe the current one. *)
Accounted ==
    /\ \/ ckpt.st.accounted = 0..(step - 1)
       \/ step < MaxSteps /\ resp[step] # None /\ ckpt.st.accounted = 0..step
    /\ run.pc \in {"judge"} \cup Judged => ckpt.st.accounted = 0..step

(* The counters for the first n steps, from the persisted results f and    *)
(* responses g.                                                            *)
Streak(g, n) == {s \in 0..n : \A t \in s..n : g[t].call = g[n].call}

FailuresUpTo(f, st, n) ==
    /\ st.failures = Cardinality({s \in 0..(n - 1) : Failing(f[s])})
    /\ \A r \in Failure : st.errors[r] = Cardinality({s \in 0..(n - 1) : f[s] = r})
RepeatsUpTo(g, st, n) ==
    IF n = 0 THEN st.repeats = 0
    ELSE st.prev = g[n - 1].call /\ st.repeats = Cardinality(Streak(g, n - 1))
HistoryUpTo(f, st, n) ==
    st.history = [i \in 1..n |-> [step |-> i - 1, result |-> f[i - 1]]]
CacheUpTo(st, n) == st.cache = n + st.squeezed

Counters ==
    /\ FailuresUpTo(results, ckpt.st, step) /\ RepeatsUpTo(resp, ckpt.st, step)
    /\ HistoryUpTo(results, ckpt.st, step) /\ CacheUpTo(ckpt.st, step)
    /\ run.pc \in {"tool", "observe"} => FailuresUpTo(results, run.st, step)
    /\ run.pc = "tool" => HistoryUpTo(results, run.st, step)
    /\ run.pc \in Done => HistoryUpTo(results, run.st, step + 1)
    /\ run.pc \in {"compress", "save"} => FailuresUpTo(results, run.st, step + 1)
    /\ run.pc \in Judged => RepeatsUpTo(resp, run.st, step + 1) /\ CacheUpTo(run.st, step + 1)

(* Publications belong to the epoch and rebuild what was published last;   *)
(* what was sent is a part of what the checkpoint has, and that of what    *)
(* the process has.                                                        *)
IsReplay(f, pub) ==
    f = [n \in 0..Len(pub.deltas) |->
           IF n = 0 THEN pub.first
           ELSE (f[n - 1] \ pub.deltas[n].removed) \cup pub.deltas[n].added]
Rebuilt(pub) == \E f : IsReplay(f, pub) /\ f[Len(pub.deltas)] = pub.now
Own(st) == st.pub # None => st.pub.epoch = st.epoch /\ Rebuilt(st.pub)
Follows(old, new) ==
    old # None => new # None /\ new.first = old.first /\ IsPrefix(old.deltas, new.deltas)

SameEpoch(st) ==
    /\ st.epoch = ckpt.st.epoch /\ st.prefix = ckpt.st.prefix
    /\ Follows(ckpt.st.pub, st.pub)

Epochs ==
    /\ Own(ckpt.st) /\ Own(run.st)
    /\ ckpt.st.epoch <= step
    /\ run.pc \notin Outside =>
           SameEpoch(run.st) \/ (run.pc = "save" /\ run.st.epoch = ckpt.st.epoch + 1)
    /\ \A e \in DOMAIN seen :
           /\ e <= ckpt.st.epoch
           /\ e = ckpt.st.epoch =>
                  seen[e].prefix = ckpt.st.prefix /\ Follows(seen[e].pub, ckpt.st.pub)

IInv ==
    TypeOK /\ Places /\ Records /\ Same /\ Lost /\ Accounted /\ UsageExact /\ Counters
    /\ Epochs
-----------------------------------------------------------------------------
(* Constants and types. *)

LEMMA Constants ==
    /\ MaxSteps \in Nat /\ MaxSteps > 0 /\ MaxCrashes \in Nat
    /\ None \notin Response /\ None \notin Result /\ None \notin Publication /\ None \notin Step
BY StepLoopAssumption, NoneAssumption

LEMMA StepType ==
    ASSUME TypeOK
    PROVE  /\ step \in 0..MaxSteps /\ step \in Nat /\ (step < MaxSteps => step \in Step)
           /\ ckpt.st \in State /\ run.st \in State /\ run.pc \in PC
BY Constants DEF TypeOK, Checkpoint, Process, step, Step

LEMMA FreshState ==
    /\ Fresh \in State /\ Fresh.tokens = 0 /\ Fresh.accounted = {} /\ Fresh.pub = None
<1>1. [r \in Failure |-> 0] \in [Failure -> Nat] /\ 0 \in 0..MaxSteps
  BY Constants
<1>2. <<>> \in Seq([step : Step, result : Result]) /\ <<>> \in Seq(Summary)
  OBVIOUS
<1> QED BY <1>1, <1>2 DEF Fresh, State

LEMMA FiniteSteps ==
    ASSUME NEW S \in SUBSET Step
    PROVE  IsFiniteSet(S) /\ Cardinality(S) \in Nat
<1>1. IsFiniteSet(Step)
  BY Constants, FS_Interval DEF Step
<1> QED BY <1>1, FS_Subset, FS_CardinalityType

-----------------------------------------------------------------------------
(* The counters. *)

LEMMA Intervals ==
    ASSUME NEW n \in Nat
    PROVE  /\ IsFiniteSet(0..(n - 1)) /\ 0..((n + 1) - 1) = 0..(n - 1) \cup {n}
           /\ n \notin 0..(n - 1) /\ n - 1 \in Int
<1>1. n - 1 \in Int
  OBVIOUS
<1> QED BY <1>1, FS_Interval, SMTT(40)

LEMMA FailuresNext ==
    ASSUME NEW f, NEW n \in Nat, NEW st \in State, NEW q \in State, FailuresUpTo(f, st, n),
           q.failures = IF Failing(f[n]) THEN st.failures + 1 ELSE st.failures,
           \A r \in Failure : q.errors[r] = IF f[n] = r THEN st.errors[r] + 1 ELSE st.errors[r]
    PROVE  FailuresUpTo(f, q, n + 1)
<1>1. ASSUME NEW S \in SUBSET (0..(n - 1))
      PROVE  Cardinality(S \cup {n}) = Cardinality(S) + 1
  <2>1. IsFiniteSet(S) /\ n \notin S
    BY Intervals, FS_Subset
  <2> QED BY <2>1, FS_AddElement
<1>2. q.failures = Cardinality({s \in 0..((n + 1) - 1) : Failing(f[s])})
  <2>1. PICK S \in SUBSET (0..(n - 1)) : S = {s \in 0..(n - 1) : Failing(f[s])}
    OBVIOUS
  <2>2. {s \in 0..((n + 1) - 1) : Failing(f[s])} = IF Failing(f[n]) THEN S \cup {n} ELSE S
    BY <2>1, Intervals
  <2>3. st.failures = Cardinality(S)
    BY <2>1 DEF FailuresUpTo
  <2> QED BY <1>1, <2>2, <2>3
<1>3. ASSUME NEW r \in Failure
      PROVE  q.errors[r] = Cardinality({s \in 0..((n + 1) - 1) : f[s] = r})
  <2>1. PICK S \in SUBSET (0..(n - 1)) : S = {s \in 0..(n - 1) : f[s] = r}
    OBVIOUS
  <2>2. {s \in 0..((n + 1) - 1) : f[s] = r} = IF f[n] = r THEN S \cup {n} ELSE S
    BY <2>1, Intervals
  <2>3. st.errors[r] = Cardinality(S)
    BY <2>1 DEF FailuresUpTo
  <2> QED BY <1>1, <2>2, <2>3
<1> QED BY <1>2, <1>3 DEF FailuresUpTo

LEMMA RepeatsNext ==
    ASSUME NEW g, NEW n \in Nat, NEW st, NEW q, RepeatsUpTo(g, st, n),
           q.prev = g[n].call,
           q.repeats = IF g[n].call = st.prev THEN st.repeats + 1 ELSE 1
    PROVE  RepeatsUpTo(g, q, n + 1)
<1>1. n + 1 # 0 /\ (n + 1) - 1 = n
  OBVIOUS
<1>2. n \in Streak(g, n)
  BY DEF Streak
<1>3. q.repeats = Cardinality(Streak(g, n))
  <2>1. CASE n = 0
    <3>1. Streak(g, n) = {n}
      BY <1>2, <2>1 DEF Streak
    <3>2. st.repeats = 0
      BY <2>1 DEF RepeatsUpTo
    <3> QED BY <3>1, <3>2, FS_Singleton
  <2>2. CASE n # 0 /\ g[n].call # g[n - 1].call
    <3>1. ASSUME NEW s \in Streak(g, n) PROVE s = n
      <4>1. s # n => n - 1 \in s..n
        BY <2>2, <3>1 DEF Streak
      <4> QED BY <2>2, <4>1 DEF Streak
    <3>2. Streak(g, n) = {n}
      BY <1>2, <3>1
    <3>3. q.repeats = 1
      BY <2>2 DEF RepeatsUpTo
    <3> QED BY <3>2, <3>3, FS_Singleton
  <2>3. CASE n # 0 /\ g[n].call = g[n - 1].call
    <3>0. n - 1 \in Nat
      BY <2>3
    <3>1. PICK S : S = Streak(g, n - 1)
      OBVIOUS
    <3>2. ASSUME NEW s PROVE s \in Streak(g, n) <=> s \in S \cup {n}
      <4>1. CASE s \in 0..(n - 1)
        <5>1. s..n = s..(n - 1) \cup {n} /\ s \in 0..n /\ s # n
          BY <4>1
        <5> QED BY <2>3, <3>1, <4>1, <5>1 DEF Streak
      <4>2. CASE s = n
        BY <1>2, <4>2
      <4>3. CASE s \notin 0..n
        BY <3>0, <3>1, <4>3 DEF Streak
      <4> QED BY <4>1, <4>2, <4>3
    <3>3. Streak(g, n) = S \cup {n}
      BY <3>2
    <3>4. S \in SUBSET (0..(n - 1))
      BY <3>1 DEF Streak
    <3>5. IsFiniteSet(S) /\ n \notin S
      BY <3>4, Intervals, FS_Subset
    <3>6. q.repeats = Cardinality(S) + 1
      BY <2>3, <3>1 DEF RepeatsUpTo
    <3> QED BY <3>3, <3>5, <3>6, FS_AddElement
  <2> QED BY <2>1, <2>2, <2>3
<1> QED BY <1>1, <1>3 DEF RepeatsUpTo

LEMMA HistoryNext ==
    ASSUME NEW f, NEW n \in Step, NEW st \in State, NEW q, HistoryUpTo(f, st, n), f[n] \in Result,
           q.history = Append(st.history, [step |-> n, result |-> f[n]])
    PROVE  HistoryUpTo(f, q, n + 1)
<1> DEFINE Row == [step : Step, result : Result]
           Past(i) == [step |-> i - 1, result |-> f[i - 1]]
<1>1. PICK h \in Seq(Row) : h = st.history
  BY DEF State
<1>2. PICK e \in Row : e = [step |-> n, result |-> f[n]]
  OBVIOUS
<1>3. h = [i \in 1..n |-> Past(i)] /\ n \in Nat
  BY <1>1, Constants DEF HistoryUpTo, Step
<1>4. Len(h) = n
  <2>1. DOMAIN h = 1..Len(h) /\ DOMAIN h = 1..n /\ Len(h) \in Nat
    BY <1>1, <1>3
  <2> QED BY <1>3, <2>1
<1>5. PICK a : a = Append(h, e)
  OBVIOUS
<1>6. a \in Seq(Row) /\ Len(a) = n + 1 /\ a[n + 1] = e /\ \A i \in 1..n : a[i] = h[i]
  BY <1>1, <1>2, <1>4, <1>5, AppendProperties
<1>7. ASSUME NEW i \in 1..(n + 1) PROVE a[i] = Past(i)
  <2>1. CASE i = n + 1
    BY <1>2, <1>3, <1>6, <2>1
  <2>2. CASE i # n + 1
    BY <1>3, <1>6, <2>2
  <2> QED BY <2>1, <2>2
<1>8. a = [i \in 1..(n + 1) |-> a[i]]
  BY <1>3, <1>6
<1>9. a = [i \in 1..(n + 1) |-> Past(i)]
  BY <1>7, <1>8
<1> QED BY <1>1, <1>2, <1>5, <1>9 DEF HistoryUpTo

(* What is persisted later does not matter. *)
LEMMA CountersKept ==
    ASSUME NEW f, NEW h, NEW st, NEW n \in Nat, \A s \in 0..(n - 1) : f[s] = h[s]
    PROVE  /\ FailuresUpTo(f, st, n) => FailuresUpTo(h, st, n)
           /\ HistoryUpTo(f, st, n) => HistoryUpTo(h, st, n)
           /\ RepeatsUpTo(f, st, n) => RepeatsUpTo(h, st, n)
<1>1. {s \in 0..(n - 1) : Failing(f[s])} = {s \in 0..(n - 1) : Failing(h[s])}
  OBVIOUS
<1>2. \A r : {s \in 0..(n - 1) : f[s] = r} = {s \in 0..(n - 1) : h[s] = r}
  OBVIOUS
<1>3. [i \in 1..n |-> [step |-> i - 1, result |-> f[i - 1]]]
      = [i \in 1..n |-> [step |-> i - 1, result |-> h[i - 1]]]
  OBVIOUS
<1>4. ASSUME n # 0 PROVE f[n - 1] = h[n - 1] /\ Streak(f, n - 1) = Streak(h, n - 1)
  BY <1>4 DEF Streak
<1> QED BY <1>1, <1>2, <1>3, <1>4 DEF FailuresUpTo, HistoryUpTo, RepeatsUpTo

-----------------------------------------------------------------------------
(* The publications. *)

LEMMA PrefixPoints ==
    ASSUME NEW S, NEW s \in Seq(S), NEW t \in Seq(S)
    PROVE  IsPrefix(s, t) <=> Len(s) <= Len(t) /\ \A i \in 1..Len(s) : s[i] = t[i]
<1>1. Len(s) \in Nat /\ Len(t) \in Nat
  OBVIOUS
<1>2. ASSUME Len(s) <= Len(t)
      PROVE  SubSeq(s, 1, Len(s)) = SubSeq(t, 1, Len(s)) <=> \A i \in 1..Len(s) : s[i] = t[i]
  <2>1. SubSeq(s, 1, Len(s)) = [i \in 1..Len(s) |-> s[i]]
    BY <1>1
  <2>2. SubSeq(t, 1, Len(s)) = [i \in 1..Len(s) |-> t[i]]
    BY <1>1, <1>2
  <2> QED BY <2>1, <2>2
<1> QED BY <1>2 DEF IsPrefix

LEMMA FollowsSelf ==
    ASSUME NEW p \in Publication \cup {None}
    PROVE  Follows(p, p)
<1>1. CASE p = None
  BY <1>1 DEF Follows
<1>2. CASE p \in Publication
  <2>1. p.deltas \in Seq(Delta)
    BY <1>2 DEF Publication
  <2> QED BY <2>1, PrefixPoints DEF Follows
<1> QED BY <1>1, <1>2

LEMMA FollowsAll ==
    ASSUME NEW p \in Publication \cup {None}, NEW q \in Publication \cup {None},
           NEW o \in Publication \cup {None}, Follows(p, q), Follows(q, o)
    PROVE  Follows(p, o)
<1>1. CASE p = None
  BY <1>1 DEF Follows
<1>2. CASE p # None
  <2>1. q # None /\ o # None
    BY <1>2 DEF Follows
  <2>2. p.deltas \in Seq(Delta) /\ q.deltas \in Seq(Delta) /\ o.deltas \in Seq(Delta)
    BY <1>2, <2>1 DEF Publication
  <2>3. IsPrefix(p.deltas, q.deltas) /\ IsPrefix(q.deltas, o.deltas)
        /\ q.first = p.first /\ o.first = q.first
    BY <1>2, <2>1 DEF Follows
  <2>4. /\ Len(p.deltas) <= Len(q.deltas) /\ \A i \in 1..Len(p.deltas) : p.deltas[i] = q.deltas[i]
        /\ Len(q.deltas) <= Len(o.deltas) /\ \A i \in 1..Len(q.deltas) : q.deltas[i] = o.deltas[i]
    BY <2>2, <2>3, PrefixPoints
  <2>5. Len(p.deltas) \in Nat /\ Len(q.deltas) \in Nat /\ Len(o.deltas) \in Nat
    BY <2>2
  <2>6. Len(p.deltas) <= Len(o.deltas) /\ \A i \in 1..Len(p.deltas) : p.deltas[i] = o.deltas[i]
    BY <2>4, <2>5
  <2>7. IsPrefix(p.deltas, o.deltas)
    BY <2>2, <2>6, PrefixPoints
  <2> QED BY <2>1, <2>3, <2>7 DEF Follows
<1> QED BY <1>1, <1>2

LEMMA LeastExists ==
    ASSUME NEW S \in SUBSET Nat, S # {}
    PROVE  \E i \in S : \A j \in S : i <= j
<1>1. PICK i \in S : \A j \in S : ~(<<j, i>> \in OpToRel(<, Nat))
  BY NatLessThanWellFounded, WFMin
<1>2. ASSUME NEW j \in S PROVE i <= j
  <2>1. ~(j < i)
    BY <1>1 DEF OpToRel
  <2> QED BY <2>1
<1> QED BY <1>2

(* There is one way to apply the deltas. *)
LEMMA ReplayUnique ==
    ASSUME NEW pub \in Publication, NEW f, NEW g, IsReplay(f, pub), IsReplay(g, pub)
    PROVE  f = g
<1>1. PICK m \in Nat : m = Len(pub.deltas)
  BY DEF Publication
<1>2. /\ f = [n \in 0..m |-> f[n]] /\ g = [n \in 0..m |-> g[n]]
      /\ \A n \in 0..m : n = 0 => f[n] = g[n]
      /\ \A n \in 0..m : n # 0 /\ f[n - 1] = g[n - 1] => f[n] = g[n]
  BY <1>1, ZenonT(60) DEF IsReplay
<1>3. PICK D : D = {n \in 0..m : f[n] # g[n]}
  OBVIOUS
<1>4. ASSUME D # {} PROVE FALSE
  <2>1. D \in SUBSET Nat
    BY <1>3
  <2>2. PICK i \in D : \A j \in D : i <= j
    BY <1>4, <2>1, LeastExists
  <2>3. i \in 0..m /\ f[i] # g[i] /\ i # 0
    BY <1>2, <1>3, <2>2
  <2>4. i - 1 \in 0..m /\ i - 1 \notin D
    BY <2>2, <2>3
  <2> QED BY <1>2, <1>3, <2>3, <2>4
<1>5. \A n \in 0..m : f[n] = g[n]
  BY <1>3, <1>4
<1> QED BY <1>2, <1>5

LEMMA ReplayOf ==
    ASSUME NEW pub \in Publication, Rebuilt(pub)
    PROVE  Replay(pub) = pub.now
<1>1. PICK f : IsReplay(f, pub) /\ f[Len(pub.deltas)] = pub.now
  BY DEF Rebuilt
<1>2. PICK g : g = CHOOSE h : IsReplay(h, pub)
  OBVIOUS
<1>3. IsReplay(g, pub)
  BY <1>1, <1>2
<1>4. f = g
  BY <1>1, <1>3, ReplayUnique
<1>5. Replay(pub) = g[Len(pub.deltas)]
  BY <1>2 DEF Replay, IsReplay
<1> QED BY <1>1, <1>4, <1>5

(* A new delta leads to the projection that it was made for. *)
LEMMA ReplayNext ==
    ASSUME NEW o \in Publication, Rebuilt(o), NEW p \in SUBSET Item, NEW d, d = DeltaTo(o, p),
           NEW q \in Publication, q.first = o.first, q.now = p,
           Len(q.deltas) = Len(o.deltas) + 1, q.deltas[Len(q.deltas)] = d,
           \A i \in 1..Len(o.deltas) : q.deltas[i] = o.deltas[i]
    PROVE  Rebuilt(q)
<1>1. PICK f : IsReplay(f, o) /\ f[Len(o.deltas)] = o.now
  BY DEF Rebuilt
<1>2. PICK m \in Nat : m = Len(o.deltas)
  BY DEF Publication
<1>3. PICK g : g = [n \in 0..(m + 1) |-> IF n = m + 1 THEN p ELSE f[n]]
  OBVIOUS
<1>4. (o.now \ d.removed) \cup d.added = p
  BY DEF DeltaTo, Publication
<1>5. ASSUME NEW n \in 0..(m + 1)
      PROVE  g[n] = IF n = 0 THEN q.first
                    ELSE (g[n - 1] \ q.deltas[n].removed) \cup q.deltas[n].added
  <2>1. CASE n = m + 1
    <3>1. g[n] = p /\ g[n - 1] = o.now /\ q.deltas[n] = d /\ n # 0
      BY <1>1, <1>2, <1>3, <2>1
    <3> QED BY <1>4, <3>1
  <2>2. CASE n # m + 1 /\ n = 0
    BY <1>1, <1>2, <1>3, <2>2 DEF IsReplay
  <2>3. CASE n # m + 1 /\ n # 0
    <3>1. n \in 1..m /\ n - 1 \in 0..m /\ n \in 0..m /\ n - 1 # m + 1
      BY <2>3
    <3>2. g[n] = f[n] /\ g[n - 1] = f[n - 1] /\ q.deltas[n] = o.deltas[n]
      BY <1>2, <1>3, <2>3, <3>1
    <3>3. f[n] = (f[n - 1] \ o.deltas[n].removed) \cup o.deltas[n].added
      BY <1>1, <1>2, <2>3, <3>1 DEF IsReplay
    <3> QED BY <2>3, <3>2, <3>3
  <2> QED BY <2>1, <2>2, <2>3
<1>6. g = [n \in 0..(m + 1) |-> g[n]] /\ g[m + 1] = p /\ Len(q.deltas) = m + 1
  BY <1>2, <1>3
<1>7. IsReplay(g, q)
  BY <1>5, <1>6 DEF IsReplay
<1> QED BY <1>6, <1>7 DEF Rebuilt

(* A publication of the epoch that is under way is continued. *)
LEMMA PublishFollows ==
    ASSUME NEW st \in State, Own(st), NEW p \in Projection
    PROVE  /\ Publish(st, p) \in Publication /\ Publish(st, p).epoch = st.epoch
           /\ Follows(st.pub, Publish(st, p)) /\ Rebuilt(Publish(st, p))
<1>1. st.pub \in Publication \cup {None} /\ st.epoch \in 0..MaxSteps /\ p \in SUBSET Item
  BY DEF State, Item
<1>2. CASE st.pub = None
  <2>1. PICK q : q = [epoch |-> st.epoch, first |-> p, deltas |-> <<>>, now |-> p]
    OBVIOUS
  <2>2. q = Publish(st, p)
    BY <1>2, <2>1 DEF Publish, Current
  <2>3. q \in Publication /\ q.epoch = st.epoch
    BY <1>1, <2>1 DEF Publication
  <2>4. Rebuilt(q)
    <3>1. PICK f : f = [n \in 0..0 |-> p]
      OBVIOUS
    <3>2. Len(q.deltas) = 0 /\ q.first = p /\ q.now = p /\ f[0] = p
      BY <2>1, <3>1
    <3>3. IsReplay(f, q)
      BY <3>1, <3>2 DEF IsReplay
    <3> QED BY <3>2, <3>3 DEF Rebuilt
  <2> QED BY <1>2, <2>2, <2>3, <2>4 DEF Follows
<1>3. CASE st.pub # None
  <2>1. PICK o \in Publication : o = st.pub /\ o.epoch = st.epoch /\ Rebuilt(o)
    BY <1>1, <1>3 DEF Own
  <2>2. PICK d : d = DeltaTo(o, p)
    OBVIOUS
  <2>3. d \in Delta
    BY <1>1, <2>1, <2>2 DEF DeltaTo, Delta, Publication
  <2>4. PICK ds : ds = Append(o.deltas, d)
    OBVIOUS
  <2>5. o.deltas \in Seq(Delta)
    BY <2>1 DEF Publication
  <2>6. ds \in Seq(Delta) /\ Len(ds) = Len(o.deltas) + 1 /\ ds[Len(ds)] = d
        /\ \A i \in 1..Len(o.deltas) : ds[i] = o.deltas[i]
    BY <2>3, <2>4, <2>5, AppendProperties
  <2>7. PICK q : q = [o EXCEPT !.deltas = ds, !.now = p]
    OBVIOUS
  <2>8. q \in Publication /\ q.epoch = o.epoch /\ q.first = o.first /\ q.deltas = ds
        /\ q.now = p
    BY <1>1, <2>6, <2>7 DEF Publication
  <2>9. Publish(st, p) = o \/ Publish(st, p) = q
    BY <1>3, <2>1, <2>2, <2>4, <2>7 DEF Publish, Current, Publication
  <2>10. Len(o.deltas) \in Nat
    BY <2>5
  <2>11. IsPrefix(o.deltas, ds)
    BY <2>5, <2>6, <2>10, PrefixPoints
  <2>12. Follows(o, q)
    BY <2>8, <2>11, Constants DEF Follows
  <2>13. Rebuilt(q)
    BY <1>1, <2>1, <2>2, <2>6, <2>8, ReplayNext
  <2> QED BY <2>1, <2>8, <2>9, <2>12, <2>13, FollowsSelf
<1> QED BY <1>2, <1>3
-----------------------------------------------------------------------------
(* The actions. *)

(* A process that ends or dies leaves everything else as it is. *)
LEMMA Leaves ==
    ASSUME IInv, NEW pc \in Outside, Goto(pc, Fresh),
           status' \in {"running", "completed", "verified", "failed"},
           crashes' \in 0..MaxCrashes, UNCHANGED <<resp, results, ckpt, asked, seen>>
    PROVE  IInv'
<1> USE DEF IInv
<1>1. run' = [pc |-> pc, st |-> Fresh] /\ run'.pc = pc /\ run'.st = Fresh
  BY DEF Goto
<1>2. run'.pc \in Outside /\ run'.pc \in PC
  BY <1>1 DEF Outside, PC
<1>3. run'.pc \notin Asking \cup Answered \cup {"loop"}
  BY <1>2 DEF Outside, Asking, Answered, Judged, Done
<1>4. TypeOK'
  BY <1>1, <1>2, FreshState DEF TypeOK, Process
<1>5. Places' /\ Records' /\ Same' /\ Lost' /\ Accounted' /\ Counters'
  <2>1. Records'
    BY DEF Records, step, Failing
  <2>2. Places'
    BY <1>3 DEF Places, step, Asking, Answered, Judged, Done
  <2>3. Same' /\ Accounted'
    BY <1>2, <1>3 DEF Same, Accounted, step, Asking, Answered, Judged, Done
  <2>4. Counters'
    BY <1>3 DEF Counters, step, Answered, Judged, Done
  <2>5. Lost'
    BY <1>3 DEF Lost, step, Asking
  <2> QED BY <2>1, <2>2, <2>3, <2>4, <2>5
<1>6. UsageExact'
  <2>1. run'.st.tokens = Cardinality(run'.st.accounted)
    BY <1>1, FreshState, FS_EmptySet
  <2> QED BY <2>1 DEF UsageExact
<1>7. Epochs'
  <2>1. Own(run'.st)
    BY <1>1, FreshState DEF Own
  <2> QED BY <1>2, <2>1 DEF Epochs, step
<1> QED BY <1>4, <1>5, <1>6, <1>7

LEMMA Agreeing ==
    ASSUME NEW f, NEW g, NEW st, NEW q, Agree(st, q), NEW n
    PROVE  /\ FailuresUpTo(f, st, n) => FailuresUpTo(f, q, n)
           /\ RepeatsUpTo(g, st, n) => RepeatsUpTo(g, q, n)
           /\ HistoryUpTo(f, st, n) => HistoryUpTo(f, q, n)
           /\ CacheUpTo(st, n) => CacheUpTo(q, n)
BY DEF Agree, FailuresUpTo, RepeatsUpTo, HistoryUpTo, CacheUpTo

LEMMA Prepared ==
    ASSUME IInv, Live, run.pc = "loop", step < MaxSteps, NEW st \in State,
           st = [run.st EXCEPT !.pub = st.pub], Own(st), Follows(run.st.pub, st.pub),
           IF resp[step] = None
           THEN Goto("request", st) /\ ckpt' = PendingSaved(st)
           ELSE Goto("account", st) /\ UNCHANGED ckpt,
           UNCHANGED <<resp, results, status, asked, seen, crashes>>
    PROVE  IInv'
<1> USE DEF IInv
<1>0. TypeOK /\ step \in Step /\ run.st = ckpt.st /\ run.st \in State /\ ckpt.pending = None
  BY StepType DEF Same, Places
<1>1. /\ st.tokens = run.st.tokens /\ st.accounted = run.st.accounted
      /\ st.unknown = run.st.unknown /\ st.epoch = run.st.epoch /\ st.prefix = run.st.prefix
      /\ Agree(run.st, st)
  BY <1>0 DEF State, Agree
<1>2. /\ run'.st = st
      /\ run'.pc = IF resp[step] = None THEN "request" ELSE "account"
      /\ run' \in Process
  BY DEF Goto, Process, PC
<1>3. /\ ckpt' \in Checkpoint /\ ckpt'.next = ckpt.next
      /\ ckpt'.pending = IF resp[step] = None THEN step ELSE None
      /\ ckpt'.st = IF resp[step] = None THEN st ELSE ckpt.st
  <2>1. PICK c : c = [ckpt EXCEPT !.pending = step, !.st = st]
    OBVIOUS
  <2>2. c \in Checkpoint /\ c.next = ckpt.next /\ c.pending = step /\ c.st = st
    BY <1>0, <2>1 DEF TypeOK, Checkpoint
  <2>3. CASE resp[step] = None
    BY <2>1, <2>2, <2>3 DEF PendingSaved
  <2>4. CASE resp[step] # None
    BY <1>0, <2>4 DEF TypeOK
  <2> QED BY <2>3, <2>4
<1>4. step' = step
  BY <1>3 DEF step
<1>5. TypeOK'
  BY <1>2, <1>3 DEF TypeOK
<1>6. Places'
  BY <1>0, <1>2, <1>3, <1>4 DEF Places, Asking, Answered, Judged, Done
<1>7. Records'
  BY <1>4 DEF Records, Failing
<1>8. Same'
  BY <1>0, <1>1, <1>2, <1>3 DEF Same, Asking, Outside, Agree
<1>9. Accounted'
  BY <1>0, <1>1, <1>2, <1>3, <1>4 DEF Accounted, Judged, Done
<1>10. UsageExact'
  <2>1. /\ ckpt'.st.tokens = ckpt.st.tokens /\ ckpt'.st.accounted = ckpt.st.accounted
        /\ ckpt'.st.unknown = ckpt.st.unknown
    BY <1>0, <1>1, <1>3
  <2>2. None \notin Step
    BY Constants
  <2> QED BY <1>0, <1>1, <1>2, <1>3, <2>1, <2>2 DEF UsageExact
<1>11. Counters'
  <2>1. \/ ckpt'.st = ckpt.st
        \/ ckpt'.st = st
    BY <1>3
  <2>2. /\ FailuresUpTo(results, ckpt'.st, step) /\ RepeatsUpTo(resp, ckpt'.st, step)
        /\ HistoryUpTo(results, ckpt'.st, step) /\ CacheUpTo(ckpt'.st, step)
    BY <1>0, <1>1, <2>1, Agreeing DEF Counters
  <2> QED BY <1>2, <1>4, <2>2 DEF Counters, Judged, Done
<1>12. Epochs'
  <2>1. /\ Own(ckpt'.st) /\ ckpt'.st.epoch = ckpt.st.epoch /\ ckpt'.st.prefix = ckpt.st.prefix
        /\ Follows(ckpt.st.pub, ckpt'.st.pub) /\ Follows(ckpt'.st.pub, st.pub)
    <3>1. st.pub \in Publication \cup {None} /\ ckpt.st.pub \in Publication \cup {None}
      BY <1>0 DEF State
    <3>2. Follows(st.pub, st.pub) /\ Follows(ckpt.st.pub, ckpt.st.pub)
      BY <3>1, FollowsSelf
    <3> QED BY <1>0, <1>1, <1>3, <3>2 DEF Epochs
  <2>2. SameEpoch(run.st)'
    BY <1>0, <1>1, <1>2, <2>1 DEF SameEpoch
  <2>3. ASSUME NEW e \in DOMAIN seen, e = ckpt.st.epoch
        PROVE  Follows(seen[e].pub, ckpt'.st.pub)
    <3>1. seen[e].pub \in Publication \cup {None} /\ ckpt.st.pub \in Publication \cup {None}
          /\ ckpt'.st.pub \in Publication \cup {None}
      BY <1>0, <1>3, <2>3 DEF State, TypeOK, Request
    <3>2. Follows(seen[e].pub, ckpt.st.pub)
      BY <2>3 DEF Epochs
    <3> QED BY <2>1, <3>1, <3>2, FollowsAll
  <2> QED BY <1>2, <1>4, <2>1, <2>2, <2>3 DEF Epochs
<1>13. Lost'
  <2>1. ckpt'.st.unknown = ckpt.st.unknown
    BY <1>0, <1>1, <1>3
  <2>2. resp[step] = None /\ asked[step] > 0 => step \in ckpt.st.unknown
    BY <1>0, Constants DEF UsageExact
  <2> QED BY <1>2, <1>4, <2>1, <2>2 DEF Lost
<1> QED BY <1>5, <1>6, <1>7, <1>8, <1>9, <1>10, <1>11, <1>12, <1>13

LEMMA PrepareKeeps ==
    ASSUME IInv, NEW projection \in Projection \cup {None}, Prepare(projection)
    PROVE  IInv'
<1>1. CASE projection # None /\ TooLarge(run.st, projection)
  <2>1. status' = "failed" /\ Goto("ended", Fresh) /\ UNCHANGED <<resp, results, ckpt, asked, seen>>
        /\ crashes' = crashes
    BY <1>1 DEF Prepare, End
  <2>2. "ended" \in Outside /\ crashes' \in 0..MaxCrashes
    BY <2>1 DEF Outside, IInv, TypeOK
  <2> QED BY <2>1, <2>2, Leaves
<1>2. CASE ~(projection # None /\ TooLarge(run.st, projection))
  <2>1. PICK st : st = IF projection = None THEN run.st
                       ELSE [run.st EXCEPT !.pub = Publish(run.st, projection)]
    OBVIOUS
  <2>2. run.st \in State /\ Own(run.st)
    BY StepType DEF IInv, Epochs
  <2>3. st \in State /\ st = [run.st EXCEPT !.pub = st.pub] /\ Own(st) /\ Follows(run.st.pub, st.pub)
    <3>1. CASE projection = None
      <4>1. run.st.pub \in Publication \cup {None} /\ run.st = [run.st EXCEPT !.pub = run.st.pub]
        BY <2>2 DEF State
      <4> QED BY <2>1, <2>2, <3>1, <4>1, FollowsSelf
    <3>2. CASE projection # None
      <4>1. PICK p : p = Publish(run.st, projection)
        OBVIOUS
      <4>2. p \in Publication /\ p.epoch = run.st.epoch /\ Follows(run.st.pub, p) /\ Rebuilt(p)
        BY <2>2, <3>2, <4>1, PublishFollows
      <4>3. st = [run.st EXCEPT !.pub = p]
        BY <2>1, <3>2, <4>1
      <4>4. st \in State /\ st.pub = p /\ st.epoch = run.st.epoch
        BY <2>2, <4>2, <4>3 DEF State
      <4> QED BY <4>2, <4>3, <4>4 DEF Own
    <3> QED BY <3>1, <3>2
  <2>4. /\ Live /\ run.pc = "loop" /\ step < MaxSteps
        /\ IF resp[step] = None
           THEN Goto("request", st) /\ ckpt' = PendingSaved(st)
           ELSE Goto("account", st) /\ UNCHANGED ckpt
        /\ UNCHANGED <<resp, results, status, asked, seen, crashes>>
    BY <1>2, <2>1 DEF Prepare
  <2> QED BY <2>3, <2>4, Prepared
<1> QED BY <1>1, <1>2

LEMMA SendKeeps ==
    ASSUME IInv, Send
    PROVE  IInv'
<1> USE DEF IInv
<1>0. /\ TypeOK /\ run.pc = "request" /\ step \in Step /\ run.st = ckpt.st /\ run.st \in State
      /\ ckpt.pending = step /\ resp[step] = None
  BY StepType DEF Send, Same, Places, Asking
<1>1. run'.st = run.st /\ run'.pc = "waiting" /\ run' \in Process
  BY <1>0 DEF Send, Goto, Process, PC
<1>2. UNCHANGED <<resp, results, ckpt, status, crashes>> /\ step' = step
  BY DEF Send, step
<1>3. /\ asked' \in [Step -> Nat] /\ asked'[step] = asked[step] + 1
      /\ \A s \in Step : s # step => asked'[s] = asked[s]
  BY <1>0 DEF Send, TypeOK
<1>4. /\ DOMAIN seen' = DOMAIN seen \cup {ckpt.st.epoch}
      /\ seen'[ckpt.st.epoch].prefix = ckpt.st.prefix /\ seen'[ckpt.st.epoch].pub = ckpt.st.pub
      /\ seen'[ckpt.st.epoch] \in Request
      /\ \A e \in DOMAIN seen : e # ckpt.st.epoch => seen'[e] = seen[e]
  <2>1. PICK q : q = [prefix |-> run.st.prefix, pub |-> run.st.pub]
    OBVIOUS
  <2>2. q \in Request /\ q.prefix = run.st.prefix /\ q.pub = run.st.pub
    BY <1>0, <2>1 DEF State, Request
  <2>3. seen' = [e \in DOMAIN seen \cup {run.st.epoch} |-> IF e = run.st.epoch THEN q ELSE seen[e]]
    BY <2>1 DEF Send
  <2> QED BY <1>0, <2>2, <2>3
<1>5. TypeOK'
  <2>1. ckpt.st.epoch \in 0..MaxSteps
    BY <1>0 DEF State
  <2>2. DOMAIN seen' \subseteq 0..MaxSteps /\ \A e \in DOMAIN seen' : seen'[e] \in Request
    BY <1>4, <2>1 DEF TypeOK
  <2> QED BY <1>1, <1>2, <1>3, <2>2 DEF TypeOK
<1>6. Places'
  BY <1>0, <1>1, <1>2 DEF Places, Asking, Answered, Judged, Done
<1>7. Records'
  BY <1>2 DEF Records, Failing
<1>8. Same'
  BY <1>0, <1>1, <1>2 DEF Same, Asking, Outside
<1>9. Accounted'
  BY <1>1, <1>2 DEF Accounted, Judged, Done
<1>10. UsageExact'
  BY <1>0, <1>1, <1>2, <1>3 DEF UsageExact
<1>11. Counters'
  BY <1>1, <1>2 DEF Counters, Judged, Done
<1>12. Epochs'
  <2>1. SameEpoch(run.st)' /\ Own(ckpt'.st) /\ Own(run'.st) /\ Follows(ckpt.st.pub, ckpt.st.pub)
    <3>1. ckpt.st.pub \in Publication \cup {None}
      BY <1>0 DEF State
    <3> QED BY <1>0, <1>1, <1>2, <3>1, FollowsSelf DEF Epochs, SameEpoch
  <2>2. ckpt.st.epoch \in Nat
    BY <1>0, Constants DEF State
  <2>3. ASSUME NEW e \in DOMAIN seen'
        PROVE  /\ e <= ckpt.st.epoch
               /\ e = ckpt.st.epoch =>
                      seen'[e].prefix = ckpt.st.prefix /\ Follows(seen'[e].pub, ckpt.st.pub)
    <3>1. CASE e = ckpt.st.epoch
      BY <1>4, <2>1, <2>2, <3>1
    <3>2. CASE e # ckpt.st.epoch
      BY <1>4, <3>2 DEF Epochs
    <3> QED BY <3>1, <3>2
  <2> QED BY <1>1, <1>2, <2>1, <2>3 DEF Epochs
<1>13. Lost'
  <2>1. asked[step] \in Nat
    BY <1>0 DEF TypeOK
  <2>2. asked'[step] > 1 => step \in ckpt.st.unknown
    BY <1>0, <1>3, <2>1 DEF Lost
  <2>3. \A s \in Step : resp[s] # None /\ asked'[s] > 1 => s \in ckpt.st.unknown
    BY <1>0, <1>3 DEF Lost
  <2> QED BY <1>1, <1>2, <2>2, <2>3 DEF Lost
<1> QED BY <1>5, <1>6, <1>7, <1>8, <1>9, <1>10, <1>11, <1>12, <1>13

LEMMA AnswerKeeps ==
    ASSUME IInv, NEW call \in Call \cup {"final", "empty"}, Answer(call)
    PROVE  IInv'
<1> USE DEF IInv
<1>0. /\ TypeOK /\ run.pc = "waiting" /\ step \in Step /\ run.st = ckpt.st /\ run.st \in State
      /\ ckpt.pending = step /\ resp[step] = None
  BY StepType DEF Answer, Same, Places, Asking
<1>1. run'.st = run.st /\ run'.pc = "clear" /\ run' \in Process
  BY <1>0 DEF Answer, Goto, Process, PC
<1>2. UNCHANGED <<results, ckpt, status, asked, seen, crashes>> /\ step' = step
  BY DEF Answer, step
<1>3. /\ resp' \in [Step -> Response \cup {None}] /\ resp'[step] # None
      /\ \A s \in Step : s # step => resp'[s] = resp[s]
  <2>1. PICK d \in BOOLEAN : d = Denied(run.st, call)
    BY DEF Denied
  <2>2. PICK r : r = [call |-> call, denied |-> d]
    OBVIOUS
  <2>3. r \in Response /\ r # None
    BY <2>2, Constants DEF Response
  <2>4. resp' = [resp EXCEPT ![step] = r]
    BY <2>1, <2>2 DEF Answer
  <2> QED BY <1>0, <2>3, <2>4 DEF TypeOK
<1>4. results[step] = None
  BY <1>0 DEF Records
<1>5. TypeOK'
  BY <1>1, <1>2, <1>3 DEF TypeOK
<1>6. Places'
  BY <1>0, <1>1, <1>2, <1>3 DEF Places, Asking, Answered, Judged, Done
<1>7. Records'
  BY <1>0, <1>2, <1>3, <1>4 DEF Records, Failing
<1>8. Same'
  BY <1>0, <1>1, <1>2 DEF Same, Asking, Outside
<1>9. Accounted'
  BY <1>0, <1>1, <1>2 DEF Accounted, Judged, Done
<1>10. UsageExact'
  BY <1>0, <1>1, <1>2, <1>3 DEF UsageExact
<1>11. Counters'
  <2>1. \A s \in 0..(step - 1) : resp[s] = resp'[s]
    BY <1>0, <1>3, Constants DEF Step
  <2>2. step \in Nat
    BY StepType
  <2>3. RepeatsUpTo(resp', ckpt.st, step)
    BY <2>1, <2>2, CountersKept DEF Counters
  <2> QED BY <1>1, <1>2, <2>3 DEF Counters, Judged, Done
<1>12. Epochs'
  <2>1. SameEpoch(run.st)'
    BY <1>0, <1>1, <1>2 DEF Epochs, SameEpoch, Outside
  <2> QED BY <1>0, <1>1, <1>2, <2>1 DEF Epochs
<1>13. Lost'
  BY <1>0, <1>1, <1>2, <1>3 DEF Lost
<1> QED BY <1>5, <1>6, <1>7, <1>8, <1>9, <1>10, <1>11, <1>12, <1>13

LEMMA ClearPendingKeeps ==
    ASSUME IInv, ClearPending
    PROVE  IInv'
<1> USE DEF IInv
<1>0. /\ TypeOK /\ run.pc = "clear" /\ step \in Step /\ run.st = ckpt.st /\ run.st \in State
      /\ ckpt.pending = step /\ resp[step] # None
  BY StepType DEF ClearPending, Same, Places, Asking, Answered
<1>1. run'.st = run.st /\ run'.pc = "account" /\ run' \in Process
  BY <1>0 DEF ClearPending, Goto, Process, PC
<1>2. UNCHANGED <<resp, results, status, asked, seen, crashes>>
  BY DEF ClearPending
<1>3. ckpt' \in Checkpoint /\ ckpt'.next = ckpt.next /\ ckpt'.pending = None /\ ckpt'.st = ckpt.st
  BY <1>0 DEF ClearPending, TypeOK, Checkpoint
<1>4. step' = step
  BY <1>3 DEF step
<1>5. TypeOK'
  BY <1>1, <1>2, <1>3 DEF TypeOK
<1>6. Places'
  BY <1>0, <1>1, <1>2, <1>3, <1>4 DEF Places, Asking, Answered, Judged, Done
<1>7. Records'
  BY <1>2, <1>4 DEF Records, Failing
<1>8. Same'
  BY <1>0, <1>1, <1>3 DEF Same, Asking, Outside, Agree
<1>9. Accounted'
  BY <1>0, <1>1, <1>2, <1>3, <1>4 DEF Accounted, Judged, Done
<1>10. UsageExact'
  <2>1. ASSUME NEW s \in Step, asked[s] > (IF resp[s] = None THEN 0 ELSE 1)
        PROVE  s \in ckpt.st.unknown
    <3>1. CASE s = step
      BY <1>0, <2>1, <3>1 DEF Lost
    <3>2. CASE s # step
      BY <1>0, <2>1, <3>2 DEF UsageExact
    <3> QED BY <3>1, <3>2
  <2> QED BY <1>0, <1>1, <1>2, <1>3, <2>1 DEF UsageExact
<1>11. Counters'
  BY <1>1, <1>2, <1>3, <1>4 DEF Counters, Judged, Done
<1>12. Epochs'
  <2>1. SameEpoch(run.st)'
    BY <1>0, <1>1, <1>3 DEF Epochs, SameEpoch, Outside
  <2> QED BY <1>0, <1>1, <1>2, <1>3, <1>4, <2>1 DEF Epochs
<1>13. Lost'
  BY <1>0, <1>1, <1>2, <1>3, <1>4 DEF Lost
<1> QED BY <1>5, <1>6, <1>7, <1>8, <1>9, <1>10, <1>11, <1>12, <1>13

LEMMA AccountKeeps ==
    ASSUME IInv, Account
    PROVE  IInv'
<1> USE DEF IInv
<1>0. /\ TypeOK /\ run.pc = "account" /\ step \in Step /\ run.st \in State /\ ckpt.st \in State
      /\ ckpt.pending = None /\ resp[step] # None /\ Agree(ckpt.st, run.st)
      /\ run.st.tokens = ckpt.st.tokens /\ run.st.accounted = ckpt.st.accounted
      /\ run.st.unknown = ckpt.st.unknown
  BY StepType DEF Account, Same, Places, Asking, Answered, Outside
<1>1. PICK st : st = Counted(run.st)
  OBVIOUS
<1>2. /\ st \in State /\ Agree(run.st, st) /\ st.unknown = run.st.unknown /\ st.pub = run.st.pub
      /\ st.epoch = run.st.epoch /\ st.prefix = run.st.prefix
      /\ st.accounted = 0..step /\ st.tokens = Cardinality(st.accounted)
  <2>1. step \in Nat /\ step - 1 \in Int
    BY <1>0, Constants DEF Step
  <2>2. run.st.tokens = Cardinality(run.st.accounted)
    BY DEF UsageExact
  <2>3. CASE run.st.accounted = 0..step
    BY <1>0, <1>1, <2>1, <2>2, <2>3 DEF Counted, Agree
  <2>4. CASE run.st.accounted = 0..(step - 1)
    <3>1. step \notin run.st.accounted
      BY <2>1, <2>4
    <3>2. PICK a : a = run.st.accounted \cup {step}
      OBVIOUS
    <3>3. a = 0..step /\ a \subseteq Step
      <4>1. a = 0..step
        BY <2>1, <2>4, <3>2
      <4> QED BY <1>0, <2>1, <4>1, Constants DEF Step
    <3>4. Cardinality(a) = Cardinality(run.st.accounted) + 1
      <4>1. IsFiniteSet(run.st.accounted)
        BY <2>1, <2>4, FS_Interval
      <4> QED BY <3>1, <3>2, <4>1, FS_AddElement
    <3>5. st = [run.st EXCEPT !.tokens = run.st.tokens + 1, !.accounted = a]
      BY <1>1, <3>1, <3>2 DEF Counted
    <3>6. /\ st \in State /\ st.tokens = run.st.tokens + 1 /\ st.accounted = a
          /\ st.unknown = run.st.unknown /\ st.pub = run.st.pub
          /\ st.epoch = run.st.epoch /\ st.prefix = run.st.prefix
      <4>1. PICK n : n = run.st.tokens + 1
        OBVIOUS
      <4>2. n \in Nat
        <5>1. run.st.tokens \in Nat
          BY <1>0 DEF State
        <5> QED BY <4>1, <5>1
      <4>3. st = [run.st EXCEPT !.tokens = n, !.accounted = a]
        BY <3>5, <4>1
      <4>4. run.st \in State /\ a \in SUBSET Step
        BY <1>0, <3>3
      <4>5. /\ st \in State /\ st.tokens = n /\ st.accounted = a
            /\ st.unknown = run.st.unknown /\ st.pub = run.st.pub
            /\ st.epoch = run.st.epoch /\ st.prefix = run.st.prefix
        BY <4>2, <4>3, <4>4 DEF State
      <4> QED BY <4>1, <4>5
    <3>7. Agree(run.st, st)
      BY <1>0, <3>5 DEF State, Agree
    <3> QED BY <2>2, <3>3, <3>4, <3>6, <3>7
  <2> QED BY <1>0, <2>3, <2>4 DEF Accounted
<1>3. run'.st = st /\ run'.pc = "judge" /\ run' \in Process
  BY <1>1, <1>2 DEF Account, Goto, Process, PC
<1>4. UNCHANGED <<resp, results, status, asked, seen, crashes>>
  BY DEF Account
<1>5. /\ ckpt' \in Checkpoint /\ ckpt'.next = ckpt.next /\ ckpt'.pending = None
      /\ ckpt'.st \in State /\ Agree(ckpt.st, ckpt'.st) /\ ckpt'.st.unknown = ckpt.st.unknown
      /\ ckpt'.st.pub = ckpt.st.pub /\ ckpt'.st.epoch = ckpt.st.epoch
      /\ ckpt'.st.prefix = ckpt.st.prefix
      /\ ckpt'.st.accounted = st.accounted /\ ckpt'.st.tokens = st.tokens
  <2>1. PICK q : q = [ckpt.st EXCEPT !.tokens = st.tokens, !.accounted = st.accounted]
    OBVIOUS
  <2>2. /\ q \in State /\ q.unknown = ckpt.st.unknown
        /\ q.pub = ckpt.st.pub /\ q.epoch = ckpt.st.epoch /\ q.prefix = ckpt.st.prefix
        /\ q.accounted = st.accounted /\ q.tokens = st.tokens
    BY <1>0, <1>2, <2>1, ZenonT(60) DEF State
  <2>3. Agree(ckpt.st, q)
    BY <1>0, <2>1 DEF State, Agree
  <2>4. ckpt' = [ckpt EXCEPT !.st = q]
    BY <1>0, <1>1, <2>1 DEF Account, TypeOK, Checkpoint, State
  <2>5. ckpt' \in Checkpoint /\ ckpt'.next = ckpt.next /\ ckpt'.pending = ckpt.pending /\ ckpt'.st = q
    BY <1>0, <2>2, <2>4 DEF TypeOK, Checkpoint
  <2> QED BY <1>0, <2>2, <2>3, <2>5
<1>6. step' = step
  BY <1>5 DEF step
<1>7. TypeOK'
  BY <1>3, <1>4, <1>5 DEF TypeOK
<1>8. Places'
  BY <1>0, <1>3, <1>4, <1>5, <1>6 DEF Places, Asking, Answered, Judged, Done
<1>9. Records'
  BY <1>4, <1>6 DEF Records, Failing
<1>10. Same'
  <2>1. Agree(ckpt'.st, run'.st)
    BY <1>0, <1>2, <1>3, <1>5 DEF Agree
  <2> QED BY <1>0, <1>2, <1>3, <1>5, <2>1 DEF Same, Asking, Outside
<1>11. Accounted'
  <2>1. step < MaxSteps
    BY <1>0, Constants DEF Step
  <2> QED BY <1>0, <1>2, <1>3, <1>4, <1>5, <1>6, <2>1 DEF Accounted, Judged, Done
<1>12. UsageExact'
  <2>1. 0..(ckpt'.next - 1) \subseteq ckpt'.st.accounted
    BY <1>0, <1>2, <1>5, Constants DEF step, Step
  <2>2. \A s \in Step : asked[s] > (IF resp[s] = None THEN 0 ELSE 1)
                           => s \in ckpt'.st.unknown \cup {ckpt'.pending}
    BY <1>0, <1>5 DEF UsageExact
  <2> QED BY <1>2, <1>3, <1>4, <1>5, <2>1, <2>2 DEF UsageExact
<1>13. Counters'
  <2>1. /\ FailuresUpTo(results, ckpt'.st, step) /\ RepeatsUpTo(resp, ckpt'.st, step)
        /\ HistoryUpTo(results, ckpt'.st, step) /\ CacheUpTo(ckpt'.st, step)
    BY <1>5, Agreeing DEF Counters
  <2> QED BY <1>3, <1>4, <1>6, <2>1 DEF Counters, Judged, Done
<1>14. Epochs'
  <2>1. SameEpoch(run.st)'
    <3>1. SameEpoch(run.st)
      BY <1>0 DEF Epochs, Outside
    <3> QED BY <1>2, <1>3, <1>5, <3>1 DEF SameEpoch
  <2>2. Own(ckpt'.st) /\ Own(run'.st)
    BY <1>2, <1>3, <1>5 DEF Epochs, Own
  <2> QED BY <1>3, <1>4, <1>5, <1>6, <2>1, <2>2 DEF Epochs
<1>15. Lost'
  BY <1>3, <1>4, <1>5, <1>6 DEF Lost
<1> QED BY <1>7, <1>8, <1>9, <1>10, <1>11, <1>12, <1>13, <1>14, <1>15

LEMMA Ends ==
    ASSUME IInv, NEW outcome \in {"completed", "verified", "failed"}, End(outcome),
           UNCHANGED <<resp, results, ckpt, asked, seen, crashes>>
    PROVE  IInv'
<1>1. "ended" \in Outside /\ Goto("ended", Fresh) /\ status' = outcome
  BY DEF Outside, End
<1>2. crashes' \in 0..MaxCrashes
  BY DEF IInv, TypeOK
<1> QED BY <1>1, <1>2, Leaves

(* Between the accounting of a response and the end of its step only the   *)
(* process changes.                                                        *)
LEMMA Moves ==
    ASSUME IInv, NEW pc \in Judged, NEW st \in State, Goto(pc, st),
           run.pc \in {"judge"} \cup Judged,
           resp[step].call \in Call, pc \in Done => results[step] # None,
           st.tokens = run.st.tokens, st.accounted = run.st.accounted, st.unknown = run.st.unknown,
           pc \in {"tool", "observe"} => FailuresUpTo(results, st, step),
           pc \in {"compress", "save"} => FailuresUpTo(results, st, step + 1),
           pc = "tool" => HistoryUpTo(results, st, step),
           pc \in Done => HistoryUpTo(results, st, step + 1),
           RepeatsUpTo(resp, st, step + 1), CacheUpTo(st, step + 1),
           Own(st), SameEpoch(st) \/ (pc = "save" /\ st.epoch = ckpt.st.epoch + 1),
           UNCHANGED <<resp, results, ckpt, status, asked, seen, crashes>>
    PROVE  IInv'
<1> USE DEF IInv
<1>1. run'.st = st /\ run'.pc = pc /\ run' \in Process
  BY DEF Goto, Process, PC, Judged, Done
<1>2. step' = step
  BY DEF step
<1>3. TypeOK'
  BY <1>1 DEF TypeOK
<1>4. run'.pc \notin Asking \cup {"loop", "clear", "account", "judge"} \cup Outside
  BY <1>1 DEF Judged, Done, Asking, Outside
<1>5. Places'
  <2>1. step < MaxSteps /\ ckpt.pending = None /\ resp[step] # None
    BY DEF Places, Answered, Judged
  <2> QED BY <1>1, <1>2, <1>4, <2>1 DEF Places
<1>6. Records'
  BY <1>2 DEF Records, Failing
<1>7. Same'
  BY <1>1, <1>4 DEF Same, Judged, Done, Outside
<1>8. Accounted'
  BY <1>2 DEF Accounted
<1>9. UsageExact'
  BY <1>1 DEF UsageExact
<1>10. Counters'
  BY <1>1, <1>2 DEF Counters
<1>11. Epochs'
  <2>1. SameEpoch(st) => SameEpoch(run.st)'
    BY <1>1 DEF SameEpoch
  <2> QED BY <1>1, <1>2, <2>1 DEF Epochs
<1>12. Lost'
  BY <1>1, <1>2, <1>4 DEF Lost, Asking
<1> QED BY <1>3, <1>5, <1>6, <1>7, <1>8, <1>9, <1>10, <1>11, <1>12

LEMMA JudgeKeeps ==
    ASSUME IInv, Judge
    PROVE  IInv'
<1>0. /\ TypeOK /\ run.pc = "judge" /\ step \in Step /\ run.st \in State /\ resp[step] \in Response
      /\ Agree(ckpt.st, run.st) /\ step \in Nat
  BY StepType DEF IInv, Judge, Same, Places, Answered, TypeOK
<1>1. PICK r : r = resp[step]
  OBVIOUS
<1>2. PICK repeats : repeats = IF r.call = run.st.prev THEN run.st.repeats + 1 ELSE 1
  OBVIOUS
<1>3. UNCHANGED <<resp, results, ckpt, asked, seen, crashes>>
  BY DEF Judge
<1>4. CASE \E outcome \in {"completed", "verified", "failed"} : End(outcome)
  BY <1>3, <1>4, Ends
<1>5. CASE /\ r.call # "empty" /\ r.call # "final"
           /\ Goto("tool", [[run.st EXCEPT !.cache = @ + 1] EXCEPT !.prev = r.call, !.repeats = repeats])
           /\ UNCHANGED status
  <2>1. PICK c : c = run.st.cache + 1
    OBVIOUS
  <2>2. r.call \in Call /\ repeats \in Nat /\ c \in Nat
    <3>1. run.st.repeats \in Nat /\ run.st.cache \in Nat
      BY <1>0 DEF State
    <3>2. r.call \in Call
      BY <1>0, <1>1, <1>5 DEF Response
    <3> QED BY <1>2, <2>1, <3>1, <3>2
  <2>3. PICK st : st = [run.st EXCEPT !.cache = c, !.prev = r.call, !.repeats = repeats]
    OBVIOUS
  <2>4. st \in State /\ st.cache = c /\ st.prev = r.call /\ st.repeats = repeats
    BY <1>0, <2>2, <2>3 DEF State
  <2>5. Goto("tool", st)
    BY <1>0, <1>5, <2>1, <2>3 DEF State
  <2>6. /\ st.tokens = run.st.tokens /\ st.accounted = run.st.accounted
        /\ st.unknown = run.st.unknown /\ st.squeezed = run.st.squeezed
        /\ st.failures = run.st.failures /\ st.errors = run.st.errors
        /\ st.history = run.st.history
        /\ st.epoch = run.st.epoch /\ st.prefix = run.st.prefix /\ st.pub = run.st.pub
    BY <1>0, <2>3 DEF State
  <2>7. /\ FailuresUpTo(results, run.st, step) /\ RepeatsUpTo(resp, run.st, step)
        /\ HistoryUpTo(results, run.st, step) /\ CacheUpTo(run.st, step)
    BY <1>0, Agreeing DEF IInv, Counters
  <2>8. FailuresUpTo(results, st, step) /\ HistoryUpTo(results, st, step)
    BY <2>6, <2>7 DEF FailuresUpTo, HistoryUpTo
  <2>9. RepeatsUpTo(resp, st, step + 1)
    BY <1>0, <1>1, <1>2, <2>4, <2>7, RepeatsNext
  <2>10. CacheUpTo(st, step + 1)
    <3>1. run.st.squeezed \in Nat
      BY <1>0 DEF State
    <3> QED BY <1>0, <2>1, <2>4, <2>6, <2>7, <3>1 DEF CacheUpTo
  <2>11. Own(st) /\ SameEpoch(st)
    <3>1. SameEpoch(run.st) /\ Own(run.st)
      BY <1>0 DEF IInv, Epochs, Outside
    <3> QED BY <2>6, <3>1 DEF Own, SameEpoch
  <2>12. "tool" \in Judged /\ "tool" \notin Done
    BY DEF Judged, Done
  <2> QED BY <1>0, <1>1, <1>3, <1>5, <2>2, <2>4, <2>5, <2>6, <2>8, <2>9, <2>10, <2>11, <2>12, Moves
<1> QED BY <1>1, <1>2, <1>4, <1>5 DEF Judge

LEMMA ReplayKeeps ==
    ASSUME IInv, ReplayResult
    PROVE  IInv'
<1>0. /\ TypeOK /\ run.pc = "tool" /\ step \in Step /\ run.st \in State /\ results[step] \in Result
      /\ step \in Nat /\ resp[step].call \in Call /\ results[step] # None
      /\ HistoryUpTo(results, run.st, step) /\ FailuresUpTo(results, run.st, step)
      /\ RepeatsUpTo(resp, run.st, step + 1) /\ CacheUpTo(run.st, step + 1)
  BY StepType DEF IInv, ReplayResult, Places, Answered, Judged, TypeOK, Counters
<1>1. PICK r : r = results[step]
  OBVIOUS
<1>2. PICK b \in BOOLEAN : b = (run.st.replan \/ (r.call \in Gated /\ r.out # "ok"))
  OBVIOUS
<1>3. PICK e : e = [step |-> step, result |-> r]
  OBVIOUS
<1>4. e \notin Range(run.st.history) /\ e \in [step : Step, result : Result]
  <2>1. ASSUME NEW i \in DOMAIN run.st.history PROVE run.st.history[i] # e
    <3>1. i \in 1..step /\ run.st.history[i].step = i - 1
      BY <1>0, <2>1 DEF HistoryUpTo
    <3> QED BY <1>0, <1>3, <3>1
  <2> QED BY <1>0, <1>1, <1>3, <2>1 DEF Range
<1>5. PICK h : h = Append(run.st.history, e)
  OBVIOUS
<1>6. h \in Seq([step : Step, result : Result])
  <2>1. run.st.history \in Seq([step : Step, result : Result])
    BY <1>0 DEF State
  <2> QED BY <1>4, <1>5, <2>1
<1>7. PICK st : st = [run.st EXCEPT !.replan = b, !.history = h]
  OBVIOUS
<1>8. st \in State /\ st.history = h
  BY <1>0, <1>6, <1>7 DEF State
<1>9. Goto("observe", st)
  BY <1>0, <1>1, <1>2, <1>3, <1>4, <1>5, <1>7 DEF ReplayResult, Replayed, Entry, State
<1>10. /\ st.tokens = run.st.tokens /\ st.accounted = run.st.accounted
       /\ st.unknown = run.st.unknown /\ st.squeezed = run.st.squeezed /\ st.cache = run.st.cache
       /\ st.failures = run.st.failures /\ st.errors = run.st.errors
       /\ st.prev = run.st.prev /\ st.repeats = run.st.repeats
       /\ st.epoch = run.st.epoch /\ st.prefix = run.st.prefix /\ st.pub = run.st.pub
  BY <1>0, <1>7 DEF State
<1>11. FailuresUpTo(results, st, step) /\ RepeatsUpTo(resp, st, step + 1) /\ CacheUpTo(st, step + 1)
  BY <1>0, <1>10 DEF FailuresUpTo, RepeatsUpTo, CacheUpTo
<1>12. HistoryUpTo(results, st, step + 1)
  BY <1>0, <1>1, <1>3, <1>5, <1>8, HistoryNext
<1>13. Own(st) /\ SameEpoch(st)
  <2>1. SameEpoch(run.st) /\ Own(run.st)
    BY <1>0 DEF IInv, Epochs, Outside
  <2> QED BY <1>10, <2>1 DEF Own, SameEpoch
<1>14. "observe" \in Judged /\ "observe" \in Done /\ "tool" \in Judged
  BY DEF Judged, Done
<1>15. UNCHANGED <<resp, results, ckpt, status, asked, seen, crashes>>
  BY DEF ReplayResult
<1> QED BY <1>0, <1>8, <1>9, <1>10, <1>11, <1>12, <1>13, <1>14, <1>15, Moves

LEMMA ExecuteKeeps ==
    ASSUME IInv, NEW out \in Out, Execute(out)
    PROVE  IInv'
<1>0. /\ TypeOK /\ run.pc = "tool" /\ step \in Step /\ run.st \in State /\ ckpt.st \in State
      /\ results[step] = None /\ resp[step] # None
      /\ step \in Nat /\ resp[step].call \in Call /\ step < MaxSteps /\ ckpt.pending = None
      /\ HistoryUpTo(results, run.st, step) /\ FailuresUpTo(results, run.st, step)
      /\ RepeatsUpTo(resp, run.st, step + 1) /\ CacheUpTo(run.st, step + 1)
  BY StepType DEF IInv, Execute, Places, Answered, Judged, TypeOK, Counters
<1>1. PICK r : r = [call |-> resp[step].call, out |-> out]
  OBVIOUS
<1>2. /\ r \in Result /\ r # None /\ r.call = resp[step].call
      /\ Failing(r) => r \in Failure
  <2>1. r \in Result /\ r # None /\ r.call = resp[step].call /\ r.out = out
    BY <1>0, <1>1, Constants DEF Result
  <2>2. r.call \in PlanCall => out = "ok"
    BY <1>1 DEF Execute
  <2>3. Failing(r) => r.out \in {"denied", "error"} /\ r.call \in {"read_file"} \cup Gated
    BY <1>0, <2>1, <2>2 DEF Failing, Out, Call
  <2> QED BY <1>1, <2>1, <2>3 DEF Failure
<1>3. /\ results' \in [Step -> Result \cup {None}] /\ results'[step] = r
      /\ \A s \in Step : s # step => results'[s] = results[s]
      /\ \A s \in 0..(step - 1) : results[s] = results'[s]
  <2>1. results' = [results EXCEPT ![step] = r]
    BY <1>1 DEF Execute
  <2>2. /\ results' \in [Step -> Result \cup {None}] /\ results'[step] = r
        /\ \A s \in Step : s # step => results'[s] = results[s]
    BY <1>0, <1>2, <2>1 DEF TypeOK
  <2>3. \A s \in 0..(step - 1) : s \in Step /\ s # step
    BY <1>0, Constants DEF Step
  <2> QED BY <2>2, <2>3
<1>4. PICK e \in [step : Step, result : Result] : e = [step |-> step, result |-> r]
  BY <1>0, <1>2
<1>5. PICK h : h = Append(run.st.history, e)
  OBVIOUS
<1>6. h \in Seq([step : Step, result : Result])
  <2>1. run.st.history \in Seq([step : Step, result : Result])
    BY <1>0 DEF State
  <2> QED BY <1>4, <1>5, <2>1
<1>7. PICK p : p = IF r.call \in PlanCall THEN r.call ELSE run.st.plan
  OBVIOUS
<1>8. PICK n : n = IF r.call \in PlanCall /\ run.st.replan THEN run.st.replans + 1 ELSE run.st.replans
  OBVIOUS
<1>9. PICK b \in BOOLEAN : b = (IF r.call \in PlanCall THEN FALSE
                                ELSE run.st.replan \/ (r.call \in Gated /\ r.out # "ok"))
  OBVIOUS
<1>10. p \in PlanCall \cup {None} /\ n \in Nat
  <2>1. run.st.plan \in PlanCall \cup {None} /\ run.st.replans \in Nat
    BY <1>0 DEF State
  <2> QED BY <1>7, <1>8, <2>1
<1>11. PICK st : st = [run.st EXCEPT !.plan = p, !.replans = n, !.replan = b, !.history = h]
  OBVIOUS
<1>12. st \in State /\ st.history = h
  BY <1>0, <1>6, <1>10, <1>11, ZenonT(60) DEF State
<1>13. /\ st.tokens = run.st.tokens /\ st.accounted = run.st.accounted
       /\ st.unknown = run.st.unknown /\ st.squeezed = run.st.squeezed /\ st.cache = run.st.cache
       /\ st.failures = run.st.failures /\ st.errors = run.st.errors
       /\ st.prev = run.st.prev /\ st.repeats = run.st.repeats
       /\ st.epoch = run.st.epoch /\ st.prefix = run.st.prefix /\ st.pub = run.st.pub
  BY <1>0, <1>11 DEF State
<1>14. Goto("observe", st)
  <2>1. st = Executed(run.st, r)
    BY <1>0, <1>4, <1>5, <1>7, <1>8, <1>9, <1>11 DEF Executed, Entry, State
  <2> QED BY <1>1, <2>1 DEF Execute
<1>15. run'.st = st /\ run'.pc = "observe" /\ run' \in Process
  BY <1>12, <1>14 DEF Goto, Process, PC
<1>16. UNCHANGED <<resp, ckpt, status, asked, seen, crashes>> /\ step' = step
  BY DEF Execute, step
<1>17. FailuresUpTo(results', st, step) /\ RepeatsUpTo(resp, st, step + 1) /\ CacheUpTo(st, step + 1)
  <2>1. FailuresUpTo(results', run.st, step)
    BY <1>0, <1>3, CountersKept
  <2> QED BY <1>0, <1>13, <2>1 DEF FailuresUpTo, RepeatsUpTo, CacheUpTo
<1>18. HistoryUpTo(results', st, step + 1)
  <2>1. HistoryUpTo(results', run.st, step)
    BY <1>0, <1>3, CountersKept
  <2>2. /\ results'[step] \in Result
        /\ st.history = Append(run.st.history, [step |-> step, result |-> results'[step]])
    BY <1>2, <1>3, <1>4, <1>5, <1>12
  <2> QED BY <1>0, <2>1, <2>2, HistoryNext
<1>19. TypeOK'
  BY <1>3, <1>15, <1>16 DEF IInv, TypeOK
<1>20. Places'
  BY <1>0, <1>2, <1>3, <1>15, <1>16 DEF IInv, Places, Asking, Answered, Judged, Done
<1>21. Records'
  <2>1. ASSUME NEW s \in Step
        PROVE  /\ s < step => results'[s] # None
               /\ results'[s] # None => /\ resp[s] # None /\ results'[s].call = resp[s].call
                                        /\ Failing(results'[s]) => results'[s] \in Failure
    <3>1. CASE s = step
      BY <1>0, <1>2, <1>3, <3>1
    <3>2. CASE s # step
      BY <1>3, <3>2 DEF IInv, Records
    <3> QED BY <3>1, <3>2
  <2> QED BY <1>16, <2>1 DEF IInv, Records, Failing
<1>22. Same'
  BY <1>0, <1>13, <1>15, <1>16 DEF IInv, Same, Asking, Outside
<1>23. Accounted'
  BY <1>0, <1>15, <1>16 DEF IInv, Accounted, Judged, Done
<1>24. UsageExact'
  BY <1>13, <1>15, <1>16 DEF IInv, UsageExact
<1>25. Counters'
  <2>1. FailuresUpTo(results', ckpt.st, step) /\ HistoryUpTo(results', ckpt.st, step)
        /\ RepeatsUpTo(resp, ckpt.st, step) /\ CacheUpTo(ckpt.st, step)
    BY <1>0, <1>3, CountersKept DEF IInv, Counters
  <2> QED BY <1>15, <1>16, <1>17, <1>18, <2>1 DEF Counters
<1>26. Epochs'
  <2>1. SameEpoch(run.st) /\ Own(run.st)
    BY <1>0 DEF IInv, Epochs, Outside
  <2>2. SameEpoch(run.st)' /\ Own(run'.st)
    BY <1>13, <1>15, <1>16, <2>1 DEF SameEpoch, Own
  <2> QED BY <1>16, <2>2 DEF IInv, Epochs
<1>27. Lost'
  BY <1>15, <1>16 DEF IInv, Lost
<1> QED BY <1>19, <1>20, <1>21, <1>22, <1>23, <1>24, <1>25, <1>26, <1>27 DEF IInv

LEMMA ObserveKeeps ==
    ASSUME IInv, NEW dropped \in BOOLEAN, Observe(dropped)
    PROVE  IInv'
<1>0. /\ TypeOK /\ run.pc = "observe" /\ step \in Step /\ run.st \in State /\ results[step] # None
      /\ step \in Nat /\ resp[step].call \in Call
      /\ Failing(results[step]) => results[step] \in Failure
      /\ HistoryUpTo(results, run.st, step + 1) /\ FailuresUpTo(results, run.st, step)
      /\ RepeatsUpTo(resp, run.st, step + 1) /\ CacheUpTo(run.st, step + 1)
  <2>1. TypeOK /\ run.pc = "observe" /\ step \in Step /\ run.st \in State /\ step \in Nat
    BY StepType DEF IInv, Observe, Places, Answered, Judged, Done
  <2>2. results[step] # None /\ resp[step].call \in Call
    BY <2>1 DEF IInv, Places, Judged, Done
  <2>3. Failing(results[step]) => results[step] \in Failure
    BY <2>1, <2>2 DEF IInv, Records
  <2>4. /\ HistoryUpTo(results, run.st, step + 1) /\ FailuresUpTo(results, run.st, step)
        /\ RepeatsUpTo(resp, run.st, step + 1) /\ CacheUpTo(run.st, step + 1)
    BY <2>1 DEF IInv, Counters, Judged, Done
  <2> QED BY <2>1, <2>2, <2>3, <2>4
<1>1. PICK r : r = results[step]
  OBVIOUS
<1>2. PICK q : q = IF ~Failing(r) THEN run.st
                   ELSE [run.st EXCEPT !.failures = @ + 1, !.errors[r] = @ + 1]
  OBVIOUS
<1>3. UNCHANGED <<resp, results, ckpt, asked, seen, crashes>>
  BY DEF Observe
<1>4. CASE \E outcome \in {"completed", "verified", "failed"} : End(outcome)
  BY <1>3, <1>4, Ends
<1>5. CASE /\ Goto(IF dropped THEN "compress" ELSE "save", [q EXCEPT !.turns = @ + 1])
           /\ UNCHANGED status
  <2>1. /\ q \in State
        /\ q.failures = IF Failing(results[step]) THEN run.st.failures + 1 ELSE run.st.failures
        /\ \A e \in Failure : q.errors[e] = IF results[step] = e THEN run.st.errors[e] + 1
                                            ELSE run.st.errors[e]
        /\ q.tokens = run.st.tokens /\ q.accounted = run.st.accounted
        /\ q.unknown = run.st.unknown /\ q.squeezed = run.st.squeezed /\ q.cache = run.st.cache
        /\ q.prev = run.st.prev /\ q.repeats = run.st.repeats /\ q.history = run.st.history
        /\ q.epoch = run.st.epoch /\ q.prefix = run.st.prefix /\ q.pub = run.st.pub
    <3>1. CASE ~Failing(r)
      <4>1. \A e \in Failure : r # e
        BY <3>1 DEF Failing, Failure
      <4> QED BY <1>0, <1>1, <1>2, <3>1, <4>1
    <3>2. CASE Failing(r)
      <4>1. r \in Failure
        BY <1>0, <1>1, <3>2
      <4>2. run.st.failures \in Nat /\ run.st.errors \in [Failure -> Nat]
        BY <1>0 DEF State
      <4>3. PICK n : n = run.st.failures + 1
        OBVIOUS
      <4>4. PICK m : m = [run.st.errors EXCEPT ![r] = run.st.errors[r] + 1]
        OBVIOUS
      <4>5. /\ n \in Nat /\ m \in [Failure -> Nat]
            /\ \A e \in Failure : m[e] = IF r = e THEN run.st.errors[e] + 1 ELSE run.st.errors[e]
        BY <4>1, <4>2, <4>3, <4>4
      <4>6. q = [run.st EXCEPT !.failures = n, !.errors = m]
        BY <1>0, <1>2, <3>2, <4>3, <4>4 DEF State
      <4>7. /\ q \in State /\ q.failures = n /\ q.errors = m
            /\ q.tokens = run.st.tokens /\ q.accounted = run.st.accounted
            /\ q.unknown = run.st.unknown /\ q.squeezed = run.st.squeezed /\ q.cache = run.st.cache
            /\ q.prev = run.st.prev /\ q.repeats = run.st.repeats /\ q.history = run.st.history
            /\ q.epoch = run.st.epoch /\ q.prefix = run.st.prefix /\ q.pub = run.st.pub
        BY <1>0, <4>5, <4>6 DEF State
      <4> QED BY <1>1, <3>2, <4>3, <4>5, <4>7
    <3> QED BY <3>1, <3>2
  <2>2. PICK t : t = q.turns + 1
    OBVIOUS
  <2>3. t \in Nat
    <3>1. q.turns \in Nat
      BY <2>1 DEF State
    <3> QED BY <2>2, <3>1
  <2>4. PICK st : st = [q EXCEPT !.turns = t]
    OBVIOUS
  <2>5. /\ st \in State /\ st.failures = q.failures /\ st.errors = q.errors
        /\ st.tokens = q.tokens /\ st.accounted = q.accounted
        /\ st.unknown = q.unknown /\ st.squeezed = q.squeezed /\ st.cache = q.cache
        /\ st.prev = q.prev /\ st.repeats = q.repeats /\ st.history = q.history
        /\ st.epoch = q.epoch /\ st.prefix = q.prefix /\ st.pub = q.pub
    BY <2>1, <2>3, <2>4 DEF State
  <2>6. PICK pc : pc = IF dropped THEN "compress" ELSE "save"
    OBVIOUS
  <2>7. Goto(pc, st) /\ pc \in Judged /\ pc \in Done /\ pc \notin {"tool", "observe"}
    BY <1>5, <2>2, <2>4, <2>6 DEF Judged, Done
  <2>8. FailuresUpTo(results, st, step + 1)
    <3>1. FailuresUpTo(results, q, step + 1)
      BY <1>0, <2>1, FailuresNext
    <3> QED BY <2>5, <3>1 DEF FailuresUpTo
  <2>9. HistoryUpTo(results, st, step + 1) /\ RepeatsUpTo(resp, st, step + 1) /\ CacheUpTo(st, step + 1)
    BY <1>0, <2>1, <2>5 DEF HistoryUpTo, RepeatsUpTo, CacheUpTo
  <2>10. Own(st) /\ SameEpoch(st)
    <3>1. SameEpoch(run.st) /\ Own(run.st)
      BY <1>0 DEF IInv, Epochs, Outside
    <3> QED BY <2>1, <2>5, <3>1 DEF Own, SameEpoch
  <2>11. st.tokens = run.st.tokens /\ st.accounted = run.st.accounted /\ st.unknown = run.st.unknown
    BY <2>1, <2>5
  <2>12. run.pc \in {"judge"} \cup Judged
    BY <1>0 DEF Judged, Done
  <2> QED BY <1>0, <1>3, <1>5, <2>5, <2>7, <2>8, <2>9, <2>10, <2>11, <2>12, Moves
<1> QED BY <1>1, <1>2, <1>4, <1>5 DEF Observe

LEMMA CompressKeeps ==
    ASSUME IInv, NEW answer \in Summary \cup {"error", "invalid"}, CompressEpoch(answer)
    PROVE  IInv'
<1>0. /\ TypeOK /\ run.pc = "compress" /\ step \in Step /\ run.st \in State /\ results[step] # None
      /\ step \in Nat /\ resp[step].call \in Call /\ run.pc \in {"judge"} \cup Judged
      /\ HistoryUpTo(results, run.st, step + 1) /\ FailuresUpTo(results, run.st, step + 1)
      /\ RepeatsUpTo(resp, run.st, step + 1) /\ CacheUpTo(run.st, step + 1)
  <2>1. TypeOK /\ run.pc = "compress" /\ step \in Step /\ run.st \in State /\ step \in Nat
    BY StepType DEF IInv, CompressEpoch, Places, Answered, Judged, Done
  <2>2. results[step] # None /\ resp[step].call \in Call /\ run.pc \in {"judge"} \cup Judged
    BY <2>1 DEF IInv, Places, Judged, Done
  <2>3. /\ HistoryUpTo(results, run.st, step + 1) /\ FailuresUpTo(results, run.st, step + 1)
        /\ RepeatsUpTo(resp, run.st, step + 1) /\ CacheUpTo(run.st, step + 1)
    BY <2>1 DEF IInv, Counters, Judged, Done
  <2> QED BY <2>1, <2>2, <2>3
<1>1. SameEpoch(run.st) /\ Own(run.st)
  BY <1>0 DEF IInv, Epochs, Outside
<1>2. PICK q : q = [run.st EXCEPT !.squeezed = @ + 1, !.cache = @ + 1]
  OBVIOUS
<1>3. /\ q \in State /\ q.squeezed = run.st.squeezed + 1 /\ q.cache = run.st.cache + 1
      /\ q.tokens = run.st.tokens /\ q.accounted = run.st.accounted /\ q.unknown = run.st.unknown
      /\ q.failures = run.st.failures /\ q.errors = run.st.errors
      /\ q.prev = run.st.prev /\ q.repeats = run.st.repeats /\ q.history = run.st.history
      /\ q.epoch = run.st.epoch /\ q.prefix = run.st.prefix /\ q.pub = run.st.pub
  <2>1. run.st.squeezed \in Nat /\ run.st.cache \in Nat
    BY <1>0 DEF State
  <2>2. PICK n \in Nat : n = run.st.squeezed + 1
    BY <2>1
  <2>3. PICK m \in Nat : m = run.st.cache + 1
    BY <2>1
  <2>4. q = [run.st EXCEPT !.squeezed = n, !.cache = m]
    BY <1>2, <2>2, <2>3
  <2> QED BY <1>0, <2>2, <2>3, <2>4 DEF State
<1>4. CacheUpTo(q, step + 1)
  <2>1. run.st.squeezed \in Nat
    BY <1>0 DEF State
  <2> QED BY <1>0, <1>3, <2>1 DEF CacheUpTo
<1>5. PICK st : st = IF answer = "error" THEN run.st
                     ELSE IF answer = "invalid" THEN q ELSE RolledOver(q, answer)
  OBVIOUS
<1>6. Goto("save", st) /\ UNCHANGED <<resp, results, ckpt, status, asked, seen, crashes>>
  BY <1>2, <1>5 DEF CompressEpoch
<1>7. /\ st \in State /\ st.tokens = run.st.tokens /\ st.accounted = run.st.accounted
      /\ st.unknown = run.st.unknown
      /\ st.failures = run.st.failures /\ st.errors = run.st.errors
      /\ st.prev = run.st.prev /\ st.repeats = run.st.repeats /\ st.history = run.st.history
      /\ CacheUpTo(st, step + 1) /\ Own(st)
      /\ SameEpoch(st) \/ st.epoch = ckpt.st.epoch + 1
  <2>1. CASE answer = "error"
    BY <1>0, <1>1, <1>5, <2>1
  <2>2. CASE answer # "error" /\ answer = "invalid"
    <3>1. Own(q) /\ SameEpoch(q)
      BY <1>1, <1>3 DEF Own, SameEpoch
    <3> QED BY <1>3, <1>4, <1>5, <2>2, <3>1
  <2>3. CASE answer # "error" /\ answer # "invalid"
    <3>1. PICK n : n = q.epoch + 1
      OBVIOUS
    <3>2. n = ckpt.st.epoch + 1 /\ n \in 0..MaxSteps
      <4>1. ckpt.st.epoch \in 0..MaxSteps /\ ckpt.st.epoch <= step /\ q.epoch = ckpt.st.epoch
        BY <1>0, <1>1, <1>3, StepType DEF IInv, Epochs, SameEpoch, State
      <4> QED BY <1>0, <3>1, <4>1, Constants DEF Step
    <3>3. PICK p : p = Append(q.prefix, answer)
      OBVIOUS
    <3>4. p \in Seq(Summary)
      <4>1. q.prefix \in Seq(Summary) /\ answer \in Summary
        BY <1>3, <2>3 DEF State
      <4> QED BY <3>3, <4>1
    <3>5. st = [q EXCEPT !.epoch = n, !.prefix = p, !.turns = 0, !.pub = None]
      BY <1>5, <2>3, <3>1, <3>3 DEF RolledOver
    <3>6. /\ st \in State /\ st.tokens = q.tokens /\ st.accounted = q.accounted
          /\ st.unknown = q.unknown /\ st.failures = q.failures /\ st.errors = q.errors
          /\ st.prev = q.prev /\ st.repeats = q.repeats /\ st.history = q.history
          /\ st.cache = q.cache /\ st.squeezed = q.squeezed /\ st.pub = None /\ st.epoch = n
      BY <1>3, <3>2, <3>4, <3>5 DEF State
    <3> QED BY <1>3, <1>4, <3>2, <3>6 DEF CacheUpTo, Own
  <2> QED BY <2>1, <2>2, <2>3
<1>8. /\ HistoryUpTo(results, st, step + 1) /\ FailuresUpTo(results, st, step + 1)
      /\ RepeatsUpTo(resp, st, step + 1)
  BY <1>0, <1>7 DEF HistoryUpTo, FailuresUpTo, RepeatsUpTo
<1>9. "save" \in Judged /\ "save" \in Done
  BY DEF Judged, Done
<1> QED BY <1>0, <1>6, <1>7, <1>8, <1>9, Moves

LEMMA SaveKeeps ==
    ASSUME IInv, Save
    PROVE  IInv'
<1>0. /\ TypeOK /\ run.pc = "save" /\ step \in Step /\ run.st \in State /\ ckpt.st \in State
      /\ results[step] # None /\ step \in Nat /\ step < MaxSteps
      /\ HistoryUpTo(results, run.st, step + 1) /\ FailuresUpTo(results, run.st, step + 1)
      /\ RepeatsUpTo(resp, run.st, step + 1) /\ CacheUpTo(run.st, step + 1)
      /\ run.st.unknown = ckpt.st.unknown /\ run.st.accounted = 0..step /\ ckpt.pending = None
  <2>1. /\ TypeOK /\ run.pc = "save" /\ step \in Step /\ run.st \in State /\ ckpt.st \in State
        /\ step \in Nat /\ step < MaxSteps
    BY StepType DEF IInv, Save, Places, Answered, Judged, Done
  <2>2. results[step] # None /\ ckpt.pending = None
    BY <2>1 DEF IInv, Places, Judged, Done
  <2>3. /\ HistoryUpTo(results, run.st, step + 1) /\ FailuresUpTo(results, run.st, step + 1)
        /\ RepeatsUpTo(resp, run.st, step + 1) /\ CacheUpTo(run.st, step + 1)
    BY <2>1 DEF IInv, Counters, Judged, Done
  <2>4. run.st.unknown = ckpt.st.unknown /\ run.st.accounted = 0..step
    BY <2>1 DEF IInv, Same, Accounted, Outside, Judged, Done
  <2> QED BY <2>1, <2>2, <2>3, <2>4
<1>1. run'.st = run.st /\ run'.pc = "loop" /\ run' \in Process
  BY <1>0 DEF Save, Goto, Process, PC
<1>2. UNCHANGED <<resp, results, status, asked, seen, crashes>>
  BY DEF Save
<1>3. /\ ckpt' \in Checkpoint /\ ckpt'.next = step + 1 /\ ckpt'.pending = None /\ ckpt'.st = run.st
      /\ step' = step + 1
  BY <1>0, Constants DEF Save, StepSaved, Checkpoint, step
<1>4. TypeOK'
  BY <1>0, <1>1, <1>2, <1>3 DEF TypeOK
<1>5. Places'
  BY <1>1, <1>2, <1>3 DEF Places, Asking, Answered, Judged, Done
<1>6. Records'
  <2>1. \A s \in Step : (s < step + 1 => s < step \/ s = step) /\ (s > step + 1 => s > step)
    BY <1>0, Constants DEF Step
  <2> QED BY <1>0, <1>2, <1>3, <2>1 DEF IInv, Records, Failing
<1>7. Same'
  BY <1>1, <1>3 DEF Same, Asking, Outside
<1>8. Accounted'
  <2>1. (step + 1) - 1 = step
    BY <1>0
  <2> QED BY <1>0, <1>1, <1>3, <2>1 DEF Accounted, Judged, Done
<1>9. UsageExact'
  <2>1. (step + 1) - 1 = step
    BY <1>0
  <2> QED BY <1>0, <1>1, <1>2, <1>3, <2>1 DEF IInv, UsageExact
<1>10. Counters'
  BY <1>0, <1>1, <1>2, <1>3 DEF Counters, Judged, Done
<1>11. Epochs'
  <2>0. /\ run.st.epoch \in Nat /\ ckpt.st.epoch \in Nat /\ ckpt.st.epoch <= step
        /\ run.st.pub \in Publication \cup {None} /\ ckpt.st.pub \in Publication \cup {None}
    <3>1. /\ run.st.epoch \in 0..MaxSteps /\ ckpt.st.epoch \in 0..MaxSteps
          /\ run.st.pub \in Publication \cup {None} /\ ckpt.st.pub \in Publication \cup {None}
      BY <1>0 DEF State
    <3>2. ckpt.st.epoch <= step
      BY DEF IInv, Epochs
    <3> QED BY <3>1, <3>2, Constants
  <2>1. SameEpoch(run.st)' /\ Own(run'.st) /\ Own(ckpt'.st)
    <3>1. Own(run.st) /\ Follows(run.st.pub, run.st.pub)
      BY <2>0, FollowsSelf DEF IInv, Epochs
    <3> QED BY <1>1, <1>3, <3>1 DEF SameEpoch
  <2>2. run.st.epoch <= step + 1
    BY <1>0, <2>0 DEF IInv, Epochs, Outside, SameEpoch
  <2>3. ASSUME NEW e \in DOMAIN seen
        PROVE  /\ e <= run.st.epoch
               /\ e = run.st.epoch =>
                      seen[e].prefix = run.st.prefix /\ Follows(seen[e].pub, run.st.pub)
    <3>1. e <= ckpt.st.epoch /\ e \in Nat /\ seen[e].pub \in Publication \cup {None}
      BY <1>0, Constants DEF IInv, Epochs, TypeOK, Request
    <3>2. CASE SameEpoch(run.st)
      <4>1. run.st.epoch = ckpt.st.epoch /\ run.st.prefix = ckpt.st.prefix
            /\ Follows(ckpt.st.pub, run.st.pub)
        BY <3>2 DEF SameEpoch
      <4>2. e = ckpt.st.epoch => seen[e].prefix = ckpt.st.prefix /\ Follows(seen[e].pub, ckpt.st.pub)
        BY DEF IInv, Epochs
      <4> QED BY <2>0, <3>1, <4>1, <4>2, FollowsAll
    <3>3. CASE run.st.epoch = ckpt.st.epoch + 1
      BY <2>0, <3>1, <3>3
    <3> QED BY <1>0, <3>2, <3>3 DEF IInv, Epochs, Outside
  <2> QED BY <1>2, <1>3, <2>1, <2>2, <2>3 DEF Epochs
<1>12. Lost'
  BY <1>0, <1>1, <1>2, <1>3 DEF IInv, Lost
<1> QED BY <1>4, <1>5, <1>6, <1>7, <1>8, <1>9, <1>10, <1>11, <1>12 DEF IInv

LEMMA ResumeKeeps ==
    ASSUME IInv, Resume
    PROVE  IInv'
<1>0. TypeOK /\ run.pc = "down" /\ ckpt.st \in State /\ ckpt.pending \in {None, step} /\ step \in Nat
  BY StepType DEF IInv, Resume, Places
<1>1. PICK c : c = Reconciled
  OBVIOUS
<1>2. /\ c \in Checkpoint /\ c.next = ckpt.next /\ c.pending = None /\ c.st \in State
      /\ Agree(ckpt.st, c.st) /\ c.st.tokens = ckpt.st.tokens
      /\ c.st.accounted = ckpt.st.accounted
      /\ c.st.epoch = ckpt.st.epoch /\ c.st.prefix = ckpt.st.prefix /\ c.st.pub = ckpt.st.pub
      /\ ckpt.st.unknown \subseteq c.st.unknown
      /\ ckpt.pending # None /\ resp[ckpt.pending] = None => ckpt.pending \in c.st.unknown
  <2>1. CASE ckpt.pending = None
    <3>1. c = ckpt
      BY <1>1, <2>1 DEF Reconciled
    <3> QED BY <1>0, <2>1, <3>1 DEF TypeOK, Checkpoint, Agree
  <2>2. CASE ckpt.pending # None
    <3>1. PICK u : u = IF resp[ckpt.pending] = None THEN ckpt.st.unknown \cup {ckpt.pending}
                       ELSE ckpt.st.unknown
      OBVIOUS
    <3>2. u \in SUBSET Step
      BY <1>0, <2>2, <3>1 DEF TypeOK, Checkpoint, State
    <3>3. PICK q : q = [ckpt.st EXCEPT !.unknown = u]
      OBVIOUS
    <3>4. /\ q \in State /\ q.unknown = u /\ q.tokens = ckpt.st.tokens
          /\ q.accounted = ckpt.st.accounted
          /\ q.epoch = ckpt.st.epoch /\ q.prefix = ckpt.st.prefix /\ q.pub = ckpt.st.pub
      BY <1>0, <3>2, <3>3 DEF State
    <3>5. Agree(ckpt.st, q)
      BY <1>0, <3>3 DEF State, Agree
    <3>6. c = [ckpt EXCEPT !.pending = None, !.st = q]
      BY <1>0, <1>1, <2>2, <3>1, <3>3 DEF Reconciled, TypeOK, Checkpoint, State
    <3>7. c \in Checkpoint /\ c.next = ckpt.next /\ c.pending = None /\ c.st = q
      BY <1>0, <3>4, <3>6 DEF TypeOK, Checkpoint
    <3> QED BY <2>2, <3>1, <3>4, <3>5, <3>7
  <2> QED BY <2>1, <2>2
<1>3. ckpt' = c /\ run'.st = c.st /\ run'.pc = "loop" /\ run' \in Process /\ step' = step
  BY <1>1, <1>2 DEF Resume, Goto, Process, PC, step
<1>4. UNCHANGED <<resp, results, status, asked, seen, crashes>>
  BY DEF Resume
<1>5. TypeOK'
  BY <1>2, <1>3, <1>4 DEF IInv, TypeOK
<1>6. Places'
  BY <1>2, <1>3, <1>4 DEF Places, Asking, Answered, Judged, Done
<1>7. Records'
  BY <1>3, <1>4 DEF IInv, Records, Failing
<1>8. Same'
  BY <1>3 DEF Same, Asking, Outside
<1>9. Accounted'
  BY <1>2, <1>3, <1>4 DEF IInv, Accounted, Judged, Done
<1>10. UsageExact'
  <2>1. ASSUME NEW s \in Step, asked[s] > (IF resp[s] = None THEN 0 ELSE 1)
        PROVE  s \in c.st.unknown
    <3>1. CASE resp[s] # None
      BY <1>2, <2>1, <3>1 DEF IInv, Lost
    <3>2. CASE resp[s] = None
      <4>1. s \in ckpt.st.unknown \cup {ckpt.pending} /\ s # None
        BY <2>1, <3>2, Constants DEF IInv, UsageExact
      <4> QED BY <1>2, <3>2, <4>1
    <3> QED BY <3>1, <3>2
  <2> QED BY <1>2, <1>3, <1>4, <2>1 DEF IInv, UsageExact
<1>11. Counters'
  <2>1. /\ FailuresUpTo(results, c.st, step) /\ RepeatsUpTo(resp, c.st, step)
        /\ HistoryUpTo(results, c.st, step) /\ CacheUpTo(c.st, step)
    BY <1>2, Agreeing DEF IInv, Counters
  <2> QED BY <1>3, <1>4, <2>1 DEF Counters, Judged, Done
<1>12. Epochs'
  <2>1. Own(c.st) /\ Follows(c.st.pub, c.st.pub)
    <3>1. c.st.pub \in Publication \cup {None}
      BY <1>2 DEF State
    <3> QED BY <1>2, <3>1, FollowsSelf DEF IInv, Epochs, Own
  <2>2. SameEpoch(run.st)'
    BY <1>3, <2>1 DEF SameEpoch
  <2> QED BY <1>2, <1>3, <1>4, <2>1, <2>2 DEF IInv, Epochs
<1>13. Lost'
  BY <1>2, <1>3, <1>4 DEF IInv, Lost
<1> QED BY <1>5, <1>6, <1>7, <1>8, <1>9, <1>10, <1>11, <1>12, <1>13 DEF IInv

LEMMA InitIInv == Init => IInv
<1> SUFFICES ASSUME Init PROVE IInv
  OBVIOUS
<1>0. /\ ckpt.next = 0 /\ ckpt.pending = None /\ ckpt.st = Fresh /\ run.pc = "loop" /\ run.st = Fresh
      /\ step = 0 /\ DOMAIN seen = {}
  BY DEF Init, step
<1>1. /\ resp \in [Step -> {None}] /\ results \in [Step -> {None}] /\ asked \in [Step -> {0}]
  BY DEF Init
<1>2. TypeOK
  <2>1. ckpt \in Checkpoint /\ run \in Process
    BY FreshState, Constants DEF Init, Checkpoint, Process, PC
  <2> QED BY <1>0, <1>1, <2>1, Constants DEF Init, TypeOK
<1>3. Places
  BY <1>0 DEF Places, Asking, Answered, Judged, Done
<1>4. Records
  BY <1>0, <1>1, Constants DEF Records, Step
<1>5. Same
  BY <1>0 DEF Same, Asking, Outside
<1>6. Lost
  BY <1>0, <1>1 DEF Lost
<1>7. Accounted
  <2>1. 0..(0 - 1) = {}
    OBVIOUS
  <2> QED BY <1>0, <2>1, FreshState DEF Accounted, Judged, Done
<1>8. UsageExact
  <2>1. 0..(0 - 1) = {}
    OBVIOUS
  <2> QED BY <1>0, <1>1, <2>1, FreshState, FS_EmptySet DEF UsageExact
<1>9. Counters
  <2>1. 0..(0 - 1) = {} /\ 1..0 = {}
    OBVIOUS
  <2>2. FailuresUpTo(results, Fresh, 0)
    <3>1. {s \in 0..(0 - 1) : Failing(results[s])} = {}
          /\ \A r \in Failure : {s \in 0..(0 - 1) : results[s] = r} = {}
      BY <2>1
    <3> QED BY <3>1, FS_EmptySet DEF FailuresUpTo, Fresh
  <2>3. HistoryUpTo(results, Fresh, 0)
    BY <2>1 DEF HistoryUpTo, Fresh
  <2>4. RepeatsUpTo(resp, Fresh, 0) /\ CacheUpTo(Fresh, 0)
    BY DEF RepeatsUpTo, CacheUpTo, Fresh
  <2> QED BY <1>0, <2>2, <2>3, <2>4 DEF Counters, Judged, Done
<1>10. Epochs
  <2>1. Own(Fresh) /\ Fresh.epoch = 0 /\ Follows(Fresh.pub, Fresh.pub)
    BY DEF Own, Follows, Fresh
  <2> QED BY <1>0, <2>1 DEF Epochs, SameEpoch
<1> QED BY <1>2, <1>3, <1>4, <1>5, <1>6, <1>7, <1>8, <1>9, <1>10 DEF IInv
-----------------------------------------------------------------------------
(* The theorems. *)

LEMMA NextKeeps ==
    ASSUME IInv, [Next]_vars
    PROVE  IInv'
<1>1. CASE GiveUp \/ ProviderFails
  <2>1. End("failed") /\ UNCHANGED <<resp, results, ckpt, asked, seen, crashes>>
    BY <1>1 DEF GiveUp, ProviderFails
  <2> QED BY <2>1, Ends
<1>2. CASE \E projection \in Projection \cup {None} : Prepare(projection)
  BY <1>2, PrepareKeeps
<1>3. CASE Send \/ \E call \in Call \cup {"final", "empty"} : Answer(call)
  BY <1>3, SendKeeps, AnswerKeeps
<1>4. CASE ClearPending \/ Account \/ Judge
  BY <1>4, ClearPendingKeeps, AccountKeeps, JudgeKeeps
<1>5. CASE ReplayResult \/ \E out \in Out : Execute(out)
  BY <1>5, ReplayKeeps, ExecuteKeeps
<1>6. CASE \E dropped \in BOOLEAN : Observe(dropped)
  BY <1>6, ObserveKeeps
<1>7. CASE \E answer \in Summary \cup {"error", "invalid"} : CompressEpoch(answer)
  BY <1>7, CompressKeeps
<1>8. CASE Save \/ Resume
  BY <1>8, SaveKeeps, ResumeKeeps
<1>9. CASE Crash
  <2>1. Goto("down", Fresh) /\ "down" \in Outside /\ UNCHANGED <<resp, results, ckpt, asked, seen>>
    BY <1>9 DEF Crash, Outside
  <2>2. status' \in {"running", "completed", "verified", "failed"} /\ crashes' \in 0..MaxCrashes
    BY <1>9, Constants DEF Crash, IInv, TypeOK
  <2> QED BY <2>1, <2>2, Leaves
<1>10. CASE UNCHANGED vars
  <2> USE <1>10 DEF vars
  <2>1. TypeOK' /\ Places' /\ Records' /\ Same' /\ Lost'
    BY DEF IInv, TypeOK, Places, Records, Same, Lost, step, Failing
  <2>2. Accounted' /\ UsageExact' /\ Counters'
    BY DEF IInv, Accounted, UsageExact, Counters, step
  <2>3. Epochs'
    BY DEF IInv, Epochs, SameEpoch, step
  <2> QED BY <2>1, <2>2, <2>3 DEF IInv
<1> QED BY <1>1, <1>2, <1>3, <1>4, <1>5, <1>6, <1>7, <1>8, <1>9, <1>10 DEF Next

(* What a process and the checkpoint hold at every point of a step of      *)
(* AgentRuntime._advance_once, over crashes at any of them.                *)
THEOREM StepInvariant == Spec => []IInv
BY InitIInv, NextKeeps, PTL DEF Spec

(* _record_model_usage counts every response once however often its step   *)
(* is taken up again, and _reconcile_pending_model_request forgets no      *)
(* request that was lost: with any number of steps and crashes.            *)
THEOREM UsageHolds == Spec => []UsageExact
<1>1. IInv => UsageExact
  BY DEF IInv
<1> QED BY <1>1, StepInvariant, PTL

(* The budgets of failures, repeated actions and errors, the tool history  *)
(* and the cache usage that a step saves are those of a process that never *)
(* crashed: a result that is replayed is neither counted twice nor missed. *)
THEOREM CountersHold == Spec => []CountersAsUninterrupted
<1>1. ASSUME IInv, run.pc = "save" PROVE CountersAsUninterrupted
  <2>1. step \in Nat /\ (step + 1) - 1 = step /\ step + 1 # 0
    BY <1>1, StepType DEF IInv
  <2>2. /\ FailuresUpTo(results, run.st, step + 1) /\ HistoryUpTo(results, run.st, step + 1)
        /\ RepeatsUpTo(resp, run.st, step + 1) /\ CacheUpTo(run.st, step + 1)
    BY <1>1 DEF IInv, Counters, Judged, Done
  <2>3. run.st.accounted = 0..step
    BY <1>1 DEF IInv, Accounted, Same, Outside, Judged, Done
  <2>4. Cardinality(run.st.accounted) = step + 1
    BY <2>1, <2>3, FS_Interval
  <2>5. /\ run.st.failures = Cardinality({s \in 0..step : Failing(results[s])})
        /\ \A r \in Failure : run.st.errors[r] = Cardinality({s \in 0..step : results[s] = r})
    BY <2>1, <2>2 DEF FailuresUpTo
  <2>6. run.st.repeats = Cardinality({s \in 0..step : \A t \in s..step : resp[t].call = resp[step].call})
    BY <2>1, <2>2 DEF RepeatsUpTo, Streak
  <2>7. run.st.history = [i \in 1..(step + 1) |-> [step |-> i - 1, result |-> results[i - 1]]]
    BY <2>2 DEF HistoryUpTo
  <2>8. run.st.cache = Cardinality(run.st.accounted) + run.st.squeezed
    BY <2>2, <2>4 DEF CacheUpTo
  <2> QED BY <2>5, <2>6, <2>7, <2>8 DEF CountersAsUninterrupted
<1>2. IInv => CountersAsUninterrupted
  BY <1>1 DEF CountersAsUninterrupted
<1> QED BY <1>2, StepInvariant, PTL

Greatest(S) == IF S = {} THEN 0 ELSE CHOOSE i \in S : \A j \in S : j <= i

LEMMA GreatestExists ==
    ASSUME NEW n \in Nat, NEW S \in SUBSET (1..n), S # {}
    PROVE  Greatest(S) \in S /\ \A j \in S : j <= Greatest(S)
<1>1. \A i \in S : n - i \in Nat
  OBVIOUS
<1>2. PICK T : T = {n - i : i \in S}
  OBVIOUS
<1>3. T \in SUBSET Nat /\ T # {}
  BY <1>1, <1>2
<1>4. PICK t \in T : \A u \in T : t <= u
  BY <1>3, LeastExists
<1>5. PICK i \in S : t = n - i
  BY <1>2, <1>4
<1>6. ASSUME NEW j \in S PROVE j <= i
  <2>1. t <= n - j
    BY <1>2, <1>4
  <2> QED BY <1>5, <2>1
<1>7. Greatest(S) = CHOOSE k \in S : \A j \in S : j <= k
  BY ZenonT(30) DEF Greatest
<1> QED BY <1>6, <1>7

(* What _verified_plan_completion_summary finds in a history. *)
LEMMA PlanVerified ==
    ASSUME NEW st, VerifiedPlan(st)
    PROVE  LET M == {i \in DOMAIN st.history : /\ st.history[i].result.call \in Mutation
                                               /\ ~Failing(st.history[i].result)}
               T == {i \in DOMAIN st.history : st.history[i].result.call = "run_tests"}
           IN  /\ Greatest(M) > 0 /\ Greatest(T) > Greatest(M)
               /\ ~Failing(st.history[Greatest(T)].result)
BY DEF VerifiedPlan, LastIndex, Greatest

LEMMA VerifiedTested ==
    ASSUME IInv, run.pc = "observe", NEW st, st.history = run.st.history, VerifiedPlan(st)
    PROVE  \E s \in Step :
               /\ results[s] = [call |-> "run_tests", out |-> "ok"]
               /\ \A t \in Step : results[t] = [call |-> "write_file", out |-> "ok"] => t < s
<1>1. step \in Nat /\ step \in Step
  BY StepType DEF IInv, Places, Answered, Judged, Done
<1>2. PICK h : h = st.history
  OBVIOUS
<1>3. h = [i \in 1..(step + 1) |-> [step |-> i - 1, result |-> results[i - 1]]]
  BY <1>2 DEF IInv, Counters, Done, HistoryUpTo
<1>4. DOMAIN h = 1..(step + 1) /\ \A i \in 1..(step + 1) : h[i].result = results[i - 1]
  BY <1>3
<1>5. PICK M : M = {i \in DOMAIN h : h[i].result.call \in Mutation /\ ~Failing(h[i].result)}
  OBVIOUS
<1>6. PICK T : T = {i \in DOMAIN h : h[i].result.call = "run_tests"}
  OBVIOUS
<1>7. Greatest(M) > 0 /\ Greatest(T) > Greatest(M) /\ ~Failing(h[Greatest(T)].result)
  BY <1>2, <1>5, <1>6, PlanVerified
<1>0. step + 1 \in Nat
  BY <1>1
<1>8. M \in SUBSET (1..(step + 1)) /\ T \in SUBSET (1..(step + 1))
  BY <1>4, <1>5, <1>6
<1>9. Greatest(M) \in M /\ \A j \in M : j <= Greatest(M)
  <2>1. M # {}
    BY <1>7 DEF Greatest
  <2> QED BY <1>0, <1>8, <2>1, GreatestExists
<1>10. Greatest(M) \in 1..(step + 1)
  BY <1>8, <1>9
<1>11. Greatest(T) \in T
  <2>1. T # {}
    BY <1>7, <1>10 DEF Greatest
  <2> QED BY <1>0, <1>8, <2>1, GreatestExists
<1>12. PICK s : s = Greatest(T) - 1
  OBVIOUS
<1>13. s \in Step /\ s <= step /\ s + 1 = Greatest(T) /\ h[Greatest(T)].result = results[s]
  <2>1. Greatest(T) \in 1..(step + 1)
    BY <1>8, <1>11
  <2>2. h[Greatest(T)].result = results[s]
    BY <1>4, <1>12, <2>1
  <2> QED BY <1>1, <1>12, <2>1, <2>2, Constants DEF Step
<1>14. results[s] = [call |-> "run_tests", out |-> "ok"]
  <2>1. results[s] # None
    <3>1. CASE s = step
      BY <3>1 DEF IInv, Places, Done
    <3>2. CASE s < step
      BY <1>13, <3>2 DEF IInv, Records
    <3> QED BY <1>1, <1>13, <3>1, <3>2, Constants DEF Step
  <2>2. results[s] \in Result
    BY <1>13, <2>1 DEF IInv, TypeOK
  <2>3. results[s].call = "run_tests" /\ results[s].out = "ok"
    BY <1>6, <1>7, <1>11, <1>13 DEF Failing
  <2> QED BY <2>2, <2>3 DEF Result
<1>15. ASSUME NEW t \in Step, results[t] = [call |-> "write_file", out |-> "ok"]
       PROVE  t < s
  <2>1. t \in Nat /\ s \in Nat
    BY <1>13, Constants DEF Step
  <2>2. PICK w : w = [call |-> "write_file", out |-> "ok"]
    OBVIOUS
  <2>3. w \in Result /\ w.call \in Mutation /\ ~Failing(w)
    BY <2>2 DEF Result, Call, Gated, Out, Mutation, Failing
  <2>4. t <= step
    <3>1. results[t] # None
      BY <1>15, <2>2, <2>3, Constants
    <3>2. ~(t > step)
      BY <3>1 DEF IInv, Records
    <3> QED BY <1>1, <2>1, <3>2
  <2>5. t + 1 \in 1..(step + 1) /\ h[t + 1].result = w
    BY <1>1, <1>4, <1>15, <2>1, <2>2, <2>4
  <2>6. t + 1 \in M
    BY <1>4, <1>5, <2>3, <2>5
  <2>7. t + 1 <= Greatest(M)
    BY <1>9, <2>6
  <2> QED BY <1>7, <1>10, <1>13, <2>1, <2>7
<1> QED BY <1>13, <1>14, <1>15

(* A task that _advance_once ends as verified by itself has a passing test *)
(* run after the last change that any of its processes wrote: the history  *)
(* that _verified_plan_completion_summary reads misses no result.          *)
THEOREM VerifiedHolds == Spec => []VerifiedMeansTested
<1>1. ASSUME IInv, VerifiedMeansTested, [Next]_vars PROVE VerifiedMeansTested'
  <2>1. CASE ~Live
    <3>1. UNCHANGED vars
      BY <1>1, <2>1 DEF Next, GiveUp, Prepare, Send, ProviderFails, Answer, ClearPending, Account,
                        Judge, Execute, ReplayResult, Observe, CompressEpoch, Save, Crash, Resume
    <3> QED BY <1>1, <3>1, ZenonT(30) DEF vars, VerifiedMeansTested
  <2>2. CASE Live /\ \E dropped \in BOOLEAN : Observe(dropped)
    <3>1. PICK dropped \in BOOLEAN : Observe(dropped)
      BY <2>2
    <3>2. PICK r : r = results[step]
      OBVIOUS
    <3>3. PICK q : q = IF ~Failing(r) THEN run.st
                       ELSE [run.st EXCEPT !.failures = @ + 1, !.errors[r] = @ + 1]
      OBVIOUS
    <3>4. q.history = run.st.history
      <4>1. run.st \in State
        BY <1>1, StepType DEF IInv
      <4> QED BY <3>3, <4>1 DEF State
    <3>5. results' = results /\ run.pc = "observe"
      BY <3>1 DEF Observe
    <3>6. status' = "verified" => VerifiedPlan(q)
      BY <2>2, <3>1, <3>2, <3>3 DEF Observe, End, Live
    <3> QED BY <1>1, <3>4, <3>5, <3>6, VerifiedTested DEF VerifiedMeansTested
  <2>3. CASE Live /\ ~(\E dropped \in BOOLEAN : Observe(dropped))
    <3>1. status' # "verified"
      BY <1>1, <2>3 DEF Live, End, vars, Next, GiveUp, Prepare, Send, ProviderFails, Answer,
                        ClearPending, Account, Judge, Execute, ReplayResult, CompressEpoch, Save,
                        Crash, Resume
    <3> QED BY <3>1 DEF VerifiedMeansTested
  <2> QED BY <2>1, <2>2, <2>3
<1>2. Init => VerifiedMeansTested
  BY DEF Init, VerifiedMeansTested
<1> QED BY <1>1, <1>2, StepInvariant, PTL DEF Spec

(* The provider's prompt cache stays valid: the messages that              *)
(* prepare_request freezes for an epoch never change once a request of the *)
(* epoch was sent, and its memory publications are only appended to, over  *)
(* every crash and every rollover; and applied in order, as replay does,   *)
(* they give the memory that was published last.                           *)
THEOREM PrefixHolds == Spec => PrefixGrows
<1>1. ASSUME IInv, [Next]_vars PROVE PublicationsGrow
  <2>1. CASE Send
    <3>1. ASSUME NEW e \in DOMAIN seen
          PROVE  seen'[e].prefix = seen[e].prefix /\ Follows(seen[e].pub, seen'[e].pub)
      <4>1. run.st.epoch = ckpt.st.epoch /\ run.st.prefix = ckpt.st.prefix
            /\ run.st.pub = ckpt.st.pub
        BY <1>1, <2>1 DEF IInv, Send, Same, Asking
      <4>2. seen'[e] = IF e = run.st.epoch THEN [prefix |-> run.st.prefix, pub |-> run.st.pub]
                       ELSE seen[e]
        BY <2>1 DEF Send
      <4>3. CASE e = run.st.epoch
        BY <1>1, <4>1, <4>2, <4>3 DEF IInv, Epochs
      <4>4. CASE e # run.st.epoch
        <5>1. seen[e].pub \in Publication \cup {None}
          BY <1>1 DEF IInv, TypeOK, Request
        <5> QED BY <4>2, <4>4, <5>1, FollowsSelf
      <4> QED BY <4>3, <4>4
    <3> QED BY <3>1 DEF PublicationsGrow, Follows
  <2>2. CASE ~Send
    <3>1. seen' = seen
      BY <1>1, <2>2 DEF vars, Next, GiveUp, Prepare, ProviderFails, Answer, ClearPending, Account,
                        Judge, Execute, ReplayResult, Observe, CompressEpoch, Save, Crash, Resume
    <3>2. ASSUME NEW e \in DOMAIN seen PROVE Follows(seen[e].pub, seen[e].pub)
      <4>1. seen[e].pub \in Publication \cup {None}
        BY <1>1 DEF IInv, TypeOK, Request
      <4> QED BY <4>1, FollowsSelf
    <3> QED BY <3>1, <3>2 DEF PublicationsGrow, Follows
  <2> QED BY <2>1, <2>2
<1>2. IInv => PublishedRebuilt
  <2> SUFFICES ASSUME IInv PROVE PublishedRebuilt
    OBVIOUS
  <2>1. run.st.pub \in Publication \cup {None} /\ Own(run.st)
    BY StepType DEF IInv, Epochs, State
  <2> QED BY <2>1, ReplayOf DEF Own, PublishedRebuilt
<1> QED BY <1>1, <1>2, StepInvariant, PTL DEF Spec, PrefixGrows
=============================================================================
