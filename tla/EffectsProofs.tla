--------------------------- MODULE EffectsProofs ---------------------------
(***************************************************************************)
(* Proofs about the effect protocol, for every set of workers, effects and *)
(* calls, every policy history and every bound.                            *)
(***************************************************************************)
EXTENDS Effects, TLAPS

(* Points of a worker with an effect in its hands. *)
HasCurrent == {"read", "claimed", "asserted", "ran", "sup_settle"}

(* What the types need besides TypeOK. *)
Bounds ==
    /\ answered \/ turns <= MaxTurns
    /\ \A w \in Worker :
           /\ wk[w].upto <= turns
           /\ wk[w].policy \in 1..MaxPolicy
           /\ wk[w].pc \in HasCurrent => wk[w].cur # None

Shape == TypeOK /\ Bounds

(* The claim of the effect was committed. *)
Begun == {"executing", "unknown", "succeeded", "failed"}

(* Between the claim and the invocation of the backend. *)
Holding == {"claimed", "asserted"}

(* Points at which the task of the owner is not over and needs no recovery. *)
Working == PC \ {"idle", "release", "settle_control"}

RowOK(e) ==
    /\ ran[e] <= 1
    /\ ran[e] = 1 => eff[e].status \in Begun
    /\ appr[e].status = "pending" <=> eff[e].status = "waiting"
    /\ eff[e].status = "waiting" => eff[e].attached
    /\ eff[e].status \in Begun =>
           /\ eff[e].decision # "deny"
           /\ eff[e].decision = "require_approval" => appr[e].status = "consumed"

RowInv == \A e \in EffectId : RowOK(e)

HolderInv ==
    \A w \in Worker :
        /\ wk[w].pc \in Holding =>
               /\ eff[wk[w].cur].status \in Begun
               /\ eff[wk[w].cur].call = wk[w].seen.call
               /\ ran[wk[w].cur] = 0
        /\ wk[w].pc = "ran" => ran[wk[w].cur] = 1

OneHolder ==
    \A v, w \in Worker :
        wk[v].pc \in Holding /\ wk[w].pc \in Holding /\ wk[v].cur = wk[w].cur
        => v = w

OwnerInv ==
    \A w \in Worker :
        owner = w =>
            /\ wk[w].pc \in Working =>
                   task.cond # "recovery_required" /\ task.outcome = "active"
            /\ wk[w].pc = "read" =>
                   \/ eff[wk[w].cur] = wk[w].seen
                   \/ /\ wk[w].seen.status = "waiting"
                      /\ eff[wk[w].cur].version > wk[w].seen.version
            /\ wk[w].pc \in Holding \cup {"ran"} =>
                   eff[wk[w].cur].status = "executing"

OneUndisposed ==
    \A d, e \in EffectId : Undisposed(d) /\ Undisposed(e) => d = e

IInv ==
    /\ RowInv /\ HolderInv /\ OneHolder /\ OwnerInv
    /\ UnknownHeld /\ OneUndisposed
-----------------------------------------------------------------------------
(* Types. *)

LEMMA Constants ==
    /\ MaxPolicy \in Nat /\ MaxTurns \in Nat /\ 1 \in 1..MaxPolicy
    /\ FileCalls \subseteq Call
    /\ None \notin EffectId /\ None \notin Worker /\ None \notin Call
BY EffectsAssumption

LEMMA IdleType == /\ NoEffect \in EffectRow
                  /\ NoTodo \in [EffectId -> Nat]
                  /\ IdleWorker \in WorkerRow
<1>1. NoEffect \in EffectRow /\ NoTodo \in [EffectId -> Nat]
  BY DEF NoEffect, EffectRow, Status, Decision, Content, NoTodo
<1> QED BY <1>1 DEF IdleWorker, WorkerRow, PC

LEMMA PointUpdate ==
    ASSUME NEW row \in WorkerRow, NEW pc \in PC
    PROVE  /\ [row EXCEPT !.pc = pc] \in WorkerRow
           /\ [row EXCEPT !.pc = pc].pc = pc
           /\ [row EXCEPT !.pc = pc].upto = row.upto
           /\ [row EXCEPT !.pc = pc].policy = row.policy
BY DEF WorkerRow

(* The row of an effect is written with the next version. *)
LEMMA EffectUpdate ==
    ASSUME TypeOK, NEW e \in EffectId, NEW st \in Status, NEW att \in BOOLEAN
    PROVE  /\ [eff EXCEPT ![e].status = st, ![e].attached = att, ![e].version = @ + 1]
                \in [EffectId -> EffectRow]
           /\ WithStatus(e, st) \in [EffectId -> EffectRow]
<1>1. eff[e] \in EffectRow /\ eff[e].version + 1 \in Nat
  BY DEF TypeOK, EffectRow
<1>2. ASSUME NEW row \in EffectRow, NEW n \in Nat
      PROVE  /\ [row EXCEPT !.status = st, !.attached = att, !.version = n] \in EffectRow
             /\ [row EXCEPT !.status = st, !.version = n] \in EffectRow
  BY <1>2 DEF EffectRow
<1>3. /\ [eff[e] EXCEPT !.status = st, !.attached = att, !.version = @ + 1] \in EffectRow
      /\ [eff[e] EXCEPT !.status = st, !.version = @ + 1] \in EffectRow
  BY <1>1, <1>2 DEF EffectRow
<1> QED BY <1>3 DEF TypeOK, WithStatus

LEMMA SettleType ==
    ASSUME TypeOK, NEW e \in EffectId, NEW st \in Status, Settle(e, st)
    PROVE  /\ eff' \in [EffectId -> EffectRow]
           /\ result' \in [EffectId -> Result]
           /\ appr' \in [EffectId -> [status : Approval, policy : Nat]]
<1>1. eff' \in [EffectId -> EffectRow]
  BY EffectUpdate DEF Settle
<1>2. appr' \in [EffectId -> [status : Approval, policy : Nat]]
  BY DEF TypeOK, Settle, Approval
<1> QED BY <1>1, <1>2 DEF TypeOK, Settle, Result

(* A worker leaves the step loop. *)
LEMMA QuitShape ==
    ASSUME Shape, NEW w \in Worker, NEW pc \in PC \ HasCurrent, Quit(w, pc),
           turns' \in Nat, turns' >= turns
    PROVE  /\ wk' \in [Worker -> WorkerRow]
           /\ \A v \in Worker :
                  /\ wk'[v].upto <= turns'
                  /\ wk'[v].policy \in 1..MaxPolicy
                  /\ wk'[v].pc \in HasCurrent => wk'[v].cur # None
<1>1. /\ [IdleWorker EXCEPT !.pc = pc] \in WorkerRow
      /\ [IdleWorker EXCEPT !.pc = pc].pc = pc
      /\ [IdleWorker EXCEPT !.pc = pc].upto = 0
      /\ [IdleWorker EXCEPT !.pc = pc].policy = 1
  <2>1. IdleWorker.upto = 0 /\ IdleWorker.policy = 1
    BY DEF IdleWorker
  <2> QED BY <2>1, IdleType, PointUpdate
<1>2. wk' \in [Worker -> WorkerRow]
  BY <1>1 DEF Shape, TypeOK, Quit
<1>3. ASSUME NEW v \in Worker
      PROVE  /\ wk'[v].upto <= turns'
             /\ wk'[v].policy \in 1..MaxPolicy
             /\ wk'[v].pc \in HasCurrent => wk'[v].cur # None
  <2>1. CASE v = w
    <3>1. wk'[v] = [IdleWorker EXCEPT !.pc = pc]
      BY <2>1 DEF Shape, TypeOK, Quit
    <3> QED BY <1>1, <3>1, Constants
  <2>2. CASE v # w
    <3>1. wk'[v] = wk[v] /\ wk[v] \in WorkerRow
      BY <2>2 DEF Shape, TypeOK, Quit
    <3>2. /\ wk[v].upto <= turns
          /\ wk[v].policy \in 1..MaxPolicy
          /\ wk[v].pc \in HasCurrent => wk[v].cur # None
      BY DEF Shape, Bounds
    <3>3. wk[v].upto \in Nat /\ turns \in Nat
      BY <3>1, Constants DEF Shape, TypeOK, WorkerRow
    <3>4. wk'[v].upto <= turns'
      BY <3>1, <3>2, <3>3
    <3> QED BY <3>1, <3>2, <3>4
  <2> QED BY <2>1, <2>2
<1> QED BY <1>2, <1>3

LEMMA QuitKeeps ==
    ASSUME Shape, NEW w \in Worker, NEW pc \in PC \ HasCurrent, Quit(w, pc),
           UNCHANGED <<turns, answered>>
    PROVE  wk' \in [Worker -> WorkerRow] /\ Bounds'
<1>1. turns' \in Nat /\ turns' >= turns
  BY Constants DEF Shape, TypeOK
<1> QED BY <1>1, QuitShape DEF Shape, Bounds

LEMMA InitShape == Init => Shape
<1> SUFFICES ASSUME Init PROVE Shape
  OBVIOUS
<1>1. step \in [open : BOOLEAN, batch : Seq(EffectId)]
  BY DEF Init, NoStep
<1>3. task \in [cond : Condition, outcome : Outcome]
  BY DEF Init, Condition, Outcome
<1>4. appr \in [EffectId -> [status : Approval, policy : Nat]]
  BY DEF Init, Approval
<1>5. turns \in 0..(MaxTurns + 1) /\ consumed \in 0..turns /\ policy \in 1..MaxPolicy
  BY Constants DEF Init
<1>6. eff \in [EffectId -> EffectRow] /\ wk \in [Worker -> WorkerRow]
  BY IdleType DEF Init
<1>7. /\ result \in [EffectId -> Result] /\ disp \in [EffectId -> Disposition]
      /\ disk \in [Call -> Content] /\ ran \in [EffectId -> Nat]
  BY DEF Init, Result, Disposition, Content
<1>8. control \in BOOLEAN /\ answered \in BOOLEAN /\ owner \in Worker \cup {None}
  BY DEF Init
<1>9. TypeOK
  BY <1>1, <1>3, <1>4, <1>5, <1>6, <1>7, <1>8 DEF TypeOK
<1>2. Bounds
  BY Constants DEF Init, Bounds, IdleWorker, HasCurrent
<1> QED BY <1>9, <1>2 DEF Shape

LEMMA OperatorShape ==
    ASSUME Shape, Operator
    PROVE  Shape'
<1> USE DEF Shape
<1>1. CASE AppendTurn
  <2>1. TypeOK'
    BY <1>1, Constants DEF TypeOK, AppendTurn, rowVars, envVars
  <2>2. Bounds'
    BY <1>1, Constants DEF TypeOK, Bounds, AppendTurn, rowVars, envVars, WorkerRow
  <2> QED BY <2>1, <2>2
<1>2. CASE CancelTask
  <2>1. task' \in [cond : Condition, outcome : Outcome]
    BY <1>2 DEF TypeOK, CancelTask, Condition, Outcome
  <2> QED BY <1>2, <2>1 DEF TypeOK, Bounds, CancelTask, rowVars, envVars
<1>3. ASSUME NEW e \in EffectId, NEW approved \in BOOLEAN,
             NEW p \in {appr[e].policy, policy}, Decide(e, approved, p)
      PROVE Shape'
  <2>1. eff[e] \in EffectRow /\ appr[e] \in [status : Approval, policy : Nat]
    BY DEF TypeOK
  <2>2. eff' \in [EffectId -> EffectRow]
    <3>1. PICK st \in Status, att \in BOOLEAN :
              eff' = [eff EXCEPT ![e].status = st, ![e].attached = att,
                                 ![e].version = @ + 1]
      BY <1>3 DEF Decide, Status
    <3> QED BY <3>1, EffectUpdate
  <2>3. PICK st \in Approval : appr' = [appr EXCEPT ![e].status = st]
    BY <1>3 DEF Decide, Approval
  <2>4. appr' \in [EffectId -> [status : Approval, policy : Nat]]
    BY <2>1, <2>3 DEF TypeOK
  <2> QED BY <1>3, <2>2, <2>4 DEF TypeOK, Bounds, Decide, envVars, Condition
<1>4. ASSUME NEW e \in EffectId, NEW success \in BOOLEAN, Confirm(e, success)
      PROVE Shape'
  <2>1. eff' \in [EffectId -> EffectRow]
    BY <1>4, EffectUpdate DEF Confirm, CommittedStatus, Status
  <2> QED BY <1>4, <2>1
          DEF TypeOK, Bounds, Confirm, envVars, Condition, CommittedResult, Result, Disposition
<1>5. ASSUME NEW e \in EffectId, NEW r \in EffectId, Retry(e, r) PROVE Shape'
  <2>1. eff[e] \in EffectRow
    BY DEF TypeOK
  <2>2. eff' \in [EffectId -> EffectRow]
    BY <1>5, <2>1 DEF TypeOK, Retry, EffectRow, Status, Decision
  <2>3. appr' \in [EffectId -> [status : Approval, policy : Nat]]
    BY <1>5, Constants DEF TypeOK, Retry, Approval
  <2> QED BY <1>5, <2>2, <2>3
          DEF TypeOK, Bounds, Retry, envVars, Condition, Result, Disposition
<1>6. ASSUME NEW e \in EffectId, Abandon(e) PROVE Shape'
  BY <1>6 DEF TypeOK, Bounds, Abandon, envVars, Condition, Outcome, Disposition
<1> QED BY <1>1, <1>2, <1>3, <1>4, <1>5, <1>6 DEF Operator

LEMMA EnvironmentShape ==
    ASSUME Shape, Environment
    PROVE  Shape'
<1> USE DEF Shape
<1>1. CASE PolicyChanges
  BY <1>1, Constants DEF TypeOK, Bounds, PolicyChanges, taskVars, rowVars
<1>2. ASSUME NEW c \in FileCalls, NEW content \in Content, FileEdited(c, content)
      PROVE Shape'
  BY <1>2, Constants DEF TypeOK, Bounds, FileEdited, taskVars, rowVars, Content
<1>3. CASE LeaseExpires
  BY <1>3, IdleType, Constants
     DEF TypeOK, Bounds, LeaseExpires, taskVars, rowVars, IdleWorker, HasCurrent
<1>4. ASSUME NEW w \in Worker, Crash(w) \/ LeaseLost(w) PROVE Shape'
  <2>1. Quit(w, "idle")
    BY <1>4 DEF Crash, LeaseLost, Quit, IdleWorker
  <2>2. "idle" \in PC \ HasCurrent /\ turns \in Nat /\ UNCHANGED turns
    BY <1>4, Constants DEF PC, HasCurrent, TypeOK, Crash, LeaseLost, taskVars
  <2> QED BY <1>4, <2>1, <2>2, QuitShape
          DEF TypeOK, Bounds, Crash, LeaseLost, taskVars, rowVars, envVars
<1> QED BY <1>1, <1>2, <1>3, <1>4 DEF Environment

(* A worker's row is updated and keeps an effect where it needs one. *)
LEMMA WorkerBounds ==
    ASSUME Shape, NEW w \in Worker, wk' = [wk EXCEPT ![w] = wk'[w]],
           wk'[w] \in WorkerRow, wk'[w].upto <= turns,
           wk'[w].policy \in 1..MaxPolicy,
           wk'[w].pc \in HasCurrent => wk'[w].cur # None,
           UNCHANGED <<turns, answered>>
    PROVE  wk' \in [Worker -> WorkerRow] /\ Bounds'
<1>1. wk' \in [Worker -> WorkerRow]
  BY DEF Shape, TypeOK
<1>2. ASSUME NEW v \in Worker
      PROVE  /\ wk'[v].upto <= turns'
             /\ wk'[v].policy \in 1..MaxPolicy
             /\ wk'[v].pc \in HasCurrent => wk'[v].cur # None
  <2>1. CASE v = w
    BY <2>1
  <2>2. CASE v # w
    <3>1. wk'[v] = wk[v]
      BY <2>2 DEF Shape, TypeOK
    <3> QED BY <3>1 DEF Shape, Bounds
  <2> QED BY <2>1, <2>2
<1> QED BY <1>1, <1>2 DEF Shape, Bounds

LEMMA StartShape ==
    ASSUME Shape, NEW w \in Worker, Start(w)
    PROVE  Shape'
<1> USE DEF Shape
<1>w. wk[w] \in WorkerRow
  BY DEF TypeOK
<1>b. /\ wk[w].upto <= turns /\ wk[w].policy \in 1..MaxPolicy
      /\ wk[w].pc \in HasCurrent => wk[w].cur # None
  BY DEF Bounds
<1>1. CASE Resume(w)
  <2>1. wk' \in [Worker -> WorkerRow] /\ Bounds'
    <3>1. policy \in Nat /\ policy \in 1..MaxPolicy
      BY Constants DEF TypeOK
    <3>2. /\ wk' = [wk EXCEPT ![w] = wk'[w]] /\ wk'[w] \in WorkerRow
          /\ wk'[w].pc = "reconcile" /\ wk'[w].policy = policy
          /\ wk'[w].upto = wk[w].upto
      BY <1>1, <1>w, <3>1 DEF TypeOK, Resume, WorkerRow, PC
    <3> QED BY <1>1, <1>b, <3>1, <3>2, WorkerBounds DEF Resume, HasCurrent
  <2> QED BY <1>1, <2>1 DEF TypeOK, Resume, rowVars, Condition
<1>2. ASSUME NEW e \in EffectId, ReconcileConfirmed(w, e) PROVE Shape'
  <2>1. eff' \in [EffectId -> EffectRow]
    BY <1>2, EffectUpdate DEF ReconcileConfirmed, Status
  <2> QED BY <1>2, <2>1, ZenonT(30) DEF TypeOK, Bounds, ReconcileConfirmed, taskVars, envVars, Result
<1>3. ASSUME NEW e \in EffectId, ReconcileUnknown(w, e) PROVE Shape'
  <2>1. eff' \in [EffectId -> EffectRow]
    BY <1>3, EffectUpdate DEF ReconcileUnknown, Status
  <2>2. wk' \in [Worker -> WorkerRow] /\ Bounds'
    BY <1>3, QuitKeeps DEF ReconcileUnknown, PC, HasCurrent
  <2> QED BY <1>3, <2>1, <2>2 DEF TypeOK, ReconcileUnknown, envVars, Condition
<1>4. CASE Reconciled(w) \/ EnterLoop(w) \/ RecoverStep(w)
  <2>1. wk' \in [Worker -> WorkerRow] /\ Bounds'
    <3>1. /\ wk' = [wk EXCEPT ![w] = wk'[w]] /\ wk'[w] \in WorkerRow
          /\ wk'[w].pc \notin HasCurrent
          /\ wk'[w].policy = wk[w].policy /\ wk'[w].upto = wk[w].upto
      <4>1. CASE Reconciled(w)
        BY <4>1, <1>w DEF TypeOK, Reconciled, Go, WorkerRow, PC, HasCurrent
      <4>2. CASE EnterLoop(w)
        BY <4>2, <1>w DEF TypeOK, EnterLoop, WorkerRow, PC, HasCurrent
      <4>3. CASE RecoverStep(w)
        BY <4>3, <1>w DEF TypeOK, RecoverStep, StartBatch, WorkerRow, PC, HasCurrent
      <4> QED BY <1>4, <4>1, <4>2, <4>3
    <3> QED BY <1>4, <1>b, <3>1, WorkerBounds
            DEF Reconciled, EnterLoop, RecoverStep, taskVars
  <2> QED BY <1>4, <2>1
          DEF TypeOK, Reconciled, EnterLoop, RecoverStep, taskVars, rowVars, envVars
<1>5. ASSUME NEW e \in EffectId, MaterializeRetry(w, e) PROVE Shape'
  <2>1. wk' \in [Worker -> WorkerRow] /\ Bounds'
    BY <1>5, <1>w, <1>b, WorkerBounds, Constants
       DEF TypeOK, MaterializeRetry, StartBatch, WorkerRow, PC, HasCurrent
  <2>2. step' \in [open : BOOLEAN, batch : Seq(EffectId)]
    BY <1>5 DEF MaterializeRetry
  <2> QED BY <1>5, <2>1, <2>2 DEF TypeOK, MaterializeRetry, rowVars, envVars
<1>6. CASE ConsumeInputs(w)
  <2>1. wk' \in [Worker -> WorkerRow] /\ Bounds'
    BY <1>6, <1>w, <1>b, WorkerBounds, Constants
       DEF TypeOK, ConsumeInputs, Go, WorkerRow, PC, HasCurrent
  <2>2. consumed' \in 0..turns'
    BY <1>6, Constants DEF TypeOK, ConsumeInputs, LatestTurn
  <2> QED BY <1>6, <2>1, <2>2 DEF TypeOK, ConsumeInputs, rowVars, envVars
<1>7. ASSUME NEW s \in Batches, PrepareBatch(w, s) PROVE Shape'
  <2>1. wk' \in [Worker -> WorkerRow] /\ Bounds'
    BY <1>7, <1>w, <1>b, WorkerBounds, Constants
       DEF TypeOK, PrepareBatch, StartBatch, WorkerRow, PC, HasCurrent
  <2>2. PICK n \in 0..MaxBatch : s \in [1..n -> Fresh]
    BY DEF Batches
  <2>3. s \in Seq(EffectId)
    BY <2>2, EffectsAssumption DEF Fresh
  <2>4. step' \in [open : BOOLEAN, batch : Seq(EffectId)]
    BY <1>7, <2>3 DEF PrepareBatch
  <2>5. ASSUME NEW e \in EffectId PROVE eff'[e] \in EffectRow
    <3>1. CASE \E i \in DOMAIN s : s[i] = e
      <4>1. Assessment[wk[w].policy][CallOf[e]] \in Decision /\ CallOf[e] \in Call
        BY <1>b, EffectsAssumption
      <4>2. Baseline(s, e) \in Content
        BY <4>1 DEF Baseline, Content, TypeOK
      <4>3. eff'[e] = [status |-> "prepared", attached |-> FALSE, version |-> 1,
                       decision |-> Assessment[wk[w].policy][CallOf[e]],
                       call |-> CallOf[e], base |-> Baseline(s, e), retryOf |-> None]
        BY <1>7, <3>1 DEF PrepareBatch, NoEffect
      <4> QED BY <4>1, <4>2, <4>3 DEF EffectRow, Status
    <3>2. CASE ~\E i \in DOMAIN s : s[i] = e
      BY <1>7, <3>2 DEF PrepareBatch, TypeOK
    <3> QED BY <3>1, <3>2
  <2>6. eff' \in [EffectId -> EffectRow]
    BY <1>7, <2>5 DEF PrepareBatch
  <2> QED BY <1>7, <2>1, <2>4, <2>6 DEF TypeOK, PrepareBatch, envVars
<1> QED BY <1>1, <1>2, <1>3, <1>4, <1>5, <1>6, <1>7 DEF Start

LEMMA RaiseKeeps ==
    ASSUME Shape, NEW w \in Worker, Raise(w), UNCHANGED <<turns, answered>>
    PROVE  wk' \in [Worker -> WorkerRow] /\ Bounds'
BY QuitKeeps DEF Raise, PC, HasCurrent

LEMMA ObserveKeeps ==
    ASSUME Shape, NEW w \in Worker, Observe(w), UNCHANGED <<turns, answered>>
    PROVE  wk' \in [Worker -> WorkerRow] /\ Bounds'
<1>1. wk[w] \in WorkerRow /\ wk[w].pos + 1 \in Nat
  BY DEF Shape, TypeOK, WorkerRow
<1>2. wk[w].upto <= turns /\ wk[w].policy \in 1..MaxPolicy
  BY DEF Shape, Bounds
<1>3. /\ wk' = [wk EXCEPT ![w] = wk'[w]] /\ wk'[w] \in WorkerRow
      /\ wk'[w].pc = "next"
      /\ wk'[w].policy = wk[w].policy /\ wk'[w].upto = wk[w].upto
  BY <1>1, IdleType DEF Shape, TypeOK, Observe, WorkerRow, PC
<1> QED BY <1>2, <1>3, WorkerBounds DEF HasCurrent

LEMMA GoKeeps ==
    ASSUME Shape, NEW w \in Worker, NEW pc \in PC, Go(w, pc),
           pc \in HasCurrent => wk[w].pc \in HasCurrent,
           UNCHANGED <<turns, answered>>
    PROVE  wk' \in [Worker -> WorkerRow] /\ Bounds'
<1>1. wk[w] \in WorkerRow
  BY DEF Shape, TypeOK
<1>2. /\ wk[w].upto <= turns /\ wk[w].policy \in 1..MaxPolicy
      /\ wk[w].pc \in HasCurrent => wk[w].cur # None
  BY DEF Shape, Bounds
<1>3. /\ wk' = [wk EXCEPT ![w] = wk'[w]] /\ wk'[w] \in WorkerRow
      /\ wk'[w].pc = pc /\ wk'[w].cur = wk[w].cur
      /\ wk'[w].policy = wk[w].policy /\ wk'[w].upto = wk[w].upto
  BY <1>1 DEF Shape, TypeOK, Go, WorkerRow
<1> QED BY <1>2, <1>3, WorkerBounds

LEMMA CommitShape ==
    ASSUME Shape, NEW w \in Worker, NEW success \in BOOLEAN,
           wk[w].pc \in HasCurrent, CommitEffect(w, success)
    PROVE  Shape'
<1> USE DEF Shape
<1>1. wk[w].cur \in EffectId
  BY ZenonT(30) DEF TypeOK, Bounds, WorkerRow
<1>2. eff' \in [EffectId -> EffectRow]
  BY <1>1, EffectUpdate DEF CommitEffect, CommittedStatus, Status
<1>3. wk' \in [Worker -> WorkerRow] /\ Bounds'
  BY ObserveKeeps DEF CommitEffect, taskVars
<1> QED BY <1>2, <1>3
        DEF TypeOK, CommitEffect, CommittedResult, Result, taskVars, envVars

LEMMA CloseStepKeeps ==
    ASSUME Shape, NEW w \in Worker, CloseStep(w), UNCHANGED <<turns, answered>>
    PROVE  /\ wk' \in [Worker -> WorkerRow] /\ Bounds'
           /\ step' \in [open : BOOLEAN, batch : Seq(EffectId)]
<1>1. wk[w] \in WorkerRow /\ turns >= 0
  BY Constants DEF Shape, TypeOK
<1>2. wk[w].policy \in 1..MaxPolicy
  BY DEF Shape, Bounds
<1>3. /\ wk' = [wk EXCEPT ![w] = wk'[w]] /\ wk'[w] \in WorkerRow
      /\ wk'[w].pc = "advance"
      /\ wk'[w].policy = wk[w].policy /\ wk'[w].upto = 0
  BY <1>1 DEF Shape, TypeOK, CloseStep, WorkerRow, PC
<1>4. wk' \in [Worker -> WorkerRow] /\ Bounds'
  BY <1>1, <1>2, <1>3, WorkerBounds DEF HasCurrent
<1> QED BY <1>4 DEF CloseStep, NoStep

LEMMA BatchShape ==
    ASSUME Shape, NEW w \in Worker, Batch(w)
    PROVE  Shape'
<1> USE DEF Shape
<1>w. wk[w] \in WorkerRow
  BY DEF TypeOK
<1>b. /\ wk[w].upto <= turns /\ wk[w].policy \in 1..MaxPolicy
      /\ wk[w].pc \in HasCurrent => wk[w].cur \in EffectId
  BY <1>w DEF Bounds, WorkerRow
<1>1. CASE ReadEffect(w)
  <2>1. CallAt(w) \in EffectId /\ eff[CallAt(w)] \in EffectRow
    BY <1>1 DEF TypeOK, ReadEffect, HasCall, CallAt
  <2>2. /\ wk' = [wk EXCEPT ![w] = wk'[w]] /\ wk'[w] \in WorkerRow
        /\ wk'[w].policy = wk[w].policy /\ wk'[w].upto = wk[w].upto
        /\ wk'[w].cur \in EffectId
    BY <1>1, <1>w, <2>1, ZenonT(60) DEF TypeOK, ReadEffect, WorkerRow, PC
  <2>3. wk' \in [Worker -> WorkerRow] /\ Bounds'
    BY <1>1, <1>b, <2>2, WorkerBounds, Constants DEF ReadEffect, taskVars
  <2> QED BY <1>1, <2>3 DEF TypeOK, ReadEffect, taskVars, rowVars, envVars
<1>2. CASE RequestApproval(w)
  <2>1. wk[w].cur \in EffectId
    BY <1>2, <1>b DEF RequestApproval, HasCurrent
  <2>2. wk' \in [Worker -> WorkerRow] /\ Bounds'
    BY <1>2, RaiseKeeps, QuitKeeps DEF RequestApproval, PC, HasCurrent
  <2>3. eff' \in [EffectId -> EffectRow]
    <3>1. [eff EXCEPT ![wk[w].cur].status = "waiting", ![wk[w].cur].attached = TRUE,
                      ![wk[w].cur].version = @ + 1] \in [EffectId -> EffectRow]
      BY <2>1, EffectUpdate DEF Status
    <3> QED BY <1>2, <3>1 DEF TypeOK, RequestApproval
  <2>4. appr' \in [EffectId -> [status : Approval, policy : Nat]]
    <3>1. [status |-> "pending", policy |-> wk[w].policy] \in [status : Approval, policy : Nat]
      BY <1>w DEF Approval, WorkerRow
    <3> QED BY <1>2, <3>1 DEF TypeOK, RequestApproval
  <2>5. task' \in [cond : Condition, outcome : Outcome]
    BY <1>2 DEF TypeOK, RequestApproval, Condition
  <2> QED BY <1>2, <2>2, <2>3, <2>4, <2>5 DEF TypeOK, RequestApproval, envVars
<1>3. CASE Replay(w)
  <2>1. wk' \in [Worker -> WorkerRow] /\ Bounds'
    BY <1>3, ObserveKeeps DEF Replay, taskVars
  <2> QED BY <1>3, <2>1 DEF TypeOK, Replay, taskVars, rowVars, envVars
<1>4. CASE BlockedRepeat(w)
  <2>1. wk' \in [Worker -> WorkerRow] /\ Bounds'
    BY <1>4, ObserveKeeps DEF BlockedRepeat, taskVars
  <2> QED BY <1>4, <2>1 DEF TypeOK, BlockedRepeat, taskVars, envVars, Result
<1>5. CASE SettleUnexecuted(w)
  <2>1. wk[w].cur \in EffectId /\ UnexecutedStatus(w) \in Status
    BY <1>5, <1>b DEF SettleUnexecuted, AtUnanswered, HasCurrent, UnexecutedStatus, Status
  <2>2. wk' \in [Worker -> WorkerRow] /\ Bounds'
    BY <1>5, RaiseKeeps, ObserveKeeps DEF SettleUnexecuted, taskVars
  <2>3. /\ eff' \in [EffectId -> EffectRow]
        /\ result' \in [EffectId -> Result]
        /\ appr' \in [EffectId -> [status : Approval, policy : Nat]]
    BY <1>5, <2>1, SettleType DEF SettleUnexecuted, TypeOK
  <2> QED BY <1>5, <2>2, <2>3 DEF TypeOK, SettleUnexecuted, taskVars, envVars
<1>6. CASE ClaimEffect(w)
  <2>1. wk[w].cur \in EffectId /\ wk[w].pc \in HasCurrent
    BY <1>6, <1>b, ZenonT(30) DEF ClaimEffect, AtClaim, AtUnanswered, HasCurrent
  <2>2. eff' \in [EffectId -> EffectRow]
    BY <1>6, <2>1, EffectUpdate DEF ClaimEffect, Status
  <2>3. appr' \in [EffectId -> [status : Approval, policy : Nat]]
    BY <1>6, <2>1, ZenonT(60) DEF TypeOK, ClaimEffect, ApprovalConsumed, Approval
  <2>4. wk' \in [Worker -> WorkerRow] /\ Bounds'
    BY <1>6, <2>1, GoKeeps DEF ClaimEffect, PC, taskVars
  <2>5. UNCHANGED <<taskVars, result, disp, envVars>>
    BY <1>6 DEF ClaimEffect
  <2> QED BY <2>2, <2>3, <2>4, <2>5 DEF TypeOK, taskVars, envVars
<1>7. CASE ClaimConflict(w)
  <2>1. wk' \in [Worker -> WorkerRow] /\ Bounds'
    BY <1>7, RaiseKeeps DEF ClaimConflict, taskVars
  <2> QED BY <1>7, <2>1 DEF TypeOK, ClaimConflict, taskVars, rowVars, envVars
<1>8. CASE PreconditionFails(w) \/ Commit(w)
  <2>1. wk[w].ok \in BOOLEAN
    BY <1>w DEF WorkerRow
  <2> QED BY <1>8, <2>1, CommitShape DEF PreconditionFails, Commit, HasCurrent
<1>9. CASE AssertOwnership(w)
  <2>1. wk' \in [Worker -> WorkerRow] /\ Bounds'
    BY <1>9, GoKeeps DEF AssertOwnership, PC, HasCurrent, taskVars
  <2> QED BY <1>9, <2>1 DEF TypeOK, AssertOwnership, taskVars, rowVars, envVars
<1>10. ASSUME NEW ok \in BOOLEAN, BackendRuns(w, ok) PROVE Shape'
  <2>1. wk[w].cur \in EffectId
    BY <1>10, <1>b DEF BackendRuns, HasCurrent
  <2>2. /\ wk' = [wk EXCEPT ![w] = wk'[w]] /\ wk'[w] \in WorkerRow
        /\ wk'[w].policy = wk[w].policy /\ wk'[w].upto = wk[w].upto
        /\ wk'[w].cur \in EffectId
    BY <1>10, <1>w, <2>1 DEF TypeOK, BackendRuns, WorkerRow, PC
  <2>3. wk' \in [Worker -> WorkerRow] /\ Bounds'
    BY <1>10, <1>b, <2>2, WorkerBounds, Constants DEF BackendRuns, taskVars
  <2>4. disk' \in [Call -> Content] /\ ran' \in [EffectId -> Nat]
    <3>1. disk' \in [Call -> Content]
      BY <1>10 DEF TypeOK, BackendRuns, Content
    <3>2. ran[wk[w].cur] + 1 \in Nat
      BY <2>1 DEF TypeOK
    <3> QED BY <1>10, <3>1, <3>2 DEF TypeOK, BackendRuns, Invoked
  <2> QED BY <1>10, <2>3, <2>4 DEF TypeOK, BackendRuns, taskVars, rowVars
<1>11. CASE CleanupFails(w)
  <2>1. wk' \in [Worker -> WorkerRow] /\ Bounds'
    BY <1>11, GoKeeps DEF CleanupFails, PC, HasCurrent, taskVars
  <2>2. ran' \in [EffectId -> Nat]
    BY <1>11, <1>b DEF TypeOK, CleanupFails, Invoked, HasCurrent
  <2> QED BY <1>11, <2>1, <2>2 DEF TypeOK, CleanupFails, taskVars, rowVars
<1>12. CASE RecordCleanupFailure(w)
  <2>1. Quit(w, "idle")
    BY <1>12 DEF RecordCleanupFailure, Quit, IdleWorker
  <2>2. wk' \in [Worker -> WorkerRow] /\ Bounds'
    BY <1>12, <2>1, QuitKeeps DEF RecordCleanupFailure, PC, HasCurrent
  <2>3. task' \in [cond : Condition, outcome : Outcome]
    BY <1>12 DEF TypeOK, RecordCleanupFailure, Condition
  <2> QED BY <1>12, <2>2, <2>3 DEF TypeOK, RecordCleanupFailure, rowVars, envVars
<1>13. CASE StepDone(w)
  <2>1. /\ wk' \in [Worker -> WorkerRow] /\ Bounds'
        /\ step' \in [open : BOOLEAN, batch : Seq(EffectId)]
    BY <1>13, CloseStepKeeps DEF StepDone
  <2> QED BY <1>13, <2>1 DEF TypeOK, StepDone, rowVars, envVars
<1>14. CASE Conclude(w)
  <2>1. wk' \in [Worker -> WorkerRow] /\ Bounds'
    BY <1>14, GoKeeps DEF Conclude, PC, HasCurrent, taskVars
  <2> QED BY <1>14, <2>1 DEF TypeOK, Conclude, taskVars, rowVars, envVars
<1>15. ASSUME NEW same \in BOOLEAN, AppendAnswer(w, same) PROVE Shape'
  <2>1. PICK r \in WorkerRow : /\ wk' = [wk EXCEPT ![w] = r]
                               /\ r.upto <= turns /\ r.policy \in 1..MaxPolicy
                               /\ r.pc \notin HasCurrent
    <3>1. ASSUME NEW pc \in PC \ HasCurrent
          PROVE  /\ [IdleWorker EXCEPT !.pc = pc] \in WorkerRow
                 /\ [IdleWorker EXCEPT !.pc = pc].upto <= turns
                 /\ [IdleWorker EXCEPT !.pc = pc].policy \in 1..MaxPolicy
                 /\ [IdleWorker EXCEPT !.pc = pc].pc \notin HasCurrent
      <4>1. IdleWorker.upto = 0 /\ IdleWorker.policy = 1 /\ 0 <= turns
        BY Constants DEF IdleWorker, TypeOK
      <4> QED BY <4>1, IdleType, PointUpdate, Constants
    <3>2. /\ [wk[w] EXCEPT !.pc = "complete"] \in WorkerRow
          /\ [wk[w] EXCEPT !.pc = "complete"].upto <= turns
          /\ [wk[w] EXCEPT !.pc = "complete"].policy \in 1..MaxPolicy
          /\ [wk[w] EXCEPT !.pc = "complete"].pc \notin HasCurrent
      BY <1>w, <1>b, PointUpdate, ZenonT(60) DEF PC, HasCurrent
    <3>3. wk' = [wk EXCEPT ![w] = [IdleWorker EXCEPT !.pc = "idle"]]
          \/ wk' = [wk EXCEPT ![w] = [IdleWorker EXCEPT !.pc = "release"]]
          \/ wk' = [wk EXCEPT ![w] = [wk[w] EXCEPT !.pc = "complete"]]
      BY <1>15 DEF AppendAnswer, Quit, Go, TypeOK
    <3> QED BY <3>1, <3>2, <3>3 DEF PC, HasCurrent
  <2>2. turns' \in 0..(MaxTurns + 1) /\ turns <= turns' /\ consumed' \in 0..turns'
    BY <1>15, Constants DEF TypeOK, Bounds, AppendAnswer
  <2>3. wk' \in [Worker -> WorkerRow]
    BY <2>1 DEF TypeOK
  <2>4. ASSUME NEW v \in Worker
        PROVE  /\ wk'[v].upto <= turns'
               /\ wk'[v].policy \in 1..MaxPolicy
               /\ wk'[v].pc \in HasCurrent => wk'[v].cur # None
    <3>1. wk'[v].upto \in Nat /\ wk'[v].upto <= turns
      BY <2>1, <2>3 DEF TypeOK, Bounds, WorkerRow
    <3>2. turns \in Nat /\ turns' \in Nat
      BY <2>2, Constants DEF TypeOK
    <3> QED BY <2>1, <2>2, <3>1, <3>2 DEF TypeOK, Bounds
  <2>5. answered'
    BY <1>15 DEF AppendAnswer
  <2> QED BY <1>15, <2>2, <2>3, <2>4, <2>5 DEF TypeOK, Bounds, AppendAnswer, rowVars, envVars
<1>16. CASE CompleteTask(w)
  <2>1. wk' \in [Worker -> WorkerRow] /\ Bounds'
    BY <1>16, QuitKeeps DEF CompleteTask, PC, HasCurrent
  <2> QED BY <1>16, <2>1
          DEF TypeOK, CompleteTask, rowVars, envVars, Condition, Outcome
<1> QED BY <1>1, <1>2, <1>3, <1>4, <1>5, <1>6, <1>7, <1>8, <1>9, <1>10, <1>11,
           <1>12, <1>13, <1>14, <1>15, <1>16 DEF Batch

LEMMA StopShape ==
    ASSUME Shape, NEW w \in Worker, Stop(w)
    PROVE  Shape'
<1> USE DEF Shape
<1>w. wk[w] \in WorkerRow
  BY DEF TypeOK
<1>b. /\ wk[w].upto <= turns /\ wk[w].policy \in 1..MaxPolicy
      /\ wk[w].pc \in HasCurrent => wk[w].cur \in EffectId
  BY <1>w DEF Bounds, WorkerRow
<1>1. CASE CancelSeen(w)
  <2> DEFINE todo == [e \in EffectId |->
                        IF eff[e].status \in Unclaimed THEN eff[e].version ELSE 0]
  <2>1. todo \in [EffectId -> Nat]
    BY DEF TypeOK, EffectRow
  <2>2. ASSUME NEW row \in WorkerRow, NEW td \in [EffectId -> Nat], NEW lp \in BOOLEAN
        PROVE  LET r == [row EXCEPT !.pc = "cancelling", !.loop = lp, !.todo = td]
               IN  /\ r \in WorkerRow /\ r.pc = "cancelling"
                   /\ r.upto = row.upto /\ r.policy = row.policy
    BY <2>2 DEF WorkerRow, PC
  <2> DEFINE r == [IdleWorker EXCEPT !.pc = "cancelling", !.loop = wk[w].loop, !.todo = todo]
  <2>3. wk' = [wk EXCEPT ![w] = r]
    BY <1>1 DEF CancelSeen
  <2>4. r \in WorkerRow /\ r.pc = "cancelling" /\ r.upto = 0 /\ r.policy = 1
    <3>1. IdleWorker.upto = 0 /\ IdleWorker.policy = 1 /\ wk[w].loop \in BOOLEAN
      BY <1>w DEF IdleWorker, WorkerRow
    <3> HIDE DEF todo
    <3> QED BY <2>1, <2>2, <3>1, IdleType, ZenonT(60)
  <2>5. wk'[w] = r
    BY <2>3 DEF TypeOK
  <2>6. 0 <= turns
    BY Constants DEF TypeOK
  <2>7. UNCHANGED <<turns, answered>>
    BY <1>1 DEF CancelSeen, taskVars
  <2> HIDE DEF r
  <2>8. wk' \in [Worker -> WorkerRow] /\ Bounds'
    BY <2>3, <2>4, <2>5, <2>6, <2>7, WorkerBounds, Constants DEF HasCurrent
  <2> QED BY <1>1, <2>8 DEF TypeOK, CancelSeen, taskVars, rowVars, envVars
<1>2. ASSUME NEW e \in EffectId, CancelPendingEffect(w, e) PROVE Shape'
  <2>1. wk' \in [Worker -> WorkerRow] /\ Bounds'
    <3>1. CASE SettleAllowed(e, wk[w].todo[e], "cancelled")
      <4>1. /\ wk' = [wk EXCEPT ![w] = wk'[w]] /\ wk'[w] \in WorkerRow
            /\ wk'[w].policy = wk[w].policy /\ wk'[w].upto = wk[w].upto
            /\ wk'[w].pc = wk[w].pc
        <5>1. wk' = [wk EXCEPT ![w].todo[e] = 0]
          BY <1>2, <3>1 DEF CancelPendingEffect
        <5>2. [wk[w].todo EXCEPT ![e] = 0] \in [EffectId -> Nat]
          BY <1>w DEF WorkerRow
        <5> QED BY <1>w, <5>1, <5>2 DEF TypeOK, WorkerRow
      <4> QED BY <1>2, <1>b, <4>1, WorkerBounds DEF CancelPendingEffect, HasCurrent, taskVars
    <3>2. CASE ~SettleAllowed(e, wk[w].todo[e], "cancelled")
      BY <1>2, <3>2, RaiseKeeps DEF CancelPendingEffect, taskVars
    <3> QED BY <3>1, <3>2
  <2>2. /\ eff' \in [EffectId -> EffectRow]
        /\ result' \in [EffectId -> Result]
        /\ appr' \in [EffectId -> [status : Approval, policy : Nat]]
    BY <1>2, SettleType DEF CancelPendingEffect, TypeOK, Status
  <2> QED BY <1>2, <2>1, <2>2 DEF TypeOK, CancelPendingEffect, taskVars, envVars
<1>3. CASE ReportFails(w) \/ RunFails(w)
  <2>1. wk' \in [Worker -> WorkerRow] /\ Bounds'
    BY <1>3, QuitKeeps DEF ReportFails, RunFails, PC, HasCurrent, taskVars
  <2> QED BY <1>3, <2>1 DEF TypeOK, ReportFails, RunFails, taskVars, rowVars, envVars
<1>4. CASE PersistCancelled(w) \/ FailTask(w)
  <2>1. wk' \in [Worker -> WorkerRow] /\ Bounds'
    BY <1>4, QuitKeeps DEF PersistCancelled, FailTask, PC, HasCurrent
  <2> QED BY <1>4, <2>1
          DEF TypeOK, PersistCancelled, FailTask, rowVars, envVars, Condition, Outcome
<1>5. CASE SettleControl(w)
  <2>1. wk' \in [Worker -> WorkerRow] /\ Bounds'
    BY <1>5, QuitKeeps DEF SettleControl, PC, HasCurrent
  <2> QED BY <1>5, <2>1 DEF TypeOK, SettleControl, rowVars, envVars
<1>6. CASE InputRevised(w)
  <2>1. turns \in Nat
    BY Constants DEF TypeOK
  <2>2. /\ wk' = [wk EXCEPT ![w] = wk'[w]] /\ wk'[w] \in WorkerRow
        /\ wk'[w].policy = wk[w].policy /\ wk'[w].upto = turns
        /\ wk'[w].pc = "superseding"
    BY <1>6, <1>w, <2>1, IdleType, ZenonT(60) DEF TypeOK, InputRevised, LatestTurn, WorkerRow, PC
  <2>3. wk' \in [Worker -> WorkerRow] /\ Bounds'
    <3>1. UNCHANGED <<turns, answered>>
      BY <1>6 DEF InputRevised, taskVars
    <3> QED BY <1>b, <2>1, <2>2, <3>1, WorkerBounds DEF HasCurrent
  <2> QED BY <1>6, <2>3 DEF TypeOK, InputRevised, taskVars, rowVars, envVars
<1>7. CASE SupersedeRead(w)
  <2>1. CallAt(w) \in EffectId /\ eff[CallAt(w)] \in EffectRow
    BY <1>7, SMTT(40) DEF TypeOK, SupersedeRead, HasCall, CallAt
  <2>2. /\ wk' = [wk EXCEPT ![w] = wk'[w]] /\ wk'[w] \in WorkerRow
        /\ wk'[w].policy = wk[w].policy /\ wk'[w].upto = wk[w].upto
        /\ wk'[w].pc = "superseding" \/ wk'[w].cur \in EffectId
    <3>1. CASE eff[CallAt(w)].status \in Unclaimed
      BY <1>7, <1>w, <2>1, <3>1, ZenonT(60) DEF TypeOK, SupersedeRead, WorkerRow, PC
    <3>2. CASE eff[CallAt(w)].status \notin Unclaimed
      <4>1. wk[w].pos + 1 \in Nat
        BY <1>w, SMTT(40) DEF WorkerRow
      <4> QED BY <1>7, <1>w, <3>2, <4>1 DEF TypeOK, SupersedeRead, WorkerRow
    <3> QED BY <3>1, <3>2
  <2>3. wk' \in [Worker -> WorkerRow] /\ Bounds'
    BY <1>7, <1>b, <2>2, WorkerBounds, Constants DEF SupersedeRead, HasCurrent, taskVars
  <2> QED BY <1>7, <2>3 DEF TypeOK, SupersedeRead, taskVars, rowVars, envVars
<1>8. CASE SupersedeSettle(w)
  <2>1. wk[w].cur \in EffectId
    BY <1>8, <1>b DEF SupersedeSettle, HasCurrent
  <2>2. wk' \in [Worker -> WorkerRow] /\ Bounds'
    <3>1. CASE SettleAllowed(wk[w].cur, wk[w].seen.version, "cancelled")
      <4>1. wk[w].pos + 1 \in Nat
        BY <1>w DEF WorkerRow
      <4>2. /\ wk' = [wk EXCEPT ![w] = wk'[w]] /\ wk'[w] \in WorkerRow
            /\ wk'[w].policy = wk[w].policy /\ wk'[w].upto = wk[w].upto
            /\ wk'[w].pc = "superseding"
        <5>1. wk' = [wk EXCEPT ![w].pc = "superseding", ![w].pos = @ + 1,
                               ![w].cur = None, ![w].seen = NoEffect]
          BY <1>8, <3>1 DEF SupersedeSettle
        <5> QED BY <1>w, <4>1, <5>1, IdleType DEF TypeOK, WorkerRow, PC
      <4> QED BY <1>8, <1>b, <4>2, WorkerBounds DEF SupersedeSettle, HasCurrent, taskVars
    <3>2. CASE ~SettleAllowed(wk[w].cur, wk[w].seen.version, "cancelled")
      BY <1>8, <3>2, RaiseKeeps DEF SupersedeSettle, taskVars
    <3> QED BY <3>1, <3>2
  <2>3. /\ eff' \in [EffectId -> EffectRow]
        /\ result' \in [EffectId -> Result]
        /\ appr' \in [EffectId -> [status : Approval, policy : Nat]]
    BY <1>8, <2>1, SettleType DEF SupersedeSettle, TypeOK, Status
  <2> QED BY <1>8, <2>2, <2>3 DEF TypeOK, SupersedeSettle, taskVars, envVars
<1>9. CASE Superseded(w)
  <2>1. /\ wk' \in [Worker -> WorkerRow] /\ Bounds'
        /\ step' \in [open : BOOLEAN, batch : Seq(EffectId)]
    BY <1>9, CloseStepKeeps DEF Superseded
  <2>2. consumed' \in 0..turns'
    BY <1>9, <1>w, <1>b, Constants DEF TypeOK, Superseded, WorkerRow
  <2> QED BY <1>9, <2>1, <2>2 DEF TypeOK, Superseded, rowVars, envVars
<1>10. CASE Release(w)
  <2>1. Quit(w, "idle")
    BY <1>10 DEF Release, Quit, IdleWorker
  <2>2. wk' \in [Worker -> WorkerRow] /\ Bounds'
    BY <1>10, <2>1, QuitKeeps DEF Release, PC, HasCurrent
  <2>3. task' \in [cond : Condition, outcome : Outcome]
    BY <1>10 DEF TypeOK, Release, Condition
  <2> QED BY <1>10, <2>2, <2>3 DEF TypeOK, Release, rowVars
<1> QED BY <1>1, <1>2, <1>3, <1>4, <1>5, <1>6, <1>7, <1>8, <1>9, <1>10 DEF Stop

LEMMA NextShape ==
    ASSUME Shape, [Next]_vars
    PROVE  Shape'
<1>1. CASE Next
  BY <1>1, OperatorShape, EnvironmentShape, StartShape, BatchShape, StopShape DEF Next
<1>2. CASE UNCHANGED vars
  BY <1>2 DEF Shape, TypeOK, Bounds, vars, taskVars, rowVars, envVars
<1> QED BY <1>1, <1>2

(* Every row, every reading of a worker and every position in a batch has  *)
(* its type; the bounds on turns and policy versions are never passed.     *)
THEOREM ShapeCorrect == Spec => []Shape
BY InitShape, NextShape, PTL DEF Spec

-----------------------------------------------------------------------------
(* IInv is inductive.  First, what a step keeps when it writes nothing, or *)
(* one row.                                                                *)

(* Only w moves, and not to a point that holds or has just read an effect. *)
Loose == PC \ (Holding \cup {"ran", "read"})

OnlyMoves(w, pc) ==
    /\ wk'[w].pc = pc
    /\ \A v \in Worker \ {w} : wk'[v] = wk[v]

LEMMA Moves ==
    ASSUME Shape, NEW w \in Worker
    PROVE  /\ \A pc \in PC : Quit(w, pc) => OnlyMoves(w, pc)
           /\ \A pc \in PC : Go(w, pc) => OnlyMoves(w, pc)
           /\ Raise(w) => OnlyMoves(w, "fail") \/ OnlyMoves(w, "release")
           /\ Observe(w) => OnlyMoves(w, "next")
           /\ StartBatch(w) => OnlyMoves(w, "next")
           /\ CloseStep(w) => OnlyMoves(w, "advance")
<1>1. wk \in [Worker -> WorkerRow] /\ wk[w] \in WorkerRow
  BY DEF Shape, TypeOK
<1>2. ASSUME NEW pc \in PC, Quit(w, pc) PROVE OnlyMoves(w, pc)
  <2>1. [IdleWorker EXCEPT !.pc = pc].pc = pc
    BY IdleType, PointUpdate
  <2> QED BY <1>1, <1>2, <2>1 DEF Quit, OnlyMoves
<1>3. ASSUME NEW pc \in PC, Go(w, pc) PROVE OnlyMoves(w, pc)
  BY <1>1, <1>3 DEF Go, OnlyMoves, WorkerRow
<1>4. Raise(w) => OnlyMoves(w, "fail") \/ OnlyMoves(w, "release")
  BY <1>2 DEF Raise, PC
<1>5. Observe(w) => OnlyMoves(w, "next")
  BY <1>1 DEF Observe, OnlyMoves, WorkerRow
<1>6. StartBatch(w) => OnlyMoves(w, "next")
  BY <1>1 DEF StartBatch, OnlyMoves, WorkerRow
<1>7. CloseStep(w) => OnlyMoves(w, "advance")
  BY <1>1 DEF CloseStep, OnlyMoves, WorkerRow
<1> QED BY <1>2, <1>3, <1>4, <1>5, <1>6, <1>7

(* No worker gets hold of an effect. *)
HolderFrame ==
    \A v \in Worker :
        /\ wk'[v].pc \in Holding =>
               /\ wk[v].pc \in Holding
               /\ wk'[v].cur = wk[v].cur /\ wk'[v].seen = wk[v].seen
        /\ wk'[v].pc = "ran" => wk[v].pc = "ran" /\ wk'[v].cur = wk[v].cur

LEMMA LooseHolders ==
    ASSUME NEW w \in Worker, NEW pc \in Loose, OnlyMoves(w, pc)
    PROVE  HolderFrame
BY DEF Loose, OnlyMoves, HolderFrame

(* A holder of an effect keeps what it knows while begun effects stay so. *)
LEMMA HoldersKept ==
    ASSUME Shape, HolderInv, OneHolder, HolderFrame, UNCHANGED ran,
           \A e \in EffectId : eff[e].status \in Begun =>
               eff'[e].status \in Begun /\ eff'[e].call = eff[e].call
    PROVE  HolderInv' /\ OneHolder'
<1>1. ASSUME NEW v \in Worker, wk[v].pc \in Holding PROVE wk[v].cur \in EffectId
  BY <1>1 DEF Shape, TypeOK, Bounds, WorkerRow, Holding, HasCurrent
<1>2. HolderInv'
  BY <1>1 DEF HolderInv, HolderFrame
<1>3. OneHolder'
  BY DEF OneHolder, HolderFrame
<1> QED BY <1>2, <1>3

(* A step that writes no row and no file, by a worker that may be the      *)
(* owner, become it, or stop being it.                                     *)
LEMMA LooseStep ==
    ASSUME Shape, IInv, NEW w \in Worker, NEW pc \in Loose, OnlyMoves(w, pc),
           UNCHANGED <<eff, appr, disp, ran, disk>>,
           owner' \in {owner, w, None},
           owner' = w /\ pc \in Working =>
               task'.cond # "recovery_required" /\ task'.outcome = "active",
           owner' \in Worker \ {w} => UNCHANGED task,
           task.cond = "recovery_required" => task'.cond = "recovery_required"
    PROVE  IInv'
<1>1. HolderInv' /\ OneHolder'
  BY HoldersKept, LooseHolders DEF IInv
<1>2. RowInv' /\ OneUndisposed' /\ UnknownHeld'
  BY DEF IInv, RowInv, RowOK, OneUndisposed, UnknownHeld, Undisposed
<1>3. ASSUME NEW v \in Worker, owner' = v
      PROVE  /\ wk'[v].pc \in Working =>
                    task'.cond # "recovery_required" /\ task'.outcome = "active"
             /\ wk'[v].pc = "read" =>
                    \/ eff'[wk'[v].cur] = wk'[v].seen
                    \/ /\ wk'[v].seen.status = "waiting"
                       /\ eff'[wk'[v].cur].version > wk'[v].seen.version
             /\ wk'[v].pc \in Holding \cup {"ran"} =>
                    eff'[wk'[v].cur].status = "executing"
  <2>1. CASE v = w
    BY <1>3, <2>1 DEF OnlyMoves, Loose
  <2>2. CASE v # w
    <3>1. wk'[v] = wk[v] /\ owner = v /\ UNCHANGED <<task, eff>>
      BY <1>3, <2>2, Constants DEF OnlyMoves
    <3> QED BY <3>1 DEF IInv, OwnerInv
  <2> QED BY <2>1, <2>2
<1>4. OwnerInv'
  BY <1>3 DEF OwnerInv
<1> QED BY <1>1, <1>2, <1>4 DEF IInv

(* A step that writes the row of one effect. *)
LEMMA RowStep ==
    ASSUME Shape, IInv, NEW e \in EffectId,
           \A d \in EffectId \ {e} : eff'[d] = eff[d] /\ appr'[d] = appr[d]
                                     /\ disp'[d] = disp[d],
           eff[e].status \in Begun =>
               eff'[e].status \in Begun /\ eff'[e].call = eff[e].call,
           UNCHANGED <<ran, disk>>,
           RowOK(e)',
           HolderFrame
    PROVE  RowInv' /\ HolderInv' /\ OneHolder'
<1>1. RowInv'
  BY DEF IInv, RowInv, RowOK
<1>2. \A d \in EffectId : eff[d].status \in Begun =>
          eff'[d].status \in Begun /\ eff'[d].call = eff[d].call
  OBVIOUS
<1>3. HolderInv' /\ OneHolder'
  BY <1>2, HoldersKept DEF IInv
<1> QED BY <1>1, <1>3

(* No effect becomes unknown, and the task is not taken out of recovery. *)
LEMMA NoneUnknown ==
    ASSUME UnknownHeld, OneUndisposed,
           \A e \in EffectId : Undisposed(e)' => Undisposed(e),
           task.cond = "recovery_required" => task'.cond = "recovery_required"
    PROVE  UnknownHeld' /\ OneUndisposed'
BY DEF UnknownHeld, OneUndisposed

(* The owner is at a loose point after the step. *)
LEMMA LooseOwner ==
    ASSUME Shape, NEW w \in Worker, NEW pc \in Loose, OnlyMoves(w, pc),
           owner' = w,
           pc \in Working =>
               task'.cond # "recovery_required" /\ task'.outcome = "active"
    PROVE  OwnerInv'
BY DEF OwnerInv, OnlyMoves, Loose

-----------------------------------------------------------------------------
(* One lemma for each part of Next. *)

LEMMA InitInv == Init => IInv
<1> SUFFICES ASSUME Init PROVE IInv
  OBVIOUS
<1>1. RowInv /\ UnknownHeld /\ OneUndisposed
  BY DEF Init, RowInv, RowOK, UnknownHeld, OneUndisposed, Undisposed,
         NoEffect, Begun
<1>2. HolderInv /\ OneHolder
  BY DEF Init, HolderInv, OneHolder, IdleWorker, Holding
<1>3. OwnerInv
  BY Constants DEF Init, OwnerInv
<1> QED BY <1>1, <1>2, <1>3 DEF IInv

(* The turns, the request and the policy are not in IInv. *)
LEMMA UnrelatedStep ==
    ASSUME IInv, UNCHANGED <<task, eff, appr, disp, owner, disk, ran, wk>>
    PROVE  IInv'
BY DEF IInv, RowInv, RowOK, HolderInv, OneHolder, OwnerInv, UnknownHeld,
       OneUndisposed, Undisposed

LEMMA OperatorInv ==
    ASSUME Shape, Shape', IInv, Operator
    PROVE  IInv'
<1> USE DEF Shape
<1>h. UNCHANGED wk => HolderFrame
  BY DEF HolderFrame
<1>1. CASE AppendTurn
  BY <1>1, UnrelatedStep DEF AppendTurn, rowVars, envVars
<1>2. CASE CancelTask
  <2>1. CASE owner # None
    BY <1>2, <2>1, UnrelatedStep DEF CancelTask, rowVars, envVars
  <2>2. CASE owner = None
    <3>1. OwnerInv'
      BY <1>2, <2>2, Constants DEF CancelTask, envVars, OwnerInv
    <3>2. UnknownHeld'
      BY <1>2, <2>2 DEF CancelTask, rowVars, IInv, UnknownHeld, Undisposed
    <3> QED BY <1>2, <3>1, <3>2
            DEF CancelTask, rowVars, envVars, IInv, RowInv, RowOK, HolderInv, OneHolder,
                OneUndisposed, Undisposed
  <2> QED BY <2>1, <2>2
<1>3. ASSUME NEW e \in EffectId, NEW approved \in BOOLEAN,
             NEW p \in {appr[e].policy, policy}, Decide(e, approved, p)
      PROVE IInv'
  <2>1. eff[e].status = "waiting" /\ ran[e] # 1 /\ ran[e] <= 1 /\ eff[e].version \in Nat
    BY <1>3 DEF Decide, IInv, RowInv, RowOK, Begun, TypeOK, EffectRow
  <2>2. /\ \A d \in EffectId \ {e} : eff'[d] = eff[d] /\ appr'[d] = appr[d]
                                     /\ disp'[d] = disp[d]
        /\ UNCHANGED <<disp, ran, disk, wk, owner>>
    BY <1>3 DEF Decide, envVars, TypeOK
  <2>3. /\ eff'[e].status \in {"denied", "prepared"}
        /\ eff'[e].version = eff[e].version + 1
    BY <1>3 DEF Decide, TypeOK, EffectRow
  <2>4. appr'[e].status \in {"expired", "approved", "denied"}
    BY <1>3 DEF Decide, TypeOK
  <2>5. RowOK(e)'
    BY <2>1, <2>2, <2>3, <2>4 DEF RowOK, Begun
  <2>6. RowInv' /\ HolderInv' /\ OneHolder'
    BY <1>h, <2>1, <2>2, <2>3, <2>5, RowStep DEF Begun
  <2>7. /\ task.cond = "recovery_required" => task'.cond = "recovery_required"
        /\ task'.outcome = task.outcome
        /\ task'.cond = "recovery_required" => task.cond = "recovery_required"
    BY <1>3 DEF Decide, TypeOK
  <2>8. UnknownHeld' /\ OneUndisposed'
    <3>1. ASSUME NEW d \in EffectId, Undisposed(d)' PROVE Undisposed(d)
      BY <2>2, <2>3, <3>1 DEF Undisposed
    <3> QED BY <2>7, <3>1, NoneUnknown DEF IInv
  <2>9. OwnerInv'
    <3>1. ASSUME NEW v \in Worker, owner = v, wk[v].pc = "read"
          PROVE  \/ eff'[wk[v].cur] = wk[v].seen
                 \/ /\ wk[v].seen.status = "waiting"
                    /\ eff'[wk[v].cur].version > wk[v].seen.version
      <4>1. wk[v].cur \in EffectId /\ wk[v].seen \in EffectRow
        BY <3>1 DEF TypeOK, Bounds, WorkerRow, HasCurrent
      <4>2. eff[wk[v].cur].version \in Nat /\ wk[v].seen.version \in Nat
        BY <4>1 DEF TypeOK, EffectRow
      <4>3. \/ eff[wk[v].cur] = wk[v].seen
            \/ /\ wk[v].seen.status = "waiting"
               /\ eff[wk[v].cur].version > wk[v].seen.version
        BY <3>1 DEF IInv, OwnerInv
      <4> QED BY <2>1, <2>2, <2>3, <4>1, <4>2, <4>3
    <3>2. ASSUME NEW v \in Worker, owner = v, wk[v].pc \in Holding \cup {"ran"}
          PROVE  eff'[wk[v].cur].status = "executing"
      <4>1. wk[v].cur \in EffectId
        BY <3>2 DEF TypeOK, Bounds, WorkerRow, HasCurrent, Holding
      <4> QED BY <2>1, <2>2, <3>2, <4>1 DEF IInv, OwnerInv
    <3> QED BY <2>2, <2>7, <3>1, <3>2 DEF IInv, OwnerInv
  <2> QED BY <2>6, <2>8, <2>9 DEF IInv
<1>4. ASSUME NEW e \in EffectId, NEW success \in BOOLEAN, Confirm(e, success)
      PROVE IInv'
  <2>1. /\ eff[e].status = "unknown" /\ Undisposed(e)
        /\ task.cond = "recovery_required"
    BY <1>4 DEF Confirm, Undisposed
  <2>2. /\ \A d \in EffectId \ {e} : eff'[d] = eff[d] /\ appr'[d] = appr[d]
                                     /\ disp'[d] = disp[d]
        /\ UNCHANGED <<appr, ran, disk, wk, owner>>
        /\ disp'[e] = "confirm"
    BY <1>4 DEF Confirm, envVars, TypeOK, WithStatus
  <2>3. /\ eff'[e].status \in {"succeeded", "failed"}
        /\ eff'[e].call = eff[e].call /\ eff'[e].decision = eff[e].decision
    BY <1>4 DEF Confirm, WithStatus, CommittedStatus, TypeOK, EffectRow
  <2>4. RowOK(e)'
    BY <2>1, <2>2, <2>3 DEF IInv, RowInv, RowOK, Begun
  <2>5. RowInv' /\ HolderInv' /\ OneHolder'
    BY <1>h, <2>1, <2>2, <2>3, <2>4, RowStep DEF Begun
  <2>6. UnknownHeld' /\ OneUndisposed'
    <3>1. ASSUME NEW d \in EffectId PROVE ~Undisposed(d)'
      BY <2>1, <2>2, <2>3 DEF IInv, OneUndisposed, Undisposed
    <3> QED BY <3>1 DEF UnknownHeld, OneUndisposed
  <2>7. OwnerInv'
    BY <2>1, <2>2 DEF IInv, OwnerInv, Holding, Working, PC
  <2> QED BY <2>5, <2>6, <2>7 DEF IInv
<1>5. ASSUME NEW e \in EffectId, NEW r \in EffectId, Retry(e, r) PROVE IInv'
  <2>1. /\ Undisposed(e) /\ eff[r].status = "none" /\ e # r
        /\ task.cond = "recovery_required"
    BY <1>5 DEF Retry, Undisposed, Fresh
  <2>2. /\ \A d \in EffectId \ {r} : eff'[d] = eff[d] /\ appr'[d] = appr[d]
        /\ UNCHANGED <<ran, disk, wk, owner>>
        /\ disp'[e] = "retry" /\ \A d \in EffectId \ {e} : disp'[d] = disp[d]
        /\ eff'[r].status = "waiting" /\ eff'[r].attached
        /\ appr'[r].status = "pending"
    BY <1>5 DEF Retry, envVars, TypeOK
  <2>3. RowInv'
    BY <2>1, <2>2 DEF IInv, RowInv, RowOK, Begun
  <2>4. \A d \in EffectId : eff[d].status \in Begun =>
            eff'[d].status \in Begun /\ eff'[d].call = eff[d].call
    BY <2>1, <2>2 DEF Begun
  <2>5. HolderInv' /\ OneHolder'
    BY <1>h, <2>2, <2>4, HoldersKept DEF IInv
  <2>6. UnknownHeld' /\ OneUndisposed'
    <3>1. ASSUME NEW d \in EffectId PROVE ~Undisposed(d)'
      BY <2>1, <2>2 DEF IInv, OneUndisposed, Undisposed
    <3> QED BY <3>1 DEF UnknownHeld, OneUndisposed
  <2>7. OwnerInv'
    BY <2>1, <2>2 DEF IInv, OwnerInv, Holding, Working, PC
  <2> QED BY <2>3, <2>5, <2>6, <2>7 DEF IInv
<1>6. ASSUME NEW e \in EffectId, Abandon(e) PROVE IInv'
  <2>1. Undisposed(e) /\ task.cond = "recovery_required"
    BY <1>6 DEF Abandon
  <2>2. /\ UNCHANGED <<eff, appr, ran, disk, wk, owner>>
        /\ disp'[e] = "abandon" /\ \A d \in EffectId \ {e} : disp'[d] = disp[d]
    BY <1>6 DEF Abandon, envVars, TypeOK
  <2>3. RowInv' /\ HolderInv' /\ OneHolder'
    BY <2>2 DEF IInv, RowInv, RowOK, HolderInv, OneHolder
  <2>4. UnknownHeld' /\ OneUndisposed'
    <3>1. ASSUME NEW d \in EffectId PROVE ~Undisposed(d)'
      BY <2>1, <2>2 DEF IInv, OneUndisposed, Undisposed
    <3> QED BY <3>1 DEF UnknownHeld, OneUndisposed
  <2>5. OwnerInv'
    BY <2>1, <2>2 DEF IInv, OwnerInv, Holding, Working, PC
  <2> QED BY <2>3, <2>4, <2>5 DEF IInv
<1> QED BY <1>1, <1>2, <1>3, <1>4, <1>5, <1>6 DEF Operator

LEMMA EnvironmentInv ==
    ASSUME Shape, Shape', IInv, Environment
    PROVE  IInv'
<1> USE DEF Shape
<1>1. CASE PolicyChanges
  BY <1>1, UnrelatedStep DEF PolicyChanges, taskVars, rowVars
<1>2. ASSUME NEW c \in FileCalls, NEW content \in Content, FileEdited(c, content)
      PROVE IInv'
  BY <1>2
     DEF FileEdited, taskVars, rowVars, IInv, RowInv, RowOK, HolderInv, OneHolder,
         OwnerInv, UnknownHeld, OneUndisposed, Undisposed
<1>3. CASE LeaseExpires
  <2>1. HolderFrame
    BY <1>3 DEF LeaseExpires, HolderFrame, IdleWorker, Holding
  <2>2. HolderInv' /\ OneHolder'
    BY <1>3, <2>1, HoldersKept DEF IInv, LeaseExpires, rowVars
  <2>3. OwnerInv'
    BY <1>3, Constants DEF LeaseExpires, OwnerInv
  <2> QED BY <1>3, <2>2, <2>3
          DEF LeaseExpires, taskVars, rowVars, IInv, RowInv, RowOK,
              UnknownHeld, OneUndisposed, Undisposed
<1>4. ASSUME NEW w \in Worker, Crash(w) \/ LeaseLost(w) PROVE IInv'
  <2>1. OnlyMoves(w, "idle")
    BY <1>4 DEF Crash, LeaseLost, OnlyMoves, IdleWorker, TypeOK
  <2> QED BY <1>4, <2>1, LooseStep
          DEF Crash, LeaseLost, taskVars, rowVars, envVars, Loose, Working, PC, Holding
<1> QED BY <1>1, <1>2, <1>3, <1>4 DEF Environment

LEMMA StartInv ==
    ASSUME Shape, Shape', IInv, NEW w \in Worker, Start(w)
    PROVE  IInv'
<1> USE DEF Shape
<1>l. {"reconcile", "resumed", "advance", "model", "next", "release"} \subseteq Loose \cap PC
  BY DEF Loose, Holding, PC
<1>o. /\ owner = w /\ wk[w].pc \in Working =>
             task.cond # "recovery_required" /\ task.outcome = "active"
      /\ {"reconcile", "resumed", "advance", "model"} \subseteq Working
      /\ "release" \notin Working
  BY DEF IInv, OwnerInv, Working, PC
<1>1. CASE Resume(w)
  <2>1. OnlyMoves(w, "reconcile")
    BY <1>1 DEF Resume, OnlyMoves, TypeOK, WorkerRow
  <2>2. task'.cond # "recovery_required" /\ task'.outcome = "active"
    BY <1>1 DEF Resume, TypeOK
  <2> QED BY <1>1, <1>l, <2>1, <2>2, LooseStep, Constants DEF Resume, rowVars
<1>2. ASSUME NEW e \in EffectId, ReconcileConfirmed(w, e) PROVE IInv'
  <2>1. /\ eff[e].status = "executing" /\ eff'[e].status = "succeeded"
        /\ eff'[e].call = eff[e].call /\ eff'[e].decision = eff[e].decision
        /\ \A d \in EffectId \ {e} : eff'[d] = eff[d]
    BY <1>2 DEF ReconcileConfirmed, WithStatus, TypeOK, EffectRow
  <2>2. UNCHANGED <<task, appr, disp, ran, disk, owner, wk>> /\ HolderFrame
    BY <1>2 DEF ReconcileConfirmed, taskVars, envVars, HolderFrame
  <2>3. RowOK(e)'
    BY <2>1, <2>2 DEF IInv, RowInv, RowOK, Begun
  <2>4. RowInv' /\ HolderInv' /\ OneHolder'
    BY <2>1, <2>2, <2>3, RowStep DEF Begun
  <2>5. UnknownHeld' /\ OneUndisposed'
    <3>1. ASSUME NEW d \in EffectId, Undisposed(d)' PROVE Undisposed(d)
      BY <2>1, <2>2, <3>1 DEF Undisposed
    <3> QED BY <2>2, <3>1, NoneUnknown DEF IInv
  <2>6. OwnerInv'
    BY <1>2, <1>o, <2>2 DEF ReconcileConfirmed, OwnerInv, Holding
  <2> QED BY <2>4, <2>5, <2>6 DEF IInv
<1>3. ASSUME NEW e \in EffectId, ReconcileUnknown(w, e) PROVE IInv'
  <2>1. /\ eff[e].status = "executing" /\ eff'[e].status = "unknown"
        /\ eff'[e].call = eff[e].call /\ eff'[e].decision = eff[e].decision
        /\ \A d \in EffectId \ {e} : eff'[d] = eff[d]
    BY <1>3 DEF ReconcileUnknown, WithStatus, TypeOK, EffectRow
  <2>2. OnlyMoves(w, "release") /\ HolderFrame
    BY <1>3, <1>l, Moves, LooseHolders DEF ReconcileUnknown
  <2>3. UNCHANGED <<appr, disp, ran, disk, owner>>
    BY <1>3 DEF ReconcileUnknown, envVars
  <2>4. RowOK(e)'
    BY <2>1, <2>3 DEF IInv, RowInv, RowOK, Begun
  <2>5. RowInv' /\ HolderInv' /\ OneHolder'
    BY <2>1, <2>2, <2>3, <2>4, RowStep DEF Begun
  <2>6. UnknownHeld'
    BY <1>3 DEF ReconcileUnknown, UnknownHeld, TypeOK
  <2>7. OneUndisposed'
    <3>1. ASSUME NEW d \in EffectId PROVE ~Undisposed(d)
      BY <1>3, <1>o DEF ReconcileUnknown, IInv, UnknownHeld
    <3>2. ASSUME NEW d \in EffectId, Undisposed(d)' PROVE d = e
      BY <2>1, <2>3, <3>1, <3>2 DEF Undisposed
    <3> QED BY <3>2 DEF OneUndisposed
  <2>8. OwnerInv'
    BY <1>3, <1>l, <1>o, <2>2, <2>3, LooseOwner DEF ReconcileUnknown
  <2> QED BY <2>5, <2>6, <2>7, <2>8 DEF IInv
<1>4. CASE Reconciled(w) \/ EnterLoop(w) \/ RecoverStep(w)
  <2>1. \E pc \in {"resumed", "advance", "next"} : OnlyMoves(w, pc)
    <3>1. CASE Reconciled(w)
      BY <3>1, <1>l, Moves DEF Reconciled
    <3>2. CASE EnterLoop(w)
      BY <3>2 DEF EnterLoop, OnlyMoves, TypeOK, WorkerRow
    <3>3. CASE RecoverStep(w)
      BY <3>3, Moves DEF RecoverStep
    <3> QED BY <1>4, <3>1, <3>2, <3>3
  <2>2. owner = w /\ task.cond # "recovery_required" /\ task.outcome = "active"
    BY <1>4, <1>o DEF Reconciled, EnterLoop, RecoverStep
  <2>3. UNCHANGED <<task, owner, eff, appr, disp, ran, disk>>
    BY <1>4 DEF Reconciled, EnterLoop, RecoverStep, taskVars, rowVars, envVars
  <2> QED BY <1>l, <2>1, <2>2, <2>3, LooseStep
<1>5. ASSUME NEW e \in EffectId, MaterializeRetry(w, e) PROVE IInv'
  <2>1. OnlyMoves(w, "next")
    BY <1>5, Moves DEF MaterializeRetry
  <2>2. owner = w /\ task.cond # "recovery_required" /\ task.outcome = "active"
    BY <1>5, <1>o DEF MaterializeRetry
  <2>3. UNCHANGED <<task, owner, eff, appr, disp, ran, disk>>
    BY <1>5 DEF MaterializeRetry, rowVars, envVars
  <2> QED BY <1>l, <2>1, <2>2, <2>3, LooseStep
<1>6. CASE ConsumeInputs(w)
  <2>1. OnlyMoves(w, "model")
    BY <1>6, <1>l, Moves DEF ConsumeInputs
  <2>2. owner = w /\ task.cond # "recovery_required" /\ task.outcome = "active"
    BY <1>6, <1>o DEF ConsumeInputs
  <2>3. UNCHANGED <<task, owner, eff, appr, disp, ran, disk>>
    BY <1>6 DEF ConsumeInputs, rowVars, envVars
  <2> QED BY <1>l, <2>1, <2>2, <2>3, LooseStep
<1>7. ASSUME NEW s \in Batches, PrepareBatch(w, s) PROVE IInv'
  <2> DEFINE InBatch(e) == \E i \in DOMAIN s : s[i] = e
  <2>1. ASSUME NEW e \in EffectId, InBatch(e)
        PROVE  eff[e].status = "none" /\ eff'[e].status = "prepared"
    <3>1. eff[e].status = "none"
      BY <2>1 DEF Batches, Fresh
    <3>2. eff'[e].status = "prepared"
      BY <1>7, <2>1 DEF PrepareBatch, NoEffect
    <3> QED BY <3>1, <3>2
  <2>2. ASSUME NEW e \in EffectId, ~InBatch(e) PROVE eff'[e] = eff[e]
    BY <1>7, <2>2 DEF PrepareBatch
  <2>3. UNCHANGED <<task, appr, disp, ran, disk, owner>> /\ owner = w
    BY <1>7 DEF PrepareBatch, envVars
  <2>4. OnlyMoves(w, "next") /\ HolderFrame
    BY <1>7, <1>l, Moves, LooseHolders DEF PrepareBatch
  <2> HIDE DEF InBatch
  <2>5. RowInv'
    BY <2>1, <2>2, <2>3 DEF IInv, RowInv, RowOK, Begun
  <2>6. \A d \in EffectId : eff[d].status \in Begun =>
            eff'[d].status \in Begun /\ eff'[d].call = eff[d].call
    BY <2>1, <2>2 DEF Begun
  <2>7. HolderInv' /\ OneHolder'
    BY <2>3, <2>4, <2>6, HoldersKept DEF IInv
  <2>8. UnknownHeld' /\ OneUndisposed'
    <3>1. ASSUME NEW d \in EffectId, Undisposed(d)' PROVE Undisposed(d)
      BY <2>1, <2>2, <2>3, <3>1 DEF Undisposed
    <3> QED BY <2>3, <3>1, NoneUnknown DEF IInv
  <2>9. OwnerInv'
    BY <1>7, <1>l, <1>o, <2>3, <2>4, LooseOwner DEF PrepareBatch
  <2> QED BY <2>5, <2>7, <2>8, <2>9 DEF IInv
<1> QED BY <1>1, <1>2, <1>3, <1>4, <1>5, <1>6, <1>7 DEF Start

(* settle_unexecuted_effect, by the owner. *)
LEMMA SettleInv ==
    ASSUME Shape, IInv, NEW w \in Worker, NEW pc \in Loose, OnlyMoves(w, pc),
           NEW e \in EffectId, NEW st \in {"denied", "cancelled"}, NEW version,
           SettleAllowed(e, version, st), Settle(e, st),
           owner' = w, owner = w, wk[w].pc \in Working,
           UNCHANGED <<task, disp, ran, disk>>
    PROVE  IInv'
<1> USE DEF Shape
<1>1. /\ eff[e].status \in Unclaimed \cup {st} /\ eff'[e].status = st
      /\ \A d \in EffectId \ {e} : eff'[d] = eff[d] /\ appr'[d] = appr[d]
      /\ eff[e].attached /\ appr[e].status = "pending" => appr'[e].status = "expired"
      /\ ~(eff[e].attached /\ appr[e].status = "pending") => appr'[e] = appr[e]
  BY DEF SettleAllowed, Settle, WithStatus, TypeOK, EffectRow
<1>2. RowOK(e)'
  BY <1>1 DEF IInv, RowInv, RowOK, Begun, Unclaimed
<1>3. RowInv' /\ HolderInv' /\ OneHolder'
  BY <1>1, <1>2, RowStep, LooseHolders DEF Begun, Unclaimed
<1>4. UnknownHeld' /\ OneUndisposed'
  <2>1. ASSUME NEW d \in EffectId, Undisposed(d)' PROVE Undisposed(d)
    BY <1>1, <2>1 DEF Undisposed
  <2> QED BY <2>1, NoneUnknown DEF IInv
<1>5. OwnerInv'
  BY LooseOwner DEF IInv, OwnerInv
<1> QED BY <1>3, <1>4, <1>5 DEF IInv

(* commit_effect, by the owner that claimed the effect. *)
LEMMA CommitInv ==
    ASSUME Shape, IInv, NEW w \in Worker, NEW success \in BOOLEAN,
           wk[w].pc \in Holding \cup {"ran"}, CommitEffect(w, success)
    PROVE  IInv'
<1> USE DEF Shape
<1>0. PICK e \in EffectId : e = wk[w].cur
  BY DEF TypeOK, Bounds, WorkerRow, Holding, HasCurrent
<1>1. eff[e].status = "executing" /\ owner = w /\ wk[w].pc \in Working
  BY <1>0 DEF CommitEffect, IInv, OwnerInv, Holding, Working, PC
<1>2. /\ eff'[e].status = CommittedStatus(success)
      /\ eff'[e].call = eff[e].call /\ eff'[e].decision = eff[e].decision
      /\ \A d \in EffectId \ {e} : eff'[d] = eff[d]
  BY <1>0 DEF CommitEffect, WithStatus, TypeOK, EffectRow
<1>3. OnlyMoves(w, "next") /\ "next" \in Loose
  BY Moves DEF CommitEffect, Loose, PC, Holding
<1>4. UNCHANGED <<task, appr, disp, ran, disk, owner>>
  BY DEF CommitEffect, taskVars, envVars
<1>5. RowOK(e)'
  BY <1>1, <1>2, <1>4 DEF IInv, RowInv, RowOK, Begun, CommittedStatus
<1>6. RowInv' /\ HolderInv' /\ OneHolder'
  BY <1>1, <1>2, <1>3, <1>4, <1>5, RowStep, LooseHolders DEF Begun, CommittedStatus
<1>7. UnknownHeld' /\ OneUndisposed'
  <2>1. ASSUME NEW d \in EffectId, Undisposed(d)' PROVE Undisposed(d)
    BY <1>1, <1>2, <1>4, <2>1 DEF Undisposed, CommittedStatus
  <2> QED BY <1>4, <2>1, NoneUnknown DEF IInv
<1>8. OwnerInv'
  BY <1>1, <1>3, <1>4, LooseOwner DEF IInv, OwnerInv
<1> QED BY <1>6, <1>7, <1>8 DEF IInv

(* claim_effect: the row is the one that was read, so the effect is still  *)
(* prepared and nobody else holds it.                                      *)
LEMMA ClaimInv ==
    ASSUME Shape, IInv, NEW w \in Worker, ClaimEffect(w)
    PROVE  /\ IInv'
           /\ eff[wk[w].cur] = wk[w].seen /\ eff[wk[w].cur].status = "prepared"
<1> USE DEF Shape
<1> DEFINE e == wk[w].cur
<1>0. /\ owner = w /\ wk[w].pc = "read" /\ wk[w].seen.status = "prepared"
      /\ Consumable(w, e) /\ Revalidated(w)
  BY DEF ClaimEffect, AtClaim, AtUnanswered, ClaimAllowed
<1>1. e \in EffectId /\ wk[w] \in WorkerRow
  BY <1>0 DEF TypeOK, Bounds, WorkerRow, HasCurrent
<1>2. eff[e] = wk[w].seen /\ eff[e].status = "prepared"
  BY <1>0 DEF IInv, OwnerInv
<1>3. eff[e].decision # "deny"
  BY <1>0, <1>2 DEF Revalidated
<1>4. /\ eff'[e].status = "executing"
      /\ eff'[e].call = eff[e].call /\ eff'[e].decision = eff[e].decision
      /\ \A d \in EffectId \ {e} : eff'[d] = eff[d] /\ appr'[d] = appr[d]
  BY <1>1 DEF ClaimEffect, ApprovalConsumed, TypeOK, EffectRow
<1>5. /\ eff[e].decision = "require_approval" => appr'[e].status = "consumed"
      /\ appr'[e].status # "pending"
  BY <1>0, <1>1, <1>2 DEF ClaimEffect, Consumable, ApprovalConsumed, TypeOK,
                          IInv, RowInv, RowOK
<1>6. /\ wk'[w].pc = "claimed" /\ wk'[w].cur = e /\ wk'[w].seen = wk[w].seen
      /\ \A v \in Worker \ {w} : wk'[v] = wk[v]
  BY <1>1 DEF ClaimEffect, Go, TypeOK, WorkerRow
<1>7. UNCHANGED <<task, disp, ran, disk, owner>>
  BY DEF ClaimEffect, taskVars, envVars
<1> HIDE DEF e
<1>8. RowInv'
  BY <1>1, <1>2, <1>3, <1>4, <1>5, <1>7 DEF IInv, RowInv, RowOK, Begun
<1>9. ran[e] = 0
  <2>1. ran[e] \in Nat
    BY <1>1 DEF TypeOK
  <2> QED BY <1>1, <1>2, <2>1 DEF IInv, RowInv, RowOK, Begun
<1>10. ASSUME NEW v \in Worker \ {w}
       PROVE  /\ wk[v].pc \in Holding => wk[v].cur \in EffectId \ {e}
              /\ wk[v].pc = "ran" => wk[v].cur \in EffectId
  <2>1. wk[v].pc \in Holding \cup {"ran"} => wk[v].cur \in EffectId
    BY DEF TypeOK, Bounds, WorkerRow, Holding, HasCurrent
  <2> QED BY <1>2, <2>1 DEF IInv, HolderInv, Begun
<1>11. HolderInv'
  BY <1>2, <1>4, <1>6, <1>7, <1>9, <1>10 DEF IInv, HolderInv, Holding, Begun
<1>12. OneHolder'
  BY <1>6, <1>10 DEF IInv, OneHolder
<1>13. UnknownHeld' /\ OneUndisposed'
  <2>1. ASSUME NEW d \in EffectId, Undisposed(d)' PROVE Undisposed(d)
    BY <1>1, <1>4, <1>7, <2>1 DEF Undisposed
  <2> QED BY <1>7, <2>1, NoneUnknown DEF IInv
<1>14. OwnerInv'
  <2>1. task.cond # "recovery_required" /\ task.outcome = "active"
    BY <1>0 DEF IInv, OwnerInv, Working, PC
  <2> QED BY <1>0, <1>4, <1>6, <1>7, <2>1 DEF OwnerInv
<1>15. IInv'
  BY <1>8, <1>11, <1>12, <1>13, <1>14 DEF IInv
<1> QED BY <1>2, <1>15 DEF e

(* execute_claimed: the backend is invoked, by the owner or by a zombie. *)
LEMMA InvokedInv ==
    ASSUME Shape, IInv, NEW w \in Worker, wk[w].pc = "asserted", Invoked(w),
           wk'[w].pc \in {"ran", "cleanup"}, wk'[w].cur = wk[w].cur,
           \A v \in Worker \ {w} : wk'[v] = wk[v],
           UNCHANGED <<task, eff, appr, disp, owner>>
    PROVE  IInv'
<1> USE DEF Shape
<1> DEFINE e == wk[w].cur
<1>1. e \in EffectId
  BY DEF TypeOK, Bounds, WorkerRow, HasCurrent
<1>2. ran[e] = 0 /\ eff[e].status \in Begun /\ eff[e].call = wk[w].seen.call
  BY DEF IInv, HolderInv, Holding
<1>3. ran'[e] = 1 /\ \A d \in EffectId \ {e} : ran'[d] = ran[d]
  BY <1>1, <1>2 DEF Invoked, TypeOK
<1> HIDE DEF e
<1>4. RowInv'
  BY <1>1, <1>2, <1>3 DEF IInv, RowInv, RowOK
<1>5. ASSUME NEW v \in Worker \ {w}
      PROVE  /\ wk[v].pc \in Holding => wk[v].cur \in EffectId \ {e}
             /\ wk[v].pc = "ran" => wk[v].cur \in EffectId \ {e}
  <2>1. wk[v].pc \in Holding \cup {"ran"} => wk[v].cur \in EffectId
    BY DEF TypeOK, Bounds, WorkerRow, Holding, HasCurrent
  <2>2. wk[v].pc \in Holding => wk[v].cur # e
    BY DEF IInv, OneHolder, Holding, e
  <2>3. wk[v].pc = "ran" => wk[v].cur # e
    BY <1>2 DEF IInv, HolderInv
  <2> QED BY <2>1, <2>2, <2>3
<1>6. HolderInv'
  <2>1. ASSUME NEW v \in Worker
        PROVE  /\ wk'[v].pc \in Holding =>
                      /\ eff'[wk'[v].cur].status \in Begun
                      /\ eff'[wk'[v].cur].call = wk'[v].seen.call
                      /\ ran'[wk'[v].cur] = 0
               /\ wk'[v].pc = "ran" => ran'[wk'[v].cur] = 1
    <3>1. CASE v = w
      BY <1>3, <3>1 DEF Holding, e
    <3>2. CASE v # w
      BY <1>3, <1>5, <3>2 DEF IInv, HolderInv
    <3> QED BY <3>1, <3>2
  <2> QED BY <2>1 DEF HolderInv
<1>7. OneHolder'
  BY DEF IInv, OneHolder, Holding
<1>8. UnknownHeld' /\ OneUndisposed'
  BY NoneUnknown DEF IInv, Undisposed
<1>9. OwnerInv'
  BY DEF IInv, OwnerInv, Holding, Working, PC
<1> QED BY <1>4, <1>6, <1>7, <1>8, <1>9 DEF IInv

LEMMA BatchInv ==
    ASSUME Shape, Shape', IInv, NEW w \in Worker, Batch(w)
    PROVE  IInv'
<1> USE DEF Shape
<1>l. /\ {"next", "advance", "answer", "complete", "release", "fail", "idle"}
             \subseteq Loose \cap PC
      /\ {"next", "read", "claimed", "answer", "complete", "fail", "cleanup"}
             \subseteq Working
      /\ "release" \notin Working /\ "idle" \notin Working
  BY DEF Loose, Holding, PC, Working
<1>o. owner = w /\ wk[w].pc \in Working =>
          task.cond # "recovery_required" /\ task.outcome = "active"
  BY DEF IInv, OwnerInv
<1>1. CASE ReadEffect(w)
  <2>1. /\ wk'[w].pc = "read" /\ wk'[w].seen = eff[wk'[w].cur]
        /\ \A v \in Worker \ {w} : wk'[v] = wk[v]
    BY <1>1 DEF ReadEffect, TypeOK, WorkerRow
  <2>2. UNCHANGED <<task, owner, eff, appr, disp, ran, disk>> /\ owner = w
    BY <1>1 DEF ReadEffect, taskVars, rowVars, envVars
  <2>3. HolderFrame
    BY <2>1 DEF HolderFrame, Holding
  <2>4. HolderInv' /\ OneHolder'
    BY <2>2, <2>3, HoldersKept DEF IInv
  <2>5. OwnerInv'
    <3>1. task.cond # "recovery_required" /\ task.outcome = "active"
      BY <1>1, <1>l, <1>o DEF ReadEffect
    <3> QED BY <2>1, <2>2, <3>1 DEF OwnerInv, Holding
  <2> QED BY <2>2, <2>4, <2>5
          DEF IInv, RowInv, RowOK, UnknownHeld, OneUndisposed, Undisposed
<1>2. CASE RequestApproval(w)
  <2>0. PICK e \in EffectId : e = wk[w].cur
    BY <1>2 DEF RequestApproval, TypeOK, Bounds, WorkerRow, HasCurrent
  <2>a. /\ owner = w /\ wk[w].pc = "read" /\ UNCHANGED <<disp, ran, disk, owner>>
        /\ task.cond # "recovery_required" /\ task.outcome = "active"
    BY <1>2, <1>l, <1>o DEF RequestApproval, envVars
  <2>1. CASE ~RequestAllowed(w, e)
    BY <1>2, <1>l, <2>0, <2>1, <2>a, Moves, LooseStep DEF RequestApproval
  <2>2. CASE RequestAllowed(w, e) /\ eff[e].status = "waiting"
    <3>1. OnlyMoves(w, "release") /\ UNCHANGED <<eff, appr>>
      BY <1>2, <1>l, <2>0, <2>2, Moves DEF RequestApproval
    <3> QED BY <1>l, <2>a, <3>1, LooseStep
  <2>3. CASE RequestAllowed(w, e) /\ eff[e].status # "waiting"
    <3>1. OnlyMoves(w, "release") /\ HolderFrame
      BY <1>2, <1>l, <2>0, <2>3, Moves, LooseHolders DEF RequestApproval
    <3>2. eff[e] = wk[w].seen /\ eff[e].status = "prepared"
      <4>1. eff[e].version = wk[w].seen.version /\ NeedsApproval(wk[w].seen)
        BY <1>2, <2>0, <2>3 DEF RequestApproval, RequestAllowed
      <4>2. eff[e].version \in Nat
        BY DEF TypeOK, EffectRow
      <4>3. eff[e] = wk[w].seen
        BY <2>0, <2>a, <4>1, <4>2 DEF IInv, OwnerInv
      <4> QED BY <2>3, <4>1, <4>3 DEF NeedsApproval
    <3>3. /\ eff'[e].status = "waiting" /\ eff'[e].attached
          /\ appr'[e].status = "pending"
          /\ \A d \in EffectId \ {e} : eff'[d] = eff[d] /\ appr'[d] = appr[d]
      BY <1>2, <2>0, <2>3, SMTT(40) DEF RequestApproval, TypeOK, EffectRow
    <3>4. RowOK(e)'
      BY <2>a, <3>2, <3>3 DEF IInv, RowInv, RowOK, Begun
    <3>5. RowInv' /\ HolderInv' /\ OneHolder'
      BY <2>a, <3>1, <3>2, <3>3, <3>4, RowStep DEF Begun
    <3>6. UnknownHeld' /\ OneUndisposed'
      <4>1. ASSUME NEW d \in EffectId, Undisposed(d)' PROVE Undisposed(d)
        BY <2>a, <3>3, <4>1 DEF Undisposed
      <4> QED BY <2>a, <4>1, NoneUnknown DEF IInv
    <3>7. OwnerInv'
      BY <1>l, <2>a, <3>1, LooseOwner
    <3> QED BY <3>5, <3>6, <3>7 DEF IInv
  <2> QED BY <2>1, <2>2, <2>3
<1>3. CASE Replay(w) \/ BlockedRepeat(w)
  <2>1. OnlyMoves(w, "next")
    BY <1>3, Moves DEF Replay, BlockedRepeat
  <2>2. owner = w /\ task.cond # "recovery_required" /\ task.outcome = "active"
    BY <1>3, <1>l, <1>o DEF Replay, BlockedRepeat, AtUnanswered
  <2>3. UNCHANGED <<task, owner, eff, appr, disp, ran, disk>>
    BY <1>3 DEF Replay, BlockedRepeat, taskVars, rowVars, envVars
  <2> QED BY <1>l, <2>1, <2>2, <2>3, LooseStep
<1>4. CASE SettleUnexecuted(w)
  <2>0. PICK e \in EffectId : e = wk[w].cur
    BY <1>4 DEF SettleUnexecuted, AtUnanswered, TypeOK, Bounds, WorkerRow, HasCurrent
  <2>1. /\ owner = w /\ wk[w].pc \in Working
        /\ UNCHANGED <<task, owner, disp, ran, disk>>
    BY <1>4, <1>l DEF SettleUnexecuted, AtUnanswered, taskVars, envVars
  <2>2. PICK st \in {"denied", "cancelled"} : st = UnexecutedStatus(w)
    BY DEF UnexecutedStatus
  <2>3. CASE SettleAllowed(e, wk[w].seen.version, st)
    <3>1. Settle(e, st) /\ OnlyMoves(w, "next")
      BY <1>4, <2>0, <2>2, <2>3, Moves DEF SettleUnexecuted
    <3> QED BY <1>l, <2>1, <2>3, <3>1, SettleInv
  <2>4. CASE ~SettleAllowed(e, wk[w].seen.version, st)
    <3>1. Raise(w) /\ UNCHANGED <<eff, appr>>
      BY <1>4, <2>0, <2>2, <2>4 DEF SettleUnexecuted
    <3> QED BY <1>l, <1>o, <2>1, <3>1, Moves, LooseStep
  <2> QED BY <2>3, <2>4
<1>5. CASE ClaimEffect(w)
  BY <1>5, ClaimInv
<1>6. CASE ClaimConflict(w)
  <2>1. /\ owner = w /\ wk[w].pc \in Working
        /\ UNCHANGED <<task, owner, eff, appr, disp, ran, disk>>
    BY <1>6, <1>l DEF ClaimConflict, AtClaim, AtUnanswered, taskVars, rowVars, envVars
  <2>2. Raise(w)
    BY <1>6 DEF ClaimConflict
  <2> QED BY <1>l, <1>o, <2>1, <2>2, Moves, LooseStep
<1>7. CASE PreconditionFails(w)
  BY <1>7, CommitInv DEF PreconditionFails, Holding
<1>8. CASE Commit(w)
  <2>1. wk[w].ok \in BOOLEAN
    BY DEF TypeOK, WorkerRow
  <2> QED BY <1>8, <2>1, CommitInv DEF Commit
<1>9. CASE AssertOwnership(w)
  <2>1. /\ wk'[w].pc = "asserted" /\ wk'[w].cur = wk[w].cur /\ wk'[w].seen = wk[w].seen
        /\ wk[w].pc = "claimed"
        /\ \A v \in Worker \ {w} : wk'[v] = wk[v]
    BY <1>9 DEF AssertOwnership, Go, TypeOK, WorkerRow
  <2>2. UNCHANGED <<task, owner, eff, appr, disp, ran, disk>> /\ owner = w
    BY <1>9 DEF AssertOwnership, taskVars, rowVars, envVars
  <2>3. HolderInv' /\ OneHolder'
    <3>1. HolderFrame
      BY <2>1 DEF HolderFrame, Holding
    <3> QED BY <2>2, <3>1, HoldersKept DEF IInv
  <2>4. OwnerInv'
    BY <2>1, <2>2 DEF IInv, OwnerInv, Holding, Working, PC
  <2> QED BY <2>2, <2>3, <2>4
          DEF IInv, RowInv, RowOK, UnknownHeld, OneUndisposed, Undisposed
<1>10. ASSUME NEW ok \in BOOLEAN, BackendRuns(w, ok) PROVE IInv'
  <2>1. /\ wk'[w].pc = "ran" /\ wk'[w].cur = wk[w].cur
        /\ \A v \in Worker \ {w} : wk'[v] = wk[v]
    BY <1>10 DEF BackendRuns, TypeOK, WorkerRow
  <2> QED BY <1>10, <2>1, InvokedInv DEF BackendRuns, taskVars, rowVars
<1>11. CASE CleanupFails(w)
  <2>1. /\ wk'[w].pc = "cleanup" /\ wk'[w].cur = wk[w].cur
        /\ \A v \in Worker \ {w} : wk'[v] = wk[v]
    BY <1>11 DEF CleanupFails, Go, TypeOK, WorkerRow
  <2> QED BY <1>11, <2>1, InvokedInv DEF CleanupFails, taskVars, rowVars
<1>12. CASE RecordCleanupFailure(w)
  <2>1. OnlyMoves(w, "idle")
    BY <1>12 DEF RecordCleanupFailure, OnlyMoves, TypeOK, IdleWorker
  <2>2. /\ task.cond = "recovery_required" => task'.cond = "recovery_required"
        /\ owner # w => UNCHANGED task
        /\ UNCHANGED <<owner, eff, appr, disp, ran, disk>>
    BY <1>12 DEF RecordCleanupFailure, TypeOK, rowVars, envVars
  <2> QED BY <1>l, <2>1, <2>2, LooseStep
<1>13. CASE StepDone(w) \/ Conclude(w)
  <2>1. OnlyMoves(w, "advance") \/ OnlyMoves(w, "answer")
    BY <1>13, <1>l, Moves DEF StepDone, Conclude
  <2>2. owner = w /\ task.cond # "recovery_required" /\ task.outcome = "active"
    BY <1>13, <1>l, <1>o DEF StepDone, Conclude
  <2>3. UNCHANGED <<task, owner, eff, appr, disp, ran, disk>>
    BY <1>13 DEF StepDone, Conclude, taskVars, rowVars, envVars
  <2> QED BY <1>l, <2>1, <2>2, <2>3, LooseStep
<1>14. ASSUME NEW same \in BOOLEAN, AppendAnswer(w, same) PROVE IInv'
  <2>1. \/ OnlyMoves(w, "idle") \/ OnlyMoves(w, "release")
        \/ OnlyMoves(w, "complete")
    BY <1>14, <1>l, Moves DEF AppendAnswer
  <2>2. UNCHANGED <<task, owner, eff, appr, disp, ran, disk>> /\ wk[w].pc \in Working
    BY <1>14, <1>l DEF AppendAnswer, rowVars, envVars
  <2> QED BY <1>l, <1>o, <2>1, <2>2, LooseStep
<1>15. CASE CompleteTask(w)
  <2>1. OnlyMoves(w, "release")
    BY <1>15, <1>l, Moves DEF CompleteTask
  <2>2. /\ owner = w /\ task.cond # "recovery_required"
        /\ UNCHANGED <<owner, eff, appr, disp, ran, disk>>
    BY <1>15, <1>l, <1>o DEF CompleteTask, rowVars, envVars
  <2> QED BY <1>l, <2>1, <2>2, LooseStep
<1> QED BY <1>1, <1>2, <1>3, <1>4, <1>5, <1>6, <1>7, <1>8, <1>9, <1>10, <1>11,
           <1>12, <1>13, <1>14, <1>15 DEF Batch

LEMMA StopInv ==
    ASSUME Shape, Shape', IInv, NEW w \in Worker, Stop(w)
    PROVE  IInv'
<1> USE DEF Shape
<1>l. /\ {"next", "advance", "cancelling", "settle_control", "superseding", "sup_settle",
          "release", "fail", "idle"} \subseteq Loose \cap PC
      /\ {"resumed", "advance", "model", "next", "read", "fail", "cancelling",
          "superseding", "sup_settle"} \subseteq Working
      /\ "release" \notin Working /\ "idle" \notin Working
      /\ "settle_control" \notin Working
  BY DEF Loose, Holding, PC, Working
<1>o. owner = w /\ wk[w].pc \in Working =>
          task.cond # "recovery_required" /\ task.outcome = "active"
  BY DEF IInv, OwnerInv
<1>1. CASE CancelSeen(w)
  <2>1. OnlyMoves(w, "cancelling")
    <3>1. ASSUME NEW row \in WorkerRow, NEW td, NEW lp
          PROVE  [row EXCEPT !.pc = "cancelling", !.loop = lp, !.todo = td].pc = "cancelling"
      BY <3>1 DEF WorkerRow
    <3> QED BY <1>1, <3>1, IdleType DEF CancelSeen, OnlyMoves, TypeOK
  <2>2. /\ owner = w /\ wk[w].pc \in Working
        /\ UNCHANGED <<task, owner, eff, appr, disp, ran, disk>>
    BY <1>1, <1>l DEF CancelSeen, AtClaim, AtUnanswered, taskVars, rowVars, envVars
  <2> QED BY <1>l, <1>o, <2>1, <2>2, LooseStep
<1>2. ASSUME NEW e \in EffectId, CancelPendingEffect(w, e) PROVE IInv'
  <2>1. /\ owner = w /\ wk[w].pc = "cancelling"
        /\ UNCHANGED <<task, owner, disp, ran, disk>>
    BY <1>2 DEF CancelPendingEffect, taskVars, envVars
  <2>2. CASE SettleAllowed(e, wk[w].todo[e], "cancelled")
    <3>1. Settle(e, "cancelled") /\ wk' = [wk EXCEPT ![w].todo[e] = 0]
      BY <1>2, <2>2 DEF CancelPendingEffect
    <3>2. OnlyMoves(w, "cancelling")
      BY <2>1, <3>1 DEF OnlyMoves, TypeOK, WorkerRow
    <3> QED BY <1>l, <2>1, <2>2, <3>1, <3>2, SettleInv
  <2>3. CASE ~SettleAllowed(e, wk[w].todo[e], "cancelled")
    <3>1. Raise(w) /\ UNCHANGED <<eff, appr>>
      BY <1>2, <2>3 DEF CancelPendingEffect
    <3> QED BY <1>l, <1>o, <2>1, <3>1, Moves, LooseStep
  <2> QED BY <2>2, <2>3
<1>3. CASE ReportFails(w) \/ RunFails(w)
  <2>1. OnlyMoves(w, "release") \/ OnlyMoves(w, "fail")
    BY <1>3, <1>l, Moves DEF ReportFails, RunFails
  <2>2. /\ owner = w /\ wk[w].pc \in Working
        /\ UNCHANGED <<task, owner, eff, appr, disp, ran, disk>>
    BY <1>3, <1>l DEF ReportFails, RunFails, taskVars, rowVars, envVars
  <2> QED BY <1>l, <1>o, <2>1, <2>2, LooseStep
<1>4. CASE PersistCancelled(w) \/ FailTask(w)
  <2>1. OnlyMoves(w, "settle_control") \/ OnlyMoves(w, "release")
    BY <1>4, <1>l, Moves DEF PersistCancelled, FailTask
  <2>2. /\ owner = w /\ wk[w].pc \in Working
        /\ UNCHANGED <<owner, eff, appr, disp, ran, disk>>
    BY <1>4, <1>l DEF PersistCancelled, FailTask, rowVars, envVars
  <2> QED BY <1>l, <1>o, <2>1, <2>2, LooseStep
<1>5. CASE SettleControl(w)
  <2>1. OnlyMoves(w, "idle") \/ OnlyMoves(w, "release")
    BY <1>5, <1>l, Moves DEF SettleControl
  <2>2. UNCHANGED <<task, owner, eff, appr, disp, ran, disk>>
    BY <1>5 DEF SettleControl, rowVars, envVars
  <2> QED BY <1>l, <2>1, <2>2, LooseStep
<1>6. CASE InputRevised(w)
  <2>1. OnlyMoves(w, "superseding")
    BY <1>6 DEF InputRevised, OnlyMoves, TypeOK, WorkerRow
  <2>2. /\ owner = w /\ wk[w].pc \in Working
        /\ UNCHANGED <<task, owner, eff, appr, disp, ran, disk>>
    BY <1>6, <1>l DEF InputRevised, AtClaim, AtUnanswered, taskVars, rowVars, envVars
  <2> QED BY <1>l, <1>o, <2>1, <2>2, LooseStep
<1>7. CASE SupersedeRead(w)
  <2>1. OnlyMoves(w, "superseding") \/ OnlyMoves(w, "sup_settle")
    BY <1>7 DEF SupersedeRead, OnlyMoves, TypeOK, WorkerRow
  <2>2. /\ owner = w /\ wk[w].pc \in Working
        /\ UNCHANGED <<task, owner, eff, appr, disp, ran, disk>>
    BY <1>7, <1>l DEF SupersedeRead, taskVars, rowVars, envVars
  <2> QED BY <1>l, <1>o, <2>1, <2>2, LooseStep
<1>8. CASE SupersedeSettle(w)
  <2>0. PICK e \in EffectId : e = wk[w].cur
    BY <1>8 DEF SupersedeSettle, TypeOK, Bounds, WorkerRow, HasCurrent
  <2>1. /\ owner = w /\ wk[w].pc = "sup_settle"
        /\ UNCHANGED <<task, owner, disp, ran, disk>>
    BY <1>8 DEF SupersedeSettle, taskVars, envVars
  <2>2. CASE SettleAllowed(e, wk[w].seen.version, "cancelled")
    <3>1. Settle(e, "cancelled") /\ OnlyMoves(w, "superseding")
      <4>1. /\ Settle(e, "cancelled")
            /\ wk' = [wk EXCEPT ![w].pc = "superseding", ![w].pos = @ + 1,
                                ![w].cur = None, ![w].seen = NoEffect]
        BY <1>8, <2>0, <2>2 DEF SupersedeSettle
      <4> QED BY <4>1 DEF OnlyMoves, TypeOK, WorkerRow
    <3> QED BY <1>l, <2>1, <2>2, <3>1, SettleInv
  <2>3. CASE ~SettleAllowed(e, wk[w].seen.version, "cancelled")
    <3>1. Raise(w) /\ UNCHANGED <<eff, appr>>
      BY <1>8, <2>0, <2>3 DEF SupersedeSettle
    <3> QED BY <1>l, <1>o, <2>1, <3>1, Moves, LooseStep
  <2> QED BY <2>2, <2>3
<1>9. CASE Superseded(w)
  <2>1. OnlyMoves(w, "advance")
    BY <1>9, Moves DEF Superseded
  <2>2. /\ owner = w /\ wk[w].pc \in Working
        /\ UNCHANGED <<task, owner, eff, appr, disp, ran, disk>>
    BY <1>9, <1>l DEF Superseded, rowVars, envVars
  <2> QED BY <1>l, <1>o, <2>1, <2>2, LooseStep
<1>10. CASE Release(w)
  <2>1. OnlyMoves(w, "idle")
    BY <1>10 DEF Release, OnlyMoves, TypeOK, IdleWorker
  <2>2. /\ owner' = None
        /\ task.cond = "recovery_required" => task'.cond = "recovery_required"
        /\ UNCHANGED <<eff, appr, disp, ran, disk>>
    BY <1>10 DEF Release, rowVars
  <2> QED BY <1>l, <2>1, <2>2, LooseStep, Constants
<1> QED BY <1>1, <1>2, <1>3, <1>4, <1>5, <1>6, <1>7, <1>8, <1>9, <1>10 DEF Stop

LEMMA NextInv ==
    ASSUME Shape, Shape', IInv, [Next]_vars
    PROVE  IInv'
<1>1. CASE Next
  BY <1>1, OperatorInv, EnvironmentInv, StartInv, BatchInv, StopInv DEF Next
<1>2. CASE UNCHANGED vars
  BY <1>2, UnrelatedStep DEF vars, taskVars, rowVars, envVars
<1> QED BY <1>1, <1>2

(* The invariant on which the theorems rest: see the definitions at the    *)
(* head of the module.                                                     *)
THEOREM ProtocolInvariant == Spec => []IInv
BY InitInv, NextInv, ShapeCorrect, PTL DEF Spec

(* The backend of an effect is invoked at most once, whatever workers      *)
(* crash, lose their lease or go on as zombies after it: execute_claimed   *)
(* is reached only through claim_effect, which finds the row as read.      *)
THEOREM AtMostOnceHolds == Spec => []AtMostOnce
<1>1. IInv => AtMostOnce
  BY DEF IInv, RowInv, RowOK, AtMostOnce
<1> QED BY <1>1, ProtocolInvariant, PTL

(* An effect that settle_unexecuted_effect or an operator ended without    *)
(* running it was never handed to the backend.                             *)
THEOREM UnexecutedHolds == Spec => []UnexecutedDidNotRun
<1>1. Shape /\ IInv => UnexecutedDidNotRun
  <2> SUFFICES ASSUME Shape, IInv, NEW e \in EffectId,
                      eff[e].status \in {"denied", "cancelled"}
               PROVE  ran[e] = 0
    BY DEF UnexecutedDidNotRun
  <2>1. ran[e] \in Nat
    BY DEF Shape, TypeOK
  <2> QED BY <2>1 DEF IInv, RowInv, RowOK, Begun
<1> QED BY <1>1, ShapeCorrect, ProtocolInvariant, PTL

(* Approvals: one is pending exactly while its effect waits, and nothing   *)
(* that needs one runs before claim_effect has consumed it.                *)
THEOREM ApprovalHolds == Spec => []ApprovedBeforeRun
<1>1. Shape /\ IInv => ApprovedBeforeRun
  BY DEF Shape, TypeOK, IInv, RowInv, RowOK, ApprovedBeforeRun, Begun
<1> QED BY <1>1, ShapeCorrect, ProtocolInvariant, PTL

(* A task with an unknown effect that resolve_recovery has not disposed of *)
(* needs recovery, so claim_execution refuses to resume it.                *)
THEOREM UnknownHolds == Spec => []UnknownHeld
<1>1. IInv => UnknownHeld
  BY DEF IInv
<1> QED BY <1>1, ProtocolInvariant, PTL

-----------------------------------------------------------------------------
(* How a step may change the status of effects. *)

MayBecome(from, to) ==
    \/ from = to
    \/ from \in Unclaimed /\ to \in Unclaimed \cup {"denied", "cancelled"}
    \/ from = "executing" /\ to \in {"succeeded", "failed", "unknown"}
    \/ from = "unknown" /\ to \in {"succeeded", "failed"}

(* Why an effect may become succeeded. *)
Explained(e) ==
    \/ ran[e] = 1
    \/ disp'[e] = "confirm"
    \/ eff[e].call \in FileCalls /\ disk[eff[e].call] = "target"

StatusStep ==
    \/ \A e \in EffectId :
           \/ eff'[e].status = eff[e].status
           \/ eff[e].status = "none" /\ eff'[e].status \in Unclaimed
    \/ \E e \in EffectId : /\ MayBecome(eff[e].status, eff'[e].status)
                           /\ eff'[e].status = "succeeded" => Explained(e)
                           /\ \A d \in EffectId \ {e} : eff'[d] = eff[d]
    \/ \E w \in Worker : ClaimEffect(w)

LEMMA StatusSteps ==
    ASSUME Shape, IInv, [Next]_vars
    PROVE  StatusStep
<1> USE DEF Shape
<1>0. UNCHANGED eff => StatusStep
  BY DEF StatusStep
<1>s. ASSUME NEW e \in EffectId, NEW st \in {"denied", "cancelled"}, NEW version,
             SettleAllowed(e, version, st), Settle(e, st)
      PROVE  StatusStep
  <2>1. /\ eff[e].status \in Unclaimed \cup {st} /\ eff'[e].status = st
        /\ \A d \in EffectId \ {e} : eff'[d] = eff[d]
    BY <1>s DEF SettleAllowed, Settle, WithStatus, TypeOK, EffectRow
  <2> QED BY <2>1 DEF StatusStep, MayBecome
<1>c. ASSUME NEW w \in Worker, NEW success \in BOOLEAN,
             wk[w].pc \in Holding \cup {"ran"},
             CommitEffect(w, success), success => wk[w].pc = "ran"
      PROVE  StatusStep
  <2>1. PICK e \in EffectId : e = wk[w].cur
    BY <1>c DEF TypeOK, Bounds, WorkerRow, Holding, HasCurrent
  <2>2. eff[e].status = "executing"
    BY <1>c, <2>1 DEF CommitEffect, IInv, OwnerInv
  <2>3. /\ eff'[e].status \in {"succeeded", "failed"}
        /\ eff'[e].status = "succeeded" => success
        /\ \A d \in EffectId \ {e} : eff'[d] = eff[d]
    BY <1>c, <2>1 DEF CommitEffect, WithStatus, CommittedStatus, TypeOK, EffectRow
  <2>4. success => ran[e] = 1
    BY <1>c, <2>1 DEF IInv, HolderInv
  <2> QED BY <2>2, <2>3, <2>4 DEF StatusStep, MayBecome, Explained
<1>1. CASE Operator
  <2>1. CASE AppendTurn \/ CancelTask \/ \E e \in EffectId : Abandon(e)
    BY <1>0, <2>1 DEF AppendTurn, CancelTask, Abandon, rowVars
  <2>2. ASSUME NEW e \in EffectId, NEW approved \in BOOLEAN,
               NEW p \in {appr[e].policy, policy}, Decide(e, approved, p)
        PROVE  StatusStep
    <3>1. /\ eff[e].status = "waiting" /\ eff'[e].status \in {"denied", "prepared"}
          /\ \A d \in EffectId \ {e} : eff'[d] = eff[d]
      BY <2>2 DEF Decide, IInv, RowInv, RowOK, TypeOK, EffectRow
    <3> QED BY <3>1 DEF StatusStep, MayBecome, Unclaimed
  <2>3. ASSUME NEW e \in EffectId, NEW success \in BOOLEAN, Confirm(e, success)
        PROVE  StatusStep
    <3>1. /\ eff[e].status = "unknown" /\ eff'[e].status \in {"succeeded", "failed"}
          /\ disp'[e] = "confirm"
          /\ \A d \in EffectId \ {e} : eff'[d] = eff[d]
      BY <2>3 DEF Confirm, Undisposed, WithStatus, CommittedStatus, TypeOK, EffectRow
    <3> QED BY <3>1 DEF StatusStep, MayBecome, Explained
  <2>4. ASSUME NEW e \in EffectId, NEW r \in EffectId, Retry(e, r) PROVE StatusStep
    <3>1. /\ eff[r].status = "none" /\ eff'[r].status = "waiting"
          /\ \A d \in EffectId \ {r} : eff'[d] = eff[d]
      BY <2>4 DEF Retry, Fresh, TypeOK
    <3> QED BY <3>1 DEF StatusStep, Unclaimed
  <2> QED BY <1>1, <2>1, <2>2, <2>3, <2>4 DEF Operator
<1>2. CASE Environment
  BY <1>0, <1>2 DEF Environment, PolicyChanges, FileEdited, LeaseExpires, Crash,
                    LeaseLost, rowVars
<1>3. ASSUME NEW w \in Worker, Start(w) PROVE StatusStep
  <2>1. CASE \/ Resume(w) \/ Reconciled(w) \/ EnterLoop(w) \/ RecoverStep(w)
             \/ ConsumeInputs(w) \/ \E e \in EffectId : MaterializeRetry(w, e)
    BY <1>0, <2>1 DEF Resume, Reconciled, EnterLoop, RecoverStep, ConsumeInputs,
                      MaterializeRetry, rowVars
  <2>2. ASSUME NEW e \in EffectId, ReconcileConfirmed(w, e) \/ ReconcileUnknown(w, e)
        PROVE  StatusStep
    <3>1. /\ eff[e].status = "executing"
          /\ \A d \in EffectId \ {e} : eff'[d] = eff[d]
      BY <2>2 DEF ReconcileConfirmed, ReconcileUnknown, WithStatus, TypeOK
    <3>2. CASE ReconcileConfirmed(w, e)
      <4>1. eff'[e].status = "succeeded"
        BY <3>2 DEF ReconcileConfirmed, WithStatus, TypeOK, EffectRow
      <4>2. Explained(e)
        BY <3>2 DEF ReconcileConfirmed, ConfirmedByDigest, Explained
      <4> QED BY <3>1, <4>1, <4>2 DEF StatusStep, MayBecome
    <3>3. CASE ReconcileUnknown(w, e)
      <4>1. eff'[e].status = "unknown"
        BY <3>3 DEF ReconcileUnknown, WithStatus, TypeOK, EffectRow
      <4> QED BY <3>1, <4>1 DEF StatusStep, MayBecome
    <3> QED BY <2>2, <3>2, <3>3
  <2>3. ASSUME NEW s \in Batches, PrepareBatch(w, s) PROVE StatusStep
    <3>1. ASSUME NEW e \in EffectId
          PROVE  \/ eff'[e].status = eff[e].status
                 \/ eff[e].status = "none" /\ eff'[e].status \in Unclaimed
      <4>1. CASE \E i \in DOMAIN s : s[i] = e
        <5>1. eff[e].status = "none"
          BY <4>1 DEF Batches, Fresh
        <5> QED BY <2>3, <4>1, <5>1 DEF PrepareBatch, NoEffect, Unclaimed
      <4>2. CASE ~\E i \in DOMAIN s : s[i] = e
        BY <2>3, <4>2 DEF PrepareBatch
      <4> QED BY <4>1, <4>2
    <3> QED BY <3>1 DEF StatusStep
  <2> QED BY <1>3, <2>1, <2>2, <2>3 DEF Start
<1>4. ASSUME NEW w \in Worker, Batch(w) PROVE StatusStep
  <2>1. CASE \/ ReadEffect(w) \/ Replay(w) \/ BlockedRepeat(w) \/ ClaimConflict(w)
             \/ AssertOwnership(w) \/ CleanupFails(w) \/ RecordCleanupFailure(w)
             \/ StepDone(w) \/ Conclude(w) \/ CompleteTask(w)
             \/ \E ok \in BOOLEAN : BackendRuns(w, ok)
             \/ \E same \in BOOLEAN : AppendAnswer(w, same)
    <3>1. UNCHANGED eff
      BY <2>1 DEF ReadEffect, Replay, BlockedRepeat, ClaimConflict, AssertOwnership,
                  CleanupFails, RecordCleanupFailure, StepDone, Conclude, CompleteTask,
                  BackendRuns, AppendAnswer, rowVars
    <3> QED BY <1>0, <3>1
  <2>2. CASE RequestApproval(w)
    <3>0. PICK e \in EffectId : e = wk[w].cur
      BY <2>2 DEF RequestApproval, TypeOK, Bounds, WorkerRow, HasCurrent
    <3>1. CASE eff' = eff
      BY <1>0, <3>1
    <3>2. CASE eff' # eff
      <4>1. /\ RequestAllowed(w, e) /\ eff[e].status # "waiting"
            /\ owner = w /\ wk[w].pc = "read" /\ NeedsApproval(wk[w].seen)
        BY <2>2, <3>0, <3>2 DEF RequestApproval
      <4>2. eff'[e].status = "waiting" /\ \A d \in EffectId \ {e} : eff'[d] = eff[d]
        BY <2>2, <3>0, <4>1 DEF RequestApproval, TypeOK, EffectRow
      <4>3. eff[e].version = wk[w].seen.version /\ eff[e].version \in Nat
        BY <4>1 DEF RequestAllowed, TypeOK, EffectRow
      <4>4. eff[e] = wk[w].seen
        BY <3>0, <4>1, <4>3 DEF IInv, OwnerInv
      <4> QED BY <4>1, <4>2, <4>4 DEF NeedsApproval, StatusStep, MayBecome, Unclaimed
    <3> QED BY <3>1, <3>2
  <2>3. CASE SettleUnexecuted(w)
    <3>0. PICK e \in EffectId : e = wk[w].cur
      BY <2>3 DEF SettleUnexecuted, AtUnanswered, TypeOK, Bounds, WorkerRow, HasCurrent
    <3>1. UnexecutedStatus(w) \in {"denied", "cancelled"}
      BY DEF UnexecutedStatus
    <3> QED BY <1>0, <1>s, <2>3, <3>0, <3>1 DEF SettleUnexecuted
  <2>4. CASE ClaimEffect(w)
    BY <2>4 DEF StatusStep
  <2>5. CASE PreconditionFails(w) \/ Commit(w)
    <3>1. wk[w].ok \in BOOLEAN
      BY DEF TypeOK, WorkerRow
    <3> QED BY <1>c, <2>5, <3>1 DEF PreconditionFails, Commit, Holding
  <2> QED BY <1>4, <2>1, <2>2, <2>3, <2>4, <2>5 DEF Batch
<1>5. ASSUME NEW w \in Worker, Stop(w) PROVE StatusStep
  <2>1. CASE \/ CancelSeen(w) \/ ReportFails(w) \/ PersistCancelled(w) \/ SettleControl(w)
             \/ InputRevised(w) \/ SupersedeRead(w) \/ Superseded(w) \/ RunFails(w)
             \/ FailTask(w) \/ Release(w)
    <3>1. UNCHANGED eff
      BY <2>1 DEF CancelSeen, ReportFails, PersistCancelled, SettleControl, InputRevised,
                  SupersedeRead, Superseded, RunFails, FailTask, Release, rowVars
    <3> QED BY <1>0, <3>1
  <2>2. ASSUME NEW e \in EffectId, CancelPendingEffect(w, e) PROVE StatusStep
    BY <1>0, <1>s, <2>2 DEF CancelPendingEffect
  <2>3. CASE SupersedeSettle(w)
    <3>0. PICK e \in EffectId : e = wk[w].cur
      BY <2>3 DEF SupersedeSettle, TypeOK, Bounds, WorkerRow, HasCurrent
    <3> QED BY <1>0, <1>s, <2>3, <3>0 DEF SupersedeSettle
  <2> QED BY <1>5, <2>1, <2>2, <2>3 DEF Stop
<1>6. CASE UNCHANGED vars
  BY <1>0, <1>6 DEF vars, rowVars
<1> QED BY <1>1, <1>2, <1>3, <1>4, <1>5, <1>6 DEF Next

(* An effect becomes succeeded because its backend was invoked, because an *)
(* operator says so, or because its file holds the target when             *)
(* reconcile_effect looks at it.                                           *)
THEOREM SucceededHolds == Spec => SucceededRan
<1>1. ASSUME Shape, IInv, [Next]_vars PROVE [SuccessStep]_vars
  <2> USE <1>1
  <2>1. SUFFICES ASSUME NEW e \in EffectId,
                        eff[e].status # "succeeded", eff'[e].status = "succeeded"
                 PROVE  Explained(e)
    BY DEF SuccessStep, Explained
  <2>2. ASSUME NEW w \in Worker, ClaimEffect(w) PROVE FALSE
    BY <2>1, <2>2 DEF ClaimEffect, Shape, TypeOK, EffectRow
  <2> QED BY <2>1, <2>2, StatusSteps DEF StatusStep, Unclaimed
<1> QED BY <1>1, ShapeCorrect, ProtocolInvariant, PTL DEF Spec, SucceededRan

(* claim_effect finds the task active and owned, no cancel request, no     *)
(* turn the step has not seen, and the approval the effect needs, granted  *)
(* under the policy that its owner has loaded.                             *)
THEOREM ClaimHolds == Spec => ClaimIsCurrent
<1>1. ASSUME Shape, IInv, [Next]_vars PROVE [ClaimStep]_vars
  <2> USE <1>1 DEF Shape
  <2>1. SUFFICES ASSUME NEW e \in EffectId,
                        eff[e].status # "executing", eff'[e].status = "executing"
                 PROVE  /\ task.outcome = "active"
                        /\ owner # None
                        /\ ~control
                        /\ turns = consumed
                        /\ eff[e].decision = "require_approval"
                           => appr[e] = [status |-> "approved", policy |-> wk[owner].policy]
    BY DEF ClaimStep
  <2>2. PICK w \in Worker : ClaimEffect(w)
    BY <2>1, StatusSteps DEF StatusStep, MayBecome, Unclaimed
  <2>3. e = wk[w].cur
    BY <2>1, <2>2 DEF ClaimEffect, TypeOK
  <2>4. /\ owner = w /\ wk[w].pc = "read"
        /\ ~control /\ turns = consumed /\ Consumable(w, e)
    BY <2>2, <2>3 DEF ClaimEffect, AtClaim, AtUnanswered, ClaimAllowed
  <2>5. task.outcome = "active" /\ owner # None
    BY <2>4, Constants DEF IInv, OwnerInv, Working, PC
  <2>6. appr[e] \in [status : Approval, policy : Nat]
    BY DEF TypeOK
  <2>7. ASSUME eff[e].decision = "require_approval"
        PROVE  appr[e] = [status |-> "approved", policy |-> wk[owner].policy]
    BY <2>4, <2>6, <2>7 DEF Consumable
  <2> QED BY <2>4, <2>5, <2>7
<1> QED BY <1>1, ShapeCorrect, ProtocolInvariant, PTL DEF Spec, ClaimIsCurrent

LEMMA LifeValues ==
    /\ LifeOf("none") = "absent"
    /\ \A st \in Unclaimed : LifeOf(st) = "open"
BY DEF LifeOf, Unclaimed

(* The rows of the effects table live as EffectLife says: each step of the *)
(* workers, the operator and the zombies is one of its steps or none.      *)
THEOREM LifeRefined == Spec => EffectContract
<1>1. Init => Contract!Init
  <2> SUFFICES ASSUME Init PROVE Contract!Init
    OBVIOUS
  <2>1. ASSUME NEW e \in EffectId PROVE LifeOf(eff[e].status) = "absent"
    BY LifeValues DEF Init, NoEffect
  <2> QED BY <2>1 DEF Contract!Init
<1>2. ASSUME Shape, IInv, [Next]_vars
      PROVE  [Contract!Next]_([e \in EffectId |-> LifeOf(eff[e].status)])
  <2> USE <1>2
  <2> DEFINE life == [e \in EffectId |-> LifeOf(eff[e].status)]
             Life == [e \in EffectId |-> LifeOf(eff'[e].status)]
  <2>1. ASSUME \A e \in EffectId :
                   \/ eff'[e].status = eff[e].status
                   \/ eff[e].status = "none" /\ eff'[e].status \in Unclaimed
        PROVE  Contract!Next
    <3> DEFINE batch == {e \in EffectId : eff[e].status = "none"
                                          /\ eff'[e].status \in Unclaimed}
    <3>1. \A e \in batch : life[e] = "absent"
      BY LifeValues
    <3>2. Life = [e \in EffectId |-> IF e \in batch THEN "open" ELSE life[e]]
      <4>1. ASSUME NEW e \in EffectId
            PROVE  LifeOf(eff'[e].status) = IF e \in batch THEN "open"
                                            ELSE LifeOf(eff[e].status)
        BY <2>1, LifeValues
      <4> QED BY <4>1
    <3>3. batch \in SUBSET EffectId
      OBVIOUS
    <3> HIDE DEF batch
    <3>4. Contract!Prepare
      BY <3>1, <3>2, <3>3 DEF Contract!Prepare
    <3> QED BY <3>4 DEF Contract!Next
  <2>2. ASSUME NEW e \in EffectId,
               \/ MayBecome(eff[e].status, eff'[e].status)
               \/ eff[e].status = "prepared" /\ eff'[e].status = "executing",
               \A d \in EffectId \ {e} : eff'[d] = eff[d]
        PROVE  Contract!Next \/ Life = life
    <3>1. Life = [life EXCEPT ![e] = LifeOf(eff'[e].status)]
      BY <2>2
    <3>2. \/ LifeOf(eff'[e].status) = LifeOf(eff[e].status)
          \/ LifeOf(eff[e].status) = "open" /\ LifeOf(eff'[e].status) \in {"running", "void"}
          \/ LifeOf(eff[e].status) = "running" /\ LifeOf(eff'[e].status) \in {"over", "unknown"}
          \/ LifeOf(eff[e].status) = "unknown" /\ LifeOf(eff'[e].status) = "over"
      BY <2>2 DEF MayBecome, LifeOf, Unclaimed
    <3>3. CASE LifeOf(eff'[e].status) = LifeOf(eff[e].status)
      BY <3>1, <3>3
    <3>4. CASE LifeOf(eff'[e].status) # LifeOf(eff[e].status)
      BY <3>1, <3>2, <3>4 DEF Contract!Next, Contract!Move
    <3> QED BY <3>3, <3>4
  <2>3. CASE \E w \in Worker : ClaimEffect(w)
    <3>1. PICK w \in Worker : ClaimEffect(w)
      BY <2>3
    <3>2. PICK e \in EffectId : e = wk[w].cur
      BY <3>1 DEF Shape, ClaimEffect, AtClaim, AtUnanswered, TypeOK, Bounds, WorkerRow,
                  HasCurrent
    <3>3. eff[e].status = "prepared"
      BY <3>1, <3>2, ClaimInv
    <3>4. eff'[e].status = "executing" /\ \A d \in EffectId \ {e} : eff'[d] = eff[d]
      BY <3>1, <3>2 DEF Shape, ClaimEffect, TypeOK, EffectRow
    <3> QED BY <2>2, <3>3, <3>4
  <2> QED BY <2>1, <2>2, <2>3, StatusSteps DEF StatusStep
<1> QED BY <1>1, <1>2, ShapeCorrect, ProtocolInvariant, PTL
        DEF Spec, EffectContract, Contract!Spec
=============================================================================
