--------------------------- MODULE SessionProofs ---------------------------
(***************************************************************************)
(* Theorems about Session: the slot of the session, repeated submissions,  *)
(* and what a user is told about pause and cancel requests, for every set  *)
(* of processes, one after the other or at the same time; and that no      *)
(* input is skipped by processes that follow one another.                  *)
(***************************************************************************)
EXTENDS Session, WellFoundedInduction, TLAPS

(* The points of a process before and after it works on its task. *)
Outside == {"idle", "loaded", "release"}

(* Before the loop. *)
Entering == {"idle", "loaded", "run", "first", "resume"}

(* The request at hand is being applied. *)
Applying == {"pausing", "cleanup", "paused", "cancelled", "settle"}

(* The shape of a worker's row and of the tables it writes. *)
IsRow(r) ==
    r = [pc |-> r.pc, task |-> r.task, loop |-> r.loop, fresh |-> r.fresh,
         state |-> r.state, step |-> r.step, c |-> r.c]

ControlRow == [task : Task, kind : Kind, status : ControlStatus]

StoreShape ==
    /\ sess \in [status : {"absent", "open", "closed"}, active : 0..MaxTasks]
    /\ sess.status = "absent" => sess.active = 0
    /\ tasks \in [Task -> [status : Status, cond : Condition]]
    /\ ctl \in Seq(ControlRow)
    /\ lease \in [holder : Worker \cup {None}, task : 0..MaxTasks, live : BOOLEAN]

RowShape(w) ==
    /\ IsRow(wk[w])
    /\ wk[w].pc \in PC /\ wk[w].loop \in BOOLEAN /\ wk[w].fresh \in BOOLEAN
    /\ wk[w].pc # "idle" => wk[w].task \in Task
    /\ wk[w].pc = "idle" => wk[w].task = 0

ClientShape ==
    /\ client = [op |-> client.op, task |-> client.task, fresh |-> client.fresh]
    /\ client.op \in {"none", "start", "close"} \cup Kind
    /\ client.op \in Kind => client.task \in Task

Shape ==
    /\ StoreShape
    /\ ClientShape
    /\ wk = [w \in Worker |-> wk[w]]
    /\ \A w \in Worker : RowShape(w)

(* A process that works on a task: the task was begun; the request at hand *)
(* is one of that task, and of the kind that is applied.                   *)
Begun(t) == tasks[t].status \notin {"absent", "created"}

WorkingOf(w) ==
    /\ wk[w].pc \in Entering => ~wk[w].loop
    /\ wk[w].pc \in {"pausing", "paused", "cancelled", "settle"} => wk[w].loop
    /\ wk[w].pc = "loaded" /\ ~wk[w].fresh => Begun(wk[w].task)
    /\ wk[w].pc \notin Outside \cup {"run"} => Begun(wk[w].task)
    /\ wk[w].pc \in Applying \cup {"ack"} =>
           wk[w].c \in DOMAIN ctl /\ ctl[wk[w].c].task = wk[w].task
    /\ wk[w].pc = "cancelled" => ctl[wk[w].c].kind = "cancel"
    /\ wk[w].pc \in {"pausing", "paused"} => ctl[wk[w].c].kind = "pause"
    /\ wk[w].pc = "cleanup" /\ ctl[wk[w].c].kind = "pause" => wk[w].loop
    /\ wk[w].pc = "settle" /\ ctl[wk[w].c].kind = "cancel" =>
           tasks[wk[w].task].status = "cancelled"

(* The owner's task is active until the owner ends it, and is not paused   *)
(* until the owner pauses it.                                              *)
OwningOf(w) ==
    /\ lease.holder = w /\ wk[w].pc \notin {"idle", "loaded"} => lease.task = wk[w].task
    /\ Owned(w) /\ wk[w].pc \notin Outside \cup {"settle"} =>
           /\ tasks[wk[w].task].status \in Active
           /\ tasks[wk[w].task].cond # "paused"

(* The request an owner applies stays acknowledged: no other process is    *)
(* about to settle it, whatever it read before it lost the lease.          *)
InLoop(w) == (wk[w].loop \/ wk[w].pc = "first") /\ wk[w].pc \notin Outside

AcknowledgedOf(w) ==
    Owned(w) /\ InLoop(w) =>
        /\ wk[w].pc \in Applying => ctl[wk[w].c].status = "acknowledged"
        /\ \A v \in Worker \ {w} :
               wk[v].pc = "settle" /\ wk[v].task = wk[w].task
               => ctl[wk[v].c].status \notin Open

(* A cancel is settled only when its task has been cancelled. *)
CancelsTrue ==
    \A i \in DOMAIN ctl :
        ctl[i].kind = "cancel" /\ ctl[i].status = "settled"
        => tasks[ctl[i].task].status = "cancelled"

Workers == \A w \in Worker : WorkingOf(w) /\ OwningOf(w) /\ AcknowledgedOf(w)

IInv == Shape /\ Workers /\ SlotHoldsActiveTask /\ CancelsTrue

-----------------------------------------------------------------------------
(* Reads. *)

(* A set of numbers has a least one. *)
LEMMA LeastExists ==
    ASSUME NEW S \in SUBSET Nat, S # {}
    PROVE  \E i \in S : \A j \in S : i <= j
<1>1. PICK i \in S : \A j \in S : ~(<<j, i>> \in OpToRel(<, Nat))
  BY NatLessThanWellFounded, WFMin
<1>2. ASSUME NEW j \in S PROVE i <= j
  <2>1. ~(j < i)
    BY <1>1 DEF OpToRel
  <2> QED BY <2>1
<1> QED BY <1>2

LEMMA ControlTyped ==
    ASSUME Shape, NEW i \in DOMAIN ctl
    PROVE  ctl[i] \in ControlRow
BY DEF Shape, StoreShape

(* get_pending_control returns an open request of the task, if there is one. *)
LEMMA PendingIsOpen ==
    ASSUME Shape, NEW t
    PROVE  /\ PendingControl(t) = 0 <=> OpenControls(t) = {}
           /\ PendingControl(t) # 0 => PendingControl(t) \in OpenControls(t)
<1>1. OpenControls(t) \in SUBSET Nat /\ 0 \notin OpenControls(t)
  BY DEF OpenControls, Shape, StoreShape, RowShape, ClientShape
<1>2. CASE OpenControls(t) = {}
  BY <1>2 DEF PendingControl
<1>3. CASE OpenControls(t) # {}
  <2>1. \E i \in OpenControls(t) : \A j \in OpenControls(t) : i <= j
    BY <1>1, <1>3, LeastExists
  <2>2. PendingControl(t) = CHOOSE i \in OpenControls(t) : \A j \in OpenControls(t) : i <= j
    BY <1>3 DEF PendingControl
  <2>3. PendingControl(t) \in OpenControls(t)
    BY <2>1, <2>2
  <2> QED BY <1>1, <1>3, <2>3
<1> QED BY <1>2, <1>3
-----------------------------------------------------------------------------
(* What the steps do to a worker's row. *)

Moved(w) ==
    /\ wk' = [v \in Worker |-> wk'[v]]
    /\ \A v \in Worker \ {w} : wk'[v] = wk[v]
    /\ IsRow(wk'[w])

(* The worker goes on with its task. *)
Goes(w, pc) ==
    /\ Moved(w)
    /\ wk'[w].pc = pc /\ wk'[w].task = wk[w].task /\ wk'[w].fresh = wk[w].fresh
    /\ wk'[w].loop = wk[w].loop /\ wk'[w].c = wk[w].c

(* A process that is done, or gone. *)
Resets(w) ==
    /\ Moved(w)
    /\ wk'[w] = IdleWorker

(* What a worker reads, writes or raises next is all a step changes. *)
Quiet ==
    /\ sess' = sess /\ tasks' = tasks /\ ctl' = ctl /\ lease' = lease

ClientKept ==
    /\ client' = [op |-> client'.op, task |-> client'.task, fresh |-> client'.fresh]
    /\ client'.op = client.op /\ client'.task = client.task

LEMMA GoMoves ==
    ASSUME Shape, NEW w \in Worker, NEW pc, Go(w, pc)
    PROVE  Goes(w, pc)
<1>1. IsRow(wk[w]) /\ wk = [v \in Worker |-> wk[v]]
  BY DEF Shape, StoreShape, RowShape, ClientShape
<1>2. PICK r : r = wk[w]
  OBVIOUS
<1>3. wk'[w] = [r EXCEPT !.pc = pc] /\ \A v \in Worker \ {w} : wk'[v] = wk[v]
  BY <1>1, <1>2 DEF Go
<1>4. wk' = [v \in Worker |-> wk'[v]]
  BY <1>1 DEF Go
<1> QED BY <1>1, <1>2, <1>3, <1>4 DEF Goes, Moved, IsRow

LEMMA IdleMoves ==
    ASSUME Shape, NEW w \in Worker, wk' = [wk EXCEPT ![w] = IdleWorker]
    PROVE  Resets(w)
BY DEF Resets, Moved, IsRow, IdleWorker, Shape, StoreShape, RowShape, ClientShape

LEMMA WrittenKeeps ==
    ASSUME Shape, NEW t,
           client' = client \/ SessionWritten \/ TaskWritten(t) \/ BothWritten
    PROVE  ClientKept
BY DEF Shape, StoreShape, RowShape, ClientShape, ClientKept, SessionWritten, TaskWritten, BothWritten
-----------------------------------------------------------------------------
(* What a step of process w, or of a client, leaves to the other processes. *)

TasksFrame ==
    \A t \in Task :
        /\ Begun(t) => Begun(t)'
        /\ tasks[t].status = "cancelled" => tasks'[t].status = "cancelled"

ControlsFrame ==
    /\ DOMAIN ctl \subseteq DOMAIN ctl'
    /\ \A i \in DOMAIN ctl :
           /\ ctl'[i].task = ctl[i].task /\ ctl'[i].kind = ctl[i].kind
           /\ ctl[i].status \notin Open => ctl'[i].status \notin Open

LeaseFrame(v) ==
    /\ lease'.holder = v => lease.holder = v /\ lease'.task = lease.task
    /\ Owned(v)' => Owned(v)
    /\ Owned(v)' /\ wk[v].pc \notin Outside \cup {"settle"}
           => tasks'[wk[v].task] = tasks[wk[v].task]
    /\ Owned(v)' /\ InLoop(v) =>
           \A i \in DOMAIN ctl :
               ctl[i].task = wk[v].task /\ ctl[i].status = "acknowledged"
               => ctl'[i].status = "acknowledged"

OthersFrame(w) ==
    /\ TasksFrame
    /\ ControlsFrame
    /\ \A v \in Worker \ {w} : LeaseFrame(v) /\ wk'[v] = wk[v]
    /\ w \in Worker /\ wk'[w].pc = "settle" => Owned(w)

LEMMA OthersWork ==
    ASSUME IInv, NEW w, OthersFrame(w), NEW v \in Worker \ {w}
    PROVE  WorkingOf(v)'
<1>1. wk'[v] = wk[v] /\ TasksFrame /\ ControlsFrame /\ WorkingOf(v)
  BY DEF OthersFrame, IInv, Workers
<1>2. wk[v].pc \in PC /\ (wk[v].pc # "idle" => wk[v].task \in Task)
  BY DEF IInv, Shape, StoreShape, RowShape, ClientShape
<1> QED
  BY <1>1, <1>2 DEF WorkingOf, TasksFrame, ControlsFrame, Begun, Entering, Applying, Outside

LEMMA OthersOwn ==
    ASSUME IInv, NEW w, OthersFrame(w), NEW v \in Worker \ {w}
    PROVE  OwningOf(v)'
<1>1. wk'[v] = wk[v] /\ LeaseFrame(v) /\ OwningOf(v)
  BY DEF OthersFrame, IInv, Workers
<1>2. ASSUME lease'.holder = v, wk[v].pc \notin {"idle", "loaded"}
      PROVE  lease'.task = wk[v].task
  BY <1>1, <1>2 DEF LeaseFrame, OwningOf
<1>3. ASSUME Owned(v)', wk[v].pc \notin Outside \cup {"settle"}
      PROVE  tasks'[wk[v].task].status \in Active /\ tasks'[wk[v].task].cond # "paused"
  <2>1. Owned(v)
    BY <1>1, <1>3 DEF LeaseFrame
  <2>2. tasks'[wk[v].task] = tasks[wk[v].task]
    BY <1>1, <1>3 DEF LeaseFrame
  <2> QED BY <1>1, <1>3, <2>1, <2>2 DEF OwningOf
<1> QED BY <1>1, <1>2, <1>3 DEF OwningOf

LEMMA OthersAcknowledged ==
    ASSUME IInv, NEW w, OthersFrame(w), NEW v \in Worker \ {w}
    PROVE  AcknowledgedOf(v)'
<1>1. wk'[v] = wk[v] /\ LeaseFrame(v) /\ ControlsFrame /\ AcknowledgedOf(v) /\ WorkingOf(v)
  BY DEF OthersFrame, IInv, Workers
<1> SUFFICES ASSUME Owned(v)', InLoop(v)
             PROVE  /\ wk[v].pc \in Applying => ctl'[wk[v].c].status = "acknowledged"
                    /\ \A u \in Worker \ {v} :
                           wk'[u].pc = "settle" /\ wk'[u].task = wk[v].task
                           => ctl'[wk'[u].c].status \notin Open
  BY <1>1 DEF AcknowledgedOf, InLoop
<1>2. Owned(v)
  BY <1>1 DEF LeaseFrame
<1>3. wk[v].pc \in Applying => ctl'[wk[v].c].status = "acknowledged"
  BY <1>1, <1>2 DEF LeaseFrame, AcknowledgedOf, WorkingOf
<1>4. ASSUME NEW u \in Worker \ {v}, wk'[u].pc = "settle", wk'[u].task = wk[v].task
      PROVE  ctl'[wk'[u].c].status \notin Open
  <2>1. u # w
    BY <1>2, <1>4 DEF OthersFrame, Owned
  <2>2. wk'[u] = wk[u] /\ WorkingOf(u)
    BY <2>1 DEF OthersFrame, IInv, Workers
  <2>3. wk[u].c \in DOMAIN ctl /\ ctl[wk[u].c].status \notin Open
    BY <1>1, <1>2, <1>4, <2>2 DEF AcknowledgedOf, WorkingOf, Applying
  <2> QED BY <1>1, <2>2, <2>3 DEF ControlsFrame
<1> QED BY <1>3, <1>4

(* Only the process that moves is left to look at. *)
LEMMA OthersKeep ==
    ASSUME IInv, NEW w, OthersFrame(w),
           w \in Worker => WorkingOf(w)' /\ OwningOf(w)' /\ AcknowledgedOf(w)'
    PROVE  Workers'
<1> SUFFICES ASSUME NEW v \in Worker
             PROVE  WorkingOf(v)' /\ OwningOf(v)' /\ AcknowledgedOf(v)'
  BY DEF Workers
<1>1. CASE v = w
  BY <1>1
<1>2. CASE v # w
  BY <1>2, OthersWork, OthersOwn, OthersAcknowledged
<1> QED BY <1>1, <1>2
-----------------------------------------------------------------------------
(* The same, for the steps that write more than the program counter. *)

MovesTo(w, pc, loop, c) ==
    /\ Moved(w)
    /\ wk'[w].pc = pc /\ wk'[w].task = wk[w].task /\ wk'[w].fresh = wk[w].fresh
    /\ wk'[w].loop = loop /\ wk'[w].c = c

LEMMA SeeControlMoves ==
    ASSUME Shape, NEW w \in Worker, SeeControl(w)
    PROVE  MovesTo(w, "ack", wk[w].loop, PendingControl(wk[w].task))
<1>1. IsRow(wk[w]) /\ wk = [v \in Worker |-> wk[v]]
  BY DEF Shape, StoreShape, RowShape, ClientShape
<1>2. PICK r, c : r = wk[w] /\ c = PendingControl(wk[w].task)
  OBVIOUS
<1>3. wk' = [wk EXCEPT ![w].pc = "ack", ![w].c = c]
  BY <1>2 DEF SeeControl
<1>4. wk'[w] = [r EXCEPT !.pc = "ack", !.c = c] /\ \A v \in Worker \ {w} : wk'[v] = wk[v]
  BY <1>1, <1>2, <1>3
<1>5. wk' = [v \in Worker |-> wk'[v]]
  BY <1>1, <1>3
<1> QED BY <1>1, <1>2, <1>4, <1>5 DEF MovesTo, Moved, IsRow

LEMMA StepMoves ==
    ASSUME Shape, NEW w \in Worker, NEW pc, NEW s, NEW t,
           \/ wk' = [wk EXCEPT ![w].pc = pc, ![w].step = s]
           \/ wk' = [wk EXCEPT ![w].pc = pc, ![w].state = s]
           \/ wk' = [wk EXCEPT ![w].pc = pc, ![w].state = s, ![w].step = t]
    PROVE  MovesTo(w, pc, wk[w].loop, wk[w].c)
<1>1. IsRow(wk[w]) /\ wk = [v \in Worker |-> wk[v]]
  BY DEF Shape, StoreShape, RowShape, ClientShape
<1>2. PICK r : r = wk[w]
  OBVIOUS
<1>3. /\ \/ wk'[w] = [r EXCEPT !.pc = pc, !.step = s]
         \/ wk'[w] = [r EXCEPT !.pc = pc, !.state = s]
         \/ wk'[w] = [r EXCEPT !.pc = pc, !.state = s, !.step = t]
      /\ \A v \in Worker \ {w} : wk'[v] = wk[v]
  BY <1>1, <1>2
<1>4. wk' = [v \in Worker |-> wk'[v]]
  BY <1>1
<1>5. /\ wk'[w].pc = pc /\ wk'[w].task = r.task /\ wk'[w].fresh = r.fresh
      /\ wk'[w].loop = r.loop /\ wk'[w].c = r.c
      /\ IsRow(wk'[w])
  BY <1>1, <1>2, <1>3 DEF IsRow
<1> QED BY <1>2, <1>3, <1>4, <1>5 DEF MovesTo, Moved

LEMMA VerifiedPlanMoves ==
    ASSUME Shape, NEW w \in Worker, NEW text, VerifiedPlan(w, text)
    PROVE  MovesTo(w, "answer", wk[w].loop, wk[w].c)
<1>1. IsRow(wk[w]) /\ wk = [v \in Worker |-> wk[v]]
  BY DEF Shape, StoreShape, RowShape, ClientShape
<1>2. PICK r, s : r = wk[w] /\ s = [wk[w].step EXCEPT !.text = text]
  OBVIOUS
<1>3. wk'[w] = [r EXCEPT !.pc = "answer", !.step = s] /\ \A v \in Worker \ {w} : wk'[v] = wk[v]
  BY <1>1, <1>2 DEF VerifiedPlan, IsRow
<1>4. wk' = [v \in Worker |-> wk'[v]]
  BY <1>1 DEF VerifiedPlan
<1> QED BY <1>1, <1>2, <1>3, <1>4 DEF MovesTo, Moved, IsRow

LEMMA FirstCheckpointMoves ==
    ASSUME Shape, NEW w \in Worker, FirstCheckpoint(w)
    PROVE  MovesTo(w, "step", TRUE, wk[w].c)
<1>1. IsRow(wk[w]) /\ wk = [v \in Worker |-> wk[v]]
  BY DEF Shape, StoreShape, RowShape, ClientShape
<1>2. PICK r : r = wk[w]
  OBVIOUS
<1>3. wk'[w] = [r EXCEPT !.pc = "step", !.loop = TRUE] /\ \A v \in Worker \ {w} : wk'[v] = wk[v]
  BY <1>1, <1>2 DEF FirstCheckpoint
<1>4. wk' = [v \in Worker |-> wk'[v]]
  BY <1>1 DEF FirstCheckpoint
<1> QED BY <1>1, <1>2, <1>3, <1>4 DEF MovesTo, Moved, IsRow

LEMMA ResumeMoves ==
    ASSUME Shape, NEW w \in Worker, ResumeOwned(w)
    PROVE  LET c == PendingControl(wk[w].task)
           IN  MovesTo(w, IF c = 0 THEN "step" ELSE "ack", c = 0, c)
<1>1. IsRow(wk[w]) /\ wk = [v \in Worker |-> wk[v]]
  BY DEF Shape, StoreShape, RowShape, ClientShape
<1>2. PICK r, c, b, p : /\ r = wk[w] /\ c = PendingControl(wk[w].task)
                        /\ b = (c = 0) /\ p = IF c = 0 THEN "step" ELSE "ack"
  OBVIOUS
<1>3. wk' = [wk EXCEPT ![w].pc = p, ![w].loop = b, ![w].c = c]
  BY <1>2 DEF ResumeOwned
<1>4. /\ wk'[w] = [r EXCEPT !.pc = p, !.loop = b, !.c = c]
      /\ \A v \in Worker \ {w} : wk'[v] = wk[v]
  BY <1>1, <1>2, <1>3
<1>5. wk' = [v \in Worker |-> wk'[v]]
  BY <1>1, <1>3
<1>6. /\ wk'[w].pc = p /\ wk'[w].task = r.task /\ wk'[w].fresh = r.fresh
      /\ wk'[w].loop = b /\ wk'[w].c = c /\ IsRow(wk'[w])
  BY <1>1, <1>2, <1>4 DEF IsRow
<1>7. MovesTo(w, p, b, c)
  BY <1>2, <1>4, <1>5, <1>6 DEF MovesTo, Moved
<1> QED BY <1>2, <1>7
-----------------------------------------------------------------------------
(* Steps that write no row of Quiet. *)

LEMMA ShapeKept ==
    ASSUME Shape, StoreShape', ClientShape', NEW w \in Worker, Moved(w), RowShape(w)'
    PROVE  Shape'
<1>1. ASSUME NEW v \in Worker PROVE RowShape(v)'
  <2>1. CASE v = w
    BY <2>1
  <2>2. CASE v # w
    BY <2>2 DEF Shape, RowShape, Moved
  <2> QED BY <2>1, <2>2
<1> QED BY <1>1 DEF Shape, Moved

LEMMA ClientKeeps ==
    ASSUME Shape, ClientKept
    PROVE  ClientShape'
BY DEF Shape, ClientShape, ClientKept

LEMMA MoveShape ==
    ASSUME Shape, StoreShape', ClientShape', NEW w \in Worker, NEW pc \in PC \ {"idle"},
           NEW loop \in BOOLEAN, NEW c, MovesTo(w, pc, loop, c), wk[w].pc # "idle"
    PROVE  Shape'
<1>1. RowShape(w)'
  BY DEF Shape, RowShape, MovesTo, Moved
<1> QED BY <1>1, ShapeKept DEF MovesTo

LEMMA QuietFrame ==
    ASSUME Shape, Quiet, NEW w \in Worker, Moved(w), wk'[w].pc # "settle"
    PROVE  OthersFrame(w)
<1>1. TasksFrame
  BY DEF TasksFrame, Quiet, Begun
<1>2. ControlsFrame
  BY DEF ControlsFrame, Quiet
<1>3. ASSUME NEW v \in Worker \ {w} PROVE LeaseFrame(v) /\ wk'[v] = wk[v]
  BY DEF LeaseFrame, Quiet, Owned, Moved
<1> QED BY <1>1, <1>2, <1>3 DEF OthersFrame

LEMMA QuietStore ==
    ASSUME IInv, Quiet
    PROVE  StoreShape' /\ SlotHoldsActiveTask' /\ CancelsTrue'
BY DEF IInv, Shape, StoreShape, Quiet, SlotHoldsActiveTask, CancelsTrue

LEMMA QuietStep ==
    ASSUME IInv, Quiet, ClientKept, NEW w \in Worker, NEW pc \in PC \ {"idle", "loaded", "first", "settle"},
           NEW loop \in BOOLEAN, NEW c, MovesTo(w, pc, loop, c),
           wk[w].pc \notin {"idle", "loaded"},
           Owned(w) /\ pc \notin Outside => wk[w].pc \notin Outside \cup {"settle"},
           loop /\ pc \notin Outside => InLoop(w) \/ OpenControls(wk[w].task) = {},
           pc \in Applying => wk[w].pc \in Applying /\ c = wk[w].c /\ loop = wk[w].loop,
           WorkingOf(w)'
    PROVE  IInv'
<1>1. Shape
  BY DEF IInv
<1>2. wk'[w].pc = pc /\ wk'[w].task = wk[w].task /\ wk'[w].loop = loop /\ wk'[w].c = c
      /\ Moved(w)
  BY DEF MovesTo
<1>3. OthersFrame(w)
  BY <1>1, <1>2, QuietFrame
<1>4. OwningOf(w)'
  BY <1>2 DEF OwningOf, IInv, Workers, Quiet, Owned, Outside
<1>5. AcknowledgedOf(w)'
  <2> SUFFICES ASSUME Owned(w), loop, pc \notin Outside
               PROVE  /\ pc \in Applying => ctl[c].status = "acknowledged"
                      /\ \A v \in Worker \ {w} :
                             wk[v].pc = "settle" /\ wk[v].task = wk[w].task
                             => ctl[wk[v].c].status \notin Open
    BY <1>2 DEF AcknowledgedOf, InLoop, Owned, Quiet, Moved
  <2>1. CASE InLoop(w)
    BY <2>1 DEF IInv, Workers, AcknowledgedOf
  <2>2. CASE ~InLoop(w)
    <3>1. OpenControls(wk[w].task) = {}
      BY <2>2
    <3>2. pc \notin Applying
      BY <2>2 DEF InLoop, Applying, Outside
    <3>3. ASSUME NEW v \in Worker \ {w}, wk[v].pc = "settle", wk[v].task = wk[w].task
          PROVE  ctl[wk[v].c].status \notin Open
      BY <3>1, <3>3 DEF OpenControls, IInv, Workers, WorkingOf, Applying
    <3> QED BY <3>2, <3>3
  <2> QED BY <2>1, <2>2
<1>6. Workers'
  BY <1>3, <1>4, <1>5, OthersKeep
<1>7. Shape'
  BY <1>1, <1>2, QuietStore, ClientKeeps, MoveShape
<1> QED BY <1>6, <1>7, QuietStore DEF IInv

(* The points between the requests: nothing is known there but that the    *)
(* task was begun.                                                         *)
Plain == {"step", "ask", "answered", "tool", "answer", "complete", "fail", "release"}

LEMMA PlainStep ==
    ASSUME IInv, Quiet, ClientKept, NEW w \in Worker, NEW pc \in Plain,
           MovesTo(w, pc, wk[w].loop, wk[w].c),
           wk[w].pc \notin {"idle", "loaded"},
           pc # "release" => wk[w].pc \notin Outside \cup {"run"},
           Owned(w) /\ pc # "release" => wk[w].pc # "settle"
    PROVE  IInv'
<1>1. pc \in PC \ {"idle", "loaded", "first", "settle"} /\ pc \notin Applying
  BY DEF Plain, PC, Applying
<1>2. wk[w].loop \in BOOLEAN
  BY DEF IInv, Shape, RowShape
<1>3. WorkingOf(w)'
  BY DEF WorkingOf, MovesTo, Plain, Quiet, Begun, IInv, Workers, Applying, Outside, Entering
<1>4. Owned(w) /\ pc \notin Outside => wk[w].pc \notin Outside \cup {"settle"}
  BY DEF Outside
<1>5. wk[w].loop /\ pc \notin Outside => InLoop(w) \/ OpenControls(wk[w].task) = {}
  BY DEF InLoop, Outside
<1> QED BY <1>1, <1>2, <1>3, <1>4, <1>5, QuietStep

LEMMA QuietGo ==
    ASSUME IInv, Quiet, ClientKept, NEW w \in Worker, NEW pc \in Plain, Go(w, pc),
           wk[w].pc \notin {"idle", "loaded"},
           pc # "release" => wk[w].pc \notin Outside \cup {"run"},
           Owned(w) /\ pc # "release" => wk[w].pc # "settle"
    PROVE  IInv'
<1>1. MovesTo(w, pc, wk[w].loop, wk[w].c)
  BY GoMoves DEF IInv, Goes, MovesTo
<1> QED BY <1>1, PlainStep

(* A step that writes no row but its own, and none of Quiet. *)
LEMMA NothingWritten ==
    ASSUME Shape, UNCHANGED <<sess, tasks, ctl, lease>>, client' = client
    PROVE  Quiet /\ ClientKept
BY DEF Quiet, ClientKept, Shape, ClientShape

LEMMA AskSteps ==
    ASSUME IInv, NEW w \in Worker,
           \/ BudgetExceeded(w) \/ RecoverResponse(w) \/ ConsumeInputs(w)
           \/ \E text \in Text \cup {"tools"} : Respond(w, text)
           \/ ProviderFails(w)
    PROVE  IInv'
<1> USE DEF storeVars
<1>0. Shape
  BY DEF IInv
<1>1. CASE BudgetExceeded(w)
  BY <1>0, <1>1, NothingWritten, QuietGo DEF BudgetExceeded, Plain, Outside
<1>2. CASE RecoverResponse(w)
  <2>1. PICK s : wk' = [wk EXCEPT ![w].pc = "answered", ![w].step = s]
    BY <1>2 DEF RecoverResponse
  <2>2. MovesTo(w, "answered", wk[w].loop, wk[w].c)
    BY <1>0, <2>1, StepMoves
  <2> QED BY <1>0, <1>2, <2>2, NothingWritten, PlainStep DEF RecoverResponse, Plain, Outside
<1>3. CASE ConsumeInputs(w)
  <2>1. PICK s : wk' = [wk EXCEPT ![w].pc = "ask", ![w].state = s]
    BY <1>3 DEF ConsumeInputs
  <2>2. MovesTo(w, "ask", wk[w].loop, wk[w].c)
    BY <1>0, <2>1, StepMoves
  <2>3. UNCHANGED <<sess, tasks, ctl, lease>> /\ client' = client /\ wk[w].pc = "step"
    BY <1>3 DEF ConsumeInputs
  <2> QED BY <1>0, <2>2, <2>3, NothingWritten, PlainStep DEF Plain, Outside
<1>4. CASE \E text \in Text \cup {"tools"} : Respond(w, text)
  <2>1. PICK s : wk' = [wk EXCEPT ![w].pc = "answered", ![w].step = s]
    BY <1>4 DEF Respond
  <2>2. MovesTo(w, "answered", wk[w].loop, wk[w].c)
    BY <1>0, <2>1, StepMoves
  <2>3. UNCHANGED <<sess, tasks, ctl, lease>> /\ client' = client /\ wk[w].pc = "ask"
    BY <1>4 DEF Respond
  <2> QED BY <1>0, <2>2, <2>3, NothingWritten, PlainStep, ZenonT(30) DEF Plain, Outside
<1>5. CASE ProviderFails(w)
  BY <1>0, <1>5, NothingWritten, QuietGo DEF ProviderFails, Plain, Outside
<1> QED BY <1>1, <1>2, <1>3, <1>4, <1>5

LEMMA CloseStepSteps ==
    ASSUME IInv, NEW w \in Worker, Supersede(w) \/ ToolsDone(w)
    PROVE  IInv'
<1>0. Shape
  BY DEF IInv
<1>1. PICK s : CloseStep(w, s)
  BY DEF Supersede, ToolsDone
<1>2. MovesTo(w, "step", wk[w].loop, wk[w].c)
  BY <1>0, <1>1, StepMoves DEF CloseStep
<1>3. ClientKept
  BY <1>0, <1>1, WrittenKeeps DEF CloseStep
<1>4. Quiet /\ wk[w].pc \in {"answered", "tool"}
  BY DEF Supersede, ToolsDone, Quiet
<1> QED BY <1>2, <1>3, <1>4, PlainStep DEF Plain, Outside

LEMMA AnswerSteps ==
    ASSUME IInv, NEW w \in Worker,
           \/ AcceptResponse(w) \/ (\E text \in Text : VerifiedPlan(w, text))
           \/ AppendAnswer(w) \/ LoseLease(w)
    PROVE  IInv'
<1> USE DEF storeVars
<1>0. Shape
  BY DEF IInv
<1>1. CASE AcceptResponse(w)
  <2>1. PICK pc \in {"tool", "answer"} : Go(w, pc)
    BY <1>1 DEF AcceptResponse
  <2> QED BY <1>0, <1>1, <2>1, NothingWritten, QuietGo DEF AcceptResponse, Plain, Outside
<1>2. CASE \E text \in Text : VerifiedPlan(w, text)
  <2>1. MovesTo(w, "answer", wk[w].loop, wk[w].c)
    BY <1>0, <1>2, VerifiedPlanMoves
  <2> QED BY <1>0, <1>2, <2>1, NothingWritten, PlainStep DEF VerifiedPlan, Plain, Outside
<1>3. CASE AppendAnswer(w)
  <2>1. PICK pc \in {"complete", "release"} : Go(w, pc)
    BY <1>3 DEF AppendAnswer
  <2>2. client' = client \/ SessionWritten
    BY <1>3 DEF AppendAnswer, AppendTurn
  <2>3. Quiet /\ wk[w].pc = "answer"
    BY <1>3 DEF AppendAnswer, Quiet
  <2> QED BY <1>0, <2>1, <2>2, <2>3, WrittenKeeps, QuietGo DEF Plain, Outside
<1>4. CASE LoseLease(w)
  BY <1>0, <1>4, NothingWritten, QuietGo DEF LoseLease, Plain, Guarded
<1> QED BY <1>1, <1>2, <1>3, <1>4

(* A process takes up a pending request, before the loop or in it. *)
LEMMA TakeUp ==
    ASSUME IInv, Quiet, ClientKept, NEW w \in Worker, NEW loop \in BOOLEAN,
           wk[w].pc \in {"step", "answered", "resume"}, loop => wk[w].loop,
           PendingControl(wk[w].task) # 0,
           MovesTo(w, "ack", loop, PendingControl(wk[w].task))
    PROVE  IInv'
<1>1. PendingControl(wk[w].task) \in OpenControls(wk[w].task)
  BY PendingIsOpen DEF IInv
<1>2. WorkingOf(w)'
  BY <1>1 DEF WorkingOf, MovesTo, Quiet, Begun, IInv, Workers, Applying, Outside,
              Entering, OpenControls
<1>3. loop /\ "ack" \notin Outside => InLoop(w) \/ OpenControls(wk[w].task) = {}
  BY DEF InLoop, Outside
<1>4. "ack" \in PC \ {"idle", "loaded", "first", "settle"} /\ "ack" \notin Applying
      /\ wk[w].pc \notin Outside \cup {"settle"} /\ wk[w].pc \notin {"idle", "loaded"}
  BY DEF PC, Applying, Outside
<1> QED BY <1>2, <1>3, <1>4, QuietStep

(* The loop is entered. *)
LEMMA EnterLoop ==
    ASSUME IInv, Quiet, ClientKept, NEW w \in Worker, NEW c,
           \/ wk[w].pc = "first"
           \/ wk[w].pc = "resume" /\ PendingControl(wk[w].task) = 0,
           MovesTo(w, "step", TRUE, c)
    PROVE  IInv'
<1>1. WorkingOf(w)'
  BY DEF WorkingOf, MovesTo, Quiet, Begun, IInv, Workers, Applying, Outside, Entering
<1>2. InLoop(w) \/ OpenControls(wk[w].task) = {}
  BY PendingIsOpen DEF InLoop, Outside, IInv
<1>3. "step" \in PC \ {"idle", "loaded", "first", "settle"} /\ "step" \notin Applying
      /\ wk[w].pc \notin Outside \cup {"settle"} /\ wk[w].pc \notin {"idle", "loaded"}
  BY DEF PC, Applying, Outside
<1> QED BY <1>1, <1>2, <1>3, QuietStep

LEMMA ControlSteps ==
    ASSUME IInv, NEW w \in Worker,
           SeeControl(w) \/ FirstCheckpoint(w) \/ ResumeOwned(w) \/ Cleanup(w)
    PROVE  IInv'
<1> USE DEF storeVars
<1>0. Shape /\ wk[w].loop \in BOOLEAN
  BY DEF IInv, Shape, RowShape
<1>1. CASE SeeControl(w)
  <2>1. MovesTo(w, "ack", wk[w].loop, PendingControl(wk[w].task))
    BY <1>0, <1>1, SeeControlMoves
  <2>2. Quiet /\ ClientKept
    BY <1>0, <1>1, NothingWritten DEF SeeControl
  <2>3. PendingControl(wk[w].task) # 0 /\ wk[w].pc \in {"step", "answered"}
    BY <1>1 DEF SeeControl
  <2> QED BY <1>0, <2>1, <2>2, <2>3, TakeUp
<1>2. CASE FirstCheckpoint(w)
  <2>1. MovesTo(w, "step", TRUE, wk[w].c)
    BY <1>0, <1>2, FirstCheckpointMoves
  <2>2. Quiet /\ ClientKept
    BY <1>0, <1>2, NothingWritten DEF FirstCheckpoint
  <2>3. wk[w].pc = "first"
    BY <1>2 DEF FirstCheckpoint
  <2> QED BY <2>1, <2>2, <2>3, EnterLoop
<1>3. CASE ResumeOwned(w)
  <2>1. Quiet /\ ClientKept
    BY <1>0, <1>3, NothingWritten DEF ResumeOwned
  <2>2. wk[w].pc = "resume"
    BY <1>3 DEF ResumeOwned
  <2>3. PICK c : c = PendingControl(wk[w].task)
    OBVIOUS
  <2>4. MovesTo(w, IF c = 0 THEN "step" ELSE "ack", c = 0, c)
    BY <1>0, <1>3, <2>3, ResumeMoves
  <2>5. CASE c = 0
    <3>1. MovesTo(w, "step", TRUE, c)
      BY <2>4, <2>5
    <3> QED BY <2>1, <2>2, <2>3, <2>5, <3>1, EnterLoop
  <2>6. CASE c # 0
    <3>1. MovesTo(w, "ack", FALSE, c)
      BY <2>4, <2>6
    <3> QED BY <2>1, <2>2, <2>3, <2>6, <3>1, TakeUp
  <2> QED BY <2>5, <2>6
<1>4. CASE Cleanup(w)
  <2>1. Quiet /\ ClientKept /\ wk[w].pc = "cleanup"
    BY <1>0, <1>4, NothingWritten DEF Cleanup
  <2>2. PICK pc : /\ pc = IF ctl[wk[w].c].kind = "pause" THEN "paused"
                          ELSE IF wk[w].loop THEN "cancelled" ELSE "release"
                  /\ Go(w, pc)
    BY <1>4 DEF Cleanup
  <2>3. MovesTo(w, pc, wk[w].loop, wk[w].c)
    BY <1>0, <2>2, GoMoves DEF Goes, MovesTo
  <2>4. wk[w].c \in DOMAIN ctl /\ ctl[wk[w].c].kind \in Kind /\ WorkingOf(w)
    <3>1. wk[w].c \in DOMAIN ctl /\ WorkingOf(w)
      BY <2>1 DEF IInv, Workers, WorkingOf, Applying
    <3> QED BY <1>0, <3>1, ControlTyped DEF ControlRow
  <2>5. WorkingOf(w)'
    BY <2>1, <2>2, <2>3, <2>4 DEF WorkingOf, MovesTo, Quiet, Begun, Applying, Outside,
                             Entering, Kind
  <2>6. pc \in PC \ {"idle", "loaded", "first", "settle"}
        /\ wk[w].pc \notin Outside \cup {"settle"} /\ wk[w].pc \in Applying
    BY <2>1, <2>2 DEF PC, Outside, Applying
  <2>7. wk[w].loop => InLoop(w)
    BY <2>1 DEF InLoop, Outside
  <2> QED BY <1>0, <2>1, <2>3, <2>5, <2>6, <2>7, QuietStep
<1> QED BY <1>1, <1>2, <1>3, <1>4
-----------------------------------------------------------------------------
(* The writes of the owner to its task. *)

LEMMA OwnerFrame ==
    ASSUME IInv, NEW w \in Worker, Owned(w), Moved(w), TasksFrame,
           lease' = lease, ctl' = ctl
    PROVE  OthersFrame(w)
<1>1. ControlsFrame
  BY DEF ControlsFrame
<1>2. ASSUME NEW v \in Worker \ {w} PROVE LeaseFrame(v) /\ wk'[v] = wk[v]
  BY DEF LeaseFrame, Owned, Moved
<1> QED BY <1>1, <1>2 DEF OthersFrame

(* The owner's task is active, so its end is the first. *)
LEMMA EndWrites ==
    ASSUME IInv, NEW t \in Task, NEW status \in Ended, tasks[t].status \in Active,
           EndTask(t, status)
    PROVE  /\ sess' \in [status : {"absent", "open", "closed"}, active : 0..MaxTasks]
           /\ sess'.status = "absent" => sess'.active = 0
           /\ tasks' \in [Task -> [status : Status, cond : Condition]]
           /\ TasksFrame /\ SlotHoldsActiveTask' /\ ClientKept
           /\ tasks'[t].status = status
<1>1. Shape /\ StoreShape /\ SlotHoldsActiveTask
  BY DEF IInv, Shape
<1>2. PICK cond \in Condition : tasks' = [tasks EXCEPT ![t] = [status |-> status, cond |-> cond]]
  BY DEF EndTask, EndCondition, Condition
<1>3. status \in Status \ Active /\ status # "absent" /\ status # "created"
  BY DEF Status, Ended, Active
<1>4. /\ tasks' \in [Task -> [status : Status, cond : Condition]]
      /\ tasks'[t].status = status
      /\ \A u \in Task \ {t} : tasks'[u] = tasks[u]
  BY <1>1, <1>2, <1>3 DEF StoreShape
<1>5. TasksFrame
  BY <1>3, <1>4 DEF TasksFrame, Begun, Active
<1>6. sess.active = t
  BY <1>1 DEF SlotHoldsActiveTask
<1>7. sess' = [sess EXCEPT !.active = 0]
  BY <1>6 DEF EndTask
<1>8. sess'.active = 0 /\ sess' \in [status : {"absent", "open", "closed"}, active : 0..MaxTasks]
  BY <1>1, <1>7, SessionAssumption DEF StoreShape
<1>9. SlotHoldsActiveTask'
  BY <1>1, <1>3, <1>4, <1>6, <1>8 DEF SlotHoldsActiveTask, Task
<1>10. ClientKept
  BY <1>1, WrittenKeeps DEF EndTask
<1> QED BY <1>4, <1>5, <1>8, <1>9, <1>10

LEMMA ConditionWrites ==
    ASSUME IInv, NEW t \in Task, NEW cond \in Condition, SetCondition(t, cond)
    PROVE  /\ tasks' \in [Task -> [status : Status, cond : Condition]]
           /\ \A u \in Task : tasks'[u].status = tasks[u].status
           /\ \A u \in Task \ {t} : tasks'[u] = tasks[u]
           /\ tasks'[t].cond = cond
           /\ ClientKept
<1>1. Shape /\ StoreShape
  BY DEF IInv, Shape
<1>2. PICK r : r = tasks[t]
  OBVIOUS
<1>3. r \in [status : Status, cond : Condition]
  BY <1>1, <1>2 DEF StoreShape
<1>4. tasks' = [tasks EXCEPT ![t] = [r EXCEPT !.cond = cond]]
  BY <1>1, <1>2 DEF SetCondition, StoreShape
<1>5. /\ tasks' \in [Task -> [status : Status, cond : Condition]]
      /\ tasks'[t].cond = cond /\ tasks'[t].status = r.status
      /\ \A u \in Task \ {t} : tasks'[u] = tasks[u]
  BY <1>1, <1>3, <1>4 DEF StoreShape
<1>6. ClientKept
  BY <1>1, WrittenKeeps DEF SetCondition
<1> QED BY <1>2, <1>5, <1>6

LEMMA SameStatus ==
    ASSUME IInv, \A u \in Task : tasks'[u].status = tasks[u].status,
           ctl' = ctl, sess' = sess
    PROVE  TasksFrame /\ SlotHoldsActiveTask' /\ CancelsTrue'
<1>1. TasksFrame
  BY DEF TasksFrame, Begun
<1>2. SlotHoldsActiveTask'
  BY DEF IInv, SlotHoldsActiveTask
<1>3. CancelsTrue'
  <2> SUFFICES ASSUME NEW i \in DOMAIN ctl, ctl[i].kind = "cancel", ctl[i].status = "settled"
               PROVE  tasks'[ctl[i].task].status = "cancelled"
    BY DEF CancelsTrue
  <2>1. ctl[i].task \in Task
    BY ControlTyped DEF IInv, ControlRow
  <2> QED BY <2>1 DEF IInv, CancelsTrue
<1> QED BY <1>1, <1>2, <1>3

(* The owner stays in the loop: its request and the others' stay closed. *)
LEMMA OwnerAcknowledged ==
    ASSUME IInv, NEW w \in Worker, Owned(w), NEW pc, MovesTo(w, pc, wk[w].loop, wk[w].c),
           ctl' = ctl, pc \in Outside \/ (InLoop(w) /\ (pc \in Applying => wk[w].pc \in Applying))
    PROVE  AcknowledgedOf(w)'
BY DEF AcknowledgedOf, InLoop, MovesTo, Moved, IInv, Workers

LEMMA OwnerEnds ==
    ASSUME IInv, NEW w \in Worker, Owned(w), NEW status \in Ended, NEW pc,
           EndTask(wk[w].task, status), Go(w, pc), lease' = lease, ctl' = ctl,
           \/ pc = "release" /\ wk[w].pc \in {"complete", "fail"}
           \/ pc = "settle" /\ wk[w].pc = "cancelled" /\ status = "cancelled"
    PROVE  IInv'
<1>1. Shape /\ WorkingOf(w) /\ OwningOf(w) /\ RowShape(w)
  BY DEF IInv, Workers, Shape
<1>2. wk[w].task \in Task /\ wk[w].loop \in BOOLEAN
  BY <1>1 DEF RowShape
<1>3. tasks[wk[w].task].status \in Active
  BY <1>1 DEF OwningOf, Outside
<1>4. /\ sess' \in [status : {"absent", "open", "closed"}, active : 0..MaxTasks]
      /\ sess'.status = "absent" => sess'.active = 0
      /\ tasks' \in [Task -> [status : Status, cond : Condition]]
      /\ TasksFrame /\ SlotHoldsActiveTask' /\ ClientKept
      /\ tasks'[wk[w].task].status = status
  BY <1>2, <1>3, EndWrites
<1>5. MovesTo(w, pc, wk[w].loop, wk[w].c)
  BY <1>1, GoMoves DEF Goes, MovesTo
<1>6. wk'[w].pc = pc /\ wk'[w].task = wk[w].task /\ wk'[w].loop = wk[w].loop
      /\ wk'[w].c = wk[w].c /\ Moved(w)
  BY <1>5 DEF MovesTo
<1>7. OthersFrame(w)
  BY <1>4, <1>6, OwnerFrame
<1>8. WorkingOf(w)'
  BY <1>1, <1>2, <1>3, <1>4, <1>6 DEF WorkingOf, TasksFrame, Begun, Outside, Applying, Entering
<1>9. OwningOf(w)'
  BY <1>1, <1>6 DEF OwningOf, Outside
<1>10. AcknowledgedOf(w)'
  <2>1. pc \in Outside \/ (InLoop(w) /\ (pc \in Applying => wk[w].pc \in Applying))
    BY <1>1 DEF Outside, InLoop, WorkingOf, Applying
  <2> QED BY <1>5, <2>1, OwnerAcknowledged
<1>11. Workers'
  BY <1>7, <1>8, <1>9, <1>10, OthersKeep
<1>12. CancelsTrue'
  <2> SUFFICES ASSUME NEW i \in DOMAIN ctl, ctl[i].kind = "cancel", ctl[i].status = "settled"
               PROVE  tasks'[ctl[i].task].status = "cancelled"
    BY DEF CancelsTrue
  <2>1. ctl[i].task \in Task
    BY <1>1, ControlTyped DEF ControlRow
  <2> QED BY <1>4, <2>1 DEF IInv, CancelsTrue, TasksFrame
<1>13. Shape'
  <2>1. StoreShape'
    BY <1>1, <1>4 DEF StoreShape, Shape
  <2>2. pc \in PC \ {"idle"} /\ wk[w].pc # "idle"
    BY DEF PC
  <2>3. ClientShape'
    BY <1>1, <1>4, ClientKeeps
  <2> QED BY <1>1, <1>2, <1>5, <2>1, <2>2, <2>3, MoveShape
<1> QED BY <1>4, <1>11, <1>12, <1>13 DEF IInv

LEMMA OwnerPauses ==
    ASSUME IInv, NEW w \in Worker, PersistPausing(w) \/ PersistPaused(w)
    PROVE  IInv'
<1>1. Shape /\ WorkingOf(w) /\ OwningOf(w) /\ RowShape(w)
  BY DEF IInv, Workers, Shape
<1>2. wk[w].task \in Task /\ wk[w].loop \in BOOLEAN /\ Owned(w)
  BY <1>1 DEF RowShape, PersistPausing, PersistPaused
<1>3. PICK pc \in {"cleanup", "settle"}, cond \in {"pausing", "paused"} :
          /\ \/ wk[w].pc = "pausing" /\ pc = "cleanup" /\ cond = "pausing"
             \/ wk[w].pc = "paused" /\ pc = "settle" /\ cond = "paused"
          /\ SetCondition(wk[w].task, cond)
          /\ Go(w, pc) /\ lease' = lease /\ ctl' = ctl /\ sess' = sess
  <2>1. CASE PersistPausing(w)
    BY <2>1, Zenon DEF PersistPausing
  <2>2. CASE PersistPaused(w)
    BY <2>2, Zenon DEF PersistPaused
  <2> QED BY <2>1, <2>2
<1>4. /\ tasks' \in [Task -> [status : Status, cond : Condition]]
      /\ \A u \in Task : tasks'[u].status = tasks[u].status
      /\ tasks'[wk[w].task].cond = cond
      /\ ClientKept
  BY <1>2, <1>3, ConditionWrites DEF Condition
<1>5. TasksFrame /\ SlotHoldsActiveTask' /\ CancelsTrue'
  BY <1>3, <1>4, SameStatus
<1>6. MovesTo(w, pc, wk[w].loop, wk[w].c)
  BY <1>1, <1>3, GoMoves DEF Goes, MovesTo
<1>7. wk'[w].pc = pc /\ wk'[w].task = wk[w].task /\ wk'[w].loop = wk[w].loop
      /\ wk'[w].c = wk[w].c /\ Moved(w)
  BY <1>6 DEF MovesTo
<1>8. OthersFrame(w)
  BY <1>2, <1>3, <1>5, <1>7, OwnerFrame
<1>9. WorkingOf(w)'
  BY <1>1, <1>2, <1>3, <1>4, <1>7 DEF WorkingOf, Begun, Outside, Applying, Entering
<1>10. OwningOf(w)'
  BY <1>1, <1>2, <1>3, <1>4, <1>7 DEF OwningOf, Owned, Outside
<1>11. AcknowledgedOf(w)'
  <2>1. pc \in Outside \/ (InLoop(w) /\ (pc \in Applying => wk[w].pc \in Applying))
    BY <1>1, <1>3 DEF Outside, InLoop, WorkingOf, Applying
  <2> QED BY <1>2, <1>3, <1>6, <2>1, OwnerAcknowledged
<1>12. Workers'
  BY <1>8, <1>9, <1>10, <1>11, OthersKeep
<1>13. Shape'
  <2>1. StoreShape'
    BY <1>1, <1>3, <1>4 DEF StoreShape, Shape
  <2>2. pc \in PC \ {"idle"} /\ wk[w].pc # "idle"
    BY <1>3 DEF PC
  <2>3. ClientShape'
    BY <1>1, <1>4, ClientKeeps
  <2> QED BY <1>1, <1>2, <1>6, <2>1, <2>2, <2>3, MoveShape
<1> QED BY <1>5, <1>12, <1>13 DEF IInv

LEMMA OwnerSteps ==
    ASSUME IInv, NEW w \in Worker,
           \/ PersistCompleted(w) \/ PersistFailed(w) \/ PersistCancelled(w)
           \/ PersistPausing(w) \/ PersistPaused(w)
    PROVE  IInv'
<1>1. CASE PersistCompleted(w)
  BY <1>1, OwnerEnds DEF PersistCompleted, Ended
<1>2. CASE PersistFailed(w)
  BY <1>2, OwnerEnds DEF PersistFailed, Ended
<1>3. CASE PersistCancelled(w)
  BY <1>3, OwnerEnds DEF PersistCancelled, Ended
<1>4. CASE PersistPausing(w) \/ PersistPaused(w)
  BY <1>4, OwnerPauses
<1> QED BY <1>1, <1>2, <1>3, <1>4

(* What stays settled was settled of a cancelled task. *)
LEMMA CancelsKept ==
    ASSUME IInv, TasksFrame,
           \A i \in DOMAIN ctl' :
               ctl'[i].kind = "cancel" /\ ctl'[i].status = "settled" =>
               \/ /\ i \in DOMAIN ctl
                  /\ ctl[i].kind = "cancel" /\ ctl[i].status = "settled"
                  /\ ctl'[i].task = ctl[i].task
               \/ tasks'[ctl'[i].task].status = "cancelled"
    PROVE  CancelsTrue'
<1> SUFFICES ASSUME NEW i \in DOMAIN ctl', ctl'[i].kind = "cancel", ctl'[i].status = "settled",
                    tasks'[ctl'[i].task].status # "cancelled"
             PROVE  FALSE
  BY DEF CancelsTrue
<1>1. /\ i \in DOMAIN ctl
      /\ ctl[i].kind = "cancel" /\ ctl[i].status = "settled" /\ ctl'[i].task = ctl[i].task
  OBVIOUS
<1>2. ctl[i].task \in Task
  BY <1>1, ControlTyped DEF IInv, ControlRow
<1> QED BY <1>1, <1>2 DEF IInv, CancelsTrue, TasksFrame

LEMMA RunOwnedStep ==
    ASSUME IInv, NEW w \in Worker, RunOwned(w)
    PROVE  IInv'
<1>1. Shape /\ StoreShape /\ WorkingOf(w) /\ OwningOf(w) /\ RowShape(w)
  BY DEF IInv, Workers, Shape
<1>2. wk[w].pc = "run" /\ Owned(w) /\ lease' = lease /\ ctl' = ctl /\ sess' = sess
  BY DEF RunOwned
<1>3. wk[w].task \in Task /\ wk[w].loop = FALSE
  BY <1>1, <1>2 DEF RowShape, WorkingOf, Entering
<1>4. CASE tasks[wk[w].task].status # "created"
  <2>1. Go(w, "release") /\ UNCHANGED <<tasks, client>>
    BY <1>3, <1>4 DEF RunOwned, Raise
  <2> QED BY <1>1, <1>2, <2>1, NothingWritten, QuietGo DEF Plain
<1>5. CASE tasks[wk[w].task].status = "created"
  <2>1. PICK t, s : /\ t = wk[w].task
                    /\ tasks' = [tasks EXCEPT ![t] = [status |-> "running", cond |-> "running"]]
                    /\ TaskWritten(t)
                    /\ wk' = [wk EXCEPT ![w].pc = "first", ![w].state = s]
    BY <1>5 DEF RunOwned
  <2>2. MovesTo(w, "first", FALSE, wk[w].c)
    BY <1>1, <1>3, <2>1, StepMoves
  <2>3. /\ tasks' \in [Task -> [status : Status, cond : Condition]]
        /\ tasks'[t] = [status |-> "running", cond |-> "running"]
        /\ \A u \in Task \ {t} : tasks'[u] = tasks[u]
    BY <1>1, <1>3, <2>1 DEF StoreShape, Status, Condition, Active
  <2>4. TasksFrame
    BY <1>5, <2>1, <2>3 DEF TasksFrame, Begun
  <2>5. wk'[w].pc = "first" /\ wk'[w].task = t /\ wk'[w].loop = FALSE /\ Moved(w)
    BY <2>1, <2>2 DEF MovesTo
  <2>6. OthersFrame(w)
    BY <1>2, <2>4, <2>5, OwnerFrame
  <2>7. WorkingOf(w)'
    BY <2>3, <2>5 DEF WorkingOf, Begun, Entering, Applying, Outside
  <2>8. OwningOf(w)'
    BY <1>1, <1>2, <2>1, <2>3, <2>5 DEF OwningOf, Active, Outside
  <2>9. AcknowledgedOf(w)'
    <3>1. ASSUME NEW v \in Worker \ {w}, wk'[v].pc = "settle", wk'[v].task = t
          PROVE  FALSE
      <4>1. wk'[v] = wk[v] /\ WorkingOf(v)
        BY <2>5 DEF Moved, IInv, Workers
      <4> QED BY <1>5, <2>1, <3>1, <4>1 DEF WorkingOf, Outside, Begun
    <3> QED BY <2>5, <3>1 DEF AcknowledgedOf, Applying
  <2>10. Workers'
    BY <2>6, <2>7, <2>8, <2>9, OthersKeep
  <2>11. CancelsTrue'
    BY <1>2, <2>4, CancelsKept
  <2>12. SlotHoldsActiveTask'
    BY <1>2, <1>5, <2>1, <2>3 DEF IInv, SlotHoldsActiveTask, Active
  <2>13. Shape'
    <3>1. StoreShape'
      BY <1>1, <1>2, <2>3 DEF StoreShape
    <3>2. ClientKept
      BY <1>1, <2>1, WrittenKeeps
    <3>3. ClientShape'
      BY <1>1, <3>2, ClientKeeps
    <3> QED BY <1>1, <1>2, <2>2, <3>1, <3>3, MoveShape DEF PC
  <2> QED BY <2>10, <2>11, <2>12, <2>13 DEF IInv
<1> QED BY <1>4, <1>5
-----------------------------------------------------------------------------
(* The writes to a request. *)

LEMMA StatusWrites ==
    ASSUME Shape, NEW c \in DOMAIN ctl, NEW s \in ControlStatus,
           ctl' = [ctl EXCEPT ![c].status = s]
    PROVE  /\ ctl' \in Seq(ControlRow)
           /\ DOMAIN ctl' = DOMAIN ctl
           /\ \A i \in DOMAIN ctl \ {c} : ctl'[i] = ctl[i]
           /\ ctl'[c].status = s /\ ctl'[c].task = ctl[c].task /\ ctl'[c].kind = ctl[c].kind
<1>1. ctl \in Seq(ControlRow)
  BY DEF Shape, StoreShape
<1>2. PICK r : r = ctl[c]
  OBVIOUS
<1>3. r \in ControlRow
  BY <1>1, <1>2
<1>4. ctl' = [ctl EXCEPT ![c] = [r EXCEPT !.status = s]]
  BY <1>1, <1>2
<1>5. [r EXCEPT !.status = s] \in ControlRow
  BY <1>3 DEF ControlRow
<1>6. /\ [r EXCEPT !.status = s].status = s /\ [r EXCEPT !.status = s].task = r.task
      /\ [r EXCEPT !.status = s].kind = r.kind
  BY <1>3 DEF ControlRow
<1>7. PICK q \in ControlRow : q = [r EXCEPT !.status = s]
  BY <1>5
<1>8. ctl' = [ctl EXCEPT ![c] = q]
  BY <1>4, <1>7
<1>9. /\ ctl' \in Seq(ControlRow) /\ DOMAIN ctl' = DOMAIN ctl
      /\ \A i \in DOMAIN ctl \ {c} : ctl'[i] = ctl[i]
      /\ ctl'[c] = q
  BY <1>1, <1>8
<1> QED BY <1>2, <1>6, <1>7, <1>9

(* An open request is written, and what others rely on is kept. *)
LEMMA StatusFrame ==
    ASSUME IInv, NEW c \in DOMAIN ctl, ctl[c].status \in Open, NEW s \in ControlStatus,
           ctl' = [ctl EXCEPT ![c].status = s],
           sess' = sess, tasks' = tasks, lease' = lease
    PROVE  StoreShape' /\ TasksFrame /\ ControlsFrame /\ SlotHoldsActiveTask'
<1>1. /\ ctl' \in Seq(ControlRow)
      /\ DOMAIN ctl' = DOMAIN ctl
      /\ \A i \in DOMAIN ctl \ {c} : ctl'[i] = ctl[i]
      /\ ctl'[c].status = s /\ ctl'[c].task = ctl[c].task /\ ctl'[c].kind = ctl[c].kind
  BY StatusWrites DEF IInv
<1>2. StoreShape'
  BY <1>1 DEF IInv, Shape, StoreShape
<1>3. TasksFrame
  BY DEF TasksFrame, Begun
<1>4. ControlsFrame
  BY <1>1 DEF ControlsFrame
<1> QED BY <1>2, <1>3, <1>4 DEF IInv, SlotHoldsActiveTask

LEMMA AcknowledgeStep ==
    ASSUME IInv, NEW w \in Worker, Acknowledge(w)
    PROVE  IInv'
<1>1. Shape /\ WorkingOf(w) /\ OwningOf(w) /\ AcknowledgedOf(w) /\ RowShape(w)
  BY DEF IInv, Workers, Shape
<1>2. wk[w].pc = "ack" /\ sess' = sess /\ tasks' = tasks /\ lease' = lease /\ client' = client
  BY DEF Acknowledge
<1>3. PICK c \in DOMAIN ctl : c = wk[w].c /\ ctl[c].task = wk[w].task
  BY <1>1, <1>2 DEF WorkingOf
<1>4. wk[w].loop \in BOOLEAN /\ wk[w].task \in Task /\ ctl[c].kind \in Kind
  BY <1>1, <1>2, ControlTyped DEF RowShape, ControlRow
<1>5. ClientKept
  BY <1>1, <1>2, WrittenKeeps
<1>6. CASE ctl[c].status \notin Open
  <2>1. PICK pc \in {"fail", "release"} : Go(w, pc)
    BY <1>3, <1>6 DEF Acknowledge, Raise
  <2>2. Quiet
    BY <1>2, <1>3, <1>6 DEF Acknowledge, Quiet
  <2> QED BY <1>2, <1>5, <2>1, <2>2, QuietGo DEF Plain, Outside
<1>7. CASE ctl[c].status \in Open
  <2>1. PICK pc : /\ pc = IF ctl[c].kind = "cancel" THEN "cleanup"
                          ELSE IF wk[w].loop THEN "pausing" ELSE "release"
                  /\ Go(w, pc)
                  /\ ctl' = [ctl EXCEPT ![c].status = "acknowledged"]
    BY <1>3, <1>7 DEF Acknowledge
  <2>2. StoreShape' /\ TasksFrame /\ ControlsFrame /\ SlotHoldsActiveTask'
    BY <1>2, <1>7, <2>1, StatusFrame DEF ControlStatus, Open
  <2>3. /\ DOMAIN ctl' = DOMAIN ctl
        /\ \A i \in DOMAIN ctl \ {c} : ctl'[i] = ctl[i]
        /\ ctl'[c].status = "acknowledged" /\ ctl'[c].task = ctl[c].task
        /\ ctl'[c].kind = ctl[c].kind
    BY <1>1, <2>1, StatusWrites DEF ControlStatus, Open
  <2>4. MovesTo(w, pc, wk[w].loop, c)
    BY <1>1, <1>3, <2>1, GoMoves DEF Goes, MovesTo
  <2>5. /\ wk'[w].pc = pc /\ wk'[w].task = wk[w].task /\ wk'[w].loop = wk[w].loop
        /\ wk'[w].c = c /\ Moved(w)
    BY <2>4 DEF MovesTo
  <2>6. OthersFrame(w)
    <3>1. ASSUME NEW v \in Worker \ {w} PROVE LeaseFrame(v) /\ wk'[v] = wk[v]
      BY <1>2, <2>3, <2>5 DEF LeaseFrame, Moved, Owned
    <3> QED BY <2>1, <2>2, <2>5, <3>1 DEF OthersFrame
  <2>7. WorkingOf(w)'
    BY <1>1, <1>2, <1>3, <1>4, <2>1, <2>3, <2>5 DEF WorkingOf, Begun, Kind, Entering, Applying, Outside
  <2>8. OwningOf(w)'
    BY <1>1, <1>2, <2>5 DEF OwningOf, Owned, Outside
  <2>9. AcknowledgedOf(w)'
    <3> SUFFICES ASSUME Owned(w), wk[w].loop, NEW v \in Worker \ {w},
                        wk[v].pc = "settle", wk[v].task = wk[w].task
                 PROVE  ctl'[wk[v].c].status \notin Open
      BY <1>2, <2>1, <2>3, <2>5 DEF AcknowledgedOf, InLoop, Owned, Moved, Outside
    <3>1. ctl[wk[v].c].status \notin Open
      BY <1>1, <1>2 DEF AcknowledgedOf, InLoop, Outside
    <3>2. wk[v].c \in DOMAIN ctl
      BY DEF IInv, Workers, WorkingOf, Applying
    <3> QED BY <1>7, <2>3, <3>1, <3>2
  <2>10. Workers'
    BY <2>6, <2>7, <2>8, <2>9, OthersKeep
  <2>11. CancelsTrue'
    BY <2>2, <2>3, CancelsKept
  <2>12. Shape'
    BY <1>1, <1>2, <1>4, <1>5, <2>1, <2>2, <2>4, ClientKeeps, MoveShape DEF PC
  <2> QED BY <2>2, <2>10, <2>11, <2>12 DEF IInv
<1> QED BY <1>6, <1>7

(* A step that is no step of a process. *)
LEMMA StoreStep ==
    ASSUME IInv, wk' = wk, StoreShape', ClientShape', TasksFrame, ControlsFrame,
           \A v \in Worker : LeaseFrame(v), SlotHoldsActiveTask', CancelsTrue'
    PROVE  IInv'
<1>1. None \notin Worker
  BY SessionAssumption
<1>2. OthersFrame(None)
  BY <1>1 DEF OthersFrame
<1>3. Workers'
  BY <1>1, <1>2, OthersKeep
<1>4. Shape'
  BY DEF IInv, Shape, RowShape
<1> QED BY <1>3, <1>4 DEF IInv

LEMMA ProbeStep ==
    ASSUME IInv, NEW w \in Worker, ProbeControl(w)
    PROVE  IInv'
<1>1. Shape
  BY DEF IInv
<1>2. PICK c : c = PendingControl(wk[w].task) /\ c # 0 /\ ctl[c].status = "requested"
               /\ ctl' = [ctl EXCEPT ![c].status = "acknowledged"]
  BY DEF ProbeControl
<1>3. c \in DOMAIN ctl /\ ctl[c].status \in Open
  BY <1>1, <1>2, PendingIsOpen DEF OpenControls
<1>4. sess' = sess /\ tasks' = tasks /\ lease' = lease /\ client' = client /\ wk' = wk
  BY DEF ProbeControl
<1>5. StoreShape' /\ TasksFrame /\ ControlsFrame /\ SlotHoldsActiveTask'
  BY <1>2, <1>3, <1>4, StatusFrame DEF ControlStatus, Open
<1>6. /\ DOMAIN ctl' = DOMAIN ctl
      /\ \A i \in DOMAIN ctl \ {c} : ctl'[i] = ctl[i]
      /\ ctl'[c].status = "acknowledged" /\ ctl'[c].task = ctl[c].task
      /\ ctl'[c].kind = ctl[c].kind
  BY <1>1, <1>2, <1>3, StatusWrites DEF ControlStatus, Open
<1>7. ASSUME NEW v \in Worker PROVE LeaseFrame(v)
  BY <1>4, <1>6 DEF LeaseFrame, Owned
<1>8. CancelsTrue'
  BY <1>5, <1>6, CancelsKept
<1>9. ClientShape'
  BY <1>1, <1>4, WrittenKeeps, ClientKeeps
<1> QED BY <1>4, <1>5, <1>7, <1>8, <1>9, StoreStep

LEMMA SettleStep ==
    ASSUME IInv, NEW w \in Worker, SettleControl(w)
    PROVE  IInv'
<1>1. Shape /\ WorkingOf(w) /\ OwningOf(w) /\ AcknowledgedOf(w) /\ RowShape(w)
  BY DEF IInv, Workers, Shape
<1>2. wk[w].pc = "settle" /\ sess' = sess /\ tasks' = tasks /\ lease' = lease /\ client' = client
  BY DEF SettleControl
<1>3. PICK c \in DOMAIN ctl : c = wk[w].c /\ ctl[c].task = wk[w].task
  BY <1>1, <1>2 DEF WorkingOf, Applying
<1>4. ClientKept
  BY <1>1, <1>2, WrittenKeeps
<1>5. wk[w].loop = TRUE
  BY <1>1, <1>2 DEF WorkingOf, RowShape
<1>6. CASE ctl[c].status # "acknowledged"
  <2>1. Go(w, "fail")
    BY <1>3, <1>5, <1>6 DEF SettleControl, Raise
  <2>2. Quiet
    BY <1>2, <1>3, <1>6 DEF SettleControl, Quiet
  <2>3. ~Owned(w)
    BY <1>1, <1>2, <1>3, <1>5, <1>6 DEF AcknowledgedOf, InLoop, Outside, Applying
  <2> QED BY <1>2, <1>4, <2>1, <2>2, <2>3, QuietGo DEF Plain, Outside
<1>7. CASE ctl[c].status = "acknowledged"
  <2>1. Go(w, "release") /\ ctl' = [ctl EXCEPT ![c].status = "settled"]
    BY <1>3, <1>7 DEF SettleControl
  <2>2. StoreShape' /\ TasksFrame /\ ControlsFrame /\ SlotHoldsActiveTask'
    BY <1>2, <1>7, <2>1, StatusFrame DEF ControlStatus, Open
  <2>3. /\ DOMAIN ctl' = DOMAIN ctl
        /\ \A i \in DOMAIN ctl \ {c} : ctl'[i] = ctl[i]
        /\ ctl'[c].status = "settled" /\ ctl'[c].task = ctl[c].task
        /\ ctl'[c].kind = ctl[c].kind
    BY <1>1, <2>1, StatusWrites DEF ControlStatus
  <2>4. MovesTo(w, "release", wk[w].loop, c)
    BY <1>1, <1>3, <2>1, GoMoves DEF Goes, MovesTo
  <2>5. wk'[w].pc = "release" /\ wk'[w].task = wk[w].task /\ Moved(w)
    BY <2>4 DEF MovesTo
  <2>6. OthersFrame(w)
    <3>1. ASSUME NEW v \in Worker \ {w} PROVE LeaseFrame(v) /\ wk'[v] = wk[v]
      <4>1. ASSUME Owned(v), InLoop(v), NEW i \in DOMAIN ctl, ctl[i].task = wk[v].task,
                   ctl[i].status = "acknowledged"
            PROVE  ctl'[i].status = "acknowledged"
        <5>1. AcknowledgedOf(v)
          BY DEF IInv, Workers
        <5>2. i # c
          BY <1>2, <1>3, <1>7, <4>1, <5>1 DEF AcknowledgedOf, Open
        <5> QED BY <2>3, <4>1, <5>2
      <4> QED BY <1>2, <2>5, <4>1 DEF LeaseFrame, Moved, Owned
    <3> QED BY <2>2, <2>5, <3>1 DEF OthersFrame
  <2>7. WorkingOf(w)'
    BY <2>5 DEF WorkingOf, Entering, Applying, Outside
  <2>8. OwningOf(w)' /\ AcknowledgedOf(w)'
    BY <1>1, <1>2, <2>5 DEF OwningOf, AcknowledgedOf, InLoop, Outside
  <2>9. Workers'
    BY <2>6, <2>7, <2>8, OthersKeep
  <2>10. CancelsTrue'
    <3>1. ctl[c].kind = "cancel" => tasks'[ctl'[c].task].status = "cancelled"
      BY <1>1, <1>2, <1>3, <2>3 DEF WorkingOf
    <3> QED BY <2>2, <2>3, <3>1, CancelsKept
  <2>11. Shape'
    BY <1>1, <1>2, <1>4, <1>5, <2>2, <2>4, ClientKeeps, MoveShape DEF PC
  <2> QED BY <2>2, <2>9, <2>10, <2>11 DEF IInv
<1> QED BY <1>6, <1>7
-----------------------------------------------------------------------------
(* The end of a process. *)

LEMMA ResetStep ==
    ASSUME IInv, NEW w \in Worker, Resets(w), StoreShape', ClientShape', TasksFrame,
           ControlsFrame, \A v \in Worker \ {w} : LeaseFrame(v),
           SlotHoldsActiveTask', CancelsTrue'
    PROVE  IInv'
<1>1. /\ wk'[w].pc = "idle" /\ wk'[w].task = 0 /\ wk'[w].loop = FALSE /\ wk'[w].fresh = FALSE
      /\ Moved(w)
  BY DEF Resets, IdleWorker
<1>2. OthersFrame(w)
  BY <1>1 DEF OthersFrame, Moved
<1>3. WorkingOf(w)' /\ OwningOf(w)' /\ AcknowledgedOf(w)'
  BY <1>1 DEF WorkingOf, OwningOf, AcknowledgedOf, InLoop, Outside, Entering, Applying
<1>4. Workers'
  BY <1>2, <1>3, OthersKeep
<1>5. RowShape(w)'
  BY <1>1 DEF RowShape, PC, Moved
<1>6. Shape'
  BY <1>1, <1>5, ShapeKept DEF IInv
<1> QED BY <1>4, <1>6 DEF IInv

LEMMA CrashStep ==
    ASSUME IInv, NEW w \in Worker, wk' = [wk EXCEPT ![w] = IdleWorker],
           UNCHANGED <<sess, tasks, ctl, lease>>, client' = client
    PROVE  IInv'
<1>1. Shape
  BY DEF IInv
<1>2. Resets(w)
  BY <1>1, IdleMoves
<1>3. Quiet /\ ClientKept
  BY <1>1, NothingWritten
<1>4. OthersFrame(w)
  BY <1>1, <1>2, <1>3, QuietFrame DEF Resets, IdleWorker
<1> QED BY <1>1, <1>2, <1>3, <1>4, QuietStore, ClientKeeps, ResetStep DEF OthersFrame

LEMMA CleanupFailsStep ==
    ASSUME IInv, NEW w \in Worker, CleanupFails(w)
    PROVE  IInv'
<1>1. Shape /\ RowShape(w) /\ StoreShape
  BY DEF IInv, Shape
<1>2. PICK t, c : t = wk[w].task /\ c = PendingControl(t)
  OBVIOUS
<1>3. /\ ctl' = IF c = 0 THEN ctl ELSE [ctl EXCEPT ![c].status = "cleanup_failed"]
      /\ (IF Owned(w) THEN SetCondition(t, "recovery_required") ELSE UNCHANGED <<tasks, client>>)
      /\ wk' = [wk EXCEPT ![w] = IdleWorker]
      /\ sess' = sess /\ lease' = lease /\ lease.holder = w
      /\ wk[w].pc \in {"cleanup", "release"}
  BY <1>2 DEF CleanupFails
<1>4. t \in Task
  BY <1>1, <1>2, <1>3 DEF RowShape
<1>5. /\ tasks' \in [Task -> [status : Status, cond : Condition]]
      /\ \A u \in Task : tasks'[u].status = tasks[u].status
      /\ ClientKept
  <2>1. CASE Owned(w)
    BY <1>3, <1>4, <2>1, ConditionWrites DEF Condition
  <2>2. CASE ~Owned(w)
    BY <1>1, <1>3, <2>2, WrittenKeeps DEF StoreShape
  <2> QED BY <2>1, <2>2
<1>6. /\ ctl' \in Seq(ControlRow) /\ DOMAIN ctl' = DOMAIN ctl
      /\ \A i \in DOMAIN ctl :
             /\ ctl'[i].task = ctl[i].task /\ ctl'[i].kind = ctl[i].kind
             /\ ctl'[i] = ctl[i] \/ (ctl[i].status \in Open /\ ctl'[i].status = "cleanup_failed")
  <2>1. CASE c = 0
    BY <1>1, <1>3, <2>1 DEF StoreShape
  <2>2. CASE c # 0
    <3>1. c \in DOMAIN ctl /\ ctl[c].status \in Open
      BY <1>1, <1>2, <2>2, PendingIsOpen DEF OpenControls
    <3> QED BY <1>1, <1>3, <2>2, <3>1, StatusWrites DEF ControlStatus
  <2> QED BY <2>1, <2>2
<1>7. TasksFrame
  BY <1>5 DEF TasksFrame, Begun
<1>8. ControlsFrame
  BY <1>6 DEF ControlsFrame, Open
<1>9. ASSUME NEW v \in Worker \ {w} PROVE LeaseFrame(v)
  BY <1>3 DEF LeaseFrame, Owned
<1>10. SlotHoldsActiveTask'
  BY <1>3, <1>5 DEF IInv, SlotHoldsActiveTask
<1>11. CancelsTrue'
  BY <1>6, <1>7, CancelsKept
<1>12. StoreShape'
  BY <1>1, <1>3, <1>5, <1>6 DEF StoreShape
<1>13. Resets(w) /\ ClientShape'
  BY <1>1, <1>3, <1>5, IdleMoves, ClientKeeps
<1> QED BY <1>7, <1>8, <1>9, <1>10, <1>11, <1>12, <1>13, ResetStep

LEMMA ReleaseStep ==
    ASSUME IInv, NEW w \in Worker, Release(w)
    PROVE  IInv'
<1>1. Shape /\ RowShape(w) /\ StoreShape
  BY DEF IInv, Shape
<1>2. wk' = [wk EXCEPT ![w] = IdleWorker] /\ sess' = sess /\ ctl' = ctl
  BY DEF Release
<1>3. CASE ~Owned(w)
  BY <1>2, <1>3, CrashStep DEF Release
<1>4. CASE Owned(w)
  <2>1. PICK t \in Task : t = wk[w].task
    BY <1>1 DEF RowShape, Release
  <2>2. /\ lease' = NoLease
        /\ SetCondition(t, "idle") \/ UNCHANGED <<tasks, client>>
    BY <1>4, <2>1 DEF Release
  <2>3. /\ tasks' \in [Task -> [status : Status, cond : Condition]]
        /\ \A u \in Task : tasks'[u].status = tasks[u].status
        /\ ClientKept
    <3>1. CASE SetCondition(t, "idle")
      BY <3>1, ConditionWrites DEF Condition
    <3>2. CASE UNCHANGED <<tasks, client>>
      BY <1>1, <3>2, WrittenKeeps DEF StoreShape
    <3> QED BY <2>2, <3>1, <3>2
  <2>4. TasksFrame /\ SlotHoldsActiveTask' /\ CancelsTrue'
    BY <1>2, <2>3, SameStatus
  <2>5. ControlsFrame
    BY <1>2 DEF ControlsFrame
  <2>6. ASSUME NEW v \in Worker \ {w} PROVE LeaseFrame(v)
    BY <2>2, SessionAssumption DEF LeaseFrame, Owned, NoLease
  <2>7. StoreShape'
    BY <1>1, <1>2, <2>2, <2>3, SessionAssumption DEF StoreShape, NoLease
  <2>8. Resets(w) /\ ClientShape'
    BY <1>1, <1>2, <2>3, IdleMoves, ClientKeeps
  <2> QED BY <2>4, <2>5, <2>6, <2>7, <2>8, ResetStep
<1> QED BY <1>3, <1>4

(* The lease of a process expires. *)
LEMMA ExpireStep ==
    ASSUME IInv, lease' = [lease EXCEPT !.live = FALSE],
           UNCHANGED <<sess, tasks, ctl, client, wk>>
    PROVE  IInv'
<1>1. Shape /\ StoreShape
  BY DEF IInv, Shape
<1>2. lease' \in [holder : Worker \cup {None}, task : 0..MaxTasks, live : BOOLEAN]
      /\ lease'.live = FALSE /\ lease'.holder = lease.holder /\ lease'.task = lease.task
  BY <1>1 DEF StoreShape
<1>3. StoreShape'
  BY <1>1, <1>2 DEF StoreShape
<1>4. ASSUME NEW v \in Worker PROVE LeaseFrame(v)
  BY <1>2 DEF LeaseFrame, Owned
<1>5. ControlsFrame
  BY DEF ControlsFrame
<1>6. TasksFrame /\ SlotHoldsActiveTask' /\ CancelsTrue'
  BY SameStatus
<1>7. ClientShape'
  BY <1>1, WrittenKeeps, ClientKeeps
<1> QED BY <1>3, <1>4, <1>5, <1>6, <1>7, StoreStep
-----------------------------------------------------------------------------
(* The begin of a process. *)

LEMMA LoadStep ==
    ASSUME IInv, NEW w \in Worker, LoadTask(w)
    PROVE  IInv'
<1>1. Shape /\ StoreShape
  BY DEF IInv, Shape
<1>2. Quiet /\ ClientKept
  BY <1>1, NothingWritten DEF LoadTask, storeVars
<1>3. PICK t, s, f : /\ t = sess.active /\ s = ckpt[t] /\ f = (tasks[t].status = "created")
                     /\ t # 0
                     /\ wk' = [wk EXCEPT ![w] = [IdleWorker EXCEPT
                                   !.pc = "loaded", !.task = t, !.state = s, !.fresh = f]]
  BY DEF LoadTask
<1>4. f \in BOOLEAN
  BY <1>3
<1>5. t \in Task /\ tasks[t].status \in Active
  BY <1>1, <1>3 DEF IInv, StoreShape, Task, SlotHoldsActiveTask
<1>6. PICK r : r = [IdleWorker EXCEPT !.pc = "loaded", !.task = t, !.state = s, !.fresh = f]
  OBVIOUS
<1>7. r.pc = "loaded" /\ r.task = t /\ r.fresh = f /\ r.loop = FALSE /\ IsRow(r)
  BY <1>6 DEF IdleWorker, IsRow
<1>8. wk' = [wk EXCEPT ![w] = r]
  BY <1>3, <1>6
<1>9. wk'[w] = r /\ Moved(w)
  BY <1>1, <1>7, <1>8 DEF Moved, Shape
<1>10. OthersFrame(w)
  BY <1>1, <1>2, <1>7, <1>9, QuietFrame
<1>11. WorkingOf(w)'
  <2>1. ~f => Begun(t)'
    BY <1>2, <1>3, <1>5 DEF Begun, Active, Quiet
  <2> QED BY <1>7, <1>9, <2>1 DEF WorkingOf, Entering, Applying, Outside
<1>12. OwningOf(w)' /\ AcknowledgedOf(w)'
  BY <1>7, <1>9 DEF OwningOf, AcknowledgedOf, InLoop, Outside
<1>13. Workers'
  BY <1>10, <1>11, <1>12, OthersKeep
<1>14. RowShape(w)'
  BY <1>4, <1>5, <1>7, <1>9 DEF RowShape, PC
<1>15. Shape'
  BY <1>1, <1>2, <1>9, <1>14, QuietStore, ClientKeeps, ShapeKept
<1> QED BY <1>2, <1>13, <1>15, QuietStore DEF IInv

LEMMA ClaimStep ==
    ASSUME IInv, NEW w \in Worker, Claim(w)
    PROVE  IInv'
<1>1. Shape /\ StoreShape /\ WorkingOf(w) /\ RowShape(w)
  BY DEF IInv, Workers, Shape
<1>2. wk[w].pc = "loaded" /\ sess' = sess /\ ctl' = ctl
  BY DEF Claim
<1>3. PICK t \in Task : t = wk[w].task
  BY <1>1, <1>2 DEF RowShape
<1>4. wk[w].loop = FALSE
  BY <1>1, <1>2 DEF WorkingOf, Entering, RowShape
<1>5. CASE ~(sess.active = t /\ ~lease.live /\ tasks[t].cond # "recovery_required")
  BY <1>2, <1>3, <1>5, CrashStep DEF Claim
<1>6. CASE sess.active = t /\ ~lease.live /\ tasks[t].cond # "recovery_required"
  <2>1. PICK pc : /\ pc = IF wk[w].fresh THEN "run" ELSE "resume"
                  /\ Go(w, pc)
                  /\ lease' = [holder |-> w, task |-> t, live |-> TRUE]
                  /\ SetCondition(t, "running")
    BY <1>3, <1>6 DEF Claim
  <2>2. /\ tasks' \in [Task -> [status : Status, cond : Condition]]
        /\ \A u \in Task : tasks'[u].status = tasks[u].status
        /\ tasks'[t].cond = "running"
        /\ ClientKept
    BY <2>1, ConditionWrites DEF Condition
  <2>3. TasksFrame /\ SlotHoldsActiveTask' /\ CancelsTrue'
    BY <1>2, <2>2, SameStatus
  <2>4. MovesTo(w, pc, FALSE, wk[w].c)
    BY <1>1, <1>4, <2>1, GoMoves DEF Goes, MovesTo
  <2>5. wk'[w].pc = pc /\ wk'[w].task = t /\ wk'[w].loop = FALSE /\ Moved(w)
    BY <1>3, <2>4 DEF MovesTo
  <2>6. OthersFrame(w)
    <3>1. ASSUME NEW v \in Worker \ {w} PROVE LeaseFrame(v) /\ wk'[v] = wk[v]
      BY <2>1, <2>5 DEF LeaseFrame, Owned, Moved
    <3>2. ControlsFrame
      BY <1>2 DEF ControlsFrame
    <3> QED BY <2>1, <2>3, <2>5, <3>1, <3>2 DEF OthersFrame
  <2>7. WorkingOf(w)'
    BY <1>1, <1>2, <1>3, <2>1, <2>2, <2>5 DEF WorkingOf, Begun, Entering, Applying, Outside
  <2>8. OwningOf(w)'
    <3>1. tasks'[t].status \in Active
      BY <1>6, <2>2 DEF IInv, SlotHoldsActiveTask
    <3> QED BY <2>1, <2>2, <2>5, <3>1 DEF OwningOf
  <2>9. AcknowledgedOf(w)'
    BY <2>1, <2>5 DEF AcknowledgedOf, InLoop
  <2>10. Workers'
    BY <2>6, <2>7, <2>8, <2>9, OthersKeep
  <2>11. StoreShape'
    BY <1>1, <1>2, <2>1, <2>2 DEF StoreShape, Task
  <2>12. Shape'
    BY <1>1, <1>2, <2>1, <2>2, <2>4, <2>11, ClientKeeps, MoveShape DEF PC
  <2> QED BY <2>3, <2>10, <2>12 DEF IInv
<1> QED BY <1>5, <1>6
-----------------------------------------------------------------------------
(* Clients. *)

LEMMA ClientStep ==
    ASSUME IInv, UNCHANGED <<tasks, ctl, lease, wk>>, ClientShape',
           sess' \in [status : {"absent", "open", "closed"}, active : 0..MaxTasks],
           sess'.active = sess.active, sess'.status = "absent" => sess.status = "absent"
    PROVE  IInv'
<1>1. Shape /\ StoreShape
  BY DEF IInv, Shape
<1>2. StoreShape'
  BY <1>1 DEF StoreShape
<1>3. TasksFrame /\ ControlsFrame /\ \A v \in Worker : LeaseFrame(v)
  BY DEF TasksFrame, Begun, ControlsFrame, LeaseFrame, Owned
<1>4. SlotHoldsActiveTask' /\ CancelsTrue'
  BY DEF IInv, SlotHoldsActiveTask, CancelsTrue
<1> QED BY <1>2, <1>3, <1>4, StoreStep

LEMMA AppendControl ==
    ASSUME IInv, NEW r \in ControlRow, ctl' = Append(ctl, r)
    PROVE  /\ ctl' \in Seq(ControlRow) /\ ControlsFrame
           /\ \A i \in DOMAIN ctl : ctl'[i] = ctl[i]
           /\ \A i \in DOMAIN ctl' : i \in DOMAIN ctl \/ ctl'[i] = r
<1>1. ctl \in Seq(ControlRow)
  BY DEF IInv, Shape, StoreShape
<1>2. ctl' \in Seq(ControlRow) /\ DOMAIN ctl = 1..Len(ctl) /\ DOMAIN ctl' = 1..(Len(ctl) + 1)
      /\ Len(ctl) \in Nat
  BY <1>1
<1>3. \A i \in DOMAIN ctl : ctl'[i] = ctl[i]
  BY <1>1
<1>4. ctl'[Len(ctl) + 1] = r
  BY <1>1
<1>5. ControlsFrame
  BY <1>2, <1>3 DEF ControlsFrame
<1> QED BY <1>2, <1>3, <1>4, <1>5

LEMMA RequestStep ==
    ASSUME IInv, NEW kind \in Kind, RequestControl(kind)
    PROVE  IInv'
<1>1. Shape /\ StoreShape /\ ClientShape
  BY DEF IInv, Shape
<1>2. PICK r : r = [task |-> client.task, kind |-> kind, status |-> "requested"]
               /\ ctl' = Append(ctl, r)
  BY DEF RequestControl
<1>3. client.task \in Task
  BY <1>1 DEF RequestControl, VersionMatches, ClientShape
<1>4. r \in ControlRow /\ r.status = "requested"
  BY <1>2, <1>3 DEF ControlRow, ControlStatus, Open
<1>5. UNCHANGED <<sess, tasks, lease, wk>> /\ client' = NoClient
  BY DEF RequestControl
<1>6. /\ ctl' \in Seq(ControlRow) /\ ControlsFrame
      /\ \A i \in DOMAIN ctl : ctl'[i] = ctl[i]
      /\ \A i \in DOMAIN ctl' : i \in DOMAIN ctl \/ ctl'[i] = r
  BY <1>2, <1>4, AppendControl
<1>7. StoreShape'
  BY <1>1, <1>5, <1>6 DEF StoreShape
<1>8. TasksFrame /\ SlotHoldsActiveTask'
  BY <1>5 DEF IInv, SlotHoldsActiveTask, TasksFrame, Begun
<1>9. CancelsTrue'
  BY <1>4, <1>6, <1>8, CancelsKept
<1>10. ASSUME NEW v \in Worker PROVE LeaseFrame(v)
  BY <1>5, <1>6 DEF LeaseFrame, Owned
<1>11. ClientShape'
  BY <1>5 DEF ClientShape, NoClient, Kind
<1> QED BY <1>5, <1>6, <1>7, <1>8, <1>9, <1>10, <1>11, StoreStep

LEMMA CancelStep ==
    ASSUME IInv, NEW t \in Task, CancelTask(t)
    PROVE  IInv'
<1>1. Shape /\ StoreShape /\ ClientShape
  BY DEF IInv, Shape
<1>2. PICK r : /\ r = [task |-> t, kind |-> "cancel",
                       status |-> IF Executing(t) THEN "requested" ELSE "settled"]
               /\ ctl' = Append(ctl, r)
  BY DEF CancelTask
<1>3. r \in ControlRow /\ r.task = t
      /\ r.status = IF Executing(t) THEN "requested" ELSE "settled"
  BY <1>2 DEF ControlRow, ControlStatus, Open, Kind
<1>4. lease' = lease /\ wk' = wk /\ tasks[t].status \in Active
  BY DEF CancelTask
<1>5. /\ ctl' \in Seq(ControlRow) /\ ControlsFrame
      /\ \A i \in DOMAIN ctl : ctl'[i] = ctl[i]
      /\ \A i \in DOMAIN ctl' : i \in DOMAIN ctl \/ ctl'[i] = r
  BY <1>2, <1>3, AppendControl
<1>6. CASE Executing(t)
  <2>1. UNCHANGED <<tasks, sess, client>>
    BY <1>6 DEF CancelTask
  <2>2. StoreShape'
    BY <1>1, <1>4, <1>5, <2>1 DEF StoreShape
  <2>3. TasksFrame /\ SlotHoldsActiveTask'
    BY <2>1 DEF IInv, SlotHoldsActiveTask, TasksFrame, Begun
  <2>4. CancelsTrue'
    BY <1>3, <1>5, <1>6, <2>3, CancelsKept
  <2>5. ASSUME NEW v \in Worker PROVE LeaseFrame(v)
    BY <1>4, <1>5, <2>1 DEF LeaseFrame, Owned
  <2>6. ClientShape'
    BY <1>1, <2>1, WrittenKeeps, ClientKeeps
  <2> QED BY <1>4, <1>5, <2>2, <2>3, <2>4, <2>5, <2>6, StoreStep
<1>7. CASE ~Executing(t)
  <2>1. EndTask(t, "cancelled")
    BY <1>7 DEF CancelTask
  <2>2. /\ sess' \in [status : {"absent", "open", "closed"}, active : 0..MaxTasks]
        /\ sess'.status = "absent" => sess'.active = 0
        /\ tasks' \in [Task -> [status : Status, cond : Condition]]
        /\ TasksFrame /\ SlotHoldsActiveTask' /\ ClientKept
        /\ tasks'[t].status = "cancelled"
    BY <1>4, <2>1, EndWrites DEF Ended
  <2>3. StoreShape'
    BY <1>1, <1>4, <1>5, <2>2 DEF StoreShape
  <2>4. CancelsTrue'
    BY <1>3, <1>5, <2>2, CancelsKept
  <2>5. ASSUME NEW v \in Worker PROVE LeaseFrame(v)
    <3>1. ASSUME Owned(v), wk[v].pc \notin Outside \cup {"settle"}
          PROVE  tasks'[wk[v].task] = tasks[wk[v].task]
      <4>1. lease.task = wk[v].task /\ wk[v].task \in Task
        BY <1>1, <3>1 DEF IInv, Workers, OwningOf, Owned, Outside, Shape, RowShape
      <4>2. wk[v].task # t
        BY <1>7, <3>1, <4>1 DEF Owned, Executing
      <4> QED BY <1>1, <2>1, <4>1, <4>2 DEF EndTask, StoreShape
    <3> QED BY <1>4, <1>5, <3>1 DEF LeaseFrame, Owned
  <2>6. ClientShape'
    BY <1>1, <2>2, ClientKeeps
  <2> QED BY <1>4, <1>5, <2>2, <2>3, <2>4, <2>5, <2>6, StoreStep
<1> QED BY <1>6, <1>7

LEMMA StartStep ==
    ASSUME IInv, NEW t \in Task, StartTask(t)
    PROVE  IInv'
<1>1. Shape /\ StoreShape
  BY DEF IInv, Shape
<1>2. client' = NoClient /\ UNCHANGED <<ctl, lease, wk>> /\ tasks[t].status = "absent"
  BY DEF StartTask
<1>3. ClientShape'
  BY <1>2 DEF ClientShape, NoClient, Kind
<1>4. CASE ~(sess.status = "open" /\ sess.active = 0)
  BY <1>1, <1>2, <1>3, <1>4, ClientStep DEF StartTask, StoreShape
<1>5. CASE sess.status = "open" /\ sess.active = 0
  <2>1. /\ tasks' = [tasks EXCEPT ![t] = [status |-> "created", cond |-> "idle"]]
        /\ sess' = [sess EXCEPT !.active = t]
    BY <1>5 DEF StartTask
  <2>2. /\ tasks' \in [Task -> [status : Status, cond : Condition]]
        /\ tasks'[t].status = "created"
        /\ \A u \in Task \ {t} : tasks'[u] = tasks[u]
    BY <1>1, <2>1 DEF StoreShape, Status, Active, Condition
  <2>3. sess' \in [status : {"absent", "open", "closed"}, active : 0..MaxTasks]
        /\ sess'.active = t /\ sess'.status = "open"
    BY <1>1, <1>5, <2>1 DEF StoreShape, Task
  <2>4. StoreShape'
    BY <1>1, <1>2, <2>2, <2>3 DEF StoreShape
  <2>5. TasksFrame
    BY <1>2, <2>2 DEF TasksFrame, Begun
  <2>6. SlotHoldsActiveTask'
    BY <1>5, <2>2, <2>3 DEF IInv, SlotHoldsActiveTask, Active, Task
  <2>7. ControlsFrame /\ CancelsTrue'
    BY <1>2, <2>5, CancelsKept DEF ControlsFrame
  <2>8. ASSUME NEW v \in Worker PROVE LeaseFrame(v)
    <3>1. ASSUME Owned(v), wk[v].pc \notin Outside \cup {"settle"}
          PROVE  tasks'[wk[v].task] = tasks[wk[v].task]
      <4>1. tasks[wk[v].task].status \in Active /\ wk[v].task \in Task
        BY <1>1, <3>1 DEF IInv, Workers, OwningOf, Owned, Outside, Shape, RowShape
      <4> QED BY <1>2, <2>2, <4>1 DEF Active
    <3> QED BY <1>2, <3>1 DEF LeaseFrame, Owned
  <2> QED BY <1>2, <1>3, <2>4, <2>5, <2>6, <2>7, <2>8, StoreStep
<1> QED BY <1>4, <1>5

LEMMA ClientSteps ==
    ASSUME IInv, Client
    PROVE  IInv'
<1> USE DEF storeVars
<1>0. Shape /\ StoreShape /\ ClientShape
  BY DEF IInv, Shape
<1>1. CASE CreateSession
  <2>1. ClientShape'
    BY <1>0, <1>1, WrittenKeeps, ClientKeeps DEF CreateSession
  <2> QED BY <1>0, <1>1, <2>1, ClientStep DEF CreateSession, StoreShape
<1>2. CASE \E sub \in Submission \cup {None}, text \in Text : SendMessage(sub, text)
  <2>1. UNCHANGED <<sess, tasks, ctl, lease, wk>> /\ (client' = client \/ SessionWritten)
    BY <1>2 DEF SendMessage, AppendTurn
  <2>2. ClientShape'
    BY <1>0, <2>1, WrittenKeeps, ClientKeeps
  <2> QED BY <1>0, <2>1, <2>2, ClientStep DEF StoreShape
<1>3. CASE \E op \in {"start", "close"} \cup Kind : ClientReads(op)
  <2>1. PICK op \in {"start", "close"} \cup Kind : ClientReads(op)
    BY <1>3
  <2>2. ClientShape'
    BY <1>0, <2>1 DEF ClientReads, ClientShape, StoreShape, Task, Kind
  <2> QED BY <1>0, <2>1, <2>2, ClientStep DEF ClientReads, StoreShape
<1>4. CASE ClientFails
  <2>1. ClientShape'
    BY <1>4 DEF ClientFails, ClientShape, NoClient, Kind
  <2> QED BY <1>0, <1>4, <2>1, ClientStep DEF ClientFails, StoreShape
<1>5. CASE \E t \in Task : StartTask(t)
  BY <1>5, StartStep
<1>6. CASE CloseSession
  <2>1. ClientShape'
    BY <1>6 DEF CloseSession, ClientShape, NoClient, Kind
  <2>2. /\ sess' \in [status : {"absent", "open", "closed"}, active : 0..MaxTasks]
        /\ sess'.active = sess.active /\ (sess'.status = "absent" => sess.status = "absent")
    BY <1>0, <1>6 DEF CloseSession, StoreShape
  <2> QED BY <1>6, <2>1, <2>2, ClientStep DEF CloseSession
<1>7. CASE \E kind \in Kind : RequestControl(kind)
  BY <1>7, RequestStep
<1>8. CASE \E t \in Task : CancelTask(t)
  BY <1>8, CancelStep
<1> QED BY <1>1, <1>2, <1>3, <1>4, <1>5, <1>6, <1>7, <1>8 DEF Client
-----------------------------------------------------------------------------
LEMMA InitHolds == Init => IInv
<1> SUFFICES ASSUME Init PROVE IInv
  OBVIOUS
<1> USE SessionAssumption DEF Init
<1>1. StoreShape
  BY DEF StoreShape, NoLease, Status, Condition, Active
<1>2. ClientShape
  BY DEF ClientShape, NoClient, Kind
<1>3. \A w \in Worker : wk[w] = IdleWorker
  OBVIOUS
<1>4. ASSUME NEW w \in Worker PROVE RowShape(w)
  BY <1>3 DEF RowShape, IsRow, IdleWorker, PC
<1>5. Shape
  BY <1>1, <1>2, <1>4 DEF Shape
<1>6. ASSUME NEW w \in Worker PROVE WorkingOf(w) /\ OwningOf(w) /\ AcknowledgedOf(w)
  BY <1>3 DEF WorkingOf, OwningOf, AcknowledgedOf, InLoop, IdleWorker, Outside, Entering, Applying
<1>7. SlotHoldsActiveTask
  BY DEF SlotHoldsActiveTask, Active, Task
<1>8. CancelsTrue
  BY DEF CancelsTrue
<1> QED BY <1>5, <1>6, <1>7, <1>8 DEF IInv, Workers

LEMMA NextKeeps == IInv /\ [Next]_vars => IInv'
<1> SUFFICES ASSUME IInv, [Next]_vars PROVE IInv'
  OBVIOUS
<1> USE DEF storeVars
<1>1. CASE Client
  BY <1>1, ClientSteps
<1>2. CASE \E w \in Worker : Process(w)
  <2>1. PICK w \in Worker : Process(w)
    BY <1>2
  <2>2. CASE LoadTask(w) \/ Claim(w) \/ RunOwned(w) \/ FirstCheckpoint(w) \/ ResumeOwned(w)
    BY <2>2, LoadStep, ClaimStep, RunOwnedStep, ControlSteps
  <2>3. CASE Loop(w)
    BY <2>3, ControlSteps, AskSteps, CloseStepSteps, AnswerSteps, OwnerSteps, ProbeStep DEF Loop
  <2>4. CASE Stop(w)
    BY <2>4, AcknowledgeStep, OwnerSteps, ControlSteps, SettleStep, AnswerSteps, ReleaseStep DEF Stop
  <2> QED BY <2>1, <2>2, <2>3, <2>4 DEF Process
<1>3. CASE OrphanExpires
  BY <1>3, ExpireStep DEF OrphanExpires
<1>4. CASE Fault
  <2>1. CASE \E w \in Worker : ProviderFails(w)
    BY <2>1, AskSteps
  <2>2. CASE \E w \in Worker : CleanupFails(w)
    BY <2>2, CleanupFailsStep
  <2>3. CASE \E w \in Worker : Crash(w)
    BY <2>3, CrashStep DEF Crash
  <2>4. CASE LeaseExpires
    BY <2>4, ExpireStep DEF LeaseExpires
  <2> QED BY <1>4, <2>1, <2>2, <2>3, <2>4 DEF Fault
<1>5. CASE UNCHANGED vars
  BY <1>5 DEF vars, IInv, Shape, StoreShape, ClientShape, RowShape, Workers, WorkingOf, OwningOf,
              AcknowledgedOf, InLoop, Owned, Begun, SlotHoldsActiveTask, CancelsTrue
<1> QED BY <1>1, <1>2, <1>3, <1>4, <1>5 DEF Next

(* What the processes of runtime.py rely on: the shape of the rows they    *)
(* read, that a process in the loop works on a begun task and applies a    *)
(* request of that task, that the task of an owner is active and not       *)
(* paused, and that the request an owner applies stays acknowledged, also  *)
(* beside processes that have lost the lease and do not know it yet.       *)
THEOREM SessionInvariant == Spec => []IInv
BY InitHolds, NextKeeps, PTL DEF Spec

(* Completion, failure and cancel, with and without an owner, give up the  *)
(* slot of the session in the transaction that ends the task (update_task, *)
(* cancel_task), and no start_task takes it before: the slot holds a task  *)
(* exactly while the task is active.                                       *)
THEOREM SlotHolds == Spec => []SlotHoldsActiveTask
<1>1. IInv => SlotHoldsActiveTask
  BY DEF IInv
<1> QED BY <1>1, SessionInvariant, PTL

(* What _pause, _cancel and cancel_task tell the user is true: a cancel is *)
(* settled only of a cancelled task, and the owner of a task that is shown *)
(* as paused has stopped, for any number of processes that resume the task *)
(* one after the other or at the same time.                                *)
THEOREM TruthToUser == Spec => []ControlTruthful
<1>1. IInv => ControlTruthful
  <2> SUFFICES ASSUME IInv PROVE ControlTruthful
    OBVIOUS
  <2>1. ASSUME NEW w \in Worker, Owned(w), tasks[wk[w].task].cond = "paused"
        PROVE  wk[w].pc \in {"idle", "loaded", "settle", "release"}
    BY <2>1 DEF IInv, Workers, OwningOf, Outside
  <2> QED BY <2>1 DEF ControlTruthful, IInv, CancelsTrue
<1> QED BY <1>1, SessionInvariant, PTL
-----------------------------------------------------------------------------
(* Repeated submissions. *)

TurnsInv == OneTurnPerSubmission /\ \E S : turns \in Seq(S)

LEMMA AppendOnce ==
    ASSUME TurnsInv, NEW turn, AppendTurn(turn)
    PROVE  TurnsInv'
<1>1. CASE SameSubmission(turn.sub) # {}
  BY <1>1 DEF AppendTurn, TurnsInv, OneTurnPerSubmission
<1>2. CASE SameSubmission(turn.sub) = {}
  <2>1. PICK S : turns \in Seq(S)
    BY DEF TurnsInv
  <2>2. PICK R : R = S \cup {turn}
    OBVIOUS
  <2>3. turns \in Seq(R) /\ turn \in R
    BY <2>1, <2>2
  <2>4. turns' = Append(turns, turn)
    BY <1>2 DEF AppendTurn
  <2>5. /\ turns' \in Seq(R) /\ Len(turns) \in Nat
        /\ DOMAIN turns = 1..Len(turns) /\ DOMAIN turns' = 1..(Len(turns) + 1)
        /\ \A i \in DOMAIN turns : turns'[i] = turns[i]
        /\ turns'[Len(turns) + 1] = turn
    BY <2>3, <2>4
  <2>6. \A i \in DOMAIN turns : turn.sub # None => turns[i].sub # turn.sub
    BY <1>2 DEF SameSubmission
  <2>7. OneTurnPerSubmission'
    <3> SUFFICES ASSUME NEW i \in DOMAIN turns', NEW j \in DOMAIN turns',
                        turns'[i].sub = turns'[j].sub, turns'[i].sub # None
                 PROVE  i = j
      BY DEF OneTurnPerSubmission
    <3>1. CASE i \in DOMAIN turns /\ j \in DOMAIN turns
      BY <2>5, <3>1 DEF TurnsInv, OneTurnPerSubmission
    <3>2. CASE i \notin DOMAIN turns
      BY <2>5, <2>6, <3>2
    <3>3. CASE j \notin DOMAIN turns
      BY <2>5, <2>6, <3>3
    <3> QED BY <3>1, <3>2, <3>3
  <2> QED BY <2>5, <2>7 DEF TurnsInv
<1> QED BY <1>1, <1>2

LEMMA TurnsKept ==
    ASSUME TurnsInv, turns' = turns
    PROVE  TurnsInv'
BY DEF TurnsInv, OneTurnPerSubmission

LEMMA TurnsStep == TurnsInv /\ [Next]_vars => TurnsInv'
<1> SUFFICES ASSUME TurnsInv, [Next]_vars PROVE TurnsInv'
  OBVIOUS
<1> USE DEF storeVars
<1>1. CASE Client
  <2>1. CASE \E sub \in Submission \cup {None}, text \in Text : SendMessage(sub, text)
    BY <2>1, AppendOnce DEF SendMessage
  <2>2. CASE turns' = turns
    BY <2>2, TurnsKept
  <2> QED BY <1>1, <2>1, <2>2 DEF Client, CreateSession, ClientReads, ClientFails, StartTask,
                              CloseSession, RequestControl, CancelTask
<1>2. CASE \E w \in Worker : Process(w)
  <2>1. PICK w \in Worker : Process(w)
    BY <1>2
  <2>2. CASE AppendAnswer(w)
    BY <2>2, AppendOnce DEF AppendAnswer
  <2>3. CASE turns' = turns
    BY <2>3, TurnsKept, ZenonT(30)
  <2>4. Loop(w) => AppendAnswer(w) \/ turns' = turns
    BY DEF Loop, SeeControl, BudgetExceeded, RecoverResponse, ConsumeInputs, Respond, Supersede,
           AcceptResponse, ProbeControl, ToolsDone, VerifiedPlan, PersistCompleted, PersistFailed
  <2>5. Stop(w) => turns' = turns
    BY DEF Stop, Acknowledge, PersistPausing, Cleanup, PersistPaused, PersistCancelled,
           SettleControl, LoseLease, Release
  <2>6. LoadTask(w) \/ Claim(w) \/ RunOwned(w) \/ FirstCheckpoint(w) \/ ResumeOwned(w)
        => turns' = turns
    BY DEF LoadTask, Claim, RunOwned, FirstCheckpoint, ResumeOwned
  <2> QED BY <2>1, <2>2, <2>3, <2>4, <2>5, <2>6 DEF Process
<1>3. CASE OrphanExpires \/ Fault \/ UNCHANGED vars
  BY <1>3, TurnsKept DEF OrphanExpires, Fault, ProviderFails, CleanupFails, Crash, LeaseExpires, vars
<1> QED BY <1>1, <1>2, <1>3 DEF Next

(* append_turn looks the submission up in the transaction that appends, so *)
(* that a retry of a message or of the answer of a task, by the same or by *)
(* another process, before or after the session has moved on, is one turn. *)
THEOREM SubmissionOnce == Spec => []OneTurnPerSubmission
<1>1. Init => TurnsInv
  <2> SUFFICES ASSUME Init PROVE TurnsInv
    OBVIOUS
  <2>1. turns = << >>
    BY DEF Init
  <2>2. turns \in Seq({None})
    BY <2>1
  <2> QED BY <2>1, <2>2 DEF TurnsInv, OneTurnPerSubmission
<1>2. TurnsInv => OneTurnPerSubmission
  BY DEF TurnsInv
<1> QED BY <1>1, <1>2, TurnsStep, PTL DEF Spec
-----------------------------------------------------------------------------
(* The input a checkpoint shows. *)

Snapshot == [saved : BOOLEAN, next : Nat, consumed : Nat, shown : Seq(Nat)]

(* Every user's turn that was consumed is shown, in order. *)
Shows(s, ts) ==
    /\ s \in Snapshot /\ s.consumed <= Len(ts)
    /\ \A i \in DOMAIN s.shown : s.shown[i] \in 1..s.consumed
    /\ \A i \in 1..s.consumed : ts[i].role = "user" => \E j \in DOMAIN s.shown : s.shown[j] = i
    /\ \A i, j \in DOMAIN s.shown : i < j => s.shown[i] < s.shown[j]

(* What came later is addressed to the task, as long as it is active. *)
NewerOf(s, ts, active, t) ==
    active = t => \A i \in (s.consumed + 1)..Len(ts) : ts[i].role = "user" => ts[i].task = t

LEMMA ShowsAppend ==
    ASSUME NEW S, NEW ts \in Seq(S), NEW x \in S, NEW s, Shows(s, ts)
    PROVE  Shows(s, Append(ts, x))
<1>1. /\ Len(ts) \in Nat /\ Len(Append(ts, x)) = Len(ts) + 1
      /\ \A i \in 1..Len(ts) : Append(ts, x)[i] = ts[i]
  OBVIOUS
<1>2. s.consumed \in Nat /\ s.consumed <= Len(ts)
  BY DEF Shows, Snapshot
<1>3. s.consumed <= Len(Append(ts, x)) /\ \A i \in 1..s.consumed : Append(ts, x)[i] = ts[i]
  BY <1>1, <1>2
<1> QED BY <1>3 DEF Shows

LEMMA NewerAppend ==
    ASSUME NEW S, NEW ts \in Seq(S), NEW x \in S, NEW s, Shows(s, ts), NEW active, NEW t,
           NewerOf(s, ts, active, t), x.role = "user" /\ active = t => x.task = t
    PROVE  NewerOf(s, Append(ts, x), active, t)
<1>1. /\ Len(ts) \in Nat /\ Len(Append(ts, x)) = Len(ts) + 1
      /\ \A i \in 1..Len(ts) : Append(ts, x)[i] = ts[i]
      /\ Append(ts, x)[Len(ts) + 1] = x
  OBVIOUS
<1>2. s.consumed \in Nat
  BY DEF Shows, Snapshot
<1> SUFFICES ASSUME active = t, NEW i \in (s.consumed + 1)..(Len(ts) + 1),
                    Append(ts, x)[i].role = "user"
             PROVE  Append(ts, x)[i].task = t
  BY <1>1 DEF NewerOf
<1>3. CASE i = Len(ts) + 1
  BY <1>1, <1>3
<1>4. CASE i # Len(ts) + 1
  <2>1. i \in (s.consumed + 1)..Len(ts) /\ i \in 1..Len(ts)
    BY <1>1, <1>2, <1>4
  <2> QED BY <1>1, <2>1 DEF NewerOf
<1> QED BY <1>3, <1>4

(* The turns that become messages of task t. *)
IsInput(t, i) == turns[i].role = "user" /\ turns[i].task \in {0, t}

Taken(list, t, i) == IF IsInput(t, i) THEN Append(list, i) ELSE list

IsUpto(g, t, n, N) ==
    g = [i \in n..N |-> IF i = n THEN <<>> ELSE Taken(g[i - 1], t, i)]

LEMMA UptoExists ==
    ASSUME NEW t, NEW n \in Nat, NEW k \in Nat
    PROVE  \E g : IsUpto(g, t, n, n + k)
<1> DEFINE C == {m \in Nat : ~\E g : IsUpto(g, t, n, n + m)}
<1> SUFFICES ASSUME C # {} PROVE FALSE
  OBVIOUS
<1>1. C \in SUBSET Nat
  OBVIOUS
<1>2. PICK m \in C : \A i \in C : m <= i
  <2> HIDE DEF C
  <2> QED BY <1>1, LeastExists
<1>3. m \in Nat /\ ~\E g : IsUpto(g, t, n, n + m)
  OBVIOUS
<1>4. CASE m = 0
  <2>1. PICK g : g = [i \in n..n |-> <<>>]
    OBVIOUS
  <2>2. IsUpto(g, t, n, n)
    BY <2>1 DEF IsUpto
  <2> QED BY <1>3, <1>4, <2>2
<1>5. CASE m # 0
  <2>1. m - 1 \in Nat /\ m - 1 \notin C
    BY <1>2, <1>3, <1>5
  <2>2. PICK N : N = n + m /\ N \in Nat /\ N - 1 = n + (m - 1) /\ N # n /\ N > n
    BY <1>3, <1>5
  <2>3. PICK g : IsUpto(g, t, n, N - 1)
    BY <2>1, <2>2
  <2>4. PICK new : new = Taken(g[N - 1], t, N)
    OBVIOUS
  <2>5. PICK h : h = [i \in n..N |-> IF i = N THEN new ELSE g[i]]
    OBVIOUS
  <2>6. ASSUME NEW i \in n..N
        PROVE  h[i] = IF i = n THEN <<>> ELSE Taken(h[i - 1], t, i)
    <3>1. CASE i = n
      <4>1. n \in n..(N - 1) /\ n # N
        BY <2>2
      <4>2. g[n] = <<>>
        BY <2>3, <4>1 DEF IsUpto
      <4> QED BY <2>2, <2>5, <3>1, <4>1, <4>2
    <3>2. CASE i # n /\ i # N
      <4>1. i \in n..(N - 1) /\ i - 1 \in n..N /\ i - 1 # N
        BY <2>2, <3>2
      <4>2. g[i] = Taken(g[i - 1], t, i)
        BY <2>3, <3>2, <4>1 DEF IsUpto
      <4> QED BY <2>5, <3>2, <4>1, <4>2
    <3>3. CASE i # n /\ i = N
      <4>1. N - 1 \in n..N /\ N - 1 # N
        BY <2>2
      <4> QED BY <2>4, <2>5, <3>3, <4>1
    <3> QED BY <3>1, <3>2, <3>3
  <2>7. h = [i \in n..N |-> h[i]]
    BY <2>5
  <2>8. IsUpto(h, t, n, N)
    BY <2>6, <2>7 DEF IsUpto
  <2> QED BY <1>3, <2>2, <2>8
<1> QED BY <1>4, <1>5

(* A list of the inputs after n, up to m. *)
Lists(list, t, n, m) ==
    /\ list \in Seq(Nat)
    /\ \A j \in DOMAIN list : list[j] \in (n + 1)..m
    /\ \A i \in (n + 1)..m : IsInput(t, i) => \E j \in DOMAIN list : list[j] = i
    /\ \A i, j \in DOMAIN list : i < j => list[i] < list[j]

LEMMA TakenLists ==
    ASSUME NEW t, NEW n \in Nat, NEW m \in Nat, m > n, NEW list, Lists(list, t, n, m - 1)
    PROVE  Lists(Taken(list, t, m), t, n, m)
<1>1. /\ list \in Seq(Nat)
      /\ \A j \in DOMAIN list : list[j] \in (n + 1)..(m - 1)
      /\ \A i \in (n + 1)..(m - 1) : IsInput(t, i) => \E j \in DOMAIN list : list[j] = i
      /\ \A i, j \in DOMAIN list : i < j => list[i] < list[j]
  BY DEF Lists
<1>2. \A i \in (n + 1)..m : i = m \/ i \in (n + 1)..(m - 1)
  OBVIOUS
<1>3. CASE ~IsInput(t, m)
  <2>1. Taken(list, t, m) = list
    BY <1>3 DEF Taken
  <2>2. \A j \in DOMAIN list : list[j] \in (n + 1)..m
    BY <1>1
  <2>3. \A i \in (n + 1)..m : IsInput(t, i) => \E j \in DOMAIN list : list[j] = i
    BY <1>1, <1>2, <1>3
  <2> QED BY <1>1, <2>1, <2>2, <2>3 DEF Lists
<1>4. CASE IsInput(t, m)
  <2>1. PICK long : long = Append(list, m)
    OBVIOUS
  <2>2. /\ long \in Seq(Nat) /\ Len(list) \in Nat
        /\ DOMAIN list = 1..Len(list) /\ DOMAIN long = 1..(Len(list) + 1)
        /\ \A j \in DOMAIN list : long[j] = list[j]
        /\ long[Len(list) + 1] = m
    BY <1>1, <2>1
  <2>3. \A j \in DOMAIN long : j \in DOMAIN list \/ j = Len(list) + 1
    BY <2>2
  <2>4. \A j \in DOMAIN long : long[j] \in (n + 1)..m
    <3> TAKE j \in DOMAIN long
    <3>1. CASE j \in DOMAIN list
      <4>1. list[j] \in (n + 1)..(m - 1) /\ long[j] = list[j]
        BY <1>1, <2>2, <3>1
      <4> QED BY <4>1
    <3>2. CASE j = Len(list) + 1
      BY <2>2, <3>2
    <3> QED BY <2>3, <3>1, <3>2
  <2>5. \A i \in (n + 1)..m : IsInput(t, i) => \E j \in DOMAIN long : long[j] = i
    <3> TAKE i \in (n + 1)..m
    <3> HAVE IsInput(t, i)
    <3>1. CASE i = m
      BY <2>2, <3>1
    <3>2. CASE i # m
      <4>1. PICK j \in DOMAIN list : list[j] = i
        BY <1>1, <1>2, <3>2
      <4> QED BY <2>2, <4>1
    <3> QED BY <3>1, <3>2
  <2>6. ASSUME NEW i \in DOMAIN long, NEW j \in DOMAIN long, i < j
        PROVE  long[i] < long[j]
    <3>1. i \in DOMAIN list
      BY <2>2, <2>6
    <3>2. CASE j \in DOMAIN list
      BY <1>1, <2>2, <2>6, <3>1, <3>2
    <3>3. CASE j = Len(list) + 1
      <4>1. long[i] \in (n + 1)..(m - 1) /\ long[j] = m
        BY <1>1, <2>2, <3>1, <3>3
      <4> QED BY <4>1
    <3> QED BY <2>3, <3>2, <3>3
  <2>7. Taken(list, t, m) = long
    BY <1>4, <2>1 DEF Taken
  <2> QED BY <2>2, <2>4, <2>5, <2>6, <2>7 DEF Lists
<1> QED BY <1>3, <1>4

(* list_turns(after_sequence), once through: every input, in order. *)
LEMMA InputsAfterLists ==
    ASSUME NEW S, turns \in Seq(S), NEW t, NEW n \in Nat, n <= Len(turns)
    PROVE  Lists(InputsAfter(t, n), t, n, Len(turns))
<1>1. PICK N : N = Len(turns)
  OBVIOUS
<1>2. N \in Nat /\ N >= n
  BY <1>1
<1>3. \E g : IsUpto(g, t, n, N)
  <2>1. PICK k : k = N - n
    OBVIOUS
  <2>2. k \in Nat /\ n + k = N
    BY <1>2, <2>1
  <2>3. \E g : IsUpto(g, t, n, n + k)
    BY <2>2, UptoExists
  <2> QED BY <2>2, <2>3
<1>4. PICK g : g = CHOOSE h : IsUpto(h, t, n, N)
  OBVIOUS
<1>5. IsUpto(g, t, n, N)
  BY <1>3, <1>4
<1>6. InputsAfter(t, n) = g[N]
  BY <1>1, <1>4 DEF InputsAfter, IsUpto, Taken, IsInput
<1> DEFINE C == {m \in n..N : ~Lists(g[m], t, n, m)}
<1>7. C = {}
  <2> SUFFICES ASSUME C # {} PROVE FALSE
    OBVIOUS
  <2>1. C \in SUBSET Nat
    BY <1>2
  <2>2. PICK m \in C : \A i \in C : m <= i
    <3> HIDE DEF C
    <3> QED BY <2>1, LeastExists
  <2>3. m \in n..N /\ m \in Nat /\ ~Lists(g[m], t, n, m)
    BY <2>1
  <2>4. CASE m = n
    <3>1. g[n] = <<>>
      BY <1>2, <1>5, <2>3, <2>4 DEF IsUpto
    <3>2. Lists(<<>>, t, n, n)
      BY DEF Lists
    <3> QED BY <2>3, <2>4, <3>1, <3>2
  <2>5. CASE m # n
    <3>1. m - 1 \in n..N /\ m - 1 \notin C /\ m > n
      BY <1>2, <2>2, <2>3, <2>5
    <3>2. Lists(g[m - 1], t, n, m - 1)
      BY <3>1
    <3>3. g[m] = Taken(g[m - 1], t, m)
      BY <1>5, <2>3, <2>5 DEF IsUpto
    <3> QED BY <2>3, <3>1, <3>2, <3>3, TakenLists
  <2> QED BY <2>4, <2>5
<1>8. N \in n..N
  BY <1>2
<1> QED BY <1>1, <1>6, <1>7, <1>8

(* A snapshot that goes on to the newest turn. *)
LEMMA ShowsRest ==
    ASSUME NEW S, turns \in Seq(S), NEW s, Shows(s, turns), NEW t, NewerOf(s, turns, t, t),
           NEW n \in Nat, NEW list, Lists(list, t, s.consumed, Len(turns)),
           NEW r, r = [saved |-> s.saved, next |-> n, consumed |-> Len(turns),
                       shown |-> s.shown \o list]
    PROVE  Shows(r, turns) /\ (\A a : NewerOf(r, turns, a, t))
<1>1. PICK old, c, N : old = s.shown /\ c = s.consumed /\ N = Len(turns)
  OBVIOUS
<1>2. /\ s.saved \in BOOLEAN /\ old \in Seq(Nat) /\ c \in Nat /\ c <= N /\ N \in Nat
      /\ \A i \in DOMAIN old : old[i] \in 1..c
      /\ \A i \in 1..c : turns[i].role = "user" => \E j \in DOMAIN old : old[j] = i
      /\ \A i, j \in DOMAIN old : i < j => old[i] < old[j]
  BY <1>1 DEF Shows, Snapshot
<1>3. /\ list \in Seq(Nat)
      /\ \A j \in DOMAIN list : list[j] \in (c + 1)..N
      /\ \A i \in (c + 1)..N : IsInput(t, i) => \E j \in DOMAIN list : list[j] = i
      /\ \A i, j \in DOMAIN list : i < j => list[i] < list[j]
  BY <1>1 DEF Lists
<1>4. PICK new : new = old \o list
  OBVIOUS
<1>5. /\ new \in Seq(Nat) /\ Len(old) \in Nat /\ Len(list) \in Nat
      /\ DOMAIN old = 1..Len(old) /\ DOMAIN list = 1..Len(list)
      /\ DOMAIN new = 1..(Len(old) + Len(list))
      /\ \A i \in 1..Len(old) : new[i] = old[i]
      /\ \A i \in 1..Len(list) : new[Len(old) + i] = list[i]
  BY <1>2, <1>3, <1>4
<1>6. ASSUME NEW j \in DOMAIN new
      PROVE  \/ j \in DOMAIN old /\ new[j] = old[j] /\ new[j] \in 1..c
             \/ /\ j > Len(old) /\ j - Len(old) \in DOMAIN list
                /\ new[j] = list[j - Len(old)] /\ new[j] \in (c + 1)..N
  <2>1. CASE j <= Len(old)
    BY <1>2, <1>5, <2>1
  <2>2. CASE j > Len(old)
    <3>1. j - Len(old) \in 1..Len(list) /\ Len(old) + (j - Len(old)) = j
      BY <1>5, <2>2, SMTT(40)
    <3>2. new[j] = list[j - Len(old)]
      BY <1>5, <3>1
    <3> QED BY <1>3, <1>5, <2>2, <3>1, <3>2
  <2> QED BY <1>5, <2>1, <2>2
<1>7. \A j \in DOMAIN new : new[j] \in 1..N
  <2> TAKE j \in DOMAIN new
  <2>1. new[j] \in 1..c \/ new[j] \in (c + 1)..N
    BY <1>6
  <2> QED BY <1>2, <2>1
<1>8. ASSUME NEW i \in DOMAIN new, NEW j \in DOMAIN new, i < j
      PROVE  new[i] < new[j]
  <2>1. CASE j \in DOMAIN old
    <3>1. i \in DOMAIN old
      BY <1>5, <1>8, <2>1
    <3> QED BY <1>2, <1>5, <1>8, <2>1, <3>1
  <2>2. CASE j \notin DOMAIN old /\ i \in DOMAIN old
    <3>1. new[i] \in 1..c /\ new[j] \in (c + 1)..N
      BY <1>2, <1>5, <1>6, <2>2
    <3> QED BY <1>2, <3>1
  <2>3. CASE j \notin DOMAIN old /\ i \notin DOMAIN old
    <3>1. /\ i - Len(old) \in DOMAIN list /\ new[i] = list[i - Len(old)]
          /\ j - Len(old) \in DOMAIN list /\ new[j] = list[j - Len(old)]
      BY <1>6, <2>3
    <3>2. i - Len(old) < j - Len(old)
      BY <1>5, <1>8
    <3> QED BY <1>3, <3>1, <3>2
  <2> QED BY <2>1, <2>2, <2>3
<1>9. ASSUME NEW i \in 1..N, turns[i].role = "user"
      PROVE  \E j \in DOMAIN new : new[j] = i
  <2>1. CASE i <= c
    <3>1. PICK j \in DOMAIN old : old[j] = i
      BY <1>2, <1>9, <2>1
    <3> QED BY <1>5, <3>1
  <2>2. CASE i > c
    <3>1. i \in (c + 1)..N
      BY <1>2, <2>2
    <3>2. turns[i].task = t
      BY <1>1, <1>9, <3>1 DEF NewerOf
    <3>3. IsInput(t, i)
      BY <1>9, <3>2 DEF IsInput
    <3>4. PICK j \in DOMAIN list : list[j] = i
      BY <1>3, <3>1, <3>3
    <3>5. Len(old) + j \in DOMAIN new /\ new[Len(old) + j] = i
      BY <1>5, <3>4, SMTT(40)
    <3> QED BY <3>5
  <2> QED BY <1>2, <2>1, <2>2
<1>10. r.saved = s.saved /\ r.next = n /\ r.consumed = N /\ r.shown = new
  BY <1>1, <1>4
<1>11. r \in Snapshot
  BY <1>1, <1>2, <1>4, <1>5 DEF Snapshot
<1>12. Shows(r, turns)
  <2>1. r.consumed <= Len(turns)
    BY <1>1, <1>2, <1>10
  <2>2. \A i \in DOMAIN r.shown : r.shown[i] \in 1..r.consumed
    BY <1>7, <1>10
  <2>3. \A i \in 1..r.consumed :
            turns[i].role = "user" => \E j \in DOMAIN r.shown : r.shown[j] = i
    BY <1>9, <1>10
  <2>4. \A i, j \in DOMAIN r.shown : i < j => r.shown[i] < r.shown[j]
    BY <1>8, <1>10
  <2> QED BY <1>11, <2>1, <2>2, <2>3, <2>4 DEF Shows
<1>13. \A a : NewerOf(r, turns, a, t)
  <2>1. \A i \in (N + 1)..N : FALSE
    BY <1>2
  <2> QED BY <1>1, <1>10, <2>1 DEF NewerOf
<1> QED BY <1>12, <1>13
-----------------------------------------------------------------------------
(* No input is skipped by processes that follow one another: a process that *)
(* is about to resume has not read its checkpoint beside an owner at work.  *)
(* SessionService.resume reads it before the claim, and does not ensure it. *)

LoadedAlone ==
    \A v, w \in Worker :
        wk[v].pc = "loaded" /\ ~wk[v].fresh => ~Owned(w) \/ wk[w].pc \in {"idle", "loaded"}

Saves ==
    /\ ckpt = [t \in Task |-> ckpt[t]]
    /\ \A t \in Task :
           /\ Shows(ckpt[t], turns)
           /\ ckpt[t].saved => Begun(t) /\ NewerOf(ckpt[t], turns, sess.active, t)

(* A response belongs to a step that a checkpoint has reached, and the one *)
(* of its next step has seen what the checkpoint shows.                    *)
Answers ==
    /\ resp = [t \in Task |-> [n \in Steps |-> resp[t][n]]]
    /\ \A t \in Task : \A n \in Steps :
           resp[t][n] # NoResponse =>
               /\ ckpt[t].saved
               /\ n <= ckpt[t].next
               /\ n = ckpt[t].next => resp[t][n].consumed = ckpt[t].consumed

(* The owner has the checkpoint that is saved, or will save its first; what *)
(* a process that has lost its lease still has is not written any more.     *)
Synced == {"resume", "step", "ask", "answered", "tool"}

Watched == Synced \cup {"loaded", "first"}

Copy(w) ==
    /\ (wk[w].pc \in Synced /\ Owned(w)) \/ (wk[w].pc = "loaded" /\ ~wk[w].fresh) =>
           wk[w].state = ckpt[wk[w].task] /\ ckpt[wk[w].task].saved
    /\ wk[w].pc = "first" /\ Owned(w) =>
           /\ ~ckpt[wk[w].task].saved /\ wk[w].state.saved
           /\ Shows(wk[w].state, turns)
           /\ NewerOf(wk[w].state, turns, sess.active, wk[w].task)
    /\ wk[w].pc = "answered" /\ Owned(w) => wk[w].step.consumed = wk[w].state.consumed

InputInv == Saves /\ Answers /\ \A w \in Worker : Copy(w)

(* What every step leaves to the tasks that have begun. *)
BegunFrame == \A t \in Task : Begun(t) => Begun(t)' /\ (sess'.active = t => sess.active = t)

TurnsFrame ==
    \/ turns' = turns
    \/ /\ sess' = sess
       /\ \E x : turns' = Append(turns, x) /\ (x.role = "user" => x.task = sess.active)

LEMMA ShowsKept ==
    ASSUME TurnsInv, TurnsFrame, BegunFrame, NEW s, Shows(s, turns)
    PROVE  /\ Shows(s, turns')
           /\ \A t \in Task : Begun(t) /\ NewerOf(s, turns, sess.active, t)
                              => NewerOf(s, turns', sess'.active, t)
<1>1. CASE turns' = turns
  BY <1>1 DEF BegunFrame, NewerOf
<1>2. CASE turns' # turns
  <2>1. PICK x : sess' = sess /\ turns' = Append(turns, x) /\ (x.role = "user" => x.task = sess.active)
    BY <1>2 DEF TurnsFrame
  <2>2. PICK S : turns \in Seq(S)
    BY DEF TurnsInv
  <2>3. PICK R : R = S \cup {x}
    OBVIOUS
  <2>4. turns \in Seq(R) /\ x \in R
    BY <2>2, <2>3
  <2>5. Shows(s, Append(turns, x))
    BY <2>4, ShowsAppend
  <2>6. ASSUME NEW t \in Task, NewerOf(s, turns, sess.active, t)
        PROVE  NewerOf(s, Append(turns, x), sess.active, t)
    BY <2>1, <2>4, <2>6, NewerAppend
  <2> QED BY <2>1, <2>5, <2>6
<1> QED BY <1>1, <1>2

(* A step may take ownership away from a process, and gives it to none. *)
OwnedBefore(w) == Owned(w)' => Owned(w)

LeaseKept == \A w \in Worker : OwnedBefore(w)

LEMMA SameLease ==
    ASSUME lease' = lease \/ ~lease'.live
    PROVE  LeaseKept
BY DEF LeaseKept, OwnedBefore, Owned

LEMMA InputFrame ==
    ASSUME IInv, TurnsInv, InputInv, TurnsFrame, BegunFrame, ckpt' = ckpt, resp' = resp
    PROVE  /\ Saves' /\ Answers'
           /\ \A w \in Worker :
                  (wk'[w] = wk[w] /\ OwnedBefore(w)) \/ wk'[w].pc \notin Watched => Copy(w)'
<1>1. Saves'
  <2> SUFFICES ASSUME NEW t \in Task
               PROVE  /\ Shows(ckpt[t], turns')
                      /\ ckpt[t].saved => Begun(t)' /\ NewerOf(ckpt[t], turns', sess'.active, t)
    BY DEF InputInv, Saves
  <2>1. /\ Shows(ckpt[t], turns)
        /\ ckpt[t].saved => Begun(t) /\ NewerOf(ckpt[t], turns, sess.active, t)
    BY DEF InputInv, Saves
  <2> QED BY <2>1, ShowsKept DEF BegunFrame
<1>2. Answers'
  BY DEF InputInv, Answers
<1>3. ASSUME NEW w \in Worker, (wk'[w] = wk[w] /\ OwnedBefore(w)) \/ wk'[w].pc \notin Watched
      PROVE  Copy(w)'
  <2>1. CASE wk'[w].pc \notin Watched
    BY <2>1 DEF Copy, Watched, Synced
  <2>2. CASE wk'[w] = wk[w] /\ OwnedBefore(w)
    <3>1. Copy(w)
      BY DEF InputInv
    <3>2. ASSUME wk[w].pc = "first", Owned(w)
          PROVE  Shows(wk[w].state, turns') /\ NewerOf(wk[w].state, turns', sess'.active, wk[w].task)
      <4>1. Begun(wk[w].task) /\ wk[w].task \in Task
        BY <3>2 DEF IInv, Workers, WorkingOf, Outside, Shape, RowShape
      <4>2. Shows(wk[w].state, turns) /\ NewerOf(wk[w].state, turns, sess.active, wk[w].task)
        BY <3>1, <3>2 DEF Copy
      <4> QED BY <4>1, <4>2, ShowsKept
    <3>3. (Owned(w)' => Owned(w)) /\ wk'[w] = wk[w] /\ ckpt' = ckpt
      BY <2>2 DEF OwnedBefore
    <3> QED BY <3>1, <3>2, <3>3 DEF Copy
  <2> QED BY <1>3, <2>1, <2>2
<1> QED BY <1>1, <1>2, <1>3

(* The frames of the steps. *)
LEMMA TasksKeepBegun ==
    ASSUME TasksFrame, sess' = sess \/ sess'.active = 0
    PROVE  BegunFrame
BY DEF TasksFrame, BegunFrame, Task

LEMMA SameTasks ==
    ASSUME tasks' = tasks, sess' = sess \/ sess'.active = sess.active \/ sess'.active = 0
    PROVE  BegunFrame
BY DEF BegunFrame, Begun, Task

LEMMA EndKeepsBegun ==
    ASSUME IInv, NEW t \in Task, NEW status \in Ended, tasks[t].status \in Active,
           EndTask(t, status)
    PROVE  BegunFrame
<1>1. TasksFrame
  BY EndWrites
<1>2. sess' = sess \/ sess'.active = 0
  <2>1. sess \in [status : {"absent", "open", "closed"}, active : 0..MaxTasks]
    BY DEF IInv, Shape, StoreShape
  <2> QED BY <2>1 DEF EndTask
<1> QED BY <1>1, <1>2, TasksKeepBegun

LEMMA ConditionKeepsBegun ==
    ASSUME IInv, NEW t \in Task, NEW cond \in Condition, SetCondition(t, cond), sess' = sess
    PROVE  BegunFrame
<1>1. \A u \in Task : tasks'[u].status = tasks[u].status
  BY ConditionWrites
<1> QED BY <1>1 DEF BegunFrame, Begun

(* Steps that read or write no checkpoint and no response. *)
Unread(w) ==
    /\ ckpt' = ckpt /\ resp' = resp /\ TurnsFrame /\ BegunFrame
    /\ \A v \in Worker \ {w} : wk'[v] = wk[v] /\ OwnedBefore(v)

LEMMA GoUnwatched ==
    ASSUME IInv, NEW w \in Worker, NEW pc, Go(w, pc)
    PROVE  wk'[w].pc = pc /\ (\A v \in Worker \ {w} : wk'[v] = wk[v])
<1>1. Goes(w, pc)
  BY GoMoves DEF IInv
<1> QED BY <1>1 DEF Goes, Moved

LEMMA UnreadKeeps ==
    ASSUME IInv, TurnsInv, InputInv, NEW w, Unread(w), w \in Worker => Copy(w)'
    PROVE  InputInv'
<1>1. Saves' /\ Answers' /\ \A v \in Worker : wk'[v] = wk[v] /\ OwnedBefore(v) => Copy(v)'
  BY InputFrame DEF Unread
<1>2. \A v \in Worker : Copy(v)'
  <2> TAKE v \in Worker
  <2>1. CASE v = w
    BY <2>1
  <2>2. CASE v # w
    BY <1>1, <2>2 DEF Unread
  <2> QED BY <2>1, <2>2
<1> QED BY <1>1, <1>2 DEF InputInv

LEMMA UnwatchedKeeps ==
    ASSUME IInv, TurnsInv, InputInv, NEW w, Unread(w),
           (wk' = wk /\ LeaseKept) \/ (w \in Worker /\ wk'[w].pc \notin Watched)
    PROVE  InputInv'
<1>1. w \in Worker => Copy(w)'
  BY InputFrame DEF Unread, LeaseKept
<1> QED BY <1>1, UnreadKeeps

LEMMA StartInput ==
    ASSUME IInv, TurnsInv, InputInv, NEW t \in Task, StartTask(t)
    PROVE  InputInv'
<1>1. BegunFrame
  <2>1. CASE UNCHANGED <<tasks, sess>>
    BY <2>1, SameTasks, SameLease
  <2>2. CASE ~UNCHANGED <<tasks, sess>>
    <3>1. /\ tasks' = [tasks EXCEPT ![t] = [status |-> "created", cond |-> "idle"]]
          /\ sess' = [sess EXCEPT !.active = t]
          /\ tasks[t].status = "absent"
      BY <2>2 DEF StartTask
    <3>2. /\ sess \in [status : {"absent", "open", "closed"}, active : 0..MaxTasks]
          /\ tasks \in [Task -> [status : Status, cond : Condition]]
      BY DEF IInv, Shape, StoreShape
    <3>3. sess'.active = t /\ \A u \in Task \ {t} : tasks'[u] = tasks[u]
      BY <3>1, <3>2
    <3> QED BY <3>1, <3>3 DEF BegunFrame, Begun
  <2> QED BY <2>1, <2>2
<1>2. Unread(t) /\ wk' = wk /\ LeaseKept
  BY <1>1, SameLease DEF Unread, LeaseKept, TurnsFrame, StartTask
<1> QED BY <1>2, UnwatchedKeeps

LEMMA ClientInput ==
    ASSUME IInv, TurnsInv, InputInv, Client
    PROVE  InputInv'
<1>1. CASE CreateSession
  <2>1. sess'.active = sess.active
    BY <1>1 DEF CreateSession, IInv, Shape, StoreShape
  <2>2. Unread(0) /\ wk' = wk /\ LeaseKept
    BY <1>1, <2>1, SameTasks, SameLease DEF Unread, LeaseKept, TurnsFrame, CreateSession
  <2> QED BY <2>2, UnwatchedKeeps
<1>2. CASE \E sub \in Submission \cup {None}, text \in Text : SendMessage(sub, text)
  <2>1. PICK sub \in Submission \cup {None}, text \in Text : SendMessage(sub, text)
    BY <1>2
  <2>2. PICK x : x = [role |-> "user", task |-> sess.active, sub |-> sub, text |-> text]
    OBVIOUS
  <2>3. turns' = turns \/ turns' = Append(turns, x)
    BY <2>1, <2>2 DEF SendMessage, AppendTurn
  <2>4. x.task = sess.active /\ sess' = sess
    BY <2>1, <2>2 DEF SendMessage
  <2>5. TurnsFrame
    BY <2>3, <2>4 DEF TurnsFrame
  <2>6. Unread(0) /\ wk' = wk /\ LeaseKept
    BY <2>1, <2>5, SameTasks, SameLease DEF Unread, LeaseKept, SendMessage
  <2> QED BY <2>6, UnwatchedKeeps
<1>3. CASE \E op \in {"start", "close"} \cup Kind : ClientReads(op)
  <2>1. Unread(0) /\ wk' = wk /\ LeaseKept
    BY <1>3, SameTasks, SameLease DEF Unread, LeaseKept, TurnsFrame, ClientReads, storeVars
  <2> QED BY <2>1, UnwatchedKeeps
<1>4. CASE ClientFails
  <2>1. Unread(0) /\ wk' = wk /\ LeaseKept
    BY <1>4, SameTasks, SameLease DEF Unread, LeaseKept, TurnsFrame, ClientFails, storeVars
  <2> QED BY <2>1, UnwatchedKeeps
<1>5. CASE \E t \in Task : StartTask(t)
  BY <1>5, StartInput
<1>6. CASE CloseSession
  <2>1. sess'.active = sess.active
    BY <1>6 DEF CloseSession, IInv, Shape, StoreShape
  <2>2. Unread(0) /\ wk' = wk /\ LeaseKept
    BY <1>6, <2>1, SameTasks, SameLease DEF Unread, LeaseKept, TurnsFrame, CloseSession
  <2> QED BY <2>2, UnwatchedKeeps
<1>7. CASE \E kind \in Kind : RequestControl(kind)
  <2>1. Unread(0) /\ wk' = wk /\ LeaseKept
    BY <1>7, SameTasks, SameLease DEF Unread, LeaseKept, TurnsFrame, RequestControl
  <2> QED BY <2>1, UnwatchedKeeps
<1>8. CASE \E t \in Task : CancelTask(t)
  <2>1. PICK t \in Task : CancelTask(t)
    BY <1>8
  <2>2. BegunFrame
    <3>1. CASE Executing(t)
      BY <2>1, <3>1, SameTasks, SameLease DEF CancelTask
    <3>2. CASE ~Executing(t)
      <4>1. EndTask(t, "cancelled") /\ tasks[t].status \in Active /\ "cancelled" \in Ended
        BY <2>1, <3>2 DEF CancelTask, Ended
      <4> QED BY <4>1, EndKeepsBegun
    <3> QED BY <3>1, <3>2
  <2>3. Unread(0) /\ wk' = wk /\ LeaseKept
    BY SameLease, <2>1, <2>2 DEF Unread, LeaseKept, TurnsFrame, CancelTask
  <2> QED BY <2>3, UnwatchedKeeps
<1> QED BY <1>1, <1>2, <1>3, <1>4, <1>5, <1>6, <1>7, <1>8 DEF Client

(* The steps of a process that loads and saves nothing. *)
LEMMA ResetInput ==
    ASSUME IInv, TurnsInv, InputInv, NEW w \in Worker,
           ckpt' = ckpt, resp' = resp, turns' = turns, BegunFrame, LeaseKept,
           wk' = [wk EXCEPT ![w] = IdleWorker]
    PROVE  InputInv'
<1>1. Resets(w)
  BY IdleMoves DEF IInv
<1>2. Unread(w) /\ wk'[w].pc \notin Watched
  BY <1>1 DEF Resets, Moved, Unread, LeaseKept, TurnsFrame, IdleWorker, Watched, Synced
<1> QED BY <1>2, UnwatchedKeeps

LEMMA GoInput ==
    ASSUME IInv, TurnsInv, InputInv, NEW w \in Worker, NEW pc, pc \notin Watched, Go(w, pc),
           ckpt' = ckpt, resp' = resp, TurnsFrame, BegunFrame, LeaseKept
    PROVE  InputInv'
<1>1. wk'[w].pc = pc /\ (\A v \in Worker \ {w} : wk'[v] = wk[v])
  BY GoUnwatched
<1> QED BY <1>1, UnwatchedKeeps DEF Unread, LeaseKept

LEMMA QuietInput ==
    ASSUME IInv, TurnsInv, InputInv, NEW w \in Worker,
           \/ SeeControl(w) \/ BudgetExceeded(w) \/ ProbeControl(w) \/ ProviderFails(w)
           \/ Acknowledge(w) \/ Cleanup(w) \/ SettleControl(w) \/ LoseLease(w)
           \/ Crash(w) \/ (\E text \in Text : VerifiedPlan(w, text))
    PROVE  InputInv'
<1> USE DEF storeVars
<1>1. CASE SeeControl(w)
  <2>1. MovesTo(w, "ack", wk[w].loop, PendingControl(wk[w].task))
    BY <1>1, SeeControlMoves DEF IInv
  <2>2. Unread(w) /\ wk'[w].pc \notin Watched
    BY <1>1, <2>1, SameTasks, SameLease DEF SeeControl, MovesTo, Moved, Unread, LeaseKept, TurnsFrame, Watched, Synced
  <2> QED BY <2>2, UnwatchedKeeps
<1>2. CASE BudgetExceeded(w) \/ ProviderFails(w)
  <2>1. Go(w, "fail") /\ "fail" \notin Watched
    BY <1>2 DEF BudgetExceeded, ProviderFails, Watched, Synced
  <2> QED BY <1>2, <2>1, GoInput, SameTasks, SameLease DEF BudgetExceeded, ProviderFails, TurnsFrame
<1>3. CASE ProbeControl(w)
  <2>1. Unread(w) /\ wk' = wk /\ LeaseKept
    BY <1>3, SameTasks, SameLease DEF ProbeControl, Unread, LeaseKept, TurnsFrame
  <2> QED BY <2>1, UnwatchedKeeps
<1>4. CASE \E text \in Text : VerifiedPlan(w, text)
  <2>1. MovesTo(w, "answer", wk[w].loop, wk[w].c)
    BY <1>4, VerifiedPlanMoves DEF IInv
  <2>2. Unread(w) /\ wk'[w].pc \notin Watched
    BY <1>4, <2>1, SameTasks, SameLease DEF VerifiedPlan, MovesTo, Moved, Unread, LeaseKept, TurnsFrame, Watched, Synced
  <2> QED BY <2>2, UnwatchedKeeps
<1>5. CASE Acknowledge(w) \/ Cleanup(w) \/ SettleControl(w) \/ LoseLease(w)
  <2>1. PICK pc : Go(w, pc) /\ pc \in {"cleanup", "pausing", "release", "fail", "paused", "cancelled"}
    BY <1>5 DEF Acknowledge, Cleanup, SettleControl, LoseLease, Raise
  <2>2. pc \notin Watched
    BY <2>1 DEF Watched, Synced
  <2> QED BY <1>5, <2>1, <2>2, GoInput, SameTasks, SameLease
          DEF Acknowledge, Cleanup, SettleControl, LoseLease, TurnsFrame
<1>6. CASE Crash(w)
  BY <1>6, ResetInput, SameTasks, SameLease DEF Crash
<1> QED BY <1>1, <1>2, <1>3, <1>4, <1>5, <1>6

LEMMA OwnerInput ==
    ASSUME IInv, TurnsInv, InputInv, NEW w \in Worker,
           \/ PersistCompleted(w) \/ PersistFailed(w) \/ PersistCancelled(w)
           \/ PersistPausing(w) \/ PersistPaused(w) \/ AppendAnswer(w)
    PROVE  InputInv'
<1>1. CASE PersistCompleted(w) \/ PersistFailed(w) \/ PersistCancelled(w)
  <2>1. PICK status \in Ended : EndTask(wk[w].task, status)
    BY <1>1 DEF PersistCompleted, PersistFailed, PersistCancelled, Ended
  <2>2. PICK pc \in {"release", "settle"} : Go(w, pc)
    BY <1>1 DEF PersistCompleted, PersistFailed, PersistCancelled
  <2>3. wk[w].task \in Task /\ tasks[wk[w].task].status \in Active
    BY <1>1 DEF PersistCompleted, PersistFailed, PersistCancelled, IInv, Workers, OwningOf,
                Outside, Shape, RowShape
  <2>4. BegunFrame
    BY <2>1, <2>3, EndKeepsBegun
  <2>5. pc \notin Watched
    BY DEF Watched, Synced
  <2>6. LeaseKept
    BY <1>1, SameLease DEF PersistCompleted, PersistFailed, PersistCancelled
  <2> QED BY <1>1, <2>2, <2>4, <2>5, <2>6, GoInput
          DEF PersistCompleted, PersistFailed, PersistCancelled, TurnsFrame
<1>2. CASE PersistPausing(w) \/ PersistPaused(w)
  <2>1. PICK cond \in Condition : SetCondition(wk[w].task, cond)
    BY <1>2 DEF PersistPausing, PersistPaused, Condition
  <2>2. PICK pc \in {"cleanup", "settle"} : Go(w, pc)
    BY <1>2 DEF PersistPausing, PersistPaused
  <2>3. wk[w].task \in Task /\ sess' = sess
    BY <1>2 DEF PersistPausing, PersistPaused, IInv, Shape, RowShape
  <2>4. BegunFrame
    BY <2>1, <2>3, ConditionKeepsBegun
  <2>5. pc \notin Watched
    BY DEF Watched, Synced
  <2>6. LeaseKept
    BY <1>2, SameLease DEF PersistPausing, PersistPaused
  <2> QED BY <1>2, <2>2, <2>4, <2>5, <2>6, GoInput DEF PersistPausing, PersistPaused, TurnsFrame
<1>3. CASE AppendAnswer(w)
  <2>1. PICK x : x = [role |-> "assistant", task |-> wk[w].task, sub |-> wk[w].task,
                      text |-> wk[w].step.text]
    OBVIOUS
  <2>2. turns' = turns \/ turns' = Append(turns, x)
    BY <1>3, <2>1 DEF AppendAnswer, AppendTurn
  <2>3. x.role # "user" /\ sess' = sess
    BY <1>3, <2>1 DEF AppendAnswer
  <2>4. TurnsFrame
    BY <2>2, <2>3 DEF TurnsFrame
  <2>5. PICK pc \in {"complete", "release"} : Go(w, pc)
    BY <1>3 DEF AppendAnswer
  <2>6. pc \notin Watched
    BY DEF Watched, Synced
  <2> QED BY <1>3, <2>4, <2>5, <2>6, GoInput, SameTasks, SameLease DEF AppendAnswer
<1> QED BY <1>1, <1>2, <1>3

LEMMA LeaveInput ==
    ASSUME IInv, TurnsInv, InputInv, NEW w \in Worker, CleanupFails(w) \/ Release(w)
    PROVE  InputInv'
<1>1. wk[w].task \in Task
  BY DEF CleanupFails, Release, IInv, Shape, RowShape
<1>2. sess' = sess
  BY DEF CleanupFails, Release
<1>3. tasks' = tasks \/ \E cond \in Condition : SetCondition(wk[w].task, cond)
  BY DEF CleanupFails, Release, Condition
<1>4. BegunFrame
  BY <1>1, <1>2, <1>3, SameTasks, ConditionKeepsBegun
<1>5. LeaseKept
  BY SameLease DEF CleanupFails, Release, NoLease
<1> QED BY <1>4, <1>5, ResetInput DEF CleanupFails, Release

LEMMA ExpireInput ==
    ASSUME IInv, TurnsInv, InputInv, OrphanExpires \/ LeaseExpires
    PROVE  InputInv'
<1>1. Unread(0) /\ wk' = wk /\ LeaseKept
  <2>1. lease' = [lease EXCEPT !.live = FALSE]
    BY DEF OrphanExpires, LeaseExpires
  <2>2. ~lease'.live
    BY <2>1 DEF IInv, Shape, StoreShape
  <2>3. LeaseKept
    BY <2>2, SameLease
  <2> QED BY <2>3, SameTasks DEF OrphanExpires, LeaseExpires, Unread, LeaseKept, TurnsFrame
<1> QED BY <1>1, UnwatchedKeeps

(* The snapshot and the response in memory stay with the process. *)
Carries(w) ==
    /\ wk'[w].task = wk[w].task /\ wk'[w].fresh = wk[w].fresh
    /\ wk'[w].state = wk[w].state /\ wk'[w].step = wk[w].step

LEMMA GoCarries ==
    ASSUME IInv, NEW w \in Worker, NEW pc, Go(w, pc)
    PROVE  Carries(w)
<1>1. IsRow(wk[w]) /\ wk = [v \in Worker |-> wk[v]]
  BY DEF IInv, Shape, StoreShape, RowShape, ClientShape
<1>2. PICK r : r = wk[w]
  OBVIOUS
<1>3. wk'[w] = [r EXCEPT !.pc = pc]
  BY <1>1, <1>2 DEF Go
<1> QED BY <1>1, <1>2, <1>3 DEF Carries, IsRow

LEMMA ResumeCarries ==
    ASSUME IInv, NEW w \in Worker, ResumeOwned(w)
    PROVE  Carries(w)
<1>1. IsRow(wk[w]) /\ wk = [v \in Worker |-> wk[v]]
  BY DEF IInv, Shape, StoreShape, RowShape, ClientShape
<1>2. PICK r, c, b, p : /\ r = wk[w] /\ c = PendingControl(wk[w].task)
                        /\ b = (c = 0) /\ p = IF c = 0 THEN "step" ELSE "ack"
  OBVIOUS
<1>3. wk' = [wk EXCEPT ![w].pc = p, ![w].loop = b, ![w].c = c]
  BY <1>2 DEF ResumeOwned
<1>4. wk'[w] = [r EXCEPT !.pc = p, !.loop = b, !.c = c]
  BY <1>1, <1>2, <1>3
<1> QED BY <1>1, <1>2, <1>4 DEF Carries, IsRow

(* The snapshot, or the response, that a step leaves in memory. *)
LEMMA StepCarries ==
    ASSUME IInv, NEW w \in Worker, NEW pc, NEW s, NEW a
    PROVE  /\ wk' = [wk EXCEPT ![w].pc = pc, ![w].step = a] =>
                  wk'[w].state = wk[w].state /\ wk'[w].step = a
           /\ wk' = [wk EXCEPT ![w].pc = pc, ![w].state = s] =>
                  wk'[w].state = s /\ wk'[w].step = wk[w].step
           /\ wk' = [wk EXCEPT ![w].pc = pc, ![w].state = s, ![w].step = a] =>
                  wk'[w].state = s /\ wk'[w].step = a
<1>1. IsRow(wk[w]) /\ wk = [v \in Worker |-> wk[v]]
  BY DEF IInv, Shape, StoreShape, RowShape, ClientShape
<1>2. PICK r : r = wk[w]
  OBVIOUS
<1>3. r = [pc |-> r.pc, task |-> r.task, loop |-> r.loop, fresh |-> r.fresh,
           state |-> r.state, step |-> r.step, c |-> r.c]
  BY <1>1, <1>2 DEF IsRow
<1>4. ASSUME wk' = [wk EXCEPT ![w].pc = pc, ![w].step = a]
      PROVE  wk'[w].state = wk[w].state /\ wk'[w].step = a
  <2>1. wk'[w] = [r EXCEPT !.pc = pc, !.step = a]
    BY <1>1, <1>2, <1>4
  <2> QED BY <1>2, <1>3, <2>1
<1>5. ASSUME wk' = [wk EXCEPT ![w].pc = pc, ![w].state = s]
      PROVE  wk'[w].state = s /\ wk'[w].step = wk[w].step
  <2>1. wk'[w] = [r EXCEPT !.pc = pc, !.state = s]
    BY <1>1, <1>2, <1>5
  <2> QED BY <1>2, <1>3, <2>1
<1>6. ASSUME wk' = [wk EXCEPT ![w].pc = pc, ![w].state = s, ![w].step = a]
      PROVE  wk'[w].state = s /\ wk'[w].step = a
  <2>1. wk'[w] = [r EXCEPT !.pc = pc, !.state = s, !.step = a]
    BY <1>1, <1>2, <1>6
  <2> QED BY <1>2, <1>3, <2>1
<1> QED BY <1>4, <1>5, <1>6

LEMMA SyncedCopy ==
    ASSUME InputInv, NEW w \in Worker, wk[w].pc \in Synced
    PROVE  Owned(w) => wk[w].state = ckpt[wk[w].task] /\ ckpt[wk[w].task].saved
BY DEF InputInv, Copy

(* What a process reads is the checkpoint that is saved. *)
LEMMA LoadInput ==
    ASSUME IInv, TurnsInv, InputInv, NEW w \in Worker, LoadTask(w)
    PROVE  InputInv'
<1>1. PICK t, b, r : /\ t = sess.active /\ b = (tasks[t].status = "created")
                     /\ r = [IdleWorker EXCEPT !.pc = "loaded", !.task = t,
                                               !.state = ckpt[t], !.fresh = b]
  OBVIOUS
<1>2. wk' = [wk EXCEPT ![w] = r]
  BY <1>1 DEF LoadTask
<1>3. wk'[w] = r /\ (\A v \in Worker \ {w} : wk'[v] = wk[v])
  BY <1>2 DEF IInv, Shape
<1>4. r.pc = "loaded" /\ r.task = t /\ r.state = ckpt[t] /\ r.fresh = b
  BY <1>1 DEF IdleWorker
<1>5. b \/ ckpt[t].saved
  BY <1>1 DEF LoadTask
<1>6. ckpt' = ckpt
  BY DEF LoadTask, storeVars
<1>7. Copy(w)'
  BY <1>3, <1>4, <1>5, <1>6 DEF Copy, Synced
<1>8. Unread(w)
  BY <1>3, SameTasks, SameLease DEF LoadTask, storeVars, Unread, LeaseKept, TurnsFrame
<1> QED BY <1>7, <1>8, UnreadKeeps

LEMMA ClaimInput ==
    ASSUME IInv, TurnsInv, InputInv, NEW w \in Worker, Claim(w)
    PROVE  InputInv'
<1>1. wk[w].pc = "loaded" /\ wk[w].task \in Task /\ sess' = sess
  BY DEF Claim, IInv, Shape, RowShape
<1>2. CASE wk' = [wk EXCEPT ![w] = IdleWorker] /\ tasks' = tasks
  <2>1. LeaseKept
    <3>1. lease' = lease \/ lease' = [holder |-> w, task |-> wk[w].task, live |-> TRUE]
      BY DEF Claim
    <3>2. sess.active = wk[w].task /\ ~lease.live /\ tasks[wk[w].task].cond # "recovery_required"
          => wk'[w].pc # "idle"
      BY GoUnwatched DEF Claim
    <3>3. wk'[w].pc = "idle"
      <4>1. Resets(w)
        BY <1>2, IdleMoves DEF IInv
      <4> QED BY <4>1 DEF Resets, IdleWorker
    <3> QED BY <3>2, <3>3, SameLease DEF Claim
  <2> QED BY <1>1, <1>2, <2>1, ResetInput, SameTasks DEF Claim
<1>3. CASE SetCondition(wk[w].task, "running") /\ Go(w, IF wk[w].fresh THEN "run" ELSE "resume")
  <2>1. BegunFrame
    BY <1>1, <1>3, ConditionKeepsBegun DEF Condition
  <2>2. PICK pc : Go(w, pc) /\ pc = IF wk[w].fresh THEN "run" ELSE "resume"
    BY <1>3
  <2>3. wk'[w].pc = pc /\ (\A v \in Worker \ {w} : wk'[v] = wk[v])
    BY <2>2, GoUnwatched
  <2>4. Carries(w)
    BY <2>2, GoCarries
  <2>5. Copy(w) /\ ckpt' = ckpt
    BY DEF InputInv, Claim
  <2>6. Copy(w)'
    BY <1>1, <2>2, <2>3, <2>4, <2>5 DEF Copy, Carries, Synced
  <2>7. Unread(w)
    <3>1. \A v \in Worker \ {w} : OwnedBefore(v)
      BY DEF Claim, OwnedBefore, Owned
    <3> QED BY <2>1, <2>3, <3>1 DEF Claim, Unread, TurnsFrame
  <2> QED BY <2>6, <2>7, UnreadKeeps
<1> QED BY <1>2, <1>3 DEF Claim

LEMMA ResumeInput ==
    ASSUME IInv, TurnsInv, InputInv, NEW w \in Worker, ResumeOwned(w)
    PROVE  InputInv'
<1>1. wk'[w].pc \in {"step", "ack"} /\ (\A v \in Worker \ {w} : wk'[v] = wk[v])
  BY ResumeMoves DEF IInv, MovesTo, Moved
<1>2. Carries(w)
  BY ResumeCarries
<1>3. /\ Owned(w) => wk[w].state = ckpt[wk[w].task] /\ ckpt[wk[w].task].saved
      /\ ckpt' = ckpt /\ lease' = lease
  BY SyncedCopy DEF ResumeOwned, Synced, storeVars
<1>4. Copy(w)'
  BY <1>1, <1>2, <1>3 DEF Copy, Carries, Owned
<1>5. Unread(w)
  BY <1>1, SameTasks, SameLease DEF ResumeOwned, storeVars, Unread, LeaseKept, TurnsFrame
<1> QED BY <1>4, <1>5, UnreadKeeps

(* A response that was persisted has seen what its checkpoint shows. *)
LEMMA RecoverInput ==
    ASSUME IInv, TurnsInv, InputInv, NEW w \in Worker, RecoverResponse(w)
    PROVE  InputInv'
<1>1. PICK t, s, r : t = wk[w].task /\ s = wk[w].state /\ r = resp[t][s.next]
  OBVIOUS
<1>2. /\ wk' = [wk EXCEPT ![w].pc = "answered", ![w].step = r]
      /\ r # NoResponse /\ s.next < MaxSteps /\ ckpt' = ckpt
  BY <1>1 DEF RecoverResponse, storeVars
<1>3. wk'[w].pc = "answered" /\ wk'[w].task = t /\ (\A v \in Worker \ {w} : wk'[v] = wk[v])
  BY <1>1, <1>2, StepMoves, ZenonT(60) DEF IInv, MovesTo, Moved
<1>4. wk'[w].state = s /\ wk'[w].step = r
  BY <1>1, <1>2, StepCarries, ZenonT(60)
<1>5. ASSUME Owned(w)
      PROVE  s = ckpt[t] /\ ckpt[t].saved /\ r.consumed = s.consumed
  <2>1. s = ckpt[t] /\ ckpt[t].saved /\ t \in Task
    BY <1>1, <1>5, SyncedCopy DEF RecoverResponse, Synced, IInv, Shape, RowShape
  <2>2. Shows(s, turns)
    BY <2>1 DEF InputInv, Saves
  <2>3. s.next \in Nat
    BY <2>2 DEF Shows, Snapshot
  <2>4. s.next \in Steps
    BY <1>2, <2>3, SessionAssumption DEF Steps
  <2> QED BY <1>1, <1>2, <2>1, <2>4 DEF InputInv, Answers
<1>6. Copy(w)'
  <2>1. Owned(w)' => Owned(w)
    BY DEF RecoverResponse, storeVars, Owned
  <2> QED BY <1>2, <1>3, <1>4, <1>5, <2>1 DEF Copy
<1>7. Unread(w)
  BY <1>3, SameTasks, SameLease DEF RecoverResponse, storeVars, Unread, LeaseKept, TurnsFrame
<1> QED BY <1>6, <1>7, UnreadKeeps

LEMMA AcceptInput ==
    ASSUME IInv, TurnsInv, InputInv, NEW w \in Worker, AcceptResponse(w)
    PROVE  InputInv'
<1>1. PICK pc \in {"tool", "answer"} : Go(w, pc)
  BY DEF AcceptResponse
<1>2. wk'[w].pc = pc /\ (\A v \in Worker \ {w} : wk'[v] = wk[v])
  BY <1>1, GoUnwatched
<1>3. Carries(w)
  BY <1>1, GoCarries
<1>4. wk[w].state = ckpt[wk[w].task] /\ ckpt[wk[w].task].saved /\ ckpt' = ckpt
  BY SyncedCopy DEF AcceptResponse, Synced, storeVars
<1>5. Copy(w)'
  BY <1>2, <1>3, <1>4 DEF Copy, Carries
<1>6. Unread(w)
  BY <1>2, SameTasks, SameLease DEF AcceptResponse, storeVars, Unread, LeaseKept, TurnsFrame
<1> QED BY <1>5, <1>6, UnreadKeeps

(* The first checkpoint shows the history of the session. *)
LEMMA RunInput ==
    ASSUME IInv, TurnsInv, InputInv, NEW w \in Worker, RunOwned(w)
    PROVE  InputInv'
<1>1. PICK t, s, N : /\ t = wk[w].task /\ N = Len(turns)
                     /\ s = [saved |-> TRUE, next |-> 0, consumed |-> N, shown |-> History]
  OBVIOUS
<1>2. t \in Task /\ sess' = sess /\ ckpt' = ckpt /\ resp' = resp /\ turns' = turns
  BY <1>1 DEF RunOwned, IInv, Shape, RowShape
<1>3. CASE tasks[t].status = "created"
  <2>1. /\ tasks' = [tasks EXCEPT ![t] = [status |-> "running", cond |-> "running"]]
        /\ wk' = [wk EXCEPT ![w].pc = "first", ![w].state = s]
    BY <1>1, <1>3 DEF RunOwned
  <2>2. wk'[w].pc = "first" /\ wk'[w].task = t /\ (\A v \in Worker \ {w} : wk'[v] = wk[v])
    BY <1>1, <2>1, StepMoves DEF IInv, MovesTo, Moved
  <2>3. wk'[w].state = s
    BY <2>1, StepCarries, ZenonT(60)
  <2>4. ~Begun(t) /\ (\A u \in Task \ {t} : tasks'[u] = tasks[u])
    BY <1>3, <2>1 DEF Begun, IInv, Shape, StoreShape
  <2>5. BegunFrame
    BY <1>2, <2>4 DEF BegunFrame, Begun
  <2>6. ~ckpt[t].saved
    BY <1>2, <2>4 DEF InputInv, Saves
  <2>7. PICK S : turns \in Seq(S)
    BY DEF TurnsInv
  <2>8. N \in Nat /\ DOMAIN turns = 1..N /\ Len(turns) = N
    BY <1>1, <2>7
  <2>9. PICK h : h = History
    OBVIOUS
  <2>10. h = [i \in 1..N |-> i] /\ h \in Seq(Nat) /\ DOMAIN h = 1..N
    BY <2>8, <2>9 DEF History
  <2>11. s.saved = TRUE /\ s.next = 0 /\ s.consumed = N /\ s.shown = h /\ s \in Snapshot
    BY <1>1, <2>8, <2>9, <2>10 DEF Snapshot
  <2>12. Shows(s, turns)
    BY <2>8, <2>10, <2>11 DEF Shows
  <2>13. NewerOf(s, turns, sess.active, t)
    BY <2>8, <2>11 DEF NewerOf
  <2>14. Copy(w)'
    BY <1>2, <2>2, <2>3, <2>6, <2>11, <2>12, <2>13 DEF Copy, Synced
  <2>15. Unread(w)
    <3>1. LeaseKept
      BY SameLease DEF RunOwned
    <3> QED BY <1>2, <2>2, <2>5, <3>1 DEF Unread, LeaseKept, TurnsFrame
  <2> QED BY <2>14, <2>15, UnreadKeeps
<1>4. CASE tasks[t].status # "created"
  <2>1. PICK pc \in {"fail", "release"} : Go(w, pc)
    BY <1>1, <1>4 DEF RunOwned, Raise
  <2>2. pc \notin Watched /\ tasks' = tasks
    BY <1>1, <1>4 DEF RunOwned, Watched, Synced
  <2>3. LeaseKept
    BY SameLease DEF RunOwned
  <2> QED BY <1>2, <2>1, <2>2, <2>3, GoInput, SameTasks DEF TurnsFrame
<1> QED BY <1>3, <1>4

(* The transaction that saves a checkpoint. *)
Writes(t, s) ==
    /\ ckpt' = [ckpt EXCEPT ![t] = s]
    /\ UNCHANGED <<sess, turns, tasks, resp>>

(* A snapshot that the responses of its task agree with. *)
Agrees(t, s) ==
    \A n \in Steps :
        resp[t][n] # NoResponse => n <= s.next /\ (n = s.next => resp[t][n].consumed = s.consumed)

(* Nobody else is the owner, or has a checkpoint that it is going to use.  *)
WritesAlone(w) ==
    \A v \in Worker \ {w} :
        wk'[v] = wk[v] /\ ~Owned(v)' /\ (wk[v].pc = "loaded" => wk[v].fresh)

LEMMA OwnerWritesAlone ==
    ASSUME LoadedAlone, NEW w \in Worker, Owned(w), wk[w].pc \notin {"idle", "loaded"},
           Moved(w), lease' = lease
    PROVE  WritesAlone(w)
BY DEF LoadedAlone, Owned, Moved, WritesAlone

LEMMA WriteInput ==
    ASSUME InputInv, NEW w \in Worker, WritesAlone(w), NEW t \in Task, Begun(t), NEW s, Writes(t, s),
           s.saved, Shows(s, turns), NewerOf(s, turns, sess.active, t), Agrees(t, s), Copy(w)'
    PROVE  InputInv'
<1>1. /\ sess' = sess /\ turns' = turns /\ tasks' = tasks /\ resp' = resp
      /\ ckpt' = [u \in Task |-> ckpt'[u]] /\ ckpt'[t] = s
      /\ \A u \in Task \ {t} : ckpt'[u] = ckpt[u]
  BY DEF InputInv, Saves, Writes
<1>2. Saves'
  <2>1. ASSUME NEW u \in Task
        PROVE  /\ Shows(ckpt'[u], turns)
               /\ ckpt'[u].saved => Begun(u) /\ NewerOf(ckpt'[u], turns, sess.active, u)
    <3>1. CASE u = t
      BY <1>1, <3>1
    <3>2. CASE u # t
      BY <1>1, <3>2 DEF InputInv, Saves
    <3> QED BY <3>1, <3>2
  <2>2. \A u \in Task : Begun(u)' <=> Begun(u)
    BY <1>1 DEF Begun
  <2> QED BY <1>1, <2>1, <2>2 DEF Saves
<1>3. Answers'
  <2>1. ASSUME NEW u \in Task, NEW n \in Steps, resp[u][n] # NoResponse
        PROVE  /\ ckpt'[u].saved /\ n <= ckpt'[u].next
               /\ n = ckpt'[u].next => resp[u][n].consumed = ckpt'[u].consumed
    <3>1. CASE u = t
      BY <1>1, <2>1, <3>1 DEF Agrees
    <3>2. CASE u # t
      BY <1>1, <2>1, <3>2 DEF InputInv, Answers
    <3> QED BY <3>1, <3>2
  <2>2. resp = [u \in Task |-> [n \in Steps |-> resp[u][n]]]
    BY DEF InputInv, Answers
  <2> QED BY <1>1, <2>1, <2>2 DEF Answers
<1>4. ASSUME NEW v \in Worker PROVE Copy(v)'
  <2>1. CASE v = w
    BY <2>1
  <2>2. CASE v # w
    BY <2>2 DEF WritesAlone, Copy
  <2> QED BY <2>1, <2>2
<1> QED BY <1>2, <1>3, <1>4 DEF InputInv

(* What a step in the loop starts from. *)
LEMMA StepStart ==
    ASSUME IInv, InputInv, NEW w \in Worker, wk[w].pc \in Synced, wk[w].pc # "resume", Owned(w)
    PROVE  LET t == wk[w].task
               s == wk[w].state
           IN  /\ t \in Task /\ Begun(t) /\ sess.active = t
               /\ s = ckpt[t] /\ s.saved
               /\ Shows(s, turns) /\ NewerOf(s, turns, t, t)
               /\ s.next \in Nat /\ s.consumed \in Nat
               /\ s = [saved |-> s.saved, next |-> s.next, consumed |-> s.consumed,
                       shown |-> s.shown]
               /\ \A n \in Steps : resp[t][n] # NoResponse => n <= s.next
<1>1. PICK t, s : t = wk[w].task /\ s = wk[w].state
  OBVIOUS
<1>2. t \in Task /\ Begun(t) /\ tasks[t].status \in Active
  BY <1>1 DEF IInv, Workers, WorkingOf, OwningOf, Synced, Outside, Shape, RowShape
<1>3. sess.active = t
  BY <1>2 DEF IInv, SlotHoldsActiveTask
<1>4. s = ckpt[t] /\ s.saved
  BY <1>1, SyncedCopy
<1>5. Shows(s, turns) /\ NewerOf(s, turns, t, t)
  BY <1>2, <1>3, <1>4 DEF InputInv, Saves
<1>6. s \in Snapshot
  BY <1>5 DEF Shows
<1>7. /\ s.next \in Nat /\ s.consumed \in Nat
      /\ s = [saved |-> s.saved, next |-> s.next, consumed |-> s.consumed, shown |-> s.shown]
  BY <1>6 DEF Snapshot
<1>8. \A n \in Steps : resp[t][n] # NoResponse => n <= s.next
  BY <1>2, <1>4 DEF InputInv, Answers
<1> QED BY <1>1, <1>2, <1>3, <1>4, <1>5, <1>7, <1>8

IsSnapshot(s) ==
    s = [saved |-> s.saved, next |-> s.next, consumed |-> s.consumed, shown |-> s.shown]

LEMMA SnapshotWith ==
    ASSUME NEW s, IsSnapshot(s), NEW r, IsSnapshot(r), r.saved = s.saved
    PROVE  /\ r.consumed = s.consumed /\ r.shown = s.shown => r = [s EXCEPT !.next = r.next]
           /\ r.next = s.next => r = [s EXCEPT !.consumed = r.consumed, !.shown = r.shown]
           /\ r = [s EXCEPT !.next = r.next, !.consumed = r.consumed, !.shown = r.shown]
<1> PICK m, n, e : m = r.next /\ n = r.consumed /\ e = r.shown
  OBVIOUS
<1>1. PICK x : x = [s EXCEPT !.next = m]
  OBVIOUS
<1>2. /\ x.saved = s.saved /\ x.next = m /\ x.consumed = s.consumed /\ x.shown = s.shown
      /\ IsSnapshot(x)
  BY <1>1 DEF IsSnapshot
<1>3. PICK y : y = [s EXCEPT !.consumed = n, !.shown = e]
  OBVIOUS
<1>4. /\ y.saved = s.saved /\ y.next = s.next /\ y.consumed = n /\ y.shown = e
      /\ IsSnapshot(y)
  BY <1>3 DEF IsSnapshot
<1>5. PICK z : z = [s EXCEPT !.next = m, !.consumed = n, !.shown = e]
  OBVIOUS
<1>6. /\ z.saved = s.saved /\ z.next = m /\ z.consumed = n /\ z.shown = e
      /\ IsSnapshot(z)
  BY <1>5 DEF IsSnapshot
<1>7. ASSUME NEW q, IsSnapshot(q), q.saved = r.saved, q.next = r.next,
             q.consumed = r.consumed, q.shown = r.shown
      PROVE  q = r
  BY <1>7 DEF IsSnapshot
<1> QED BY <1>1, <1>2, <1>3, <1>4, <1>5, <1>6, <1>7, ZenonT(60)

LEMMA FirstInput ==
    ASSUME LoadedAlone, IInv, TurnsInv, InputInv, NEW w \in Worker, FirstCheckpoint(w)
    PROVE  InputInv'
<1>1. PICK t, s, r : t = wk[w].task /\ s = wk[w].state /\ r = wk[w]
  OBVIOUS
<1>2. t \in Task /\ Begun(t)
  BY <1>1 DEF FirstCheckpoint, IInv, Workers, WorkingOf, Outside, Shape, RowShape
<1>3. /\ ~ckpt[t].saved /\ s.saved /\ Shows(s, turns) /\ NewerOf(s, turns, sess.active, t)
  BY <1>1 DEF FirstCheckpoint, InputInv, Copy
<1>4. Writes(t, s)
  BY <1>1 DEF FirstCheckpoint, Writes
<1>5. Agrees(t, s)
  BY <1>2, <1>3 DEF Agrees, InputInv, Answers
<1>6. Copy(w)'
  <2>1. wk'[w].pc = "step" /\ wk'[w].task = t
    BY <1>1, FirstCheckpointMoves DEF IInv, MovesTo
  <2>2. wk'[w].state = s
    <3>1. IsRow(r) /\ wk = [v \in Worker |-> wk[v]]
      BY <1>1 DEF IInv, Shape, RowShape
    <3>2. wk'[w] = [r EXCEPT !.pc = "step", !.loop = TRUE]
      BY <1>1, <3>1 DEF FirstCheckpoint
    <3> QED BY <1>1, <3>1, <3>2 DEF IsRow
  <2>3. ckpt'[t] = s
    BY <1>2, <1>4 DEF Writes, InputInv, Saves
  <2> QED BY <1>3, <2>1, <2>2, <2>3 DEF Copy
<1>7. WritesAlone(w)
  BY FirstCheckpointMoves, OwnerWritesAlone DEF FirstCheckpoint, IInv, MovesTo
<1> QED BY <1>2, <1>3, <1>4, <1>5, <1>6, <1>7, WriteInput

(* The turns since the last consumed one become messages. *)
LEMMA ConsumeInput ==
    ASSUME LoadedAlone, IInv, TurnsInv, InputInv, NEW w \in Worker, ConsumeInputs(w)
    PROVE  InputInv'
<1>1. PICK t, s, list, r : /\ t = wk[w].task /\ s = wk[w].state
                           /\ list = InputsAfter(t, s.consumed)
                           /\ r = [saved |-> s.saved, next |-> s.next,
                                   consumed |-> Len(turns), shown |-> s.shown \o list]
  OBVIOUS
<1>2. /\ t \in Task /\ Begun(t) /\ sess.active = t /\ s = ckpt[t] /\ s.saved
      /\ Shows(s, turns) /\ NewerOf(s, turns, t, t) /\ s.next \in Nat /\ s.consumed \in Nat
      /\ s = [saved |-> s.saved, next |-> s.next, consumed |-> s.consumed, shown |-> s.shown]
      /\ \A n \in Steps : resp[t][n] # NoResponse => n <= s.next
  BY <1>1, StepStart DEF ConsumeInputs, Synced
<1>3. r = [s EXCEPT !.consumed = Len(turns), !.shown = @ \o list]
  <2>1. PICK h, N : h = s.shown \o list /\ N = Len(turns)
    OBVIOUS
  <2>2. /\ IsSnapshot(s) /\ IsSnapshot(r)
        /\ r.saved = s.saved /\ r.next = s.next /\ r.consumed = N /\ r.shown = h
    BY <1>1, <1>2, <2>1 DEF IsSnapshot
  <2>3. r = [s EXCEPT !.consumed = N, !.shown = h]
    BY ONLY <2>2, SnapshotWith, ZenonT(60)
  <2> QED BY <2>1, <2>3
<1>4. Writes(t, r) /\ wk' = [wk EXCEPT ![w].pc = "ask", ![w].state = r]
  BY <1>1, <1>3, ZenonT(60) DEF ConsumeInputs, Writes
<1>5. Shows(r, turns) /\ NewerOf(r, turns, sess.active, t)
  <2>1. PICK S : turns \in Seq(S)
    BY DEF TurnsInv
  <2>2. s.consumed <= Len(turns)
    BY <1>2 DEF Shows
  <2>3. Lists(list, t, s.consumed, Len(turns))
    BY <1>1, <1>2, <2>1, <2>2, InputsAfterLists, ZenonT(30)
  <2> QED BY <1>1, <1>2, <2>1, <2>3, ShowsRest, ZenonT(60)
<1>6. r.saved /\ r.next = s.next /\ resp[t][s.next] = NoResponse
  BY <1>1, <1>2 DEF ConsumeInputs
<1>7. Agrees(t, r)
  BY <1>2, <1>6 DEF Agrees
<1>8. Copy(w)'
  <2>1. wk'[w].pc = "ask" /\ wk'[w].task = t
    BY <1>1, <1>4, StepMoves DEF IInv, MovesTo
  <2>2. wk'[w].state = r
    BY <1>4, StepCarries, ZenonT(60)
  <2>3. ckpt'[t] = r
    BY <1>2, <1>4 DEF Writes, InputInv, Saves
  <2> QED BY <1>6, <2>1, <2>2, <2>3, ZenonT(30) DEF Copy
<1>9. WritesAlone(w)
  <2>1. Moved(w)
    BY <1>4, StepMoves DEF IInv, MovesTo
  <2> QED BY <2>1, OwnerWritesAlone DEF ConsumeInputs
<1> QED BY <1>2, <1>4, <1>5, <1>6, <1>7, <1>8, <1>9, WriteInput

(* The end of a step: the next one has no response yet. *)
LEMMA CloseInput ==
    ASSUME LoadedAlone, IInv, InputInv, NEW w \in Worker, wk[w].pc \in Synced, wk[w].pc # "resume",
           Owned(w), NEW r, r.saved, r.next = wk[w].state.next + 1,
           Shows(r, turns), NewerOf(r, turns, wk[w].task, wk[w].task),
           CloseStep(w, r), UNCHANGED <<sess, turns, tasks, resp, lease>>
    PROVE  InputInv'
<1>1. PICK t, s : t = wk[w].task /\ s = wk[w].state
  OBVIOUS
<1>2. /\ t \in Task /\ Begun(t) /\ sess.active = t /\ s.next \in Nat
      /\ \A n \in Steps : resp[t][n] # NoResponse => n <= s.next
  BY <1>1, StepStart
<1>3. Writes(t, r) /\ wk' = [wk EXCEPT ![w].pc = "step", ![w].state = r, ![w].step = NoResponse]
  BY <1>1 DEF CloseStep, Writes
<1>4. Agrees(t, r)
  <2>1. \A n \in Steps : n \in Nat
    BY SessionAssumption DEF Steps
  <2> QED BY <1>1, <1>2, <2>1 DEF Agrees
<1>5. Copy(w)'
  <2>1. wk'[w].pc = "step" /\ wk'[w].task = t
    BY <1>1, <1>3, StepMoves DEF IInv, MovesTo
  <2>2. wk'[w].state = r
    BY <1>3, StepCarries
  <2>3. ckpt'[t] = r
    BY <1>2, <1>3 DEF Writes, InputInv, Saves
  <2> QED BY <2>1, <2>2, <2>3 DEF Copy
<1>6. NewerOf(r, turns, sess.active, t)
  BY <1>1, <1>2
<1>7. WritesAlone(w)
  <2>1. Moved(w)
    BY <1>3, StepMoves DEF IInv, MovesTo
  <2> QED BY <2>1, OwnerWritesAlone DEF Synced
<1> QED BY <1>2, <1>3, <1>4, <1>5, <1>6, <1>7, WriteInput

LEMMA SupersedeInput ==
    ASSUME LoadedAlone, IInv, TurnsInv, InputInv, NEW w \in Worker, Supersede(w)
    PROVE  InputInv'
<1>1. PICK t, s, list, n, r : /\ t = wk[w].task /\ s = wk[w].state /\ n = s.next + 1
                              /\ list = InputsAfter(t, s.consumed)
                              /\ r = [saved |-> s.saved, next |-> n,
                                      consumed |-> Len(turns), shown |-> s.shown \o list]
  OBVIOUS
<1>2. /\ t \in Task /\ Begun(t) /\ sess.active = t /\ s = ckpt[t] /\ s.saved
      /\ Shows(s, turns) /\ NewerOf(s, turns, t, t) /\ s.next \in Nat /\ s.consumed \in Nat
      /\ s = [saved |-> s.saved, next |-> s.next, consumed |-> s.consumed, shown |-> s.shown]
  BY <1>1, StepStart, ZenonT(30) DEF Supersede, Synced
<1>3. wk[w].step.consumed = s.consumed
  BY <1>1, ZenonT(30) DEF Supersede, InputInv, Copy
<1>4. r = [s EXCEPT !.next = @ + 1, !.consumed = Len(turns), !.shown = @ \o list]
  <2>1. PICK h, N : h = s.shown \o list /\ N = Len(turns)
    OBVIOUS
  <2>2. /\ IsSnapshot(s) /\ IsSnapshot(r)
        /\ r.saved = s.saved /\ r.next = n /\ r.consumed = N /\ r.shown = h
    BY <1>1, <1>2, <2>1, ZenonT(60) DEF IsSnapshot
  <2>3. r = [s EXCEPT !.next = r.next, !.consumed = r.consumed, !.shown = r.shown]
    BY ONLY <2>2, SnapshotWith, ZenonT(60)
  <2>4. r = [s EXCEPT !.next = n, !.consumed = N, !.shown = h]
    BY ONLY <2>2, <2>3
  <2> QED BY <1>1, <2>1, <2>4, ZenonT(60)
<1>5. CloseStep(w, r)
  BY <1>1, <1>3, <1>4, ZenonT(60) DEF Supersede
<1>6. Shows(r, turns) /\ NewerOf(r, turns, t, t)
  <2>1. PICK S : turns \in Seq(S)
    BY DEF TurnsInv
  <2>2. s.consumed <= Len(turns) /\ n \in Nat
    <3>1. n = s.next + 1 /\ s.next \in Nat
      BY <1>1, <1>2, ZenonT(60)
    <3>2. n \in Nat
      BY ONLY <3>1
    <3> QED BY <1>2, <3>2 DEF Shows
  <2>3. Lists(list, t, s.consumed, Len(turns))
    BY <1>1, <1>2, <2>1, <2>2, InputsAfterLists, ZenonT(30)
  <2> QED BY <1>1, <1>2, <2>1, <2>2, <2>3, ShowsRest, ZenonT(60)
<1>7. r.saved /\ r.next = s.next + 1
  BY <1>1, <1>2
<1>8. /\ wk[w].pc \in Synced /\ wk[w].pc # "resume" /\ Owned(w)
      /\ UNCHANGED <<sess, turns, tasks, resp, lease>>
  BY ZenonT(30) DEF Supersede, Synced
<1> QED BY <1>1, <1>5, <1>6, <1>7, <1>8, CloseInput

LEMMA ToolsInput ==
    ASSUME LoadedAlone, IInv, TurnsInv, InputInv, NEW w \in Worker, ToolsDone(w)
    PROVE  InputInv'
<1>1. PICK t, s, n, r : /\ t = wk[w].task /\ s = wk[w].state /\ n = s.next + 1
                        /\ r = [saved |-> s.saved, next |-> n,
                                consumed |-> s.consumed, shown |-> s.shown]
  OBVIOUS
<1>2. /\ t \in Task /\ Begun(t) /\ sess.active = t /\ s = ckpt[t] /\ s.saved
      /\ Shows(s, turns) /\ NewerOf(s, turns, t, t) /\ s.next \in Nat /\ s.consumed \in Nat
      /\ s = [saved |-> s.saved, next |-> s.next, consumed |-> s.consumed, shown |-> s.shown]
  BY <1>1, StepStart DEF ToolsDone, Synced
<1>3. r = [s EXCEPT !.next = @ + 1]
  <2>1. /\ IsSnapshot(s) /\ IsSnapshot(r) /\ r.saved = s.saved
        /\ r.next = n /\ r.consumed = s.consumed /\ r.shown = s.shown
    BY <1>1, <1>2, ZenonT(30) DEF IsSnapshot
  <2>2. r = [s EXCEPT !.next = n]
    BY ONLY <2>1, SnapshotWith
  <2> QED BY <1>1, <2>2
<1>4. CloseStep(w, r)
  BY <1>1, <1>3 DEF ToolsDone
<1>5. /\ r.saved = s.saved /\ r.next = n /\ r.consumed = s.consumed /\ r.shown = s.shown
      /\ r \in Snapshot
  <2>1. s \in Snapshot /\ n \in Nat
    BY <1>1, <1>2 DEF Shows
  <2> QED BY <1>1, <2>1, ZenonT(30) DEF Snapshot
<1>6. Shows(r, turns) /\ NewerOf(r, turns, t, t)
  BY <1>2, <1>5 DEF Shows, NewerOf
<1>7. /\ wk[w].pc \in Synced /\ wk[w].pc # "resume" /\ Owned(w)
      /\ UNCHANGED <<sess, turns, tasks, resp, lease>>
  BY DEF ToolsDone, Synced
<1> QED BY <1>1, <1>2, <1>4, <1>5, <1>6, <1>7, CloseInput

(* The response is persisted with the watermark of its request. *)
LEMMA RespondInput ==
    ASSUME LoadedAlone, IInv, TurnsInv, InputInv, NEW w \in Worker, NEW text, Respond(w, text)
    PROVE  InputInv'
<1>1. PICK t, s, r : /\ t = wk[w].task /\ s = wk[w].state
                     /\ r = [consumed |-> s.consumed, text |-> text]
  OBVIOUS
<1>2. /\ resp' = [resp EXCEPT ![t][s.next] = r]
      /\ wk' = [wk EXCEPT ![w].pc = "answered", ![w].step = r]
      /\ sess' = sess /\ turns' = turns /\ tasks' = tasks /\ ckpt' = ckpt
  BY <1>1 DEF Respond
<1>3. t \in Task /\ s = ckpt[t] /\ s.saved /\ s.next \in Nat
  BY <1>1, StepStart DEF Respond, Synced
<1>4. Saves'
  <2>1. \A u \in Task : Begun(u)' <=> Begun(u)
    BY <1>2 DEF Begun
  <2> QED BY <1>2, <2>1 DEF InputInv, Saves
<1>5. Answers'
  <2>1. resp = [u \in Task |-> [n \in Steps |-> resp[u][n]]]
    BY DEF InputInv, Answers
  <2>2. PICK row : row = resp[t]
    OBVIOUS
  <2>3. PICK new : new = [row EXCEPT ![s.next] = r]
    OBVIOUS
  <2>4. resp' = [resp EXCEPT ![t] = new]
    BY <1>2, <2>2, <2>3
  <2>5. row = [n \in Steps |-> row[n]]
    BY <1>3, <2>1, <2>2
  <2>6. /\ new = [n \in Steps |-> new[n]]
        /\ \A n \in Steps : new[n] = IF n = s.next THEN r ELSE row[n]
    BY <2>3, <2>5
  <2>7. resp' = [u \in Task |-> IF u = t THEN new ELSE resp[u]]
    BY <2>1, <2>4
  <2>8. resp' = [u \in Task |-> [n \in Steps |-> resp'[u][n]]]
    <3>1. \A u \in Task : resp'[u] = [n \in Steps |-> resp'[u][n]]
      BY <2>1, <2>6, <2>7
    <3> QED BY <2>7, <3>1
  <2>9. ASSUME NEW u \in Task, NEW n \in Steps, resp'[u][n] # NoResponse
        PROVE  /\ ckpt[u].saved /\ n <= ckpt[u].next
               /\ n = ckpt[u].next => resp'[u][n].consumed = ckpt[u].consumed
    <3>1. CASE u = t /\ n = s.next
      <4>1. resp'[u][n] = r
        BY <2>6, <2>7, <3>1
      <4>2. resp'[u][n].consumed = s.consumed
        BY <1>1, <4>1
      <4> QED BY <1>3, <3>1, <4>2
    <3>2. CASE ~(u = t /\ n = s.next)
      <4>1. resp'[u][n] = resp[u][n]
        BY <2>2, <2>6, <2>7, <3>2
      <4> QED BY <2>9, <4>1 DEF InputInv, Answers
    <3> QED BY <3>1, <3>2
  <2> QED BY <1>2, <2>8, <2>9 DEF Answers
<1>6. Copy(w)'
  <2>1. wk'[w].pc = "answered" /\ wk'[w].task = t
    BY <1>1, <1>2, StepMoves DEF IInv, MovesTo
  <2>2. wk'[w].state = s /\ wk'[w].step = r
    BY <1>1, <1>2, StepCarries
  <2> QED BY <1>1, <1>2, <1>3, <2>1, <2>2 DEF Copy
<1>7. ASSUME NEW v \in Worker \ {w} PROVE Copy(v)'
  <2>1. wk'[v] = wk[v] /\ ~Owned(v)'
    <3>1. Moved(w)
      BY <1>2, StepMoves DEF IInv, MovesTo
    <3>2. lease' = lease /\ lease.holder = w
      BY DEF Respond, Owned
    <3> QED BY <3>1, <3>2 DEF Moved, Owned
  <2> QED BY <1>2, <2>1 DEF InputInv, Copy, Synced
<1> QED BY <1>4, <1>5, <1>6, <1>7 DEF InputInv

LEMMA InitInput == Init => InputInv
<1> SUFFICES ASSUME Init PROVE InputInv
  OBVIOUS
<1>1. turns = <<>> /\ \A t \in Task : ckpt[t] = NoCheckpoint
  BY DEF Init
<1>2. PICK s : s = NoCheckpoint
  OBVIOUS
<1>3. s = [saved |-> FALSE, next |-> 0, consumed |-> 0, shown |-> <<>>]
  BY <1>2 DEF NoCheckpoint
<1>4. s \in Snapshot
  BY <1>3 DEF Snapshot
<1>5. ~s.saved /\ s.consumed = 0 /\ s.shown = <<>>
  BY <1>3
<1>6. Shows(s, turns)
  BY <1>1, <1>4, <1>5 DEF Shows
<1>7. Saves
  <2>1. ckpt = [t \in Task |-> ckpt[t]]
    BY DEF Init
  <2> QED BY <1>1, <1>2, <1>5, <1>6, <2>1 DEF Saves
<1>8. Answers
  BY DEF Init, Answers
<1>9. \A w \in Worker : Copy(w)
  BY DEF Init, IdleWorker, Copy, Synced
<1> QED BY <1>7, <1>8, <1>9 DEF InputInv

LEMMA InputStep ==
    ASSUME LoadedAlone, IInv, TurnsInv, InputInv, [Next]_vars
    PROVE  InputInv'
<1>1. CASE Client
  BY <1>1, ClientInput
<1>2. CASE \E w \in Worker : Process(w)
  <2>1. PICK w \in Worker : Process(w)
    BY <1>2
  <2>2. CASE LoadTask(w) \/ Claim(w) \/ RunOwned(w) \/ FirstCheckpoint(w) \/ ResumeOwned(w)
    BY <2>2, LoadInput, ClaimInput, RunInput, FirstInput, ResumeInput
  <2>3. CASE Loop(w)
    BY <2>3, QuietInput, RecoverInput, ConsumeInput, RespondInput, SupersedeInput, AcceptInput,
       ToolsInput, OwnerInput DEF Loop
  <2>4. CASE Stop(w)
    BY <2>4, QuietInput, OwnerInput, LeaveInput DEF Stop
  <2> QED BY <2>1, <2>2, <2>3, <2>4 DEF Process
<1>3. CASE OrphanExpires
  BY <1>3, ExpireInput
<1>4. CASE Fault
  BY <1>4, QuietInput, LeaveInput, ExpireInput DEF Fault
<1>5. CASE UNCHANGED vars
  <2>1. Unread(0) /\ wk' = wk /\ LeaseKept
    BY <1>5, SameTasks, SameLease DEF vars, storeVars, Unread, LeaseKept, TurnsFrame
  <2> QED BY <2>1, UnwatchedKeeps
<1> QED BY <1>1, <1>2, <1>3, <1>4, <1>5 DEF Next

(* _consume_pending_inputs, _supersede_response_for_inputs and the resume  *)
(* from a checkpoint, over crashes, lost leases and takeovers by any number *)
(* of processes that follow one another, and beside any client: no turn of *)
(* a user up to the consumed sequence is missing from the messages of a    *)
(* checkpoint, and none is there twice or out of order.  A process that    *)
(* has lost its lease may still be at work when the next one resumes.      *)
THEOREM InputShown == Spec /\ []LoadedAlone => []NoInputSkipped
<1>1. Init => TurnsInv
  <2> SUFFICES ASSUME Init PROVE TurnsInv
    OBVIOUS
  <2>1. turns = << >>
    BY DEF Init
  <2>2. turns \in Seq({None})
    BY <2>1
  <2> QED BY <2>1, <2>2 DEF TurnsInv, OneTurnPerSubmission
<1>2. LoadedAlone /\ IInv /\ TurnsInv /\ InputInv /\ [Next]_vars => InputInv'
  BY InputStep
<1>3. InputInv => NoInputSkipped
  <2> SUFFICES ASSUME InputInv, NEW t \in Task PROVE Shows(ckpt[t], turns)
    BY DEF NoInputSkipped, Shows
  <2> QED BY DEF InputInv, Saves
<1> QED BY <1>1, <1>2, <1>3, InitInput, TurnsStep, SessionInvariant, PTL DEF Spec

(* A process that runs alone reads its checkpoint alone: no input is       *)
(* skipped, without further conditions.                                    *)
THEOREM InputShownAlone ==
    ASSUME \A v, w \in Worker : v = w
    PROVE  Spec => []NoInputSkipped
<1>1. LoadedAlone
  BY DEF LoadedAlone
<1> QED BY <1>1, InputShown, PTL
=============================================================================
