----------------------------- MODULE LeaseLock -----------------------------
(***************************************************************************)
(* What every store promises about executions: a session is a lock.  At    *)
(* most one execution holds it, an execution that lost it never holds it   *)
(* again, and each acquisition for a task takes the next generation of     *)
(* that task, which is what fences the earlier ones.                       *)
(***************************************************************************)
EXTENDS Naturals

CONSTANTS
    Exec, Task, Lock,
    LockOf          \* the lock that a task needs

VARIABLES
    holders,    \* the executions that hold each lock
    used,       \* the executions that ever held one
    gen         \* the latest generation of each task

Init ==
    /\ holders = [k \in Lock |-> {}]
    /\ used = {}
    /\ gen = [t \in Task |-> 0]

(* The lock is free, or its lease has expired. *)
Acquire(x, t) ==
    /\ x \notin used
    /\ holders' = [holders EXCEPT ![LockOf[t]] = {x}]
    /\ used' = used \cup {x}
    /\ gen' = [gen EXCEPT ![t] = @ + 1]

Release(k) ==
    /\ holders[k] # {}
    /\ holders' = [holders EXCEPT ![k] = {}]
    /\ UNCHANGED <<used, gen>>

Next ==
    \/ \E k \in Lock : Release(k)
    \/ \E x \in Exec, t \in Task : Acquire(x, t)

Spec == Init /\ [][Next]_<<holders, used, gen>>
=============================================================================
