---------------------------- MODULE EffectLife ----------------------------
(***************************************************************************)
(* What every store promises about an effect, whatever the process does    *)
(* that owns it: an effect is claimed at most once, what was claimed is    *)
(* never reported as not executed, and what has ended stays as it is.      *)
(***************************************************************************)
CONSTANT Effect

VARIABLE life     \* the life of each effect: "absent", "open", "running",
                  \* "unknown", "over" or "void"

Init == life = [e \in Effect |-> "absent"]

(* A batch, or a retry, is written down. *)
Prepare ==
    \E batch \in SUBSET Effect :
        /\ \A e \in batch : life[e] = "absent"
        /\ life' = [e \in Effect |-> IF e \in batch THEN "open" ELSE life[e]]

Move(e, from, to) == life[e] = from /\ life' = [life EXCEPT ![e] = to]

Next ==
    \/ Prepare
    \/ \E e \in Effect :
        \/ Move(e, "open", "running")       \* claimed
        \/ Move(e, "open", "void")          \* denied or cancelled
        \/ Move(e, "running", "over")       \* committed or reconciled
        \/ Move(e, "running", "unknown")
        \/ Move(e, "unknown", "over")       \* confirmed by an operator

Spec == Init /\ [][Next]_life
=============================================================================
