---------------------------- MODULE MCOwnership ----------------------------
(* Small instances of Ownership for TLC. *)
EXTENDS Ownership, TLC

CONSTANTS w1, w2, s1, s2, t1, t2, x1, e1, e2, c1

(* Two sessions with one task each, in the same repository. *)
TwoSessions == t1 :> s1 @@ t2 :> s2

(* One session whose tasks follow one another. *)
OneSession == t1 :> s1 @@ t2 :> s1

SharedWorkspace == t1 :> x1 @@ t2 :> x1

(* Every worker may be started for every task, or each for its own. *)
ServesAll == [w \in {w1, w2} |-> Task]
ServesOwn == w1 :> {t1} @@ w2 :> {t2}

(* Execution ids are interchangeable. *)
Fresh == Permutations({e1, e2})

(* Exchanging the two workers together with their tasks and sessions. *)
PairSymmetry ==
    Fresh \cup {w1 :> w2 @@ w2 :> w1 @@ t1 :> t2 @@ t2 :> t1 @@ s1 :> s2 @@ s2 :> s1}
=============================================================================
