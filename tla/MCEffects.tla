----------------------------- MODULE MCEffects -----------------------------
(* Instances of Effects for TLC: two effect ids, for the calls of the      *)
(* model and for the retries of the operator.                              *)
EXTENDS Effects, TLC

CONSTANTS e1, e2, w1, w2

OneWorker == {w1}
TwoWorkers == {w1, w2}
Workers == Permutations({w1, w2})

TwoEffects == {e1, e2}

(* A call of a tool that writes a file, and a call of a command. *)
Calls == {"write", "test"}
Writes == {"write"}
NoWrites == {}
WriteTest == e1 :> "write" @@ e2 :> "test"
TestTwice == e1 :> "test" @@ e2 :> "test"

(* The gateway's decisions, by policy version. *)
Rules(write, test) == "write" :> write @@ "test" :> test
Cautious == <<Rules("allow", "require_approval")>>
Revoked == <<Rules("allow", "allow"), Rules("allow", "require_approval"), Rules("allow", "deny")>>
=============================================================================
