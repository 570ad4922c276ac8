----------------------------- MODULE MCContext -----------------------------
(* An instance of Context for TLC.  Token sizes are scaled down: 30 tokens  *)
(* of context give 6 to the working memory and to its retrieval layer, 3    *)
(* each to the semantic and episodic layers, 18 to the recent history.      *)
EXTENDS Context

TokensSmall ==
    [constraint |-> 3, error |-> 2, result |-> 1, event |-> 1,
     changed |-> 1, plan |-> 1, evidence |-> 1, read |-> 1]

CallTokensSmall ==
    [read_file |-> 8, run_tests |-> 5, update_plan |-> 2, write_file |-> 4]

(* Two facts and an episode about file 1, an episode about file 2, and two  *)
(* episodes of one tool without a file.                                     *)
RecordsSmall ==
    {[id |-> 1, layer |-> "semantic", tokens |-> 1, base |-> 40, path |-> 1, topic |-> 1, terms |-> 1],
     [id |-> 2, layer |-> "semantic", tokens |-> 2, base |-> 45, path |-> 1, topic |-> 2, terms |-> 1],
     [id |-> 3, layer |-> "episodic", tokens |-> 2, base |-> 50, path |-> 2, topic |-> 1, terms |-> 2],
     [id |-> 4, layer |-> "episodic", tokens |-> 1, base |-> 35, path |-> 1, topic |-> 1, terms |-> 3],
     [id |-> 5, layer |-> "episodic", tokens |-> 1, base |-> 48, path |-> 0, topic |-> 1, terms |-> 4],
     [id |-> 6, layer |-> "episodic", tokens |-> 1, base |-> 46, path |-> 0, topic |-> 1, terms |-> 5]}

StoredSmall == {RecordsSmall}
============================================================================
