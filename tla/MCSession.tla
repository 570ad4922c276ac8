----------------------------- MODULE MCSession -----------------------------
(* Instances of Session for TLC.                                           *)
EXTENDS Session, TLC

CONSTANTS w1, s1, hi

OneWorker == {w1}
OneSubmission == {s1}
OneText == {hi}
=============================================================================
