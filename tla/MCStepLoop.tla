---------------------------- MODULE MCStepLoop ----------------------------
(* Instances of StepLoop for TLC. *)
EXTENDS StepLoop

CONSTANTS a, b, sum1
=============================================================================
