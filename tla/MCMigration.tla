---------------------------- MODULE MCMigration ----------------------------
(* Instances of Migration for TLC. *)
EXTENDS Migration

CONSTANTS p1, p2, t1
============================================================================
