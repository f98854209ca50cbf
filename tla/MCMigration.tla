---------------------------- MODULE MCMigration -----------------------------
(* A small instance of Migration: two predecessors, each with a claim of    *)
(* its own.                                                                 *)
EXTENDS Migration

CONSTANTS a, b

MCHeld(g) == IF g = 1 THEN {a} ELSE {b}
=============================================================================
