-------------------------- MODULE MCPoolLifecycle --------------------------
(* PoolLifecycle with two reads and one health probe. *)
EXTENDS PoolLifecycle

CONSTANTS r1, r2, p1
=============================================================================
