---------------------------- MODULE MCIngestRead ----------------------------
(* IngestRead on one series: two ingests, two reads, and the bounds of each cfg. *)
EXTENDS IngestRead, TLC

CONSTANTS i1, i2, i3, r1, r2, s1, w1

MCSymmetry == Permutations(Ingests) \cup Permutations(Reads)
=============================================================================
