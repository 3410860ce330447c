------------------------------ MODULE MCChaos ------------------------------
(* Instances of Chaos for TLC: the first and the last service of a cascade, *)
(* and one of test-harness/tests/end_to_end_test.go that no scenario lists. *)
EXTENDS Chaos

Some == {"ingestion", "s4_cluster", "query"}
Pids == 1 .. 3
=============================================================================
