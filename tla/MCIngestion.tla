----------------------------- MODULE MCIngestion -----------------------------
(* Instances of Ingestion for TLC. *)
EXTENDS Ingestion, TLC

CONSTANTS f, g, none, a, b, junk

One == {f}
Both == {f, g}
AB == {a, b}

\* Files with a header: one record, then another before it and a malformed line
\* between them; one record replaced by another, or followed by it.
Mixed == {<<junk, b>>, <<junk, a, junk, b>>}
Clean == {<<junk, a>>, <<junk, b>>}
TwoWays == {<<junk, a>>, <<junk, b>>, <<junk, a, b>>}
\* As test-harness/pkg/data/noaa.go writes them: no header.
Headerless == {<<a, b>>}

Bound(c, o, b_, x, t, w) == [e \in Bounded |-> CASE e = "crash" -> c [] e = "open" -> o
    [] e = "busy" -> b_ [] e = "full" -> x [] e = "second" -> t [] e = "rewrite" -> w]
Anything == Bound(1, 0, 1, 1, 1, 1)
Faults == Bound(1, 1, 1, 1, 1, 0)
Reader == Bound(0, 0, 1, 0, 0, 0)
Quiet == Bound(0, 0, 0, 0, 0, 0)

FileSymmetry == Permutations(Both)
=============================================================================
