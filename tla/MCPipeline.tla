----------------------------- MODULE MCPipeline -----------------------------
(* Instances of Pipeline for TLC. *)
EXTENDS Pipeline

\* Two values for one day, in either order of size, and another day.
Measurements == {[date |-> 1, series |-> "tmax", value |-> 7],
                 [date |-> 1, series |-> "tmax", value |-> 4],
                 [date |-> 2, series |-> "tmax", value |-> 5]}

Bound(f, q) == [e \in Bounded |-> IF e = "fault" THEN f ELSE q]
Anything == Bound(1, 1)
Quiet == Bound(0, 0)
=============================================================================
