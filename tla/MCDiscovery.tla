---------------------------- MODULE MCDiscovery ----------------------------
(* Instances of Discovery for TLC. *)
EXTENDS Discovery

\* The clusters: nodes that name each other in cluster_node lines, the ones
\* installed before them only, some of the others, or nobody; and two that name
\* each other beside a third that no line names.
Three == 1 .. 3
Two == 1 .. 2
Mesh3 == [n \in Three |-> Three \ {n}]
Mesh2 == [n \in Two |-> Two \ {n}]
Older3 == [n \in Three |-> {m \in Three : m < n}]
Some3 == [n \in Three |-> CASE n = 1 -> {2} [] n = 2 -> {3} [] n = 3 -> {1, 2}]
Unlisted3 == [n \in Three |-> CASE n = 1 -> {2} [] n = 2 -> {1} [] n = 3 -> {}]
Nobody3 == [n \in Three |-> {}]

\* Every station has the same peer_endpoint lines, its own among them.
Shared3 == [n \in Three |-> Three]
Shared2 == [n \in Two |-> Two]

Bound(c, l, h, x) == [e \in Bounded |-> CASE e = "crash" -> c [] e = "loss" -> l
                                          [] e = "heartbeat" -> h [] e = "expiry" -> x]
Quiet == Bound(0, 0, 0, 0)
CrashExpiry == Bound(1, 0, 0, 1)
CrashesLoss == Bound(2, 1, 0, 0)
CrashBeat == Bound(1, 0, 1, 0)
OneBeat == Bound(0, 0, 1, 0)
OneCrash == Bound(1, 0, 0, 0)
=============================================================================
