---------------------------- MODULE MCDownloads ----------------------------
(* Instances of Downloads for TLC. *)
EXTENDS Downloads

CONSTANTS a, b, w1, w2

TwoStations == {a, b}
OneStation == {a}
TwoWorkers == {w1, w2}
OneWorker == {w1}

Always == {TRUE}
Never == {FALSE}
Either == BOOLEAN
=============================================================================
