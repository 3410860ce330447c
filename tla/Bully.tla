-------------------------------- MODULE Bully --------------------------------
(***************************************************************************)
(* What the discovery services promise of the election, with messages,     *)
(* clocks and addresses left out: in each life of its process a node meets *)
(* more and more nodes; whenever it stands for election it leads exactly   *)
(* when it outranks all those it has met, and nothing else changes its     *)
(* role.  Discovery implements this module when broadcasts are refused.    *)
(***************************************************************************)
EXTENDS Naturals

CONSTANT Node

VARIABLES up, role, met

vars == <<up, role, met>>

Init ==
    /\ up = {}
    /\ role = [n \in Node |-> "FOLLOWER"]
    /\ met = [n \in Node |-> {}]

Start(n) ==
    /\ n \notin up
    /\ up' = up \cup {n}
    /\ UNCHANGED <<role, met>>

Stop(n) ==
    /\ n \in up
    /\ up' = up \ {n}
    /\ role' = [role EXCEPT ![n] = "FOLLOWER"]
    /\ met' = [met EXCEPT ![n] = {}]

Meet(n, m) ==
    /\ n \in up
    /\ met' = [met EXCEPT ![n] = @ \cup {m}]
    /\ UNCHANGED <<up, role>>

Outranked(n) == \E m \in met[n] : m > n

Stand(n) ==
    /\ n \in up
    /\ role' = [role EXCEPT ![n] = IF Outranked(n) THEN "CANDIDATE" ELSE "LEADER"]
    /\ UNCHANGED <<up, met>>

Next == \E n \in Node : \/ Start(n) \/ Stop(n) \/ Stand(n)
                        \/ \E m \in Node : Meet(n, m)

Spec == Init /\ [][Next]_vars

=============================================================================
