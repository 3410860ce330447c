------------------------------ MODULE WorkPool ------------------------------
(***************************************************************************)
(* What Download promises of a batch of jobs (stations), whatever fails in *)
(* one of them: a job is taken from those that wait by one worker, stays   *)
(* with it and gets one answer, an error counting as one; no more jobs are *)
(* worked on at a time than there are workers; and the batch is over when  *)
(* all its jobs have their answers, unless there are no workers at all.    *)
(***************************************************************************)
EXTENDS Naturals, FiniteSets

CONSTANTS
    Job,
    Workers  \* how many work on jobs at a time

VARIABLES
    phase,    \* of the batch
    waiting,  \* its jobs that nobody has taken
    working,  \* those that a worker has
    answered  \* those that have an answer

vars == <<phase, waiting, working, answered>>

Init == phase = "new" /\ waiting = {} /\ working = {} /\ answered = {}

\* A list of jobs that cannot be had is one without jobs.
Submit(jobs) ==
    /\ phase = "new"
    /\ phase' = IF jobs = {} THEN "over" ELSE "open"
    /\ waiting' = jobs
    /\ UNCHANGED <<working, answered>>

Take(j) ==
    /\ phase = "open" /\ j \in waiting
    /\ Cardinality(working) < Workers
    /\ waiting' = waiting \ {j} /\ working' = working \cup {j}
    /\ UNCHANGED <<phase, answered>>

Answer(j) ==
    /\ phase = "open" /\ j \in working /\ j \notin answered
    /\ working' = working \ {j} /\ answered' = answered \cup {j}
    /\ UNCHANGED <<phase, waiting>>

Finish ==
    /\ phase = "open" /\ phase' = "over"
    /\ Workers = 0 \/ (waiting = {} /\ working = {})
    /\ UNCHANGED <<waiting, working, answered>>

Kill ==
    /\ phase \in {"new", "open"} /\ phase' = "killed"
    /\ UNCHANGED <<waiting, working, answered>>

Renew ==
    /\ phase \in {"over", "killed"} /\ phase' = "new"
    /\ waiting' = {} /\ working' = {} /\ answered' = {}

Next == \/ \E jobs \in SUBSET Job : Submit(jobs)
        \/ \E j \in Job : Take(j) \/ Answer(j)
        \/ Finish \/ Kill \/ Renew

Spec == Init /\ [][Next]_vars

=============================================================================
