-------------------------------- MODULE Chaos --------------------------------
(***************************************************************************)
(* A test program on one service manager: it starts services as BaseTest   *)
(* of src/test-harness/tests/basetest.go does, runs scenarios and actions  *)
(* of the engineer of pkg/chaos/engineer.go on them, and tears down.       *)
(*                                                                         *)
(* A scenario is what it still has to stop and what its end depends on;    *)
(* waiting for a time is a step that may be taken at any moment.           *)
(***************************************************************************)
EXTENDS Services, Sequences

CONSTANTS Runs,     \* bound: scenarios and actions a test runs
          Daemons   \* does the test start its services with --daemon?

ASSUME RunsAssumption == Runs \in Nat /\ Daemons \in BOOLEAN

VARIABLES phase,    \* where the test is: Setup and body, Teardown, past it
          scenario, \* the scenario or action that runs
          todo,     \* services it will stop, in order
          outcome,  \* what the last one returned
          runs      \* number of scenarios and actions begun

chaosVars == <<scenario, todo, outcome, runs>>
vars == <<serviceVars, phase, chaosVars>>

Scenario == {"leader_failover", "service_kill", "cascading_failure", "resource_pressure"}
Action == {"kill", "stop", "restart", "signal", "delay"}

\* The order in which service_kill looks for a victim, and the cascade's.  They
\* know no other names, though a test may start services under any.
KillOrder == <<"ingestion", "s2_processor", "s3_api", "s4_cluster">>
CascadeOrder == <<"s4_cluster", "s3_api", "s2_processor", "ingestion">>

Init ==
    /\ ServicesInit
    /\ phase = "test"
    /\ scenario = "none" /\ todo = <<>> /\ outcome = "none" /\ runs = 0

Idle == scenario = "none" /\ stopping = {}

-----------------------------------------------------------------------------
(* The test. *)

TestStart(n) ==
    /\ phase = "test" /\ Idle
    /\ \E p \in Pid, d \in {FALSE, Daemons} : StartService(n, p, d)
    /\ UNCHANGED <<phase, chaosVars>>

TestStop(n) ==
    /\ phase = "test" /\ Idle
    /\ BeginStop(n)
    /\ UNCHANGED <<phase, chaosVars>>

TestSignal(n) ==
    /\ phase = "test" /\ Idle
    /\ SendSignal(n)
    /\ UNCHANGED <<phase, chaosVars>>

\* The five minutes of the test's context are over.
Deadline ==
    /\ phase = "test" /\ ~cancelled
    /\ Cancel
    /\ UNCHANGED <<phase, chaosVars>>

\* Teardown: Cancel, then StopAll, one Stop after the other.
BeginTeardown ==
    /\ phase = "test" /\ Idle
    /\ Cancel
    /\ phase' = "teardown"
    /\ UNCHANGED chaosVars

StopAllNext(n) ==
    /\ phase = "teardown"
    /\ BeginStop(n)
    /\ UNCHANGED <<phase, chaosVars>>

StopAllReturns ==
    /\ phase = "teardown" /\ stopping = {} /\ Managed = {}
    /\ phase' = "over"
    /\ UNCHANGED <<serviceVars, chaosVars>>

-----------------------------------------------------------------------------
(* The engineer. *)

Begin(s, list) ==
    /\ phase = "test" /\ Idle /\ runs < Runs
    /\ runs' = runs + 1
    /\ scenario' = s /\ todo' = list
    /\ UNCHANGED <<outcome, phase>>

\* runLeaderFailover stops the service it takes for the leader, and
\* actionKill and actionRestart their target; what the manager does not know
\* is an error at once.
RunStopping(s, n) ==
    /\ s \in {"leader_failover", "kill", "restart"}
    /\ s = "leader_failover" => n = "ingestion" /\ Healthy(n)
    /\ n \in Managed
    /\ Begin(s, <<n>>)
    /\ UNCHANGED serviceVars

\* actionStop and actionSignal only send SIGTERM.
RunSignalling(s, n) ==
    /\ s \in {"stop", "signal"}
    /\ Begin(s, <<>>)
    /\ SendSignal(n)

\* runResourcePressure and actionDelay do nothing but wait.
RunWaiting(s) ==
    /\ s \in {"resource_pressure", "delay"}
    /\ Begin(s, <<>>)
    /\ UNCHANGED serviceVars

RunCascadingFailure ==
    /\ Begin("cascading_failure", CascadeOrder)
    /\ UNCHANGED serviceVars

RunServiceKill ==
    /\ Begin("service_kill", <<>>)
    /\ UNCHANGED serviceVars

\* One round of runServiceKill's loop: the first service there is.
NextVictim ==
    /\ scenario = "service_kill" /\ todo = <<>> /\ stopping = {} /\ ~cancelled
    /\ \E i \in 1 .. Len(KillOrder) :
          /\ KillOrder[i] \in Managed
          /\ \A j \in 1 .. i - 1 : KillOrder[j] \notin Managed
          /\ todo' = <<KillOrder[i]>>
    /\ UNCHANGED <<serviceVars, phase, scenario, outcome, runs>>

\* A cascade that stops its first victim only.
StopNext_FirstOnly ==
    /\ todo # <<>> /\ stopping = {}
    /\ todo' = <<>>
    /\ IF Head(todo) \in Managed THEN BeginStop(Head(todo)) ELSE UNCHANGED serviceVars
    /\ UNCHANGED <<phase, scenario, outcome, runs>>

StopNext ==
    /\ todo # <<>> /\ stopping = {}
    /\ todo' = Tail(todo)
    /\ IF Head(todo) \in Managed THEN BeginStop(Head(todo)) ELSE UNCHANGED serviceVars
    /\ UNCHANGED <<phase, scenario, outcome, runs>>

\* The time is over, or the context was cancelled before it was.
Finish ==
    /\ scenario # "none" /\ todo = <<>> /\ stopping = {}
    /\ \/ outcome' = "ok"
       \/ cancelled /\ outcome' = "cancelled"
    /\ scenario' = "none"
    /\ UNCHANGED <<serviceVars, phase, todo, runs>>

-----------------------------------------------------------------------------
TestStep == \/ \E n \in Name : TestStart(n) \/ TestStop(n) \/ TestSignal(n) \/ StopAllNext(n)
            \/ Deadline \/ BeginTeardown \/ StopAllReturns

EngineStep == \/ \E s \in Scenario \cup Action :
                    \/ \E n \in Name : RunStopping(s, n) \/ RunSignalling(s, n)
                    \/ RunWaiting(s)
              \/ RunCascadingFailure \/ RunServiceKill
              \/ NextVictim \/ StopNext \/ Finish

Environment(A) == A /\ UNCHANGED <<phase, chaosVars>>

Next == TestStep \/ EngineStep \/ Environment(Background)

Spec == Init /\ [][Next]_vars

\* SIGKILL works, goroutines and timers run, and a test that has begun to stop
\* things goes on.  A service that got SIGTERM need not react, and a test need
\* not end.
Fairness ==
    /\ \A p \in Pid : /\ WF_vars(proc[p] = "killed" /\ Environment(Exit(p)))
                      /\ WF_vars(Environment(KillCancelled(p)))
                      /\ WF_vars(Environment(WaitReturns(p)))
    /\ \A n \in Name : WF_vars(Environment(StopDone(n) \/ StopTimeout(n)))
    /\ WF_vars(StopNext) /\ WF_vars(Finish)
    /\ WF_vars((\E n \in Name : StopAllNext(n)) \/ StopAllReturns)

FairSpec == Spec /\ Fairness

-----------------------------------------------------------------------------
Child == Pid \ detached

\* Types, and the relations that hold by the way the manager works: one name
\* one process, at most one Stop at a time.
TypeOK ==
    /\ proc \in [Pid -> ProcState]
    /\ forking \subseteq Pid /\ detached \subseteq Pid
    /\ services \in UNION {[M -> Pid] : M \in SUBSET Name}
    /\ stopping \subseteq Managed /\ Cardinality(stopping) <= 1
    /\ waiting \subseteq Pid /\ sending \subseteq Pid
    /\ cancelled \in BOOLEAN /\ crashed \in 0 .. Crashes
    /\ phase \in {"test", "teardown", "over"}
    /\ scenario \in Scenario \cup Action \cup {"none"}
    /\ todo \in Seq(Name \cup Range(KillOrder))
    /\ outcome \in {"none", "ok", "cancelled"}
    /\ runs \in 0 .. Runs

\* A child the manager has forgotten is dead or has been sent SIGKILL: a Start
\* of the same service meets at most a dying process (manager.go:120-154).
UnmanagedIsDoomed ==
    \A p \in Child : proc[p] \in {"running", "terming"} => p \in Managing

\* The manager never keeps the number of a process that has been waited for,
\* except between the end of Wait and the end of that Stop: the kernel may give
\* the number to a stranger, whom SendSignal and HealthCheck would then reach.
ManagedIsUnreaped ==
    \A n \in Managed : proc[services[n]] = "reaped" => n \in stopping

\* When a cascade returns, whatever happened to its services meanwhile, a child
\* of the harness that still runs and was not sent SIGKILL is that of a service
\* the cascade does not list (engineer.go:195-221).
CascadeEndsListed ==
    [][scenario = "cascading_failure" /\ scenario' = "none" =>
          \A p \in Child : proc[p] \in {"running", "terming"} =>
             \E n \in Managed \ Range(CascadeOrder) : services[n] = p]_vars

\* A scenario or an action returns, though a service may never react to
\* SIGTERM (engineer.go:60-118, manager.go:144-150).
ScenarioEnds == (scenario # "none") ~> (scenario = "none")

\* Once Teardown has begun, no child of the harness stays, not even as a zombie
\* (basetest.go:64-78).
TeardownCleansUp == (phase = "teardown") ~> (\A p \in Child : proc[p] \in {"none", "reaped"})

\* "stopall stops all running services" (manager.go:156): after Teardown only
\* processes run that have been sent SIGKILL.
NothingRunsAfterTeardown ==
    phase = "over" => \A p \in Pid : proc[p] \notin {"running", "terming"}
=============================================================================
