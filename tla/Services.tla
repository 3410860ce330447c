------------------------------ MODULE Services ------------------------------
(***************************************************************************)
(* The service manager of src/test-harness/pkg/services/manager.go: it     *)
(* starts services as child processes, signals and stops them.             *)
(*                                                                         *)
(* A Manager is used by one goroutine, so an operation starts only when    *)
(* none runs; Start, SendSignal and HealthCheck are one step, Stop is two: *)
(* it signals, then waits for the exit or for ten seconds.  Beside it run  *)
(* the processes, the goroutine that Stop leaves in Wait, and the one per  *)
(* command that os/exec keeps to kill it once its context is cancelled.    *)
(*                                                                         *)
(* An operation that returns an error and changes nothing is not a step.   *)
(***************************************************************************)
EXTENDS Naturals, FiniteSets, Functions

CONSTANTS
    Name,     \* services: all of them have a binary findBinary finds
    Pid,      \* process ids, in the order the kernel hands them out
    Crashes   \* bound: processes that end by themselves

ASSUME ProcessAssumption == Pid \subseteq Nat /\ Crashes \in Nat

VARIABLES
    proc,      \* the state of each process
    forking,   \* those started with --daemon that have not forked yet
    detached,  \* the daemons they forked: init's children, not the harness's
    services,  \* Manager.services, name to Service.PID
    stopping,  \* the services a running Stop waits for: one at most
    waiting,   \* processes some goroutine of Stop is in Cmd.Wait for
    sending,   \* those whose goroutine has the result and sends it on done
    cancelled, \* has the context of the commands been cancelled?
    crashed    \* number of processes that ended by themselves

procVars == <<proc, forking, detached, crashed>>
managerVars == <<services, stopping, waiting, sending>>
serviceVars == <<procVars, managerVars, cancelled>>

\* A process that got SIGTERM ends when it likes (terming), one that got
\* SIGKILL must (killed); a zombie has ended and nobody waited for it yet.
ProcState == {"none", "running", "terming", "killed", "zombie", "reaped"}
Alive == {"running", "terming", "killed"}

Managed == DOMAIN services
Managing == {services[n] : n \in Managed}

\* The next process id: the lowest that no process has had.
Fresh == {p \in Pid : proc[p] = "none" /\ \A q \in Pid : q < p => proc[q] # "none"}

ServicesInit ==
    /\ proc = [p \in Pid |-> "none"]
    /\ forking = {} /\ detached = {}
    /\ services = [n \in {} |-> 0]
    /\ stopping = {}
    /\ waiting = {} /\ sending = {}
    /\ cancelled = FALSE
    /\ crashed = 0

-----------------------------------------------------------------------------
(* The kernel and os/exec. *)

\* kill(pid, SIGTERM) and kill(pid, SIGKILL) change the fate of a process
\* that runs, and succeed on a zombie.
Term(s) == IF s = "running" THEN "terming" ELSE s
Kill(s) == IF s \in Alive THEN "killed" ELSE s

\* The end of a process: the harness has to Wait for its children, init does
\* for the daemons.
Ended(p) == IF p \in detached THEN "reaped" ELSE "zombie"

Exit(p) ==
    /\ proc[p] \in {"terming", "killed"}
    /\ proc' = [proc EXCEPT ![p] = Ended(p)]
    /\ forking' = forking \ {p}
    /\ UNCHANGED <<detached, crashed, managerVars, cancelled>>

CrashProcess(p) ==
    /\ proc[p] = "running" /\ crashed < Crashes
    /\ crashed' = crashed + 1
    /\ proc' = [proc EXCEPT ![p] = Ended(p)]
    /\ forking' = forking \ {p}
    /\ UNCHANGED <<detached, managerVars, cancelled>>

\* daemon_fork in the service: the child goes on, the process the manager
\* started exits.
Fork(p, q) ==
    /\ p \in forking /\ proc[p] = "running"
    /\ q \in Fresh
    /\ proc' = [proc EXCEPT ![p] = "zombie", ![q] = "running"]
    /\ forking' = forking \ {p}
    /\ detached' = detached \cup {q}
    /\ UNCHANGED <<crashed, managerVars, cancelled>>

\* exec.CommandContext: the goroutine of a command kills it when the context
\* is cancelled before Wait has returned.
KillCancelled(p) ==
    /\ cancelled
    /\ p \notin detached /\ proc[p] \in {"running", "terming"}
    /\ proc' = [proc EXCEPT ![p] = "killed"]
    /\ UNCHANGED <<forking, detached, crashed, managerVars, cancelled>>

-----------------------------------------------------------------------------
(* The operations. *)

\* Start fails if the name is in the map or the context is cancelled already.
StartService(n, p, daemon) ==
    /\ stopping = {} /\ ~cancelled
    /\ n \notin Managed
    /\ p \in Fresh
    /\ proc' = [proc EXCEPT ![p] = "running"]
    /\ services' = [m \in Managed \cup {n} |-> IF m = n THEN p ELSE services[m]]
    /\ forking' = IF daemon THEN forking \cup {p} ELSE forking
    /\ UNCHANGED <<detached, crashed, stopping, waiting, sending, cancelled>>

SendSignal(n) ==
    /\ stopping = {} /\ n \in Managed
    /\ proc' = [proc EXCEPT ![services[n]] = Term(@)]
    /\ UNCHANGED <<forking, detached, crashed, managerVars, cancelled>>

\* HealthCheck: FindProcess never fails on Unix, and signal 0 reaches every
\* process that has not been waited for, a zombie too.
Healthy(n) == n \in Managed /\ proc[services[n]] # "reaped"

\* A Stop that does not wait for the one before.
BeginStop_Concurrent(n) ==
    /\ n \in Managed
    /\ proc[services[n]] # "reaped"
    /\ proc' = [proc EXCEPT ![services[n]] = Term(@)]
    /\ waiting' = waiting \cup {services[n]}
    /\ stopping' = stopping \cup {n}
    /\ UNCHANGED <<forking, detached, crashed, services, sending, cancelled>>

\* A Stop that leaves the process to itself.
BeginStop_NoWait(n) ==
    /\ stopping = {} /\ n \in Managed
    /\ proc[services[n]] # "reaped"
    /\ proc' = [proc EXCEPT ![services[n]] = Term(@)]
    /\ stopping' = {n}
    /\ UNCHANGED <<forking, detached, crashed, services, waiting, sending, cancelled>>

\* Stop up to its select: SIGTERM, and a goroutine that waits.  Only on a
\* process already waited for do Signal and Kill both fail and Stop returns.
BeginStop(n) ==
    /\ stopping = {} /\ n \in Managed
    /\ proc[services[n]] # "reaped"
    /\ proc' = [proc EXCEPT ![services[n]] = Term(@)]
    /\ waiting' = waiting \cup {services[n]}
    /\ stopping' = {n}
    /\ UNCHANGED <<forking, detached, crashed, services, sending, cancelled>>

\* Cmd.Wait returns; the goroutine blocks until somebody receives from done.
WaitReturns(p) ==
    /\ p \in waiting /\ proc[p] = "zombie"
    /\ proc' = [proc EXCEPT ![p] = "reaped"]
    /\ waiting' = waiting \ {p}
    /\ sending' = sending \cup {p}
    /\ UNCHANGED <<forking, detached, crashed, services, stopping, cancelled>>

Forget(n) == services' = [m \in Managed \ {n} |-> services[m]]

\* A Stop that returns without dropping the service.
StopDone_Keeps(n) ==
    /\ n \in stopping /\ services[n] \in sending
    /\ sending' = sending \ {services[n]}
    /\ stopping' = {}
    /\ UNCHANGED <<procVars, services, waiting, cancelled>>

StopDone(n) ==
    /\ n \in stopping /\ services[n] \in sending
    /\ sending' = sending \ {services[n]}
    /\ stopping' = {} /\ Forget(n)
    /\ UNCHANGED <<procVars, waiting, cancelled>>

\* A timeout that gives up without killing.
StopTimeout_Gentle(n) ==
    /\ n \in stopping
    /\ stopping' = {} /\ Forget(n)
    /\ UNCHANGED <<procVars, waiting, sending, cancelled>>

\* A Stop that waits as long as the process lives.
StopTimeout_Patient(n) ==
    /\ n \in stopping /\ proc[services[n]] \notin Alive
    /\ stopping' = {} /\ Forget(n)
    /\ UNCHANGED <<procVars, waiting, sending, cancelled>>

\* time.After fires, maybe in the moment the process ends: select takes either
\* case.  Nobody receives from done any more.
StopTimeout(n) ==
    /\ n \in stopping
    /\ proc' = [proc EXCEPT ![services[n]] = Kill(@)]
    /\ stopping' = {} /\ Forget(n)
    /\ UNCHANGED <<forking, detached, crashed, waiting, sending, cancelled>>

Cancel ==
    /\ cancelled' = TRUE
    /\ UNCHANGED <<procVars, managerVars>>

\* What goes on whoever uses the manager.
Background ==
    \/ \E p \in Pid : Exit(p) \/ CrashProcess(p) \/ KillCancelled(p) \/ WaitReturns(p)
    \/ \E p, q \in Pid : Fork(p, q)
    \/ \E n \in Name : StopDone(n) \/ StopTimeout(n)
=============================================================================
