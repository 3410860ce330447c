----------------------------- MODULE ChaosProofs -----------------------------
(***************************************************************************)
(* Theorems about Services and Chaos, for any services, any number of      *)
(* processes and any bounds.                                               *)
(***************************************************************************)
EXTENDS Chaos, TLAPS, FiniteSetTheorems

-----------------------------------------------------------------------------
(* The invariant of the service manager and its processes. *)

ManagerTypes ==
    /\ proc \in [Pid -> ProcState]
    /\ forking \subseteq Pid /\ detached \subseteq Pid
    /\ waiting \subseteq Pid /\ sending \subseteq Pid
    /\ services \in [Managed -> Pid] /\ Managed \subseteq Name
    /\ stopping \subseteq Managed
    /\ cancelled \in BOOLEAN /\ crashed \in 0 .. Crashes

\* Who is meant by a process id: it has been handed out, a managed process is
\* a child of the harness and of one name, a result waits only for the dead.
Identities ==
    /\ \A m, n \in Managed : services[m] = services[n] => m = n
    /\ \A n \in Managed : proc[services[n]] # "none" /\ services[n] \notin detached
    /\ \A p \in detached \cup waiting : proc[p] # "none"
    /\ \A p \in sending : proc[p] = "reaped"

\* One Stop at a time, and who waits for a managed process is that Stop.
OneStop ==
    /\ \A m, n \in stopping : m = n
    /\ \A n \in Managed : services[n] \in waiting => n \in stopping

Kept == ManagerTypes /\ Identities /\ OneStop /\ ManagedIsUnreaped /\ UnmanagedIsDoomed

LEMMA FreshIsNew ==
    ASSUME NEW p \in Fresh
    PROVE  p \in Pid /\ proc[p] = "none"
BY DEF Fresh

LEMMA ExitKeeps ==
    ASSUME Kept, NEW p \in Pid, Exit(p)
    PROVE  Kept'
<1> USE DEF Kept, Exit, managerVars
<1>1. proc' = [proc EXCEPT ![p] = Ended(p)] /\ Ended(p) = IF p \in detached THEN "reaped" ELSE "zombie"
  BY DEF Ended
<1>2. ManagerTypes'
  BY <1>1 DEF ManagerTypes, Managed, ProcState
<1>3. Identities'
  BY <1>1 DEF ManagerTypes, Identities, Managed
<1>4. OneStop'
  BY DEF OneStop, Managed
<1>5. ManagedIsUnreaped'
  BY <1>1 DEF ManagerTypes, Identities, ManagedIsUnreaped, Managed
<1>6. UnmanagedIsDoomed'
  BY <1>1 DEF ManagerTypes, UnmanagedIsDoomed, Child, Managing, Managed
<1> QED BY <1>2, <1>3, <1>4, <1>5, <1>6

LEMMA CrashKeeps ==
    ASSUME Kept, NEW p \in Pid, CrashProcess(p)
    PROVE  Kept'
<1> USE DEF Kept, CrashProcess, managerVars
<1>1. proc' = [proc EXCEPT ![p] = Ended(p)] /\ Ended(p) = IF p \in detached THEN "reaped" ELSE "zombie"
  BY DEF Ended
<1>2. ManagerTypes'
  BY <1>1, ProcessAssumption DEF ManagerTypes, Managed, ProcState
<1>3. Identities'
  BY <1>1 DEF ManagerTypes, Identities, Managed
<1>4. OneStop'
  BY DEF OneStop, Managed
<1>5. ManagedIsUnreaped'
  BY <1>1 DEF ManagerTypes, Identities, ManagedIsUnreaped, Managed
<1>6. UnmanagedIsDoomed'
  BY <1>1 DEF ManagerTypes, UnmanagedIsDoomed, Child, Managing, Managed
<1> QED BY <1>2, <1>3, <1>4, <1>5, <1>6

LEMMA KillCancelledKeeps ==
    ASSUME Kept, NEW p \in Pid, KillCancelled(p)
    PROVE  Kept'
<1> USE DEF Kept, KillCancelled, managerVars
<1>1. ManagerTypes'
  BY DEF ManagerTypes, Managed, ProcState
<1>2. Identities'
  BY DEF ManagerTypes, Identities, Managed
<1>3. OneStop'
  BY DEF OneStop, Managed
<1>4. ManagedIsUnreaped'
  BY DEF ManagerTypes, Identities, ManagedIsUnreaped, Managed
<1>5. UnmanagedIsDoomed'
  BY DEF ManagerTypes, UnmanagedIsDoomed, Child, Managing, Managed
<1> QED BY <1>1, <1>2, <1>3, <1>4, <1>5

LEMMA WaitReturnsKeeps ==
    ASSUME Kept, NEW p \in Pid, WaitReturns(p)
    PROVE  Kept'
<1> USE DEF Kept, WaitReturns
<1>1. ManagerTypes'
  BY DEF ManagerTypes, Managed, ProcState
<1>2. Identities'
  BY DEF ManagerTypes, Identities, Managed
<1>3. OneStop'
  BY DEF OneStop, Managed
<1>4. ManagedIsUnreaped'
  BY DEF ManagerTypes, OneStop, ManagedIsUnreaped, Managed
<1>5. UnmanagedIsDoomed'
  BY DEF ManagerTypes, UnmanagedIsDoomed, Child, Managing, Managed
<1> QED BY <1>1, <1>2, <1>3, <1>4, <1>5

LEMMA ForkKeeps ==
    ASSUME Kept, NEW p \in Pid, NEW q \in Pid, Fork(p, q)
    PROVE  Kept'
<1> USE DEF Kept, Fork, managerVars
<1>1. proc[q] = "none" /\ proc[p] = "running"
  BY FreshIsNew
<1>2. ManagerTypes'
  BY DEF ManagerTypes, Managed, ProcState
<1>3. Identities'
  BY <1>1 DEF ManagerTypes, Identities, Managed
<1>4. OneStop'
  BY DEF OneStop, Managed
<1>5. ManagedIsUnreaped'
  BY <1>1 DEF ManagerTypes, Identities, ManagedIsUnreaped, Managed
<1>6. UnmanagedIsDoomed'
  BY <1>1 DEF ManagerTypes, UnmanagedIsDoomed, Child, Managing, Managed
<1> QED BY <1>2, <1>3, <1>4, <1>5, <1>6

LEMMA StartKeeps ==
    ASSUME Kept, NEW n \in Name, NEW p \in Pid, NEW d \in BOOLEAN, StartService(n, p, d)
    PROVE  Kept'
<1> USE DEF Kept, StartService
<1>1. proc[p] = "none" /\ stopping = {} /\ n \notin Managed
  BY FreshIsNew
<1>2. /\ Managed' = Managed \cup {n}
      /\ services'[n] = p
      /\ \A m \in Managed : services'[m] = services[m]
  BY <1>1 DEF Managed
<1>3. Managing' = Managing \cup {p}
  BY <1>2 DEF Managing
<1>4. ManagerTypes'
  BY <1>2 DEF ManagerTypes, Managed, ProcState
<1>5. \A m \in Managed : services[m] # p
  BY <1>1 DEF Identities
<1>6. p \notin detached /\ p \notin waiting /\ p \notin sending
  BY <1>1 DEF Identities
<1>7. Identities'
  BY <1>2, <1>5, <1>6 DEF ManagerTypes, Identities
<1>8. OneStop'
  BY <1>1, <1>2, <1>6 DEF OneStop
<1>9. ManagedIsUnreaped'
  BY <1>2, <1>5 DEF ManagerTypes, ManagedIsUnreaped
<1>10. UnmanagedIsDoomed'
  BY <1>3 DEF ManagerTypes, UnmanagedIsDoomed, Child
<1> QED BY <1>4, <1>7, <1>8, <1>9, <1>10

LEMMA SignalKeeps ==
    ASSUME Kept, NEW n \in Name, SendSignal(n)
    PROVE  Kept'
<1> USE DEF Kept, SendSignal, managerVars, Term
<1>1. services[n] \in Pid
  BY DEF ManagerTypes
<1>2. ManagerTypes'
  BY <1>1 DEF ManagerTypes, Managed, ProcState
<1>3. Identities'
  BY <1>1 DEF ManagerTypes, Identities, Managed
<1>4. OneStop'
  BY DEF OneStop, Managed
<1>5. ManagedIsUnreaped'
  BY <1>1 DEF ManagerTypes, ManagedIsUnreaped, Managed
<1>6. UnmanagedIsDoomed'
  BY <1>1 DEF ManagerTypes, UnmanagedIsDoomed, Child, Managing, Managed
<1> QED BY <1>2, <1>3, <1>4, <1>5, <1>6

LEMMA BeginStopKeeps ==
    ASSUME Kept, NEW n, BeginStop(n)
    PROVE  Kept'
<1> USE DEF Kept, BeginStop, Term
<1>1. services[n] \in Pid /\ stopping = {} /\ n \in Managed
  BY DEF ManagerTypes
<1>2. ManagerTypes'
  BY <1>1 DEF ManagerTypes, Managed, ProcState
<1>3. Identities'
  BY <1>1 DEF ManagerTypes, Identities, Managed
<1>4. OneStop'
  BY <1>1 DEF Identities, OneStop, Managed
<1>5. ManagedIsUnreaped'
  BY <1>1 DEF ManagerTypes, ManagedIsUnreaped, Managed
<1>6. UnmanagedIsDoomed'
  BY <1>1 DEF ManagerTypes, UnmanagedIsDoomed, Child, Managing, Managed
<1> QED BY <1>2, <1>3, <1>4, <1>5, <1>6

\* A Stop returns: it forgets a process that is dead or has got SIGKILL.
LEMMA ForgetKeeps ==
    ASSUME Kept, NEW n \in stopping, Forget(n), stopping' = {},
           UNCHANGED <<forking, detached, crashed, waiting, cancelled>>, sending' \subseteq sending,
           proc' \in [Pid -> ProcState],
           \A p \in Pid : proc'[p] = proc[p] \/ p = services[n],
           proc'[services[n]] \notin {"none", "running", "terming"},
           proc[services[n]] = "reaped" => proc'[services[n]] = "reaped"
    PROVE  Kept'
<1> USE DEF Kept
<1>1. n \in Managed /\ services[n] \in Pid
  BY DEF ManagerTypes
<1>2. Managed' = Managed \ {n} /\ \A m \in Managed' : services'[m] = services[m]
  BY DEF Forget, Managed
<1>3. ManagerTypes'
  BY <1>2 DEF ManagerTypes, Forget, Managed
<1>4. \A m \in Managed' : services[m] # services[n]
  BY <1>1, <1>2 DEF Identities
<1>5. \A m \in Managed' : services[m] \in Pid /\ proc'[services[m]] = proc[services[m]]
  BY <1>2, <1>4 DEF ManagerTypes
<1>6. Identities'
  <2>1. \A p \in detached' \cup waiting' : proc'[p] # "none"
    BY DEF Identities, ManagerTypes
  <2>2. \A p \in sending' : proc'[p] = "reaped"
    BY DEF Identities, ManagerTypes
  <2> QED BY <1>2, <1>5, <2>1, <2>2 DEF Identities
<1>7. OneStop'
  BY <1>2 DEF OneStop, ManagerTypes
<1>8. ManagedIsUnreaped'
  BY <1>2, <1>5 DEF ManagedIsUnreaped, OneStop
<1>9. UnmanagedIsDoomed'
  <2>1. \A p \in Managing : p # services[n] => p \in Managing'
    BY <1>2 DEF Managing
  <2> QED BY <2>1 DEF UnmanagedIsDoomed, Child, ManagerTypes
<1> QED BY <1>3, <1>6, <1>7, <1>8, <1>9

LEMMA StopDoneKeeps ==
    ASSUME Kept, NEW n \in Name, StopDone(n)
    PROVE  Kept'
<1>1. /\ n \in stopping /\ Forget(n) /\ stopping' = {} /\ sending' \subseteq sending
      /\ proc[services[n]] = "reaped"
      /\ UNCHANGED <<proc, forking, detached, crashed, waiting, cancelled>>
  BY DEF Kept, Identities, StopDone, procVars
<1>2. proc' \in [Pid -> ProcState]
  BY <1>1 DEF Kept, ManagerTypes
<1> QED BY <1>1, <1>2, ForgetKeeps

LEMMA StopTimeoutKeeps ==
    ASSUME Kept, NEW n \in Name, StopTimeout(n)
    PROVE  Kept'
<1>1. /\ n \in stopping /\ Forget(n) /\ stopping' = {} /\ sending' = sending
      /\ proc' = [proc EXCEPT ![services[n]] = Kill(@)]
      /\ UNCHANGED <<forking, detached, crashed, waiting, cancelled>>
  BY DEF StopTimeout
<1>2. /\ services[n] \in Pid /\ proc \in [Pid -> ProcState]
      /\ proc[services[n]] # "none"
  BY <1>1 DEF Kept, ManagerTypes, Identities
<1>3. proc' \in [Pid -> ProcState] /\ proc'[services[n]] = Kill(proc[services[n]])
  BY <1>1, <1>2 DEF Kill, Alive, ProcState
<1>4. /\ Kill(proc[services[n]]) \notin {"none", "running", "terming"}
      /\ proc[services[n]] = "reaped" => Kill(proc[services[n]]) = "reaped"
  BY <1>2 DEF Kill, Alive, ProcState
<1> QED BY <1>1, <1>2, <1>3, <1>4, ForgetKeeps

LEMMA IdleKeeps ==
    ASSUME Kept, UNCHANGED <<procVars, managerVars>>, cancelled' \in BOOLEAN
    PROVE  Kept'
BY DEF Kept, procVars, managerVars, ManagerTypes, Identities, OneStop, ManagedIsUnreaped,
       UnmanagedIsDoomed, Child, Managing, Managed

LEMMA BackgroundKeeps ==
    ASSUME Kept, Background
    PROVE  Kept'
BY ExitKeeps, CrashKeeps, KillCancelledKeeps, WaitReturnsKeeps, ForkKeeps, StopDoneKeeps,
   StopTimeoutKeeps DEF Background

LEMMA InitiallyKept == Init => Kept
<1> SUFFICES ASSUME Init PROVE Kept
  OBVIOUS
<1> USE DEF Init, ServicesInit
<1>1. Managed = {} /\ services \in [Managed -> Pid]
  BY DEF Managed
<1>2. ManagerTypes
  <2>1. cancelled = FALSE /\ crashed = 0 /\ 0 \in 0 .. Crashes
    BY ProcessAssumption
  <2>2. proc \in [Pid -> ProcState]
    BY DEF ProcState
  <2> QED BY <1>1, <2>1, <2>2 DEF ManagerTypes
<1>3. Identities /\ OneStop /\ ManagedIsUnreaped
  BY <1>1 DEF Identities, OneStop, ManagedIsUnreaped
<1>4. UnmanagedIsDoomed
  BY DEF UnmanagedIsDoomed, Child
<1> QED BY <1>2, <1>3, <1>4 DEF Kept

LEMMA NextKeeps ==
    ASSUME Kept, [Next]_vars
    PROVE  Kept'
<1>1. ASSUME NEW n \in Name, TestStart(n) \/ TestStop(n) \/ TestSignal(n) \/ StopAllNext(n)
      PROVE  Kept'
  BY <1>1, StartKeeps, BeginStopKeeps, SignalKeeps, RunsAssumption
     DEF TestStart, TestStop, TestSignal, StopAllNext
<1>2. ASSUME UNCHANGED <<procVars, managerVars>>, cancelled' \in {TRUE, cancelled}
      PROVE  Kept'
  BY <1>2, IdleKeeps DEF Kept, ManagerTypes
<1>3. CASE Deadline \/ BeginTeardown
  BY <1>2, <1>3 DEF Deadline, BeginTeardown, Cancel
<1>4. CASE StopAllReturns \/ RunCascadingFailure \/ RunServiceKill \/ NextVictim \/ Finish \/ UNCHANGED vars
  BY <1>2, <1>4 DEF StopAllReturns, RunCascadingFailure, RunServiceKill, NextVictim, Finish, vars, serviceVars
<1>5. ASSUME NEW s \in Scenario \cup Action, RunWaiting(s)
      PROVE  Kept'
  BY <1>2, <1>5 DEF RunWaiting, serviceVars
<1>6. ASSUME NEW s \in Scenario \cup Action, NEW n \in Name, RunStopping(s, n)
      PROVE  Kept'
  BY <1>2, <1>6 DEF RunStopping, serviceVars
<1>7. ASSUME NEW s \in Scenario \cup Action, NEW n \in Name, RunSignalling(s, n)
      PROVE  Kept'
  BY <1>7, SignalKeeps DEF RunSignalling
<1>8. CASE StopNext
  BY <1>2, <1>8, BeginStopKeeps DEF StopNext, serviceVars
<1>9. CASE Environment(Background)
  BY <1>9, BackgroundKeeps DEF Environment
<1> QED BY <1>1, <1>3, <1>4, <1>5, <1>6, <1>7, <1>8, <1>9 DEF Next, TestStep, EngineStep

LEMMA AlwaysKept == Spec => []Kept
<1>1. Kept /\ [Next]_vars => Kept'
  BY NextKeeps
<1> QED BY InitiallyKept, <1>1, PTL DEF Spec

\* Whoever signals, stops or kills what, and however the ten seconds race the
\* exit, the manager names no process that has been waited for unless the Stop
\* of it is about to return (manager.go:120-154).
THEOREM ManagedProcessesAreUnreaped == Spec => []ManagedIsUnreaped
<1>1. Kept => ManagedIsUnreaped
  BY DEF Kept
<1> QED BY <1>1, AlwaysKept, PTL

\* A child that runs and was not sent SIGKILL is in the manager's map
\* (manager.go:53-154).
THEOREM UnmanagedProcessesAreDoomed == Spec => []UnmanagedIsDoomed
<1>1. Kept => UnmanagedIsDoomed
  BY DEF Kept
<1> QED BY <1>1, AlwaysKept, PTL

-----------------------------------------------------------------------------
(* The cascade: what it lists and is still managed is still to be stopped, or *)
(* being stopped.                                                              *)

ToStop ==
    scenario = "cascading_failure" =>
       \A n \in Managed \cap Range(CascadeOrder) :
          n \in stopping \/ \E i \in DOMAIN todo : todo[i] = n

TodoType == todo \in Seq(Name \cup Range(KillOrder))

LEMMA Orders ==
    /\ Range(KillOrder) = {"ingestion", "s2_processor", "s3_api", "s4_cluster"}
    /\ Range(CascadeOrder) = {"ingestion", "s2_processor", "s3_api", "s4_cluster"}
BY DEF Range, KillOrder, CascadeOrder

\* A step of anybody else leaves a running scenario and what it has to stop.
LEMMA OthersLeaveScenario ==
    ASSUME TestStep \/ Environment(Background)
    PROVE  UNCHANGED <<scenario, todo>>
BY DEF TestStep, TestStart, TestStop, TestSignal, StopAllNext, Deadline, BeginTeardown,
       StopAllReturns, Environment, chaosVars

LEMMA TodoKeeps ==
    ASSUME TodoType, [Next]_vars
    PROVE  TodoType'
<1> DEFINE S == Name \cup Range(KillOrder)
<1>1. ASSUME NEW s \in Scenario \cup Action, NEW n \in Name, RunStopping(s, n)
      PROVE  TodoType'
  <2>1. n \in S /\ todo' = <<n>>
    BY <1>1 DEF RunStopping, Begin
  <2> QED BY <2>1 DEF TodoType
<1>2. CASE NextVictim
  <2>1. PICK i \in 1 .. 4 : todo' = <<KillOrder[i]>>
    BY <1>2 DEF NextVictim, KillOrder
  <2>2. KillOrder[i] \in S
    BY <2>1, Orders DEF KillOrder
  <2> QED BY <2>1, <2>2 DEF TodoType
<1>3. CASE StopNext
  <2>1. todo' = Tail(todo) /\ todo # <<>>
    BY <1>3 DEF StopNext
  <2> QED BY <2>1 DEF TodoType
<1>4. CASE RunCascadingFailure
  <2>1. CascadeOrder \in Seq(S)
    BY Orders DEF CascadeOrder
  <2> QED BY <1>4, <2>1 DEF RunCascadingFailure, Begin, TodoType
<1>5. ASSUME todo' = todo \/ todo' = <<>> PROVE TodoType'
  <2>1. <<>> \in Seq(S)
    OBVIOUS
  <2>2. CASE todo' = todo
    BY <2>2 DEF TodoType
  <2>3. CASE todo' = <<>>
    BY <2>1, <2>3 DEF TodoType
  <2> QED BY <1>5, <2>2, <2>3
<1>6. CASE TestStep \/ Environment(Background)
  BY <1>5, <1>6, OthersLeaveScenario
<1>7. CASE RunServiceKill \/ Finish \/ UNCHANGED vars
  BY <1>5, <1>7 DEF RunServiceKill, Begin, Finish, vars, chaosVars
<1>8. ASSUME NEW s \in Scenario \cup Action, RunWaiting(s) \/ \E n \in Name : RunSignalling(s, n)
      PROVE  TodoType'
  BY <1>5, <1>8 DEF RunWaiting, RunSignalling, Begin
<1> QED BY <1>1, <1>2, <1>3, <1>4, <1>6, <1>7, <1>8 DEF Next, EngineStep

\* Only TestStart adds to the manager, and only between two scenarios.
LEMMA ManagedShrinks ==
    ASSUME Kept, [Next]_vars, scenario # "none"
    PROVE  /\ Managed' \subseteq Managed
           /\ \A n \in stopping : n \in stopping' \/ n \notin Managed'
<1> USE DEF Kept, Idle, serviceVars, procVars, managerVars, Managed
<1>1. ASSUME UNCHANGED <<services, stopping>> PROVE Managed' \subseteq Managed /\ stopping' = stopping
  BY <1>1
<1>2. ASSUME NEW n, BeginStop(n) PROVE Managed' \subseteq Managed /\ stopping = {}
  BY <1>2 DEF BeginStop
<1>3. CASE TestStep
  <2>1. (stopping = {} /\ services' = services) \/ UNCHANGED <<services, stopping>>
    BY <1>3 DEF TestStep, TestStart, TestStop, TestSignal, StopAllNext, BeginStop,
       Deadline, BeginTeardown, Cancel, StopAllReturns
  <2> QED BY <1>1, <2>1
<1>4. CASE EngineStep
  <2>1. (stopping = {} /\ services' = services) \/ UNCHANGED <<services, stopping>>
    <3>1. CASE StopNext
      BY <3>1 DEF StopNext, BeginStop
    <3>2. CASE NextVictim \/ Finish
      BY <3>2 DEF NextVictim, Finish
    <3>3. ASSUME NEW s, NEW list, Begin(s, list) PROVE FALSE
      BY <3>3 DEF Begin
    <3> QED BY <1>4, <3>1, <3>2, <3>3 DEF EngineStep, RunStopping, RunSignalling, RunWaiting,
               RunCascadingFailure, RunServiceKill
  <2> QED BY <1>1, <2>1
<1>5. CASE Background
  <2>1. ASSUME NEW n \in stopping, Forget(n), stopping' = {}
        PROVE  /\ Managed' \subseteq Managed
               /\ \A m \in stopping : m \in stopping' \/ m \notin Managed'
    BY <2>1 DEF Forget, OneStop
  <2>2. ASSUME NEW n \in Name, StopDone(n) \/ StopTimeout(n)
        PROVE  n \in stopping /\ Forget(n) /\ stopping' = {}
    BY <2>2 DEF StopDone, StopTimeout
  <2>3. ASSUME NEW p \in Pid, Exit(p) \/ CrashProcess(p) \/ KillCancelled(p) \/ WaitReturns(p)
        PROVE  UNCHANGED <<services, stopping>>
    BY <2>3 DEF Exit, CrashProcess, KillCancelled, WaitReturns
  <2>4. ASSUME NEW p \in Pid, NEW q \in Pid, Fork(p, q)
        PROVE  UNCHANGED <<services, stopping>>
    BY <2>4 DEF Fork
  <2> QED BY <1>1, <1>5, <2>1, <2>2, <2>3, <2>4 DEF Background
<1>6. CASE UNCHANGED vars
  BY <1>1, <1>6 DEF vars
<1> QED BY <1>3, <1>4, <1>5, <1>6 DEF Next, Environment


LEMMA ToStopKeeps ==
    ASSUME Kept, TodoType, ToStop, [Next]_vars
    PROVE  ToStop'
<1> SUFFICES ASSUME scenario' = "cascading_failure", NEW n \in Managed' \cap Range(CascadeOrder)
             PROVE  n \in stopping' \/ \E i \in DOMAIN todo' : todo'[i] = n
  BY DEF ToStop
<1>1. CASE scenario = "none"
  <2>1. RunCascadingFailure
    <3>1. CASE TestStep \/ Environment(Background) \/ UNCHANGED vars
      BY <1>1, <3>1, OthersLeaveScenario DEF vars, chaosVars
    <3>2. CASE EngineStep
      BY <1>1, <3>2 DEF EngineStep, RunStopping, RunSignalling, RunWaiting,
         RunServiceKill, NextVictim, StopNext, Finish, Begin
    <3> QED BY <3>1, <3>2 DEF Next
  <2>2. todo' = CascadeOrder /\ Managed' = Managed
    BY <2>1 DEF RunCascadingFailure, Begin, serviceVars, managerVars, Managed
  <2>3. n \in {"ingestion", "s2_processor", "s3_api", "s4_cluster"}
    BY Orders
  <2> QED BY <2>2, <2>3 DEF CascadeOrder
<1>2. CASE scenario # "none"
  <2>1. Managed' \subseteq Managed /\ (n \in stopping => n \in stopping')
    BY <1>2, ManagedShrinks
  <2>2. CASE StopNext
    <3>1. scenario = "cascading_failure" /\ todo # <<>> /\ stopping = {} /\ todo' = Tail(todo)
      BY <2>2 DEF StopNext
    <3>2. PICK i \in DOMAIN todo : todo[i] = n
      BY <2>1, <3>1 DEF ToStop
    <3>3. CASE i = 1
      <4>1. Head(todo) = n /\ n \in Managed
        BY <2>1, <3>2, <3>3
      <4>2. BeginStop(n)
        BY <2>2, <4>1 DEF StopNext
      <4> QED BY <4>2 DEF BeginStop
    <3>4. CASE i # 1
      <4>1. i - 1 \in DOMAIN Tail(todo) /\ Tail(todo)[i - 1] = n
        BY <3>1, <3>2, <3>4 DEF TodoType
      <4> QED BY <3>1, <4>1
    <3> QED BY <3>3, <3>4
  <2>3. CASE ~StopNext
    <3>1. UNCHANGED <<scenario, todo>>
      <4>1. CASE TestStep \/ Environment(Background) \/ UNCHANGED vars
        BY <4>1, OthersLeaveScenario DEF vars, chaosVars
      <4>2. CASE EngineStep
        <5>1. ASSUME NEW s, NEW list, Begin(s, list) PROVE FALSE
          BY <1>2, <5>1 DEF Begin, Idle
        <5>2. CASE NextVictim \/ Finish
          BY <5>2 DEF NextVictim, Finish
        <5> QED BY <2>3, <4>2, <5>1, <5>2 DEF EngineStep, RunStopping, RunSignalling, RunWaiting,
                RunCascadingFailure, RunServiceKill
      <4> QED BY <4>1, <4>2 DEF Next
    <3> QED BY <2>1, <3>1 DEF ToStop
  <2> QED BY <2>2, <2>3
<1> QED BY <1>1, <1>2

LEMMA CascadeStep ==
    ASSUME Kept, ToStop, [Next]_vars, scenario = "cascading_failure", scenario' = "none",
           NEW p \in Child, proc[p] \in {"running", "terming"}
    PROVE  \E n \in Managed \ Range(CascadeOrder) : services[n] = p
<1>1. Finish
  <2>1. CASE TestStep \/ Environment(Background) \/ UNCHANGED vars
    BY <2>1, OthersLeaveScenario DEF vars, chaosVars
  <2>2. CASE EngineStep
    <3>1. ASSUME NEW s, NEW list, Begin(s, list) PROVE FALSE
      BY <3>1 DEF Begin, Idle
    <3>2. ~NextVictim /\ ~StopNext
      BY DEF NextVictim, StopNext
    <3> QED BY <2>2, <3>1, <3>2 DEF EngineStep, RunStopping, RunSignalling, RunWaiting,
            RunCascadingFailure, RunServiceKill
  <2> QED BY <2>1, <2>2 DEF Next
<1>2. todo = <<>> /\ stopping = {}
  BY <1>1 DEF Finish
<1>3. Managed \cap Range(CascadeOrder) = {}
  BY <1>2 DEF ToStop
<1> QED BY <1>3 DEF Kept, UnmanagedIsDoomed, Managing

\* Whatever the services are called, and whatever dies, is killed or is stopped
\* meanwhile, a cascade that returns has left no child of a service it lists
\* without a SIGKILL (engineer.go:195-221).
THEOREM CascadesEndTheListed == Spec => CascadeEndsListed
<1>1. Init => ToStop /\ TodoType
  BY DEF Init, ToStop, TodoType
<1>2. Kept /\ TodoType /\ [Next]_vars => TodoType'
  BY TodoKeeps
<1>3. Kept /\ TodoType /\ ToStop /\ [Next]_vars => ToStop'
  BY ToStopKeeps
<1>4. Kept /\ ToStop /\ [Next]_vars
        => [scenario = "cascading_failure" /\ scenario' = "none" =>
              \A p \in Child : proc[p] \in {"running", "terming"} =>
                 \E n \in Managed \ Range(CascadeOrder) : services[n] = p]_vars
  BY CascadeStep
<1> QED BY <1>1, <1>2, <1>3, <1>4, AlwaysKept, PTL DEF Spec, CascadeEndsListed

-----------------------------------------------------------------------------
(* Types of the test and the engineer. *)

TestTypes ==
    /\ phase \in {"test", "teardown", "over"}
    /\ scenario \in Scenario \cup Action \cup {"none"}
    /\ outcome \in {"none", "ok", "cancelled"}
    /\ runs \in 0 .. Runs

LEMMA TestTypesKeep ==
    ASSUME TestTypes, [Next]_vars
    PROVE  TestTypes'
<1> USE DEF TestTypes, chaosVars
<1>1. CASE TestStep
  <2>1. phase' \in {phase, "teardown", "over"}
    BY <1>1 DEF TestStep, TestStart, TestStop, TestSignal, StopAllNext, Deadline, BeginTeardown, StopAllReturns
  <2>2. UNCHANGED <<scenario, outcome, runs>>
    BY <1>1 DEF TestStep, TestStart, TestStop, TestSignal, StopAllNext, Deadline, BeginTeardown, StopAllReturns
  <2> QED BY <2>1, <2>2
<1>2. ASSUME NEW s \in Scenario \cup Action, NEW list, Begin(s, list)
      PROVE  TestTypes'
  BY <1>2, RunsAssumption DEF Begin
<1>3. ASSUME NEW s \in Scenario \cup Action,
             (\E n \in Name : RunStopping(s, n) \/ RunSignalling(s, n)) \/ RunWaiting(s)
      PROVE  TestTypes'
  BY <1>2, <1>3 DEF RunStopping, RunSignalling, RunWaiting
<1>4. CASE RunCascadingFailure \/ RunServiceKill
  BY <1>2, <1>4 DEF RunCascadingFailure, RunServiceKill, Scenario
<1>5. CASE NextVictim \/ StopNext \/ Finish
  BY <1>5 DEF NextVictim, StopNext, Finish
<1>6. CASE Environment(Background) \/ UNCHANGED vars
  BY <1>6 DEF Environment, vars
<1> QED BY <1>1, <1>3, <1>4, <1>5, <1>6 DEF Next, EngineStep

LEMMA TypesSuffice == Kept /\ TodoType /\ TestTypes => TypeOK
<1> SUFFICES ASSUME Kept, TodoType, TestTypes PROVE TypeOK
  OBVIOUS
<1>1. services \in UNION {[M -> Pid] : M \in SUBSET Name}
  BY DEF Kept, ManagerTypes
<1>2. Cardinality(stopping) <= 1
  <2>1. CASE stopping = {}
    BY <2>1, FS_EmptySet
  <2>2. CASE stopping # {}
    <3>1. PICK n \in stopping : stopping = {n}
      BY <2>2 DEF Kept, OneStop
    <3>2. Cardinality({n}) = 1
      BY FS_Singleton
    <3> QED BY <3>1, <3>2
  <2> QED BY <2>1, <2>2
<1>3. todo \in Seq(Name \cup Range(KillOrder))
  BY DEF TodoType
<1>4. /\ proc \in [Pid -> ProcState]
      /\ forking \subseteq Pid /\ detached \subseteq Pid
      /\ stopping \subseteq Managed
      /\ waiting \subseteq Pid /\ sending \subseteq Pid
      /\ cancelled \in BOOLEAN /\ crashed \in 0 .. Crashes
  BY DEF Kept, ManagerTypes
<1> QED BY <1>1, <1>2, <1>3, <1>4 DEF TypeOK, TestTypes

\* Types: one process for a name, and at most one Stop (manager.go:40-50).
THEOREM TypeCorrect == Spec => []TypeOK
<1>1. Init => TodoType /\ TestTypes
  BY RunsAssumption DEF Init, TodoType, TestTypes
<1>2. Kept /\ TodoType /\ [Next]_vars => TodoType'
  BY TodoKeeps
<1>3. TestTypes /\ [Next]_vars => TestTypes'
  BY TestTypesKeep
<1> QED BY <1>1, <1>2, <1>3, TypesSuffice, AlwaysKept, PTL DEF Spec
==============================================================================
