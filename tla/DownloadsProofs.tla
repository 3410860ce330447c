--------------------------- MODULE DownloadsProofs ---------------------------
(***************************************************************************)
(* Theorems about Downloads, for any stations, workers, limit and bounds.  *)
(***************************************************************************)
EXTENDS Downloads, FiniteSetTheorems, TLAPS

-----------------------------------------------------------------------------
(* Types. *)

LEMMA GoesTypes ==
    ASSUME TypeOK, NEW w \in Worker, NEW p \in Place, NEW d \in File, Goes(w, p, d)
    PROVE  at' \in [Worker -> Place] /\ records' \in [Worker -> File]
BY DEF TypeOK, Goes

LEMMA ReportsTypes ==
    ASSUME TypeOK, NEW w \in Worker, NEW s \in Station, NEW r \in {"ok", "error"}, Reports(w, s, r)
    PROVE  /\ at' \in [Worker -> Place] /\ records' \in [Worker -> File]
           /\ station' \in [Worker -> SUBSET Station]
           /\ result' \in [Station -> {"none", "ok", "error"}]
<1>1. "idle" \in Place /\ "none" \in File
  BY DEF Place, File
<1>2. Goes(w, "idle", "none")
  BY DEF Reports
<1>3. at' \in [Worker -> Place] /\ records' \in [Worker -> File]
  BY <1>1, <1>2, GoesTypes
<1> QED BY <1>3 DEF TypeOK, Reports

LEMMA FaultTypes ==
    ASSUME TypeOK, Fault \/ Trouble \/ UNCHANGED faults
    PROVE  faults' \in 0 .. Faults
BY DownloadsAssumption DEF TypeOK, Fault, Trouble

\* What a step that only moves worker w, or lets it report, leaves well typed.
LEMMA WorkerTypes ==
    ASSUME TypeOK,
           UNCHANGED <<mainVars, cancelled, listFile, run>>,
           queue' \subseteq queue,
           at' \in [Worker -> Place], records' \in [Worker -> File],
           station' \in [Worker -> SUBSET Station],
           result' \in [Station -> {"none", "ok", "error"}],
           tokens' \in 0 .. 1, UNCHANGED ticks, requests' \in Nat,
           cacheFile' \in [Station -> File], outFile' \in [Station -> File],
           faults' \in 0 .. Faults
    PROVE  TypeOK'
BY DEF TypeOK, mainVars

LEMMA LoadTypes ==
    ASSUME TypeOK, NEW list \in SUBSET Station, LoadStations(list),
           listFile' \in {"none", "whole"}, faults' \in 0 .. Faults
    PROVE  TypeOK'
<1>1. PICK found \in Selections(list) :
         /\ listed' = list /\ selected' = found /\ queue' = found
         /\ main' = IF found = {} THEN "returned" ELSE "download"
         /\ at' = IF found = {} THEN at ELSE [w \in Worker |-> "idle"]
  BY DEF LoadStations
<1>2. found \subseteq list
  BY DEF Selections
<1>3. main' \in Main /\ at' \in [Worker -> Place]
  BY <1>1 DEF TypeOK, Main, Place
<1>4. UNCHANGED <<station, records, result, cacheEnabled, limiter, cancelled, cacheFile, outFile, run>>
  BY DEF LoadStations
<1> QED BY <1>1, <1>2, <1>3, <1>4 DEF TypeOK, limiter

LEMMA NewRunTypes ==
    ASSUME TypeOK, RunAgain
    PROVE  TypeOK'
<1>1. NewRun /\ run < Runs /\ run' = run + 1 /\ UNCHANGED <<disk, faults>>
  BY DEF RunAgain
<1>2. main' \in Main /\ at' \in [Worker -> Place] /\ records' \in [Worker -> File]
  BY <1>1 DEF NewRun, Main, Place, File
<1>3. cacheEnabled' \in BOOLEAN
  BY <1>1, DownloadsAssumption DEF NewRun
<1>4. run' \in 1 .. Runs
  BY <1>1, DownloadsAssumption DEF TypeOK
<1>5. tokens' \in 0 .. 1 /\ ticks' \in 0 .. MaxTicks /\ requests' \in Nat
  BY <1>1, DownloadsAssumption DEF NewRun
<1> QED BY <1>1, <1>2, <1>3, <1>4, <1>5 DEF TypeOK, NewRun, disk

LEMMA ListsAreStations ==
    /\ ParsedStations(SavedWidth) \in SUBSET Station
    /\ ParsedStations(ServerWidth) \in SUBSET Station
BY DEF ParsedStations

-----------------------------------------------------------------------------
LEMMA WorkerKeepsTypes ==
    ASSUME TypeOK, NEW w \in Worker, Working(w)
    PROVE  TypeOK'
<1> USE DEF mainVars, limiter, workers, disk
<1>0. /\ {"none", "empty", "cut", "whole"} \subseteq File
      /\ {"idle", "lookup", "wait", "request", "copy", "parse", "spin", "write", "done"} \subseteq Place
  BY DEF File, Place
<1>1. CASE TakeStation(w)
  <2>1. \/ Goes(w, "done", "none") /\ UNCHANGED <<queue, station>>
        \/ /\ Goes(w, "lookup", "none")
           /\ \E s \in queue : queue' = queue \ {s} /\ station' = [station EXCEPT ![w] = {s}]
    BY <1>1 DEF TakeStation
  <2>2. at' \in [Worker -> Place] /\ records' \in [Worker -> File]
    BY <1>0, <2>1, GoesTypes
  <2>3. queue' \subseteq queue /\ station' \in [Worker -> SUBSET Station]
    BY <2>1 DEF TypeOK
  <2>4. UNCHANGED <<mainVars, result, limiter, cancelled, disk, run, faults>>
    BY <1>1 DEF TakeStation
  <2> QED BY <2>2, <2>3, <2>4, WorkerTypes DEF TypeOK
<1>2. CASE WaitForToken(w)
  <2>1. /\ Goes(w, "request", "none")
        /\ tokens > 0 /\ tokens' = tokens - 1 /\ requests' = requests + 1
        /\ UNCHANGED <<mainVars, queue, station, result, ticks, cancelled, disk, run, faults>>
    BY <1>2 DEF WaitForToken
  <2>2. at' \in [Worker -> Place] /\ records' \in [Worker -> File]
    BY <1>0, <2>1, GoesTypes
  <2>3. tokens' \in 0 .. 1 /\ requests' \in Nat
    BY <2>1 DEF TypeOK
  <2> QED BY <2>1, <2>2, <2>3, WorkerTypes DEF TypeOK
<1>3. ASSUME NEW s \in Station, LookUp(w, s) \/ Respond(w, s) \/ Copy(w, s) \/ Parse(w, s) \/ WriteCSV(w, s)
      PROVE  TypeOK'
  <2>1. /\ UNCHANGED <<mainVars, queue, limiter, cancelled, listFile, run>>
        /\ cacheFile' \in [Station -> File] /\ outFile' \in [Station -> File]
    <3>1. CASE LookUp(w, s)
      BY <3>1 DEF LookUp, TypeOK
    <3>2. CASE Respond(w, s)
      BY <1>0, <3>2 DEF Respond, TypeOK
    <3>3. CASE Copy(w, s)
      BY <1>0, <3>3 DEF Copy, TypeOK
    <3>4. CASE Parse(w, s)
      BY <3>4 DEF Parse, TypeOK
    <3>5. CASE WriteCSV(w, s)
      BY <1>0, <3>5 DEF WriteCSV, TypeOK
    <3> QED BY <1>3, <3>1, <3>2, <3>3, <3>4, <3>5
  <2>2. Fault \/ Trouble \/ UNCHANGED faults
    BY <1>3 DEF LookUp, Respond, Copy, Parse, WriteCSV
  <2>3. \/ \E p \in Place, d \in File : Goes(w, p, d) /\ UNCHANGED <<station, result>>
        \/ \E r \in {"ok", "error"} : Reports(w, s, r)
        \/ UNCHANGED <<at, records, station, result>>
    <3>1. CASE LookUp(w, s)
      BY <1>0, <3>1 DEF LookUp, Fails, TypeOK
    <3>2. CASE Respond(w, s)
      BY <1>0, <3>2 DEF Respond, Fails
    <3>3. CASE Copy(w, s)
      BY <1>0, <3>3 DEF Copy, Fails
    <3>4. CASE Parse(w, s)
      BY <1>0, <3>4 DEF Parse, Fails
    <3>5. CASE WriteCSV(w, s)
      BY <1>0, <3>5 DEF WriteCSV, Fails
    <3> QED BY <1>3, <3>1, <3>2, <3>3, <3>4, <3>5
  <2>4. faults' \in 0 .. Faults
    BY <2>2, FaultTypes
  <2>5. /\ at' \in [Worker -> Place] /\ records' \in [Worker -> File]
        /\ station' \in [Worker -> SUBSET Station]
        /\ result' \in [Station -> {"none", "ok", "error"}]
    BY <2>3, GoesTypes, ReportsTypes DEF TypeOK
  <2> QED BY <2>1, <2>4, <2>5, WorkerTypes DEF TypeOK
<1> QED BY <1>1, <1>2, <1>3 DEF Working, WorkerStep

LEMMA TypeInductive ==
    ASSUME TypeOK, [Next]_vars
    PROVE  TypeOK'
<1> USE DownloadsAssumption DEF mainVars, limiter, workers, disk
<1>1. ASSUME NEW w \in Worker, Working(w) PROVE TypeOK'
  BY <1>1, WorkerKeepsTypes
<1>2. CASE NewRateLimiter
  <2>1. tokens < 1
    BY <1>2 DEF NewRateLimiter, Capacity
  <2> QED BY <1>2, <2>1 DEF NewRateLimiter, TypeOK, Main
<1>3. CASE ListFromCache
  <2>1. LoadStations(ParsedStations(SavedWidth)) /\ UNCHANGED <<listFile, faults>>
    BY <1>3 DEF ListFromCache
  <2> QED BY <2>1, ListsAreStations, LoadTypes DEF TypeOK
<1>4. CASE ListFromServer
  <2>1. /\ LoadStations(ParsedStations(ServerWidth))
        /\ listFile' \in {"none", "whole"}
        /\ Fault \/ UNCHANGED faults
    BY <1>4 DEF ListFromServer, TypeOK
  <2>2. faults' \in 0 .. Faults
    BY <2>1, FaultTypes
  <2> QED BY <2>1, <2>2, ListsAreStations, LoadTypes
<1>5. CASE ListFails
  <2>1. faults' \in 0 .. Faults
    BY <1>5, FaultTypes DEF ListFails
  <2> QED BY <1>5, <2>1 DEF ListFails, TypeOK, Main
<1>6. CASE Return
  BY <1>6 DEF Return, TypeOK, Main
<1>7. CASE Tick
  <2>1. tokens < 1 /\ ticks < MaxTicks /\ tokens' = tokens + 1 /\ ticks' = ticks + 1
    BY <1>7 DEF Tick, Capacity
  <2> QED BY <1>7, <2>1 DEF Tick, TypeOK
<1>8. CASE Interrupt
  BY <1>8 DEF Interrupt, TypeOK
<1>9. CASE KillRun
  BY <1>9 DEF KillRun, TypeOK, Main
<1>10. CASE RunAgain
  BY <1>10, NewRunTypes
<1>11. CASE UNCHANGED vars
  BY <1>11 DEF vars, TypeOK
<1> QED BY <1>1, <1>2, <1>3, <1>4, <1>5, <1>6, <1>7, <1>8, <1>9, <1>10, <1>11 DEF Next, MainStep

LEMMA TypeInitially == Init => TypeOK
<1> SUFFICES ASSUME Init PROVE TypeOK
  OBVIOUS
<1>1. main \in Main /\ at \in [Worker -> Place] /\ records \in [Worker -> File]
  BY DEF Init, Main, Place, File
<1>2. cacheFile \in [Station -> File] /\ outFile \in [Station -> File]
  BY DEF Init, File
<1>3. tokens \in 0 .. 1 /\ ticks \in 0 .. MaxTicks /\ requests \in Nat /\ run \in {1} /\ faults \in 0 .. Faults
  BY DownloadsAssumption DEF Init
<1>4. selected \subseteq listed /\ queue \subseteq selected /\ listed \subseteq Station
  BY DEF Init
<1>5. station \in [Worker -> SUBSET Station] /\ result \in [Station -> {"none", "ok", "error"}]
  BY DEF Init
<1>6. cacheEnabled \in BOOLEAN /\ cancelled \in BOOLEAN /\ listFile \in {"none", "whole"}
  BY DownloadsAssumption DEF Init
<1> QED BY <1>1, <1>2, <1>3, <1>4, <1>5, <1>6 DEF TypeOK

\* Types, for any stations, workers and bounds (noaa.go:404-717).
THEOREM TypeCorrect == Spec => []TypeOK
<1>1. TypeOK /\ [Next]_vars => TypeOK'
  BY TypeInductive
<1> QED BY TypeInitially, <1>1, PTL DEF Spec

-----------------------------------------------------------------------------
(* The rate limiter: every request has used up a token of the ticker, or the  *)
(* one NewRateLimiter sends.                                                   *)

Budget == requests + tokens <= ticks + (IF main = "limiter" THEN 0 ELSE 1)

LEMMA BudgetKept ==
    ASSUME TypeOK, Budget, [Next]_vars
    PROVE  Budget'
<1> USE DEF mainVars, limiter, workers, disk
<1>1. CASE Tick
  BY <1>1 DEF Tick, TypeOK, Budget
<1>2. CASE NewRateLimiter
  BY <1>2 DEF NewRateLimiter, TypeOK, Budget
<1>3. CASE RunAgain
  BY <1>3 DEF RunAgain, NewRun, Budget
<1>4. ASSUME NEW w \in Worker, WaitForToken(w)
      PROVE  Budget'
  BY <1>4 DEF WaitForToken, TypeOK, Budget
<1>5. ASSUME UNCHANGED limiter, main' # "limiter" \/ main' = main
      PROVE  Budget'
  BY <1>5 DEF TypeOK, Budget
<1>6. CASE ListFromCache \/ ListFromServer
  BY <1>5, <1>6 DEF ListFromCache, ListFromServer, LoadStations
<1>7. CASE ListFails \/ Return \/ Interrupt \/ KillRun \/ UNCHANGED vars
  BY <1>5, <1>7 DEF ListFails, Return, Interrupt, KillRun, vars
<1>8. ASSUME NEW w \in Worker, Working(w), ~WaitForToken(w)
      PROVE  Budget'
  BY <1>5, <1>8 DEF Working, WorkerStep, TakeStation, LookUp, Respond, Copy, Parse, WriteCSV
<1> QED BY <1>1, <1>2, <1>3, <1>4, <1>6, <1>7, <1>8 DEF Next, MainStep

\* However many workers there are, they send at most one request more than the
\* ticker has put tokens in (noaa.go:31-76).
THEOREM RateLimiterHolds == Spec => []RateLimited
<1>1. Init => Budget
  BY DEF Init, Budget
<1>2. TypeOK /\ Budget => RateLimited
  BY DEF TypeOK, Budget, RateLimited
<1>3. TypeOK /\ Budget /\ [Next]_vars => Budget'
  BY BudgetKept
<1> QED BY <1>1, <1>2, <1>3, TypeCorrect, PTL DEF Spec

-----------------------------------------------------------------------------
(* What becomes of the stations. *)

Busy == {"lookup", "wait", "request", "copy", "parse", "spin", "write"}

\* Before the list is there, nobody has any station.
Unlisted ==
    main \in {"limiter", "list"} =>
       /\ selected = {} /\ queue = {}
       /\ at = [w \in Worker |-> "none"]
       /\ station = [w \in Worker |-> {}]
       /\ result = [s \in Station |-> "none"]

\* A worker holds a station exactly while it is busy with it.
Held ==
    \A w \in Worker :
       IF at[w] \in Busy THEN \E s \in selected : station[w] = {s}
                        ELSE station[w] = {}

\* A selected station is somewhere, and in one place only.
Somewhere(s) ==
    s \in queue \/ result[s] # "none" \/ \E w \in Worker : Holding(w, s)

Apart(s) ==
    /\ s \in queue => result[s] = "none"
    /\ s \in queue \/ result[s] # "none" => \A w \in Worker : ~Holding(w, s)
    /\ \A v, w \in Worker : Holding(v, s) /\ Holding(w, s) => v = w

\* A worker stops once the channel is empty, the command once all workers have.
Finished ==
    /\ (\E w \in Worker : at[w] = "done") => queue = {}
    /\ main = "returned" => selected = {} \/ \A w \in Worker : at[w] = "done"

Accounts == Unlisted /\ Held /\ Finished /\ \A s \in selected : Somewhere(s) /\ Apart(s)

\* Steps of a busy worker: it goes on, or it reports.
GoesOn(w) ==
    /\ at[w] \in Busy /\ at'[w] \in Busy
    /\ \A v \in Worker \ {w} : at'[v] = at[v]
    /\ UNCHANGED <<main, selected, queue, station, result>>

Delivers(w, s) ==
    /\ at[w] \in Busy /\ at'[w] = "idle" /\ Holding(w, s)
    /\ \A v \in Worker \ {w} : at'[v] = at[v]
    /\ station' = [station EXCEPT ![w] = {}]
    /\ \E r \in {"ok", "error"} : result' = [result EXCEPT ![s] = r]
    /\ UNCHANGED <<main, selected, queue>>


LEMMA WorkerCases ==
    ASSUME TypeOK, Held, NEW w \in Worker, Working(w)
    PROVE  \/ TakeStation(w)
           \/ GoesOn(w)
           \/ \E s \in Station : Delivers(w, s)
<1> USE DEF mainVars, Busy
<1>1. CASE WaitForToken(w)
  BY <1>1 DEF WaitForToken, Goes, GoesOn, TypeOK
<1>2. ASSUME NEW s \in Station, LookUp(w, s)
      PROVE  GoesOn(w) \/ Delivers(w, s)
  BY <1>2 DEF LookUp, Fails, Reports, Goes, GoesOn, Delivers, TypeOK
<1>3. ASSUME NEW s \in Station, Respond(w, s)
      PROVE  GoesOn(w) \/ Delivers(w, s)
  BY <1>3 DEF Respond, Fails, Reports, Goes, GoesOn, Delivers, TypeOK
<1>4. ASSUME NEW s \in Station, Copy(w, s)
      PROVE  GoesOn(w) \/ Delivers(w, s)
  BY <1>4 DEF Copy, Fails, Reports, Goes, GoesOn, Delivers, TypeOK
<1>5. ASSUME NEW s \in Station, Parse(w, s)
      PROVE  GoesOn(w) \/ Delivers(w, s)
  BY <1>5 DEF Parse, Fails, Reports, Goes, GoesOn, Delivers, TypeOK
<1>6. ASSUME NEW s \in Station, WriteCSV(w, s)
      PROVE  GoesOn(w) \/ Delivers(w, s)
  BY <1>6 DEF WriteCSV, Fails, Reports, Goes, GoesOn, Delivers, TypeOK
<1> QED BY <1>1, <1>2, <1>3, <1>4, <1>5, <1>6 DEF Working, WorkerStep

LEMMA GoesOnAccounts ==
    ASSUME Accounts, NEW w \in Worker, main = "download", GoesOn(w)
    PROVE  Accounts'
<1>1. Unlisted'
  BY DEF GoesOn, Unlisted
<1>2. Held'
  BY DEF Accounts, Held, GoesOn
<1>3. Finished'
  BY DEF Accounts, Finished, GoesOn, Busy
<1>4. ASSUME NEW s \in selected'
      PROVE  Somewhere(s)' /\ Apart(s)'
  BY <1>4 DEF Accounts, GoesOn, Somewhere, Apart, Holding
<1> QED BY <1>1, <1>2, <1>3, <1>4 DEF Accounts

LEMMA DeliversAccounts ==
    ASSUME TypeOK, Accounts, NEW w \in Worker, NEW s \in Station,
           main = "download", Delivers(w, s)
    PROVE  Accounts'
<1>1. Unlisted'
  BY DEF Delivers, Unlisted
<1>2. Held'
  BY DEF Accounts, Held, Delivers, Busy, TypeOK
<1>3. Finished'
  BY DEF Accounts, Finished, Delivers, Busy, TypeOK
<1>4. s \in selected
  BY DEF Accounts, Held, Delivers, Holding
<1>5. /\ \A v \in Worker, r \in Station : Holding(v, r)' <=> Holding(v, r) /\ v # w
      /\ \A r \in Station \ {s} : result'[r] = result[r]
      /\ result'[s] # "none"
  BY DEF Delivers, Holding, TypeOK
<1>6. ASSUME NEW r \in selected'
      PROVE  Somewhere(r)' /\ Apart(r)'
  <2>1. r \in selected /\ r \in Station /\ Somewhere(r) /\ Apart(r) /\ queue' = queue
    BY <1>6 DEF Delivers, Accounts, TypeOK
  <2>2. CASE r = s
    <3>1. \A v \in Worker : ~Holding(v, r)'
      BY <1>5, <2>1, <2>2 DEF Apart, Delivers
    <3>2. r \notin queue
      BY <2>1, <2>2 DEF Apart, Delivers
    <3> QED BY <1>5, <2>1, <2>2, <3>1, <3>2 DEF Somewhere, Apart
  <2>3. CASE r # s
    <3>1. ~Holding(w, r)
      BY <2>3 DEF Delivers, Holding
    <3>2. \A v \in Worker : Holding(v, r)' <=> Holding(v, r)
      BY <1>5, <2>1, <3>1
    <3> QED BY <1>5, <2>1, <2>3, <3>2 DEF Somewhere, Apart
  <2> QED BY <2>2, <2>3
<1> QED BY <1>1, <1>2, <1>3, <1>6 DEF Accounts

LEMMA TakesAccounts ==
    ASSUME TypeOK, Accounts, NEW w \in Worker, TakeStation(w)
    PROVE  Accounts'
<1> USE DEF mainVars
<1>0. main = "download" /\ at[w] = "idle" /\ UNCHANGED <<main, selected, result>>
  BY DEF TakeStation
<1>1. Unlisted'
  BY <1>0 DEF Unlisted
<1>2. station[w] = {}
  BY <1>0 DEF Accounts, Held, Busy
<1>3. CASE queue = {}
  <2>1. UNCHANGED <<queue, station>> /\ at' = [at EXCEPT ![w] = "done"]
    BY <1>3 DEF TakeStation, Goes
  <2>2. Held'
    BY <1>0, <1>2, <2>1 DEF Accounts, Held, Busy, TypeOK
  <2>3. Finished'
    BY <1>0, <1>3, <2>1 DEF Finished
  <2>4. \A s \in selected' : Somewhere(s)' /\ Apart(s)'
    BY <1>0, <2>1 DEF Accounts, Somewhere, Apart, Holding
  <2> QED BY <1>1, <2>2, <2>3, <2>4 DEF Accounts
<1>4. CASE queue # {}
  <2>1. PICK s \in queue :
          queue' = queue \ {s} /\ station' = [station EXCEPT ![w] = {s}]
    BY <1>4 DEF TakeStation
  <2>2. at' = [at EXCEPT ![w] = "lookup"]
    BY <1>4 DEF TakeStation, Goes
  <2>3. s \in selected /\ s \in Station /\ Apart(s)
    BY DEF Accounts, TypeOK
  <2>4. Held'
    BY <1>0, <2>1, <2>2, <2>3 DEF Accounts, Held, Busy, TypeOK
  <2>5. Finished'
    BY <1>0, <1>4, <2>2 DEF Accounts, Finished, TypeOK
  <2>6. ASSUME NEW r \in selected'
        PROVE  Somewhere(r)' /\ Apart(r)'
    <3>1. r \in selected /\ Somewhere(r) /\ Apart(r)
      BY <1>0, <2>6 DEF Accounts
    <3>2. CASE r = s
      <4>1. \A v \in Worker : Holding(v, r)' <=> v = w
        BY <2>1, <2>3, <3>2 DEF Apart, Holding, TypeOK
      <4>2. r \notin queue' /\ result'[r] = "none"
        BY <1>0, <2>1, <2>3, <3>2 DEF Apart
      <4> QED BY <4>1, <4>2 DEF Somewhere, Apart
    <3>3. CASE r # s
      <4>1. \A v \in Worker : Holding(v, r)' <=> Holding(v, r)
        BY <1>2, <2>1, <3>3 DEF Holding, TypeOK
      <4>2. r \in queue' <=> r \in queue
        BY <2>1, <3>3
      <4> QED BY <1>0, <3>1, <4>1, <4>2 DEF Somewhere, Apart
    <3> QED BY <3>2, <3>3
  <2> QED BY <1>1, <2>4, <2>5, <2>6 DEF Accounts
<1> QED BY <1>3, <1>4

LEMMA LoadAccounts ==
    ASSUME TypeOK, Accounts, NEW list \in SUBSET Station, LoadStations(list)
    PROVE  Accounts'
<1>1. PICK found \in Selections(list) :
         /\ selected' = found /\ queue' = found
         /\ main' = IF found = {} THEN "returned" ELSE "download"
         /\ at' = IF found = {} THEN at ELSE [w \in Worker |-> "idle"]
  BY DEF LoadStations
<1>2. /\ station = [w \in Worker |-> {}] /\ result = [s \in Station |-> "none"]
      /\ at = [w \in Worker |-> "none"]
      /\ UNCHANGED <<station, result>>
  BY DEF LoadStations, Accounts, Unlisted
<1>3. found \subseteq Station
  BY DEF Selections
<1>4. Unlisted' /\ Held' /\ Finished'
  BY <1>1, <1>2 DEF Unlisted, Held, Finished, Busy
<1>5. \A s \in selected' : Somewhere(s)' /\ Apart(s)'
  BY <1>1, <1>2, <1>3 DEF Somewhere, Apart, Holding
<1> QED BY <1>4, <1>5 DEF Accounts

LEMMA AccountsKept ==
    ASSUME TypeOK, Accounts, [Next]_vars
    PROVE  Accounts'
<1> USE DEF mainVars, limiter, workers, disk
<1>1. ASSUME NEW w \in Worker, Working(w) PROVE Accounts'
  BY <1>1, WorkerCases, GoesOnAccounts, DeliversAccounts, TakesAccounts DEF Working, Accounts
<1>2. ASSUME UNCHANGED <<selected, queue, at, station, result>>,
             main' = main \/ main' = "killed" \/ (main = "limiter" /\ main' = "list")
      PROVE  Accounts'
  <2>1. Unlisted' /\ Held' /\ Finished'
    BY <1>2 DEF Accounts, Unlisted, Held, Finished
  <2>2. \A s \in selected' : Somewhere(s)' /\ Apart(s)'
    BY <1>2 DEF Accounts, Somewhere, Apart, Holding
  <2> QED BY <2>1, <2>2 DEF Accounts
<1>3. CASE NewRateLimiter \/ Tick \/ Interrupt \/ KillRun \/ UNCHANGED vars
  <2>1. UNCHANGED <<selected, queue, at, station, result>>
    BY <1>3 DEF NewRateLimiter, Tick, Interrupt, KillRun, vars
  <2>2. main' = main \/ main' = "killed" \/ (main = "limiter" /\ main' = "list")
    BY <1>3 DEF NewRateLimiter, Tick, Interrupt, KillRun, vars
  <2> QED BY <1>2, <2>1, <2>2
<1>4. CASE ListFromCache \/ ListFromServer
  <2>1. LoadStations(ParsedStations(SavedWidth)) \/ LoadStations(ParsedStations(ServerWidth))
    BY <1>4 DEF ListFromCache, ListFromServer
  <2> QED BY <2>1, ListsAreStations, LoadAccounts
<1>5. ASSUME ListFails \/ Return
      PROVE  Accounts'
  <2>1. /\ UNCHANGED <<selected, queue, at, station, result>>
        /\ main' = "returned"
        /\ main = "list" \/ \A w \in Worker : at[w] = "done"
    BY <1>5 DEF ListFails, Return
  <2>2. Unlisted' /\ Held' /\ Finished'
    BY <2>1 DEF Accounts, Unlisted, Held, Finished
  <2>3. \A s \in selected' : Somewhere(s)' /\ Apart(s)'
    BY <2>1 DEF Accounts, Somewhere, Apart, Holding
  <2> QED BY <2>2, <2>3 DEF Accounts
<1>6. CASE RunAgain
  BY <1>6 DEF RunAgain, NewRun, Accounts, Unlisted, Held, Finished, Busy
<1> QED BY <1>1, <1>3, <1>4, <1>5, <1>6 DEF Next, MainStep

LEMMA AccountsSuffice == TypeOK /\ Accounts => StationsAccounted
<1> SUFFICES ASSUME TypeOK, Accounts PROVE StationsAccounted
  OBVIOUS
<1>1. ASSUME NEW s \in selected
      PROVE  LET holders == {w \in Worker : Holding(w, s)} IN
             \/ s \in queue /\ result[s] = "none" /\ holders = {}
             \/ s \notin queue /\ result[s] = "none" /\ \E w \in Worker : holders = {w}
             \/ s \notin queue /\ result[s] # "none" /\ holders = {}
  <2>1. Somewhere(s) /\ Apart(s)
    BY DEF Accounts
  <2>2. CASE \E w \in Worker : Holding(w, s)
    BY <2>1, <2>2 DEF Apart
  <2>3. CASE ~\E w \in Worker : Holding(w, s)
    BY <2>1, <2>3 DEF Somewhere, Apart
  <2> QED BY <2>2, <2>3
<1>2. ASSUME main = "returned", Worker # {}, NEW s \in selected
      PROVE  result[s] # "none"
  <2>1. queue = {} /\ \A w \in Worker : station[w] = {}
    BY <1>2 DEF Accounts, Finished, Held, Busy
  <2> QED BY <2>1 DEF Accounts, Somewhere, Holding
<1> QED BY <1>1, <1>2 DEF StationsAccounted

\* Whatever fails, every station that was selected has one result in the end,
\* and until then is in the channel or with one worker (noaa.go:593-675).
THEOREM NoStationLost == Spec => []StationsAccounted
<1>1. Init => Accounts
  BY DEF Init, Accounts, Unlisted, Held, Finished, Busy
<1>2. TypeOK /\ Accounts /\ [Next]_vars => Accounts'
  BY AccountsKept
<1> QED BY <1>1, <1>2, AccountsSuffice, TypeCorrect, PTL DEF Spec

-----------------------------------------------------------------------------
(* The workers serve the stations as WorkPool promises. *)

\* The stations in hand are those that somebody holds.
LEMMA HeldInHand ==
    ASSUME Held
    PROVE  \A s : s \in InHand <=> \E w \in Worker : Holding(w, s)
BY DEF Held, InHand, Holding

\* A worker that holds nothing leaves the others with fewer stations than there are workers.
LEMMA RoomForOne ==
    ASSUME Held, NEW w \in Worker, station[w] = {}
    PROVE  Cardinality(InHand) < Cardinality(Worker)
<1> DEFINE Having == {v \in Worker : station[v] # {}}
           of(v) == CHOOSE s : station[v] = {s}
           f == [v \in Having |-> of(v)]
<1>1. \A v \in Having : station[v] = {of(v)}
  BY DEF Held
<1> HIDE DEF of
<1>2. InHand \in SUBSET {f[v] : v \in Having} /\ \A v \in Having : f[v] \in InHand
  BY <1>1 DEF InHand
<1>3. f \in Surjection(Having, InHand)
  BY <1>2 DEF Surjection
<1>4. /\ IsFiniteSet(Worker) /\ IsFiniteSet(Worker \ {w}) /\ Having \in SUBSET (Worker \ {w})
      /\ Cardinality(Worker \ {w}) = Cardinality(Worker) - 1
  BY DownloadsAssumption, FS_RemoveElement
<1> HIDE DEF f, Having
<1>5. IsFiniteSet(Having) /\ Cardinality(Having) <= Cardinality(Worker \ {w})
  BY <1>4, FS_Subset
<1>6. IsFiniteSet(InHand) /\ Cardinality(InHand) <= Cardinality(Having)
  BY <1>3, <1>5, FS_Surjection
<1> QED BY <1>4, <1>5, <1>6, FS_CardinalityType

Answered == {s \in Station : result[s] # "none"}

\* The instance counts as this module does.
LEMMA SameCardinality == \A S : Pool!Cardinality(S) = Cardinality(S)
BY DEF Pool!Cardinality, Cardinality

LEMMA TakesServes ==
    ASSUME TypeOK, Accounts, NEW w \in Worker, TakeStation(w)
    PROVE  [Pool!Next]_(Pool!vars)
<1> USE DEF mainVars
<1>1. main = "download" /\ main' = main /\ at[w] = "idle" /\ UNCHANGED result
  BY DEF TakeStation
<1>2. Phase = "open" /\ Phase' = Phase /\ Answered' = Answered
  BY <1>1 DEF Phase, Answered
<1>3. Held /\ Held' /\ station[w] = {}
  BY <1>1, TakesAccounts DEF Accounts, Held, Busy
<1>4. CASE queue = {}
  <2>1. UNCHANGED <<queue, station>>
    BY <1>4 DEF TakeStation
  <2>2. InHand' = InHand
    BY <2>1 DEF InHand
  <2> QED BY <1>2, <2>1, <2>2 DEF Pool!vars, Answered
<1>5. CASE queue # {}
  <2>1. PICK s \in queue : queue' = queue \ {s} /\ station' = [station EXCEPT ![w] = {s}]
    BY <1>5 DEF TakeStation
  <2>2. s \in Station
    BY DEF TypeOK
  <2>3. \A r : (\E v \in Worker : Holding(v, r)') <=> r = s \/ \E v \in Worker : Holding(v, r)
    BY <1>3, <2>1 DEF Holding, TypeOK
  <2>4. InHand' = InHand \cup {s}
    <3>1. \A r : r \in InHand' <=> \E v \in Worker : Holding(v, r)'
      BY <1>3 DEF Held, InHand, Holding
    <3>2. \A r : r \in InHand' <=> r \in InHand \cup {s}
      BY <1>3, <2>3, <3>1, HeldInHand
    <3> QED BY <3>2
  <2>5. Cardinality(InHand) < Cardinality(Worker)
    BY <1>3, RoomForOne
  <2>6. Pool!Take(s)
    BY <1>2, <2>1, <2>4, <2>5, SameCardinality DEF Pool!Take, Answered
  <2> QED BY <2>2, <2>6 DEF Pool!Next
<1> QED BY <1>4, <1>5

LEMMA DeliversServes ==
    ASSUME TypeOK, Accounts, Accounts', NEW w \in Worker, NEW s \in Station,
           main = "download", Delivers(w, s)
    PROVE  Pool!Next
<1>1. /\ Holding(w, s) /\ station' = [station EXCEPT ![w] = {}]
      /\ UNCHANGED <<main, queue>>
  BY DEF Delivers
<1>2. PICK r \in {"ok", "error"} : result' = [result EXCEPT ![s] = r]
  BY DEF Delivers
<1>3. s \in selected /\ at[w] \in Busy
  BY <1>1 DEF Accounts, Held, Holding
<1>4. Apart(s) /\ Held /\ Held'
  BY <1>3 DEF Accounts
<1>5. result[s] = "none" /\ \A v \in Worker : Holding(v, s) => v = w
  BY <1>1, <1>4 DEF Apart, TypeOK
<1>6. \A x : (\E v \in Worker : Holding(v, x)') <=> x # s /\ \E v \in Worker : Holding(v, x)
  BY <1>1, <1>5 DEF Holding, TypeOK
<1>7. InHand' = InHand \ {s} /\ s \in InHand
  <2>1. \A x : x \in InHand' <=> \E v \in Worker : Holding(v, x)'
    BY <1>4 DEF Held, InHand, Holding
  <2>2. \A x : x \in InHand' <=> x \in InHand \ {s}
    BY <1>4, <1>6, <2>1, HeldInHand
  <2> QED BY <1>1, <1>4, <2>2, HeldInHand
<1>8. Answered' = Answered \cup {s} /\ s \notin Answered
  BY <1>2, <1>5 DEF Answered, TypeOK
<1>9. Phase = "open" /\ Phase' = Phase
  BY <1>1 DEF Phase
<1>10. Pool!Answer(s)
  BY <1>1, <1>7, <1>8, <1>9 DEF Pool!Answer, Answered
<1> QED BY <1>10 DEF Pool!Next

\* Every step of the command is one of WorkPool, or none.
LEMMA StepServes ==
    ASSUME TypeOK, Accounts, [Next]_vars
    PROVE  [Pool!Next]_(Pool!vars)
<1> USE DEF mainVars, limiter, workers, disk
<1>1. Accounts'
  BY AccountsKept
<1>2. ASSUME UNCHANGED <<Phase, queue, station, result>>
      PROVE  UNCHANGED Pool!vars
  BY <1>2 DEF Pool!vars, InHand
<1>3. ASSUME NEW w \in Worker, Working(w) PROVE [Pool!Next]_(Pool!vars)
  <2>1. main = "download"
    BY <1>3 DEF Working
  <2>2. CASE GoesOn(w)
    BY <1>2, <2>2 DEF GoesOn, Phase
  <2> QED BY <1>1, <1>3, <2>1, <2>2, WorkerCases, TakesServes, DeliversServes DEF Accounts
<1>4. CASE NewRateLimiter \/ Tick \/ Interrupt \/ UNCHANGED vars
  <2>1. UNCHANGED <<queue, station, result>>
    BY <1>4 DEF NewRateLimiter, Tick, Interrupt, vars
  <2>2. main' = main \/ (main = "limiter" /\ main' = "list")
    BY <1>4 DEF NewRateLimiter, Tick, Interrupt, vars
  <2>3. UNCHANGED Phase
    BY <2>2 DEF Phase
  <2> QED BY <1>2, <2>1, <2>3
<1>5. CASE KillRun
  <2>1. main \in {"limiter", "list", "download"} /\ main' = "killed" /\ UNCHANGED <<queue, station, result>>
    BY <1>5 DEF KillRun
  <2>2. Phase \in {"new", "open"} /\ Phase' = "killed" /\ UNCHANGED <<queue, InHand, Answered>>
    BY <2>1 DEF Phase, InHand, Answered
  <2> QED BY <2>2 DEF Pool!Kill, Pool!Next, Answered
<1>6. CASE ListFromCache \/ ListFromServer
  <2>1. PICK list \in SUBSET Station : LoadStations(list)
    <3>1. LoadStations(ParsedStations(SavedWidth)) \/ LoadStations(ParsedStations(ServerWidth))
      BY <1>6 DEF ListFromCache, ListFromServer
    <3> QED BY <3>1, ListsAreStations
  <2>2. PICK found \in Selections(list) :
           /\ main = "list" /\ queue' = found
           /\ main' = IF found = {} THEN "returned" ELSE "download"
           /\ UNCHANGED <<station, result>>
    BY <2>1 DEF LoadStations
  <2>3. found \in SUBSET Station
    BY <2>2 DEF Selections
  <2>4. /\ Phase = "new" /\ Phase' = IF found = {} THEN "over" ELSE "open"
        /\ UNCHANGED <<InHand, Answered>>
    BY <2>2 DEF Phase, InHand, Answered
  <2>5. Pool!Submit(found)
    BY <2>2, <2>4 DEF Pool!Submit, Answered
  <2> QED BY <2>3, <2>5 DEF Pool!Next
<1>7. CASE ListFails
  <2>1. main = "list" /\ main' = "returned" /\ UNCHANGED <<queue, station, result>>
    BY <1>7 DEF ListFails
  <2>2. queue = {}
    BY <2>1 DEF Accounts, Unlisted
  <2>3. /\ Phase = "new" /\ Phase' = "over" /\ queue' = {}
        /\ UNCHANGED <<InHand, Answered>>
    BY <2>1, <2>2 DEF Phase, InHand, Answered
  <2>4. Pool!Submit({})
    BY <2>3 DEF Pool!Submit, Answered
  <2> QED BY <2>4 DEF Pool!Next
<1>8. CASE Return
  <2>1. /\ main = "download" /\ main' = "returned" /\ UNCHANGED <<queue, station, result>>
        /\ \A w \in Worker : at[w] = "done"
    BY <1>8 DEF Return
  <2>2. Phase = "open" /\ Phase' = "over" /\ UNCHANGED <<queue, InHand, Answered>>
    BY <2>1 DEF Phase, InHand, Answered
  <2>3. Cardinality(Worker) = 0 \/ (queue = {} /\ InHand = {})
    <3>1. CASE Worker = {}
      BY <3>1, FS_EmptySet
    <3>2. CASE Worker # {}
      BY <2>1, <3>2 DEF Accounts, Finished, Held, Busy, InHand
    <3> QED BY <3>1, <3>2
  <2>4. Pool!Finish
    BY <2>2, <2>3 DEF Pool!Finish, Answered
  <2> QED BY <2>4 DEF Pool!Next
<1>9. CASE RunAgain
  <2>1. /\ main \in {"returned", "killed"} /\ main' = "limiter" /\ queue' = {}
        /\ station' = [w \in Worker |-> {}] /\ result' = [s \in Station |-> "none"]
    BY <1>9 DEF RunAgain, NewRun
  <2>2. Phase \in {"over", "killed"} /\ Phase' = "new" /\ InHand' = {} /\ Answered' = {}
    BY <2>1 DEF Phase, InHand, Answered
  <2> QED BY <2>1, <2>2 DEF Pool!Renew, Pool!Next, Answered
<1> QED BY <1>3, <1>4, <1>5, <1>6, <1>7, <1>8, <1>9 DEF Next, MainStep

\* Download implements WorkPool: one answer for every station, from the one worker that
\* took it, and at most --parallel stations at a time (noaa.go:593-675).
THEOREM DownloadServes == Spec => StationsAreServed
<1>1. Init => Accounts
  BY DEF Init, Accounts, Unlisted, Held, Finished, Busy
<1>2. Init => Pool!Init
  <2> SUFFICES ASSUME Init PROVE Pool!Init
    OBVIOUS
  <2>1. Phase = "new" /\ queue = {} /\ InHand = {} /\ Answered = {}
    BY DEF Init, Phase, InHand, Answered
  <2> QED BY <2>1 DEF Pool!Init, Answered
<1>3. TypeOK /\ Accounts /\ [Next]_vars => Accounts'
  BY AccountsKept
<1>4. TypeOK /\ Accounts /\ [Next]_vars => [Pool!Next]_(Pool!vars)
  BY StepServes
<1> QED BY <1>1, <1>2, <1>3, <1>4, TypeCorrect, PTL DEF Spec, StationsAreServed, Pool!Spec

-----------------------------------------------------------------------------
(* The cache: a worker on the way to a request for a station holds it alone,  *)
(* so that nobody completes the copy it has not found.                         *)

Uncached ==
    \A w \in Worker, s \in Station :
       at[w] \in {"wait", "request"} /\ Holding(w, s) /\ cacheEnabled
          => cacheFile[s] \in {"none", "empty"}

\* A step of a worker changes the cached copy only of its own station, and that
\* only when it is not whole or on the way to a request.
LEMMA CopyChanges ==
    ASSUME TypeOK, NEW w \in Worker, Working(w), NEW s \in Station, cacheFile'[s] # cacheFile[s]
    PROVE  /\ Holding(w, s) /\ at'[w] \notin {"wait", "request"}
           /\ \/ cacheFile[s] # "whole"
              \/ at[w] = "request" /\ cacheEnabled
<1> USE DEF Goes, Fails, Reports, TypeOK
<1>1. ~TakeStation(w) /\ ~WaitForToken(w)
  BY DEF TakeStation, WaitForToken, disk
<1>2. PICK r \in Station : LookUp(w, r) \/ Respond(w, r) \/ Copy(w, r) \/ Parse(w, r) \/ WriteCSV(w, r)
  BY <1>1 DEF Working, WorkerStep
<1>3. ~LookUp(w, r) /\ ~Parse(w, r) /\ ~WriteCSV(w, r)
  BY DEF LookUp, Parse, WriteCSV, disk
<1>4. CASE Respond(w, r)
  BY <1>4 DEF Respond
<1>5. CASE Copy(w, r)
  BY <1>5 DEF Copy
<1> QED BY <1>2, <1>3, <1>4, <1>5

LEMMA WorkerKeepsUncached ==
    ASSUME TypeOK, Accounts, Uncached, NEW v \in Worker, Working(v)
    PROVE  Uncached'
<1> SUFFICES ASSUME NEW w \in Worker, NEW s \in Station,
                    at'[w] \in {"wait", "request"}, Holding(w, s)', cacheEnabled'
             PROVE  cacheFile'[s] \in {"none", "empty"}
  BY DEF Uncached
<1> USE DEF mainVars
<1>1. cacheEnabled
  BY DEF Working, WorkerStep, TakeStation, WaitForToken, LookUp, Respond, Copy, Parse, WriteCSV
<1>2. CASE cacheFile'[s] = cacheFile[s]
  <2>1. CASE at[w] \in {"wait", "request"}
    <3>1. Holding(w, s)
      <4>1. \/ TakeStation(v) /\ v # w
            \/ GoesOn(v)
            \/ (\E r \in Station : Delivers(v, r)) /\ v # w
        BY <2>1, WorkerCases DEF Accounts, TakeStation, Delivers
      <4> QED BY <4>1 DEF TakeStation, GoesOn, Delivers, Holding, TypeOK
    <3> QED BY <1>1, <1>2, <2>1, <3>1 DEF Uncached
  <2>2. CASE at[w] \notin {"wait", "request"}
    <3>1. \E r \in Station : LookUp(v, r) /\ v = w
      BY <2>2 DEF Working, WorkerStep, TakeStation, WaitForToken, LookUp, Respond, Copy,
         Parse, WriteCSV, Goes, Reports, Fails, TypeOK
    <3>2. LookUp(w, s) /\ ~Cached(s)
      BY <3>1 DEF LookUp, Goes, Fails, Reports, Holding, TypeOK
    <3> QED BY <1>1, <1>2, <3>2 DEF Cached, TypeOK, File
  <2> QED BY <2>1, <2>2
<1>3. CASE cacheFile'[s] # cacheFile[s]
  <2>1. Holding(v, s) /\ at'[v] \notin {"wait", "request"}
    BY <1>3, CopyChanges
  <2>2. v # w
    BY <2>1
  <2>3. Holding(w, s)
    BY <1>3, <2>2 DEF Working, WorkerStep, TakeStation, WaitForToken, LookUp, Respond, Copy,
       Parse, WriteCSV, Reports, Fails, Holding, TypeOK, disk
  <2>4. s \in selected
    BY <2>3 DEF Accounts, Held, Holding
  <2> QED BY <2>1, <2>2, <2>3, <2>4 DEF Accounts, Apart
<1> QED BY <1>2, <1>3

LEMMA UncachedKept ==
    ASSUME TypeOK, Accounts, Uncached, [Next]_vars
    PROVE  Uncached'
<1> USE DEF mainVars, limiter, workers, disk
<1>1. ASSUME NEW w \in Worker, Working(w) PROVE Uncached'
  BY <1>1, WorkerKeepsUncached
<1>2. CASE NewRateLimiter \/ Tick \/ Interrupt \/ KillRun \/ ListFails \/ Return \/ UNCHANGED vars
  <2>1. UNCHANGED <<at, station, cacheEnabled, cacheFile>>
    BY <1>2 DEF NewRateLimiter, Tick, Interrupt, KillRun, ListFails, Return, vars
  <2> QED BY <2>1 DEF Uncached, Holding
<1>3. CASE ListFromCache \/ ListFromServer
  <2>1. /\ main = "list"
        /\ at' = at \/ at' = [w \in Worker |-> "idle"]
    BY <1>3 DEF ListFromCache, ListFromServer, LoadStations
  <2>2. \A w \in Worker : at'[w] \notin {"wait", "request"}
    BY <2>1 DEF Accounts, Unlisted
  <2> QED BY <2>2 DEF Uncached
<1>4. CASE RunAgain
  BY <1>4 DEF RunAgain, NewRun, Uncached
<1> QED BY <1>1, <1>2, <1>3, <1>4 DEF Next, MainStep

LEMMA WholeStays ==
    ASSUME TypeOK, Accounts, Uncached, [Next]_vars, NEW s \in Station, cacheFile[s] = "whole"
    PROVE  cacheFile'[s] = "whole"
<1>1. ASSUME NEW w \in Worker, Working(w), cacheFile'[s] # cacheFile[s]
      PROVE  FALSE
  BY <1>1, CopyChanges DEF Uncached
<1>2. CASE ~\E w \in Worker : Working(w)
  <2>1. UNCHANGED cacheFile
    BY <1>2 DEF Next, MainStep, NewRateLimiter, ListFromCache, ListFromServer, LoadStations,
       ListFails, Return, Tick, Interrupt, KillRun, RunAgain, vars, disk
  <2> QED BY <2>1
<1> QED BY <1>1, <1>2

\* What the cache has of a station in full is never lost, however runs are
\* interrupted or killed and whatever fails (noaa.go:266-315).
THEOREM CompleteCopiesStay == Spec => CompleteCopyStays
<1>1. Init => Accounts
  BY DEF Init, Accounts, Unlisted, Held, Finished, Busy
<1>2. Init => Uncached
  BY DEF Init, Uncached
<1>3. TypeOK /\ Accounts /\ [Next]_vars => Accounts'
  BY AccountsKept
<1>4. TypeOK /\ Accounts /\ Uncached /\ [Next]_vars => Uncached'
  BY UncachedKept
<1>5. TypeOK /\ Accounts /\ Uncached /\ [Next]_vars
         => [\A s \in Station : cacheFile[s] = "whole" => cacheFile'[s] = "whole"]_vars
  BY WholeStays
<1> QED BY <1>1, <1>2, <1>3, <1>4, <1>5, TypeCorrect, PTL DEF Spec, CompleteCopyStays
=============================================================================
