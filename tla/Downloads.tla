------------------------------ MODULE Downloads ------------------------------
(***************************************************************************)
(* `test-harness retrieve`: src/test-harness/pkg/cmd/retrieve.go and the   *)
(* NOAA client and downloader of pkg/data/noaa.go.                         *)
(*                                                                         *)
(* A run reads the list of stations, hands the ones it selects to workers  *)
(* over a channel and counts their results.  A worker downloads a station, *)
(* by way of the cache if there is one, and writes it out.  The cache and  *)
(* the output directory outlive the run, which may be interrupted (the     *)
(* context is cancelled) or killed.                                        *)
(*                                                                         *)
(* A file is what there is of a station's records: all of them (whole), an *)
(* initial part (cut), or not even the header line (empty).                *)
(***************************************************************************)
EXTENDS Naturals, FiniteSets

CONSTANTS
    Station,     \* the stations of the list
    Worker,      \* the goroutines of --parallel, none if it is 0
    Limit,       \* --limit, which bounds the stations
    CacheModes,  \* the values of --cache
    FirstTick,   \* may the ticker fire before NewRateLimiter has sent a token?
    Runs,        \* bound: runs of the command
    MaxTicks,    \* bound: ticks of one run that find the bucket not full
    Faults       \* bound: refused requests, broken bodies, full disks

ASSUME DownloadsAssumption ==
    /\ Limit \in Nat /\ Runs \in Nat /\ MaxTicks \in Nat /\ Faults \in Nat
    /\ CacheModes \subseteq BOOLEAN /\ FirstTick \in BOOLEAN
    /\ IsFiniteSet(Worker)

VARIABLES
    main,      \* where runRetrieve is
    selected,  \* the stations it hands to the downloader
    queue,     \* those still in stationChan
    at,        \* where each worker is
    station,   \* the stations a worker holds: one at most
    records,   \* what it has of that station
    result,    \* the results sent to resultChan
    tokens,    \* tokens in the bucket of the rate limiter
    ticks,     \* tokens the ticker has put there in this run
    requests,  \* tokens taken, each for one request
    cacheEnabled, \* --cache of this run
    cancelled, \* has the context been cancelled?
    listFile,  \* stations.txt in the cache
    cacheFile, \* <station>.csv in the cache
    outFile,   \* <station>.csv in the output directory
    listed,    \* the stations the last list gave
    run,       \* number of runs begun
    faults     \* number of faults

disk == <<listFile, cacheFile, outFile>>
limiter == <<tokens, ticks, requests>>
workers == <<at, station, records>>
mainVars == <<main, selected, listed, cacheEnabled>>
vars == <<mainVars, queue, workers, result, limiter, cancelled, disk, run, faults>>

File == {"none", "empty", "cut", "whole"}
Main == {"limiter", "list", "download", "returned", "killed"}
Place == {"none", "idle", "lookup", "wait", "request", "copy", "parse", "spin", "write", "done"}

Fault == faults < Faults /\ faults' = faults + 1
\* A step that succeeds, or fails because of a fault or the cancellation.
Trouble == \/ Fault
           \/ cancelled /\ UNCHANGED faults

NewRun ==
    /\ main' = "limiter"
    /\ selected' = {} /\ listed' = {} /\ queue' = {}
    /\ at' = [w \in Worker |-> "none"]
    /\ station' = [w \in Worker |-> {}]
    /\ records' = [w \in Worker |-> "none"]
    /\ result' = [s \in Station |-> "none"]
    /\ tokens' = 0 /\ ticks' = 0 /\ requests' = 0
    /\ cacheEnabled' \in CacheModes /\ cancelled' = FALSE

Init ==
    /\ main = "limiter"
    /\ selected = {} /\ listed = {} /\ queue = {}
    /\ at = [w \in Worker |-> "none"]
    /\ station = [w \in Worker |-> {}]
    /\ records = [w \in Worker |-> "none"]
    /\ result = [s \in Station |-> "none"]
    /\ tokens = 0 /\ ticks = 0 /\ requests = 0
    /\ cacheEnabled \in CacheModes /\ cancelled = FALSE
    /\ listFile = "none"
    /\ cacheFile = [s \in Station |-> "none"]
    /\ outFile = [s \in Station |-> "none"]
    /\ run = 1 /\ faults = 0

-----------------------------------------------------------------------------
(* The rate limiter. *)

Capacity_Two == 2
Capacity == 1

\* refill: the goroutine runs before NewRateLimiter has put the first token
\* in.  A tick that finds the bucket full is dropped.
Tick ==
    /\ main \in {"list", "download"} \cup (IF FirstTick THEN {"limiter"} ELSE {})
    /\ tokens < Capacity /\ ticks < MaxTicks
    /\ tokens' = tokens + 1 /\ ticks' = ticks + 1
    /\ UNCHANGED <<mainVars, queue, workers, result, requests, cancelled, disk, run, faults>>

\* NewRateLimiter sends the initial token: it blocks if the bucket is full.
NewRateLimiter ==
    /\ main = "limiter" /\ tokens < Capacity
    /\ tokens' = tokens + 1
    /\ main' = "list"
    /\ UNCHANGED <<selected, listed, cacheEnabled, queue, workers, result, ticks, requests, cancelled, disk, run, faults>>

-----------------------------------------------------------------------------
(* The list of stations. *)

\* parseStations skips what has less than 85 characters, ids and all.
ParsedStations(width) == IF width < 85 THEN {} ELSE Station

\* A line of ghcnd-stations.txt, and one that saveStationsToCache writes: id,
\* latitude, longitude, elevation, state and name, with a blank between two.
ServerWidth == 85
SavedWidth == 11 + 1 + 8 + 1 + 9 + 1 + 6 + 1 + 2 + 1 + 30

\* What a run may select, by id, country or distance, cut to --limit stations.
Selections(list) == {found \in SUBSET list : Cardinality(found) <= Limit}

\* The command returns if nothing matches or the list cannot be had.
LoadStations(list) == \E found \in Selections(list) :
    /\ main = "list"
    /\ listed' = list
    /\ selected' = found /\ queue' = found
    /\ main' = IF found = {} THEN "returned" ELSE "download"
    /\ at' = IF found = {} THEN at ELSE [w \in Worker |-> "idle"]
    /\ UNCHANGED <<station, records, result, cacheEnabled, limiter, cancelled, cacheFile, outFile, run>>

ListFromCache ==
    /\ cacheEnabled /\ listFile # "none"
    /\ LoadStations(ParsedStations(SavedWidth))
    /\ UNCHANGED <<listFile, faults>>

\* An error of saveStationsToCache is ignored.
ListFromServer ==
    /\ ~(cacheEnabled /\ listFile # "none")
    /\ \/ /\ listFile' = IF cacheEnabled THEN "whole" ELSE listFile
          /\ UNCHANGED faults
       \/ cacheEnabled /\ Fault /\ UNCHANGED listFile
    /\ LoadStations(ParsedStations(ServerWidth))

ListFails ==
    /\ main = "list"
    /\ ~(cacheEnabled /\ listFile # "none")
    /\ Fault
    /\ main' = "returned"
    /\ UNCHANGED <<selected, listed, cacheEnabled, queue, workers, result, limiter, cancelled, disk, run>>

-----------------------------------------------------------------------------
(* A worker. *)

Holding(w, s) == station[w] = {s}

\* Worker w goes to place p with d of its station's records.
Goes(w, p, d) ==
    /\ at' = [at EXCEPT ![w] = p]
    /\ records' = [records EXCEPT ![w] = d]

\* It sends the result r for its station s and takes the next one.
Reports(w, s, r) ==
    /\ Goes(w, "idle", "none")
    /\ station' = [station EXCEPT ![w] = {}]
    /\ result' = [result EXCEPT ![s] = r]

\* A worker that sends nothing when the download failed.
Fails_Silently(w, s) ==
    /\ Goes(w, "idle", "none")
    /\ station' = [station EXCEPT ![w] = {}]
    /\ UNCHANGED result

Fails(w, s) == Reports(w, s, "error")

\* A channel nobody closes.
TakeStation_Unclosed(w) ==
    /\ main = "download" /\ at[w] = "idle"
    /\ \E s \in queue : /\ queue' = queue \ {s}
                        /\ station' = [station EXCEPT ![w] = {s}]
    /\ Goes(w, "lookup", "none")
    /\ UNCHANGED <<mainVars, result, limiter, cancelled, disk, run, faults>>

\* stationChan has been closed: a worker that finds it empty is done.
TakeStation(w) ==
    /\ main = "download" /\ at[w] = "idle"
    /\ IF queue = {}
       THEN /\ Goes(w, "done", "none")
            /\ UNCHANGED <<queue, station>>
       ELSE /\ Goes(w, "lookup", "none")
            /\ \E s \in queue : /\ queue' = queue \ {s}
                                /\ station' = [station EXCEPT ![w] = {s}]
    /\ UNCHANGED <<mainVars, result, limiter, cancelled, disk, run, faults>>

\* A download that never looks at the copy it has.
Cached_Refetch(s) == FALSE

\* A cached copy with a header is taken for the station's data.
Cached(s) == cacheEnabled /\ cacheFile[s] \in {"cut", "whole"}

LookUp(w, s) ==
    /\ at[w] = "lookup" /\ Holding(w, s)
    /\ \/ /\ Cached(s)
          /\ Goes(w, "write", cacheFile[s])
          /\ UNCHANGED <<station, result, faults>>
       \/ /\ ~Cached(s)
          /\ Goes(w, "wait", "none")
          /\ UNCHANGED <<station, result, faults>>
       \/ ~Cached(s) /\ cacheEnabled /\ Fault /\ Fails(w, s) \* not enough space
    /\ UNCHANGED <<mainVars, queue, limiter, cancelled, disk, run>>

\* A Wait that looks for a token and leaves it there.
WaitForToken_Peek(w) ==
    /\ at[w] = "wait" /\ tokens > 0
    /\ requests' = requests + 1
    /\ Goes(w, "request", "none")
    /\ UNCHANGED <<mainVars, queue, station, result, tokens, ticks, cancelled, disk, run, faults>>

\* Wait looks at the bucket only: not at the context, and not at the next tick.
WaitForToken(w) ==
    /\ at[w] = "wait" /\ tokens > 0
    /\ tokens' = tokens - 1 /\ requests' = requests + 1
    /\ Goes(w, "request", "none")
    /\ UNCHANGED <<mainVars, queue, station, result, ticks, cancelled, disk, run, faults>>

\* The answer, an error once the context is cancelled: its body goes to the
\* cache, into a file created empty, or straight to the parser, also when the
\* file cannot be created.
Respond(w, s) ==
    /\ at[w] = "request" /\ Holding(w, s)
    /\ \/ /\ cacheEnabled /\ ~cancelled
          /\ Goes(w, "copy", "none")
          /\ cacheFile' = [cacheFile EXCEPT ![s] = "empty"]
          /\ UNCHANGED <<station, result, faults>>
       \/ /\ ~cancelled
          /\ IF cacheEnabled THEN Fault ELSE UNCHANGED faults
          /\ Goes(w, "parse", "none")
          /\ UNCHANGED <<station, result, cacheFile>>
       \/ Trouble /\ Fails(w, s) /\ UNCHANGED cacheFile
    /\ UNCHANGED <<mainVars, queue, limiter, cancelled, listFile, outFile, run>>

\* io.Copy: some of the body, then the rest, or an error that is ignored.
Copy(w, s) ==
    /\ at[w] = "copy" /\ Holding(w, s)
    /\ \/ /\ cacheFile[s] = "empty"
          /\ cacheFile' = [cacheFile EXCEPT ![s] = "cut"]
          /\ UNCHANGED <<at, records, station, result, faults>>
       \/ /\ cacheFile[s] = "cut"
          /\ cacheFile' = [cacheFile EXCEPT ![s] = "whole"]
          /\ Goes(w, "write", "whole")
          /\ UNCHANGED <<station, result, faults>>
       \/ /\ Trouble /\ cacheFile[s] = "cut"
          /\ Goes(w, "write", "cut")
          /\ UNCHANGED <<station, result, cacheFile>>
       \/ /\ Trouble /\ cacheFile[s] = "empty"
          /\ Fails(w, s)
          /\ UNCHANGED cacheFile
    /\ UNCHANGED <<mainVars, queue, limiter, cancelled, listFile, outFile, run>>

\* parseCSV on the body: an error before the end of the header is returned,
\* any other is taken for a malformed row and the next one is read, for ever if
\* the connection is broken.
Parse(w, s) ==
    /\ at[w] = "parse" /\ Holding(w, s)
    /\ \/ Goes(w, "write", "whole") /\ UNCHANGED <<station, result, faults>>
       \/ Trouble /\ Goes(w, "spin", "cut") /\ UNCHANGED <<station, result>>
       \/ Trouble /\ Fails(w, s)
    /\ UNCHANGED <<mainVars, queue, limiter, cancelled, disk, run>>

\* writeCSV: only a failing Create is an error, a failing write loses lines.
WriteCSV(w, s) ==
    /\ at[w] = "write" /\ Holding(w, s)
    /\ \/ /\ outFile' = [outFile EXCEPT ![s] = records[w]]
          /\ Reports(w, s, "ok")
          /\ UNCHANGED faults
       \/ /\ Fault
          /\ outFile' = [outFile EXCEPT ![s] = "cut"]
          /\ Reports(w, s, "ok")
       \/ /\ Fault /\ Fails(w, s) /\ UNCHANGED outFile
    /\ UNCHANGED <<mainVars, queue, limiter, cancelled, listFile, cacheFile, run>>

-----------------------------------------------------------------------------
(* The end of a run, and the next one. *)

\* wg.Wait returns; the results are counted and the command returns nil.
Return ==
    /\ main = "download"
    /\ \A w \in Worker : at[w] = "done"
    /\ main' = "returned"
    /\ UNCHANGED <<selected, listed, cacheEnabled, queue, workers, result, limiter, cancelled, disk, run, faults>>

\* SIGINT or SIGTERM only cancels the context.
Interrupt ==
    /\ main \in {"limiter", "list", "download"} /\ ~cancelled
    /\ cancelled' = TRUE
    /\ UNCHANGED <<mainVars, queue, workers, result, limiter, disk, run, faults>>

KillRun ==
    /\ main \in {"limiter", "list", "download"}
    /\ main' = "killed"
    /\ UNCHANGED <<selected, listed, cacheEnabled, queue, workers, result, limiter, cancelled, disk, run, faults>>

RunAgain ==
    /\ main \in {"returned", "killed"} /\ run < Runs
    /\ NewRun
    /\ run' = run + 1
    /\ UNCHANGED <<disk, faults>>

WorkerStep(w) ==
    \/ TakeStation(w) \/ WaitForToken(w)
    \/ \E s \in Station : \/ LookUp(w, s) \/ Respond(w, s) \/ Copy(w, s)
                          \/ Parse(w, s) \/ WriteCSV(w, s)

Working(w) == main = "download" /\ WorkerStep(w)

MainStep == NewRateLimiter \/ ListFromCache \/ ListFromServer \/ ListFails \/ Return

Next == \/ MainStep \/ Tick \/ Interrupt \/ KillRun \/ RunAgain
        \/ \E w \in Worker : Working(w)

Spec == Init /\ [][Next]_vars

\* The ticker ticks and the goroutines run; a request has a timeout of 30 s,
\* which covers the body.
FairSpec == /\ Spec
            /\ WF_vars(MainStep) /\ WF_vars(Tick)
            /\ \A w \in Worker : WF_vars(Working(w))

-----------------------------------------------------------------------------
TypeOK ==
    /\ main \in Main
    /\ selected \subseteq listed /\ queue \subseteq selected
    /\ listed \subseteq Station
    /\ at \in [Worker -> Place]
    /\ station \in [Worker -> SUBSET Station]
    /\ records \in [Worker -> File]
    /\ result \in [Station -> {"none", "ok", "error"}]
    /\ tokens \in 0 .. 1 /\ ticks \in 0 .. MaxTicks /\ requests \in Nat
    /\ cacheEnabled \in BOOLEAN /\ cancelled \in BOOLEAN
    /\ listFile \in {"none", "whole"}
    /\ cacheFile \in [Station -> File] /\ outFile \in [Station -> File]
    /\ run \in 1 .. Runs \cup {1} /\ faults \in 0 .. Faults

\* Every selected station is in the channel, or with one worker, or has one
\* result, whatever fails; when the command returns all of them have one, if
\* there were workers (noaa.go:593-675).
StationsAccounted ==
    /\ \A s \in selected :
          LET holders == {w \in Worker : Holding(w, s)} IN
          \/ s \in queue /\ result[s] = "none" /\ holders = {}
          \/ s \notin queue /\ result[s] = "none" /\ \E w \in Worker : holders = {w}
          \/ s \notin queue /\ result[s] # "none" /\ holders = {}
    /\ main = "returned" /\ Worker # {} => \A s \in selected : result[s] # "none"

\* Download serves its stations as WorkPool promises, run after run, whatever fails.
InHand == UNION {station[w] : w \in Worker}
Phase == CASE main \in {"limiter", "list"} -> "new"
           [] main = "download" -> "open"
           [] main = "returned" -> "over"
           [] main = "killed" -> "killed"

Pool == INSTANCE WorkPool WITH Job <- Station, Workers <- Cardinality(Worker),
                               phase <- Phase, waiting <- queue, working <- InHand,
                               answered <- {s \in Station : result[s] # "none"}
StationsAreServed == Pool!Spec

\* The workers together send at most one request more than the ticker has put
\* tokens in (noaa.go:31-76).
RateLimited == requests <= ticks + 1

\* A complete copy in the cache stays complete through interrupts, kills and
\* the runs that follow (noaa.go:266-315).
CompleteCopyStays ==
    [][\A s \in Station : cacheFile[s] = "whole" => cacheFile'[s] = "whole"]_vars

\* Download returns whatever fails, unless a worker reads malformed rows from a
\* broken connection for ever (noaa.go:436-443).
ReturnsOrSpins ==
    (main = "download") ~> (main # "download" \/ \E w \in Worker : at[w] = "spin")

\* "setup graceful shutdown" and "received interrupt signal, shutting down..."
\* (retrieve.go:84-94): an interrupted run returns.
ShutsDown == cancelled ~> (main \in {"returned", "killed"})

\* "cache station list" (noaa.go:344): the list read from the cache is the list
\* that was saved there.
CachedListIsRead == [][ListFromCache => listed' = Station]_vars
=============================================================================
