# A TLA+ verification project for the weather station and its test harness

The repository holds a small distributed system in C (`src/services/`) and a
test harness in Go (`src/test-harness/`). This directory holds TLA+ models of
the core logic of both, TLC configurations that check them on small
instances, and theorems about them that TLAPS proves for every instance.

Paths below are relative to `src/`.

## 1. The system

    CSV files --> S1 ingestion --HTTP, pages--> S2 aggregation --aggregated.db--> S3 query --> CLI
                  weather_data                   daily_aggregates  (shared volume)
    S4 discovery on every station: UDP announcements, heartbeats, leader election

`docker-compose.yml` runs every service with `restart: unless-stopped`. S2 and
S3 share the volume `aggregation-data`; S3 mounts it read-only. S4 talks to no
other service except that it probes the TCP query port of its peers.

### Discovery service, S4 (`services/discovery/discovery.c`)

| | |
|---|---|
| State | `node_state` (FOLLOWER, CANDIDATE, LEADER), `cluster_nodes[MAX_NODES]` with id, address, `is_leader`, `last_seen`; all in memory |
| Threads | the main loop (DISCOVER, HEARTBEAT, leader check, peer probes, each on its interval) and `udp_receiver_thread`; `state_mutex` protects the table, not every read of `node_state` |
| Messages | `DISCOVER`, `HEARTBEAT:<id>:<flag>`, `ELECTION`, `COORDINATOR`, over UDP, to 255.255.255.255, to configured nodes or to table entries |
| Hard | loss, delay and reordering of datagrams; restarts with an empty table; both threads append to the table; no timer ends a candidacy; entries never leave the table |
| Correct if | nodes meet and learn who leads; a candidate waits for somebody; the outranked do not take over; the highest node, and no other, ends up as leader; the table keeps within its bounds |

### Ingestion service, S1 (`services/ingestion/ingestion.c`)

| | |
|---|---|
| State | table `weather_data`; table `processed_files` and its copy in memory (`g_state.processed_files`); the files, which other programs write |
| Operations | poll the directory: `stat`, `should_process_file`, read the file in one transaction, `COMMIT`, `mark_file_processed`; an API thread answers `/weather/...` from the same SQLite connection |
| Hard | a file written between stat, read and mark; a crash between COMMIT and mark; statements that fail because of a reader or a full disk, with ignored results |
| Correct if | what counts as taken is stored; no record is stored twice; durable rows stay; in the end everything is stored |

### Aggregation service, S2 (`services/aggregation/aggregation.c`)

| | |
|---|---|
| State | tables `daily_aggregates` and `hourly_aggregates` (nothing fills the second); the cursor of one pass |
| Operations | at start and on each interval `fetch_and_aggregate`: DELETE all aggregates, then request pages of the raw rows (`limit`, `offset`), retry failures, upsert record by record without a transaction |
| Hard | the table grows between two pages, and between a page and its COUNT; retries; refused writes while S3 reads; a crash in the middle of a rebuild |
| Correct if | no row is left out of a complete pass; a pass over a quiet table is exact; errors of one pass are made good by later ones |

### Query service, S3 (`services/query/query.c`)

Keeps no state of its own but the open database. It parses a request, decodes
its parameters, reads `daily_aggregates` and formats JSON into a bounded
buffer. Its SELECT holds a read lock until it is finalized, which is how it
disturbs S2. Correct if an answer is well-formed and holds the rows asked for.

### Shared library (`services/shared/`)

`daemon.c` (signals, PID file, the flags `should_stop` and `should_reload` that
every main loop polls), `config.c` (INI parser, used again on SIGHUP),
`logging.c`. Hard: a signal between test and clear of a flag; reload without
the mutex of the service.

### Service manager and chaos engineer (`test-harness/pkg/services`, `pkg/chaos`)

| | |
|---|---|
| State | `Manager.services`, name to process; the child processes themselves, the daemons that some of them fork, and goroutines: one that `Stop` leaves in `Cmd.Wait`, one per command that `os/exec` keeps to kill it when its context is cancelled |
| Operations | `Start`, `Stop` (SIGTERM, wait ten seconds, SIGKILL), `StopAll`, `SendSignal`, `HealthCheck`; four scenarios and five actions built on them; `BaseTest.Setup` and `Teardown` |
| Hard | an exit, the timer and the cancellation in one moment; process numbers that are used after the process; a crash between two steps of a scenario; daemons |
| Correct if | what is forgotten is dead or dying, what is kept is the manager's own child, scenarios return, a teardown leaves nothing |

### NOAA downloader (`pkg/data/noaa.go`, `pkg/cmd/retrieve.go`)

| | |
|---|---|
| State | the bucket of the rate limiter, a channel of stations, one of results, workers; files in the cache and in the output directory, which outlive the run |
| Operations | read the list of stations, select, download each through the cache, write it out; interrupt |
| Hard | workers that share channels and tokens; failures at each of five steps; a kill that leaves half a file where the next run looks first; a reader loop that ignores errors |
| Correct if | each station has one result, requests keep to the rate, a good cached copy is not harmed, the command returns |

### Assessment (`pkg/ci`, `pkg/testrunner`, `pkg/linter`, `pkg/grading`, `pkg/github`, `pkg/gitlab`, `pkg/cmd`)

Five commands judge a submission: `ci`, `test`, `lint`, `lint --service` and
`grade`. Each has its own limits and scales, and `ci` alone gives three verdicts:
in its reports, in a comment on the pull request and by its exit status. They run
one after the other, on a submission that is edited in between, with tools that may be
absent, and may be killed. Hard: errors that are ignored, results of earlier
runs that are still there, integer and floating point arithmetic on scores. Correct
if the verdicts do not contradict each other more than their limits say.

### Property tests and fuzzer (`pkg/property`, `pkg/fuzz`)

Draw values until one fails, then shrink it by asking the generator for candidates.
Hard: candidates that are not smaller, several generators for one value, panics.
Correct if the verdict is true of the values drawn, the value reported fails
and cannot be shrunk, and the search ends.

### The rest of the harness

Mock discovery server, benchmark, containers; and functions without state:
protocol validator, contracts, version comparison, reports, assertions, generator of
test data.

`PROJECT.json` lists every component with its status.

## 2. The modules

| Module | What it is | Size |
|---|---|---|
| `Bully` | the election as promised: no messages, no clocks | 5 actions |
| `Discovery` | S4: a cluster of nodes, two threads each, and the network; implements `Bully` | 15 actions |
| `DiscoveryProofs` | theorems about `Discovery` | |
| `WeatherTable` | the table `weather_data` as promised to its readers | 3 actions |
| `Ingestion` | S1: poll loop, SQLite transactions, file writers, crashes; implements `WeatherTable` | 11 actions |
| `IngestionProofs` | theorems about `Ingestion` | |
| `Pipeline` | S1's table and API, S2's pass and S3's lock together; its table implements `WeatherTable` | 13 actions |
| `PipelineProofs` | theorems about `Pipeline` | |
| `Services` | the service manager, its processes and goroutines | 11 actions |
| `Chaos` | a test and the chaos engineer on `Services` | 15 actions |
| `ChaosProofs` | theorems about both | |
| `WorkPool` | what `Download` promises of a batch of stations | 6 actions |
| `Downloads` | `retrieve`: rate limiter, workers, cache, interrupts, kills; implements `WorkPool` | 16 actions |
| `DownloadsProofs` | theorems about `Downloads` | |
| `Grading` | the arithmetic of the calculator, the linter and the pipeline | operators |
| `Assessment` | the commands that judge a submission, on `Grading` | 16 actions |
| `AssessmentProofs` | theorems about `Assessment` | |
| `Search` | property tests, shrinking and fuzzing | 6 actions |
| `SearchProofs` | theorems about `Search` | |
| `SumTheorems` | lemmas about sums over finite sets, for `PipelineProofs` and `AssessmentProofs`, and least counterexamples, for `SearchProofs` too | |
| `MCDiscovery`, `MCIngestion`, `MCPipeline`, `MCChaos`, `MCDownloads`, `MCAssessment`, `MCSearch` | the instances that TLC checks | |

Operators whose names have a suffix after an underscore (`Room_OffByOne`,
`InsertRow_Plain`) are plausible mistakes in the code of the operator below
them. `PROJECT.json` pairs each with a property that must fail when the mistake
is made; no specification uses them.

### Discovery

A node is a process. Its variables are `up`, `role` (`node_state`), `known` (the
ids in its table), `isLeader` (entries flagged as leader), `stale` (entries whose
`last_seen` is older than `election_timeout_ms`), `tcpOnly` (entries made by
`check_peer_endpoints`, whose port is a TCP port), and `composed`: a heartbeat
that `send_heartbeat` has formatted before it takes the mutex and not yet sent.
`msgs` holds the datagrams in flight. It is a set: datagrams may overtake each
other and wait for a restart of their receiver, and two equal ones are one.

| Action | Code |
|---|---|
| `Start` | `main` up to the loop, with the first DISCOVER |
| `Crash` | end of the process: the table and the role are in memory only |
| `SendDiscovery`, `ComposeHeartbeat`, `SendHeartbeat`, `CheckLeaderHealth`, `ProbePeer` | `send_discovery_message`, `send_heartbeat`, `check_leader_health`, `check_peer_endpoints`, each a part of the loop |
| `Expire` | the clock passes `last_seen + election_timeout_ms` |
| `HandleDiscovery`, `HandleHeartbeat`, `HandleElection`, `HandleCoordinator` | the handlers of `process_incoming_udp_messages` |
| `Lose`, `Drop` | the network, and a port nobody has bound |

`BroadcastPermitted` says whether `sendto(255.255.255.255)` succeeds. With the
code as it is, it does not: `init_udp_socket` sets `SO_REUSEADDR` and not
`SO_BROADCAST`, which `discovery_broadcast` shows to be a bug. All runs but one set
it to FALSE; the other, whose `TypeOK` does not depend on it, and several theorems also
cover a socket with the option.

`HeartbeatFields` is the number of fields that `sscanf(..., "HEARTBEAT:%63s:%d")`
assigns. `%63s` reads up to white space and takes the flag with the id, so the
answer is one and the handler returns.

Node ids are numbers whose order stands for `strcmp`'s.

### Ingestion

`store` is the database as a crash would leave it, `work` as the connection sees
it, and `inTxn` says that a transaction is open. A row counts its copies, so that
a duplicate shows. `pc` and the variables below it are the local variables of
`process_csv_files` and `ingest_csv_file`.

| Action | Code |
|---|---|
| `Write`, `Tick` | other programs, the wall clock |
| `Start`, `Stop` | `init_database`, `load_processed_files_from_db`; end of the process |
| `OpenDirectory`, `VisitFile`, `CloseDirectory` | the scan of `process_csv_files`; `should_process_file` |
| `OpenFile`, `ReadLine`, `FinishFile` | `ingest_csv_file` up to, in, and after its loop |
| `MarkFile` | `mark_file_processed` |

`CommitTransaction` and `WriteFails` are what SQLite does when it must refuse a
statement. While another connection holds a read lock (`busy`), a COMMIT fails and
leaves the transaction open; when the disk is full (`full`) the transaction may be
rolled back. The code looks at neither result. A later BEGIN then fails in a
transaction that is still open, which `BeginTransaction` shows.

A record is a model value, a line that `sscanf` rejects is `Junk`. Lines have one
length: the size that `stat` reports tells files apart by their number of lines,
which keeps the case the code cannot see (same size, same second) and names it,
`"rewrite"`.

### Pipeline

Composes the promise of `WeatherTable` (as `InsertRow`, `Commit`, `Rollback`), the
API of S1 (`SelectPage`, `CountRows`: two statements, so rows can arrive in
between), the pass of S2 (`BeginPass`, `FoldRecord`, `NextPage`, `EndPass`,
`RequestFails`, `Crash`) and the lock of S3 (`BeginQuery`, `EndQuery`).

`table` is a sequence: the id of a row is its index. `Earlier` is `ORDER BY date
DESC` with ties in the order of ids, `RowAt(p)` the row at OFFSET `p`. That SQLite
keeps ties in insertion order is what it does for this statement and schema; the
SQL does not say so. `Upserted` is the `ON CONFLICT DO UPDATE`, with the average
kept as sum and number.

Three history variables serve the properties: `base` (rows at the beginning of the
pass), `folded` (ids of the rows aggregated) and `disturbed` (a rollback, a refused
write or a cut answer during the pass). No action reads them to decide anything,
and the ids carried in `page` feed `folded` only.

`Table` is `WeatherTable` with the rows before `committed` as the durable ones and all of
`table` as the visible ones. `Ingestion` and `Pipeline` are both proved to implement
`WeatherTable`; it is what they have in common, and all that `Pipeline` keeps of S1's writing.

### Services and Chaos

`proc` is the state of each process number. One that got SIGTERM may end
(`terming`), one that got SIGKILL will (`killed`); a `zombie` has ended and nobody has
waited for it. `services` is the manager's map. `stopping` holds the service whose
`Stop` is in its `select`, `waiting` the processes that a goroutine of `Stop` waits for,
`sending` those whose goroutine has the result and blocks on `done` until somebody
receives it: after a timeout, for ever.

| Action | Code |
|---|---|
| `StartService`, `SendSignal` | `Manager.Start`, `SendSignal`, one step each |
| `BeginStop`, `StopDone`, `StopTimeout` | `Manager.Stop` up to its `select` and its two cases; either may be taken when both are ready |
| `WaitReturns` | `Cmd.Wait` in the goroutine |
| `Exit`, `CrashProcess`, `Fork` | the service: reacts to a signal, ends by itself, runs `daemon_fork` |
| `KillCancelled` | `exec.CommandContext` |
| `TestStart`, `TestStop`, `TestSignal`, `Deadline`, `BeginTeardown`, `StopAllNext`, `StopAllReturns` | a test on `BaseTest`, with its deadline of five minutes |
| `RunStopping`, `RunSignalling`, `RunWaiting`, `RunCascadingFailure`, `RunServiceKill` | the beginnings of the scenarios and actions |
| `NextVictim`, `StopNext`, `Finish` | the loops in them, and the wait at their end |

A scenario is a list `todo` of services that it still stops. Times are left out: a
wait may end at any moment, which covers every duration, and the rounds of
`service_kill` may be any number. `leader_failover` takes `"ingestion"` for the leader,
as the code does, and `restart` stops only. Services have any names. `KillOrder` and
`CascadeOrder` are those the scenarios know; they step over the others, like
`aggregation`, `query` and `discovery`, which `tests/end_to_end_test.go` starts.

### Downloads

A file is `whole`, `cut` (an initial part) or `empty` (not even a header). `at` is the
place of each worker in `downloadWorker` and `DownloadStation`, `station` what it holds.
`tokens`, `ticks` and `requests` are the rate limiter: what is in the bucket, what the
ticker has put there, what workers have taken.

`NewRateLimiter` and `Tick` are the limiter, `ListFromCache`, `ListFromServer` and
`ListFails` are `loadStations` with the selection in `runRetrieve`; `TakeStation`,
`LookUp`, `WaitForToken`, `Respond`, `Copy`, `Parse` and `WriteCSV` a worker;
`Return`, `Interrupt`, `KillRun`, `RunAgain` the run. `Respond` may fail because of a
fault or because the context is cancelled; `Copy` fails like `io.Copy`, whose error
the code ignores, and then the part that is there is parsed. `Parse` reads
the body directly; its `spin` is the loop of `parseCSV` that takes every error
for a malformed row. `outFile` is what `writeCSV` leaves; a kill in the middle of
a write is not told apart from one before it.

`WorkPool` knows of a batch which of its stations wait, are worked on and have an answer,
no places, files or tokens. `StationsAreServed` maps `queue`, the stations in the workers'
hands and those with a result to these; a list that cannot be had maps to an empty batch. The instance
`RetrievePool.cfg` lets TLC check it with the bounds of `retrieve_runs`.

### Grading and Assessment

`Grading` holds three pure functions. Percentages are compared as fractions;
that the `float64` results fall on the same side of each limit was tested for all lint
scores and up to 60 tests, and that the calculator cuts them to the same integers for
marks up to 200000, negative ones too.

`Assessment` keeps the submission (`issues` for each service, how each suite ends,
which tools are there), one `ci` in progress (`pc` goes through the steps of
`RunPipeline` and `runCI`, the other variables are its `Result`), the traces that
earlier ones left (`disk`, `comments`) and the verdicts of all commands on
the submission as it is; `Edit` clears the verdicts. A suite is missing, or `go test -v`
ends with or without an error and any numbers of lines that hold PASS, FAIL and SKIP.
The two are independent, because `parseGoTestOutput` counts what tests write
themselves, and because `go test` may fail before it has run one; `GoTest` adds what a
missing `go` makes of it. `threshold` is `--fail-threshold`, any integer of `Thresholds`.
`validateServices`, `runBenchmarks` and `runChaosTests` return nil in the code and are
no step. `GradeCommand` gives the calculator any book of `Books`, pairs of integers that
`AddResult` compares with nothing: `runGrade` itself gives it constants, 10/10, 38/40,
18/20 and 15/15, which are among them.

### Search

`Trials` are generators with the set of values that fail; a value is a pair
of its dynamic type and the value, so that `OneOf` may hand a string to
`value.(int)`, which panics. `Shrinks(g, v)` is the set of lists that `Shrink` may
return: a map's iteration order is not determined. `Draw`, `Shrink`, `Try`,
`Exhaust` and `Cancel` are `Test.Run` and `Test.shrink`; `Fuzz` is `Fuzzer.Run`.

## 3. What is checked

Every run finishes within a few minutes. "Violation" runs check one statement
of the documentation that the code does not keep. Further instances with such
a statement have a configuration here and are described in section 5.

| Run | Instance | Shows |
|---|---|---|
| `discovery_safety` | 3 nodes, config 1→2, 2→3, 3→1,2; a crash, a heartbeat | `CandidateKnowsHigher`, `OutrankedNeverTakesOver`, `HighestKeepsLeading`, `BullyElection` |
| `discovery_converges` | 3 nodes that each name the older ones; 2 crashes, a loss | `HighestEventuallyLeads` |
| `discovery_announced` | 2 nodes, broadcasts arrive, `MAX_NODES` 1, shared peer list | `TypeOK` with the bound of the table |
| `discovery_broadcast` | 3 nodes that name nobody, nothing fails | violation: `EverybodyMeets` |
| `discovery_failover` | 3 nodes, the highest ends | violation: `LeaderAfterFailure` |
| `ingestion_stores` | 2 files with one or both of 2 records, the latter with a malformed line; one crash, failed open, busy, full, second each | `TypeOK`, `TrackedIsStored`, `StoredOnce`, `RowsAreKept`, `EverythingStored` |
| `pipeline_rebuild` | 3 records on 2 days, 1 row a page, 2 attempts; a fault, a query | `TypeOK`, `CompletePassIsExact`, `GrowingPassIsBounded`, `NothingSkipped`, `ExactInTheEnd` |
| `services_lifecycle` | 3 services, one of which the cascade does not list, 3 processes; a crash, one scenario or action, daemons | `TypeOK`, `UnmanagedIsDoomed`, `ManagedIsUnreaped`, `CascadeEndsListed`, `ScenarioEnds`, `TeardownCleansUp` |
| `retrieve_runs` | 2 runs, 2 stations, 2 workers, cache on or off; a fault, 2 ticks a run | `TypeOK`, `StationsAccounted`, `RateLimited`, `CompleteCopyStays`, `ReturnsOrSpins` |
| `ci_runs` | 2 services, 3 kinds of findings, 5 outcomes of a suite, thresholds 50 and 80, 108 books; 2 commands, a fault | `TypeOK`, `ReportsAgree`, `ThresholdOrdersVerdicts`, `LintBoundsServices`, `GradeNeedsCore` |
| `ci_untested` | the same | violation: `RealTestsGraded` |
| `search_runs` | every property of 6 integers, some of 5 other generators, 2 draws | `OutcomeIsTrue`, `ReportIsMinimal`, `SearchEnds` |

### The bounds

`Limit` bounds, per kind of event, the events of the environment that the code does
not bound: crashes, losses, refusals, expirations, heartbeats, seconds, queries.
Everything else is unbounded in the model and finite in the instances.

* Three nodes are the least with a middle one, which is outranked by one node and
  outranks another; every clause of the election is about such pairs. In the
  configuration of `discovery_safety` node 1 never meets 2 and node 3 never
  meets 1, so that a lower node may lead until it meets a higher one.
* Two crashes let a node, or two of them, restart while a datagram of a former life
  is in flight.
* `MAX_NODES` 1 of 2 makes the table full with one entry, and lets the two
  threads compete for it.
* Two files are the least for a transaction of the first that is left open when the
  second is read; two records the least for a version that is half stored.
  `IngestionSafety.cfg` has the safety properties with versions of one length and a
  rewrite within the second; the theorems have them for any versions and faults.
* One row a page and three rows give up to three pages, with inserts before and
  behind the cursor, on a newer and on the same day. Two attempts per request are the
  least for a retry that succeeds and one that does not.

* Two services, the first and the last of the cascade, have every order of a crash, a
  stop and a scenario between them, and the third is one the cascade steps over; three processes are a service, its daemon and
  one more, or a service that is started again while its predecessor is dying.
* Two stations and two workers are the least in which a station may be lost or taken
  twice; the second run reads what the first, killed or not, has left in the cache.
  The bounded ticks stop a run, not the ticker: a worker without token waits for ever
  only if it needs more than three, and two stations need two.
* The findings of `ci_runs` give lint scores on both sides of both limits, 0 for
  two services together among them; the outcomes have each combination of an error and a
  line with FAIL; the thresholds lie on both sides of the limit of the reports; the books
  have marks at, below and above the limits, above the criterion's points and below zero.
  Two commands and an edit are the least to compare two verdicts and to leave traces.
* Small integers around zero have every branch of `IntGenerator.Shrink`; ten shrinks are
  more than any of the trials needs to come to a value that yields itself.

Deadlock is checked in the runs of the services, which have no end. The harness's
commands and tests end, so their runs say `CHECK_DEADLOCK FALSE`.

### Fairness

* `Discovery`: the main loop repeats its work for ever and the receiver serves
  its socket, so `SendDiscovery`, `CheckLeaderHealth`, `SendHeartbeat` and the
  handling of each datagram are weakly fair. `Start` is weakly fair because of
  `restart: unless-stopped`. Probes succeed fairly only in the run about them.
  Losses, crashes and clocks are not fair.
* `Ingestion`: `WF(Start)` and `WF(MainStep)`. The writers, the clock and the
  faults are not fair.
* `Pipeline`: `WF(PassStep)` and `WF(EndQuery)`: the main loop goes on, and a SELECT
  is finalized some time. Inserts and commits are not fair.
* `Chaos`: SIGKILL works, goroutines and timers run, a scenario or a teardown that has
  begun goes on. A service that got SIGTERM need not react, nobody need begin anything.
* `Downloads`: the main goroutine, each worker and the ticker are weakly fair; a
  request ends because the client has a timeout of 30 seconds. Faults, interrupts and
  kills are not fair.
* `Search`: one goroutine that blocks nowhere.

## 4. What is proved

TLAPS checks these for every value of the constants, under the `ASSUME`s of the
modules only: node ids are naturals, configurations name nodes, `MAX_NODES`,
`PageSize` and `MAX_RETRIES` are positive, `NoFile` is no file and `Junk` no record,
files contain lines, records have a date and a value, services and workers are finitely
many, process numbers and all counts are naturals, marks and `--fail-threshold` integers,
and bounds naturals. `TrialAssumption` says
which generators there are, that `OneOf` chooses among integers and strings, and that the
failing values of a slice generator are slices; TLC evaluates all of them on every run.

| Theorem | States | Argument |
|---|---|---|
| `DiscoveryProofs!TypeCorrect` | `TypeOK`, hence the bound of the table | inductive; `Room` is tested where an entry is added |
| `CandidatesWaitForSomebody` | `CandidateKnowsHigher` | inductive with `TypeOK`: only `StartElection` makes candidates, and tables only grow while a process lives |
| `NobodyMeetsStrangers` | `MetThroughConfig`: why `EverybodyMeets` fails, in every cluster without broadcasts | `Seeded`: also every DISCOVER in flight goes to a node that its sender names |
| `NobodyRecordsALeader` | `Unannounced`: why `LeaderIsRecorded` fails, in every such cluster | inductive: no entry is flagged, and no COORDINATOR is in flight |
| `ImplementsBully` | `Spec => BullyElection` while broadcasts are refused | each step maps to one of Bully's or to a stutter; needs `Unannounced`, because a COORDINATOR would change a role outside an election |
| `OutrankedStaysDown`, `HighestStaysLeader` | the two action properties | from the same invariants, step by step |
| `IngestionProofs!TypeCorrect` | `TypeOK`, with the agreement of `store` and `work` outside transactions | inductive |
| `NoDuplicates` | `StoredOnce` | inductive with `TypeOK`: INSERT is guarded in the view that it changes |
| `ImplementsTable` | `Spec => RowsAreKept` | `Stored(store) \subseteq Stored(work)`, and each step inserts, commits, rolls back or stutters |
| `TakenStaysStored` | `TrackedIsStored` | `TrackingInv`, below |
| `PipelineProofs!TypeCorrect` | `TypeOK` | inductive |
| `NoRowIsSkipped` | `NothingSkipped` | `CoverageInv`, below |
| `CompletePassesAreExact` | `CompletePassIsExact` | `ExactInv`, below |
| `GrowingPassesAreBounded` | `GrowingPassIsBounded` | `BoundedInv` with `CoverageInv`, below |
| `PagesAWeatherTable` | `Spec => RowsAreKept` | each step inserts, commits, rolls back or leaves the table alone (`TableStep`) |
| `ChaosProofs!TypeCorrect` | `TypeOK` | inductive, as `Kept` |
| `ManagedProcessesAreUnreaped` | `ManagedIsUnreaped` | `Kept`, below |
| `UnmanagedProcessesAreDoomed` | `UnmanagedIsDoomed` | `Kept`, below |
| `CascadesEndTheListed` | `CascadeEndsListed` | `ToStop`: a listed service the cascade has passed is not managed, or is being stopped |
| `DownloadsProofs!TypeCorrect` | `TypeOK` | inductive |
| `RateLimiterHolds` | `RateLimited` | `Budget`: tokens and requests together are at most the ticks and one |
| `NoStationLost` | `StationsAccounted` | `Accounts`, below |
| `DownloadServes` | `Spec => StationsAreServed` | from `Accounts`, step by step; a worker that holds nothing leaves room for a station (`RoomForOne`) |
| `CompleteCopiesStay` | `CompleteCopyStays` | `Uncached`: who downloads a station holds it alone and has found no copy of it |
| `AssessmentProofs!TypeCorrect` | `TypeOK` | inductive |
| `ReportsAlwaysAgree` | `ReportsAgree` | `Written`: a report listed is on the disk with the number and verdict of this run; `OfOneRun`: no file is of the run that has still to write it, and two of one run agree |
| `ThresholdAlwaysOrders` | `ThresholdOrdersVerdicts` | `Graded`: past grading `success` and the exit status are what the counts say; a score that reaches a limit reaches every lower integer (`ReachesLess`) |
| `CommentsAreHonest` | `CommentIsHonest` | `Graded` |
| `LintAlwaysBoundsServices` | `LintBoundsServices` | `LintJudged`; more findings never give a better score (`ScoreFalls`), and a summand is not above its sum |
| `GradesNeedTheCore` | `GradeNeedsCore` | `BookGraded`; the sums over the categories written out (`CategorySum`), then arithmetic: of 18 points that pass, the others give 14 within their maxima |
| `SearchProofs!OutcomesAreTrue` | `OutcomeIsTrue` | `Drawn`: all values but the last have not failed |
| `ReportsAreMinimal` | `ReportIsMinimal` | `Shrunk`: the candidates are those of `current`, and those before `next` do not fail |

`TrackedIsStored` is not inductive. While a file is read, `seen` may already differ
from the file; `TrackingInv` says that as long as it does not, the lines read so far
are stored in `work`, that no version from the future was marked (so that a writer,
who makes the mtime or the size larger, always makes the file differ from its
mark), and that the marks in a transaction are backed by rows in the same transaction.

`NothingSkipped` is not inductive either. `CoverageInv` says of an undisturbed pass
that each row of the beginning whose rank lies below the cursor is aggregated or on
the page in hand. It holds because an insertion never lowers the rank of another row
(`AppendKeepsOrder`), so that a row not yet aggregated cannot slip behind the
cursor; and because `SELECT COUNT(*)` of the page's own answer bounds every rank
when the pass ends. `OneRowPerOffset` states that ranks number the rows without gap
or repetition, which makes `RowAt` well-defined; its proof counts intervals
(`IntervalSize`), since the rank is a cardinality.

`ExactInv` is the invariant of a pass over a table that stands still. The pass has a
`Position`; the rows aggregated are those whose rank is below it, the page in hand
holds those from it on, in order, and `daily` is the aggregate of the former. So the
head of the page has not been aggregated before (`OneRowPerOffset`), and its upsert
makes the aggregate of one row more (`UpsertAdds`: the sum, and the least and
greatest value). A page that fails is thrown away with the position unchanged.
`CoverageInv` gives the end: no rank is past the last position.

When rows are inserted meanwhile the rows below the position change, and a row may be
aggregated twice, so neither statement holds. `BoundedInv` is what is left: each daily
row `Covers` the rows of its day that were aggregated, counting each at least once, its
extremes being values of theirs and enclosing them. With `CoverageInv` these include all
rows of the beginning.

`Kept` says how the map and the goroutines share the processes: two services never
have one process; a process in `waiting` or `sending` is still managed and being
stopped, or was sent SIGKILL; a managed process is not `reaped` unless its own Stop is
about to learn it. Neither of the two properties is inductive without it: that a
process is waited for at most once depends on there being one Stop at a time.

`Accounts` divides the selected stations: those in the channel, those that
a worker holds, those with a result, no two of which meet, and two workers never hold
one station. `StationsAccounted` at the end of a run follows because `Return` waits
for all workers, and a worker leaves only when the channel is empty.

`LintJudged` and `BookGraded` tie a verdict to what it was given on: they survive other
commands, which change neither the submission nor the book, and an edit, which clears the
verdicts.

Sums over finite sets and lists that are flattened are defined by recursion. The theorems of
the library for such definitions take an operator as a parameter, which no available back-end can
instantiate. `SumTheorems` goes another way: of the sets for which a statement fails one is
smallest (`SmallestSet`, from the well-foundedness of `<`), and the statement for its proper
subsets gives it for the set itself. That the recursive function exists is proved the
same way (`SumsExist`); after that `SumByPick` is the defining equation, and
`SumRemove` says that the order of the elements does not matter. `FlatteningExists` and
`FlattenedLists` do it for the list of candidates that `SliceGenerator.Shrink` collects.

### Only model-checked

* Liveness: `HighestEventuallyLeads`, `EverythingStored`, `ExactInTheEnd`,
  `ScenarioEnds`, `TeardownCleansUp`, `ReturnsOrSpins`, `SearchEnds`. It needs ENABLED,
  which is beyond the prover.

Every other property of a run that should pass is also a theorem. `CommentIsHonest`,
`StationsAreServed` and `Pipeline!RowsAreKept` are theorems that no run in section 3 checks.

## 5. Where code and documentation differ

The three violation runs (see `findings` in `PROJECT.json` for the quotations):

1. Nodes that are to find each other by broadcast never meet (`discovery_broadcast`): the
   socket lacks `SO_BROADCAST`, so the system refuses every announcement, and the
   result of `sendto` is not looked at (`docs/README.md:77`, "automatic peer discovery via
   udp broadcast"). `NobodyMeetsStrangers` proves it for every cluster.
2. When the leader fails, nobody succeeds it (`discovery_failover`): candidates
   wait for an answer that no message carries, and entries never leave the table.
3. `ci` passes a submission none of whose tests has run (`ci_untested`): the
   placeholder of the performance suite counts as five passed tests.

Further instances, each run with `tlc -config <configuration> <module>`, each
ending in a violation of the definition named:

| Configuration, module | Definition | Documentation and code |
|---|---|---|
| `DiscoverySplitBrain.cfg`, `MCDiscovery` | `NoSplitBrain` | `contracts/s4_contract.yaml:56` "split_brain_prevention: true"; a node that meets a lower one first makes itself leader (`discovery.c:356`) |
| `DiscoveryRecorded.cfg`, `MCDiscovery` | `LeaderIsRecorded` | `services/discovery/README.md:53` "COORDINATOR: New leader announcement" and `docs/services/S4_DISCOVERY.md:247` "check if leader changed"; COORDINATOR is broadcast, hence refused, and `sscanf` never assigns the two fields of a heartbeat (`discovery.c:606`). `NobodyRecordsALeader` proves that no node records a leader |
| `DiscoveryPeers.cfg`, `MCDiscovery` | `HighestEventuallyLeads` | `docs/deployment/PEER_ENDPOINT_IMPLEMENTATION_SUMMARY.md:107` "works across discovered peers"; ELECTION goes to the TCP port of a `peer_endpoint` (`discovery.c:519`) |
| `IngestionBlocked.cfg`, `MCIngestion` | `ReadersDontBlock` | `docs/architecture/ARCHITECTURE.md:138` "readers don't block writers"; a refused COMMIT is ignored (`ingestion.c:283`) |
| `IngestionHeader.cfg`, `MCIngestion` | `OnlyHeadersSkipped` | `ingestion.c:216` "Skip header if present"; the first line is skipped whatever it is, and `noaa.go:698` writes none |
| `PipelineSerializable.cfg`, `MCPipeline` | `PassIsSerializable` | `contracts/aggregation_contract.yaml:34` "isolation: serializable"; pages are read by OFFSET without a snapshot (`aggregation.c:348`) |
| `ServicesDaemon.cfg`, `MCChaos` | `NothingRunsAfterTeardown` | `manager.go:156` "stopall stops all running services"; a service started with `--daemon`, as `ingestion_test.go:37` does, leaves its parent, and its daemon runs on |
| `RetrieveShutdown.cfg`, `MCDownloads` | `ShutsDown` | `retrieve.go:84` "setup graceful shutdown"; a cancelled request becomes a malformed row, for ever (`noaa.go:442`) |
| `RetrieveCache.cfg`, `MCDownloads` | `CachedListIsRead` | `noaa.go:344` "cache station list"; the lines saved have 71 characters, the parser wants 85 (`noaa.go:360`) |

Met while reading, without a run of their own:

* A lone node never leads, because `check_leader_health` wants a non-empty table or a
  flagged entry.
  Nodes that are not the highest remain CANDIDATE for ever.
* With `SO_BROADCAST` set, two nodes may follow each other after a delayed
  COORDINATOR; the abstract election would then have to change too.
* SIGHUP parses the configuration again without the mutex and appends every
  `cluster_node` once more.
* S1's API serves rows of a transaction that may be rolled back.
* A file with a malformed line is ingested again at every poll
  (`contracts/ingestion_contract.yaml`: `skip_malformed: true`).
* When the disk is full at COMMIT the rows are lost and the file is marked.
* A rewrite within the second and to the same size goes unnoticed; NaN is stored as NULL
  and never equals itself; an empty `mflag` ends `sscanf`, so that `qflag` and
  `sflag` are dropped.
* A corrected record leaves the old row, and aggregates mix both.
* Between the DELETE and the end of a pass, queries see empty or partial aggregates
  (`docs/architecture/ARCHITECTURE.md:139`: "transaction for batch operations").
* `hourly_aggregates` is never filled; `/aggregate/hourly` has nothing to say.
* `HealthCheck` calls a zombie healthy: signal 0 reaches it. A service that got SIGTERM
  by `SendSignal` stays in the map for ever. After a forced kill the goroutine of
  `Stop` waits for a receiver that does not come.
* `test-harness chaos` works on a manager of its own, which has no services:
  `leader_failover`, `kill`, `stop`, `restart` and `signal` always fail there, the other
  scenarios kill nothing. `runLeaderFailover` verifies no failover, `actionRestart`
  restarts nothing, results of scenarios are not recorded.
* `--parallel 0` downloads nothing and reports no error; `--rate-limit 0`, documented as
  unlimited (`retrieve.go:79`), is one request a second. At a very high rate the
  first tick may fill the bucket before `NewRateLimiter` does, which then blocks
  for ever (`FirstTick`). A cut file in the cache is served by all later runs.
* The cascade steps over services that it does not list without a word
  (`engineer.go:199`), and `tests/end_to_end_test.go:35` starts three of those: they run on.
* `--fail-threshold` is any integer (`ci.go:59`): below 60 `ci` may end with 0 while both its
  reports say FAILED, above 60 with 1 while they say PASSED.
* `ci` counts lines and `test` looks at the exit status: a test that passes and writes FAIL
  is a failure to the one, a suite without packages or with a wrong `go.mod` to the other.
* The calculator does not compare a score with its maximum, nor the maximum with the
  points of the criterion: 100/100 for performance carries a grade without functionality.
* `ci` gives three verdicts with three limits; a commit that is not in the
  environment makes `--github-token` panic (`CommitSHA[:8]`); the number of the
  pull request is never detected; a `cppcheck` that crashes has found nothing, and
  without it `lint` refuses while `ci` gives 100 points. Compilation is 100 points
  in `ci`, whatever happens. A unit suite that cannot be built still gives exactly 80.0.
* The calculator weights points twice and cuts each category to an integer: 60% of the
  points in each category make 17 of 30, which fails. `grade` reports constants.
* `lint` passes from 80 points on, `lint --service` from 83.
* Shrunk values may leave the generator's range; a shrink of `OneOf` over generators
  of different types panics, although its comment says it tries "to find which generator
  produced this value"; a map's shrinker offers one candidate only, so that a report
  may depend on the iteration order.

## 6. Not modelled

* S4: `send_tcp_heartbeat_to_peers` (changes nothing), configuration reload, two
  processes with one node id, more than one address per node.
* S1: removal of files, configuration reload, routes other than the raw one, NaN.
* S2: HTTP routes, configuration reload, the JSON that carries a page (a record
  arrives as it was sent; the bounded fields of the formats are out of scope).
* S3: everything but its lock.
* Service manager: `Service.Health` and PID files, which nothing reads. Two goroutines
  in one `Manager`: its map has no lock, and no caller shares one.
* Downloads: the date filter, formats of records, statistics of the summary.
* Assessment: issue texts, letter grades, exports of `grade`, check runs, commit
  statuses and `RunGCCChecks`, which nothing calls.
* Fuzzer: how strategies make inputs; its limit on the duration, off by default.
* Logging, the CLI, the protocol validator, contracts, the version matrix, reports,
  configuration, generated data: functions of their input without state. Benchmark:
  depends on the clock alone. Containers: Docker's behaviour is not in the repository.
* The mock discovery server and the loops of the daemon library: in the plan.

## 7. Plan

Order of work, the most important first. Done: 1 to 7.

1. `Discovery` with `Bully`: safety, convergence, refinement; theorems.
2. `Ingestion` with `WeatherTable`: safety, liveness, refinement; theorems.
3. `Pipeline`: the composition of S1, S2 and S3, on `WeatherTable`; theorems.
4. `Services` with `Chaos`: processes, goroutines, scenarios, teardown; theorems.
5. `Downloads` with `WorkPool`: rate limiter, workers, cache, interrupts and kills;
   refinement; theorems.
6. `Grading` with `Assessment`: the commands that judge; theorems.
7. `Search`: drawing, shrinking, fuzzing; theorems.
8. `Daemon`: signals, flags, PID file and the reload of a service's
   configuration (`daemon.c`, `config.c` and the loops that poll them). Promise: a stop
   is never lost, two daemons do not share a PID file, a reload is done once per burst.
9. `Query`: a request from its route to its answer, with a bounded buffer
   (`append_json`), over aggregates that a pass rebuilds meanwhile; refines an abstract
   reader of `Pipeline`.
10. `MockServer`: accept loop, connections and shutdown of `pkg/mock/server.go`.
11. `Validator`, `Version`: functions of the harness against reference definitions.
