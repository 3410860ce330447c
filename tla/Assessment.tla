----------------------------- MODULE Assessment -----------------------------
(***************************************************************************)
(* The commands of the test harness that judge a submission: `ci`          *)
(* (pkg/cmd/ci.go, pkg/ci/client.go), `test` (pkg/cmd/test.go,             *)
(* pkg/testrunner/runner.go), `lint` (pkg/cmd/lint.go,                     *)
(* pkg/linter/linter.go) and the calculator behind `grade`                 *)
(* (pkg/grading/calculator.go).                                            *)
(*                                                                         *)
(* They run one after the other on a submission that may be edited in      *)
(* between, on a machine with or without cppcheck and the go tool.  The    *)
(* reports and the comments of earlier runs of `ci` stay; a run may be     *)
(* killed, a file not be written, a comment be lost or be posted with the  *)
(* answer lost.                                                            *)
(***************************************************************************)
EXTENDS Integers, FiniteSets, Grading

CONSTANTS
    Service,        \* the directories with C files, one at least
    Findings,       \* what cppcheck may say of one: errors, warnings, styles
    Outcomes,       \* how `go test` on a suite may end and what it may print
    Books,          \* what AddResult may have been given, nothing of it checked
    Thresholds,     \* integers that --fail-threshold may be given
    Runs,           \* bound: commands, edits not counted
    Faults          \* bound: writes and requests that fail

Command == {"ci", "test", "lint", "grade"}

\* The limit of `ci` when the command line gives none.
DefaultThreshold == 80

ASSUME AssessmentAssumption ==
    /\ Service # {} /\ IsFiniteSet(Service) /\ Service \cap Command = {}
    /\ Findings \subseteq [errors : Nat, warnings : Nat, styles : Nat]
    /\ Outcomes \subseteq [kind : {"ran", "missing"}, error : BOOLEAN,
                           passed : Nat, failed : Nat, skipped : Nat]
    /\ Books \subseteq [Category -> [score : Int, max : Int]]
    /\ DefaultThreshold \in Thresholds /\ Thresholds \subseteq Int
    /\ Runs \in Nat /\ Faults \in Nat

VARIABLES
    issues,    \* the submission: what there is to find in each service
    suites,    \* ... and how its unit and integration tests end
    cppcheck,  \* is it absent, does it crash, or does it work?
    go,        \* is the go tool installed?
    pc,        \* the step of the command that runs
    target,    \* where `ci` posts its comment
    threshold, \* its --fail-threshold
    lint,      \* lint score of the last `ci`
    counts,    \* its TestSummary
    success,   \* its result.Success
    reports,   \* its result.Reports
    disk,      \* reports/ci-result.json and ci-report.html
    comments,  \* the comments posted
    exit,      \* how the last `ci` ended
    verdict,   \* how the commands judged the submission as it is
    book,      \* the results given to the grade calculator
    run,       \* number of commands begun
    faults     \* number of faults

Clean == [errors |-> 0, warnings |-> 0, styles |-> 0]

submission == <<issues, suites, cppcheck, go>>
result == <<target, threshold, lint, counts, success, reports>>
vars == <<submission, pc, result, disk, comments, exit, verdict, book, run, faults>>

Suite == {"unit", "integration"}
Report == {"json", "html"}
Fault == faults < Faults /\ faults' = faults + 1

-----------------------------------------------------------------------------
(* The linter and the test runner. *)

\* A cppcheck that fails without output has found nothing.
Found(s) == IF cppcheck = "crashes" THEN Clean ELSE issues[s]

ServiceScore(s) == LintScore(Found(s).errors, Found(s).warnings, Found(s).styles)

\* The counts of one file instead of their sum.
SummaryScore_Last == ServiceScore(CHOOSE s \in Service : TRUE)

SummaryScore == LintScore(SumFunction([s \in Service |-> Found(s).errors]),
                          SumFunction([s \in Service |-> Found(s).warnings]),
                          SumFunction([s \in Service |-> Found(s).styles]))

\* runUnitTests and runIntegrationTests: does `go test` end with an error, and
\* how many lines of its output hold PASS, else FAIL, else SKIP?  The one does
\* not follow from the other: a test that passes may write any of the words, and
\* `go test` fails without them where there are no packages or go.mod is wrong.
\* A directory that is not there is no error, no go tool is one without a line.
GoTest(o) ==
    IF o.kind = "ran" /\ go
      THEN [error |-> o.error, passed |-> o.passed, failed |-> o.failed, skipped |-> o.skipped]
      ELSE [error |-> o.kind = "ran", passed |-> 0, failed |-> 0, skipped |-> 0]

\* The sums over the suites; the placeholder of the performance suite counts as
\* five tests, all passed.
Summary ==
    LET unit == GoTest(suites["unit"])
        integration == GoTest(suites["integration"])
        passed == unit.passed + integration.passed + 5
        failed == unit.failed + integration.failed
    IN [total |-> passed + failed + unit.skipped + integration.skipped,
        passed |-> passed, failed |-> failed]

-----------------------------------------------------------------------------
Unjudged == [c \in Command \cup Service |-> "none"]
Judge(c, passed) == verdict' = [verdict EXCEPT ![c] = IF passed THEN "pass" ELSE "fail"]

NewResult ==
    /\ success' = FALSE /\ reports' = {} /\ lint' = 0
    /\ counts' = [total |-> 0, passed |-> 0, failed |-> 0]

Submitted(i, t, c, g) ==
    /\ i \in [Service -> Findings] /\ t \in [Suite -> Outcomes]
    /\ c \in {"absent", "crashes", "works"} /\ g \in BOOLEAN

Init ==
    /\ Submitted(issues, suites, cppcheck, go)
    /\ pc = "idle" /\ target = "none" /\ threshold = DefaultThreshold /\ lint = 0
    /\ counts = [total |-> 0, passed |-> 0, failed |-> 0]
    /\ success = FALSE /\ reports = {}
    /\ disk = [r \in Report |-> [run |-> 0, success |-> FALSE]]
    /\ comments = {} /\ exit = "none"
    /\ verdict = Unjudged
    /\ book = [c \in Category |-> NotEvaluated(c)]
    /\ run = 0 /\ faults = 0

\* The submission, or the machine, is changed between two commands.  What is
\* kept of the last `ci` are its traces: reports and comments.
Edit ==
    /\ pc = "idle" /\ run < Runs
    /\ \/ /\ \E s \in Service, f \in Findings : issues' = [issues EXCEPT ![s] = f]
          /\ UNCHANGED <<suites, cppcheck, go>>
       \/ /\ \E x \in Suite, o \in Outcomes : suites' = [suites EXCEPT ![x] = o]
          /\ UNCHANGED <<issues, cppcheck, go>>
       \/ /\ cppcheck' \in {"absent", "crashes", "works"} /\ go' \in BOOLEAN
          /\ UNCHANGED <<issues, suites>>
    /\ verdict' = Unjudged /\ exit' = "none"
    /\ NewResult /\ target' = "none" /\ threshold' = DefaultThreshold
    /\ UNCHANGED <<pc, disk, comments, book, run, faults>>

Begin(step) == pc = "idle" /\ run < Runs /\ run' = run + 1 /\ pc' = step

-----------------------------------------------------------------------------
(* `ci`. *)

\* The platform that DetectConfig finds in the environment.
Platform == {"local", "github", "gitlab"}

\* A token given as a flag chooses the platform, but not the commit: outside the
\* platform's own environment runCI panics on it.  The number of the request
\* comes from a flag only, and so does the threshold, any integer.
StartCI ==
    /\ \E environment \in Platform, token \in {"none", "github", "gitlab"}, numbered \in BOOLEAN :
          /\ Begin(IF token # "none" /\ environment = "local" THEN "idle" ELSE "lint")
          /\ exit' = IF token # "none" /\ environment = "local" THEN "panic" ELSE "none"
          /\ target' = IF numbered THEN token ELSE "none"
    /\ threshold' \in Thresholds
    /\ NewResult
    /\ verdict' = [verdict EXCEPT !["ci"] = "none"]
    /\ UNCHANGED <<submission, disk, comments, book, faults>>

RunLinting ==
    /\ pc = "lint" /\ pc' = "test"
    /\ lint' = IF cppcheck = "absent" THEN 100 ELSE SummaryScore
    /\ UNCHANGED <<submission, target, threshold, counts, success, reports, disk, comments, exit, verdict, book, run, faults>>

\* An error of a suite is not looked at.
RunTests ==
    /\ pc = "test" /\ pc' = "grade"
    /\ counts' = Summary
    /\ UNCHANGED <<submission, target, threshold, lint, success, reports, disk, comments, exit, verdict, book, run, faults>>

Reaches(limit) == PipelineAtLeast(lint, counts.passed, counts.total, limit)

CalculateGrade_Lenient ==
    /\ pc = "grade" /\ pc' = "reports"
    /\ success' = Reaches(90)
    /\ UNCHANGED <<submission, target, threshold, lint, counts, reports, disk, comments, exit, verdict, book, run, faults>>

CalculateGrade ==
    /\ pc = "grade" /\ pc' = "reports"
    /\ success' = Reaches(60)
    /\ UNCHANGED <<submission, target, threshold, lint, counts, reports, disk, comments, exit, verdict, book, run, faults>>

\* MkdirAll fails.
NoReports ==
    /\ pc = "reports" /\ Fault /\ pc' = "post"
    /\ UNCHANGED <<submission, result, disk, comments, exit, verdict, book, run>>

StartReports ==
    /\ pc = "reports" /\ pc' = "json"
    /\ UNCHANGED <<submission, result, disk, comments, exit, verdict, book, run, faults>>

\* A report that is there already is left alone.
Export_Once(r, next) ==
    /\ pc = r /\ pc' = next
    /\ disk' = IF disk[r].run > 0 THEN disk ELSE [disk EXCEPT ![r] = [run |-> run, success |-> success]]
    /\ reports' = reports \cup {r}
    /\ UNCHANGED <<submission, target, threshold, lint, counts, success, comments, exit, verdict, book, run, faults>>

\* exportJSON or exportHTML: an error leaves a file that was there before, or
\* one that cannot be read, and is not reported.
Export(r, next) ==
    /\ pc = r /\ pc' = next
    /\ \/ /\ disk' = [disk EXCEPT ![r] = [run |-> run, success |-> success]]
          /\ reports' = reports \cup {r}
          /\ UNCHANGED faults
       \/ /\ Fault
          /\ disk' \in {disk, [disk EXCEPT ![r] = [run |-> 0, success |-> FALSE]]}
          /\ UNCHANGED reports
    /\ UNCHANGED <<submission, target, threshold, lint, counts, success, comments, exit, verdict, book, run>>

ExportJSON == Export("json", "html")
ExportHTML == Export("html", "post")

\* formatTestResultsComment, in the GitHub and in the GitLab client.
CommentPasses == counts.failed = 0 /\ Reaches(60)

\* doRequest of either client sends one request and does not try again: it, or
\* its answer, may be lost.
Post(comment) ==
    \/ /\ comments' = comments \cup {comment}
       /\ UNCHANGED faults \/ Fault
    \/ Fault /\ UNCHANGED comments

PostResults ==
    /\ pc = "post" /\ pc' = "exit"
    /\ \/ /\ target # "none"
          /\ Post([run |-> run, target |-> target, passes |-> CommentPasses,
                   failed |-> counts.failed, success |-> success])
       \/ /\ target = "none"
          /\ UNCHANGED <<comments, faults>>
    /\ UNCHANGED <<submission, result, disk, exit, verdict, book, run>>

ExitCI ==
    /\ pc = "exit" /\ pc' = "idle"
    /\ exit' = IF Reaches(threshold) THEN "0" ELSE "1"
    /\ Judge("ci", Reaches(threshold))
    /\ UNCHANGED <<submission, result, disk, comments, book, run, faults>>

KillCI ==
    /\ pc \in {"lint", "test", "grade", "reports", "json", "html", "post", "exit"}
    /\ pc' = "idle" /\ exit' = "killed"
    /\ UNCHANGED <<submission, result, disk, comments, verdict, book, run, faults>>

-----------------------------------------------------------------------------
(* `test`, `lint`, `lint --service` and `grade`. *)

TestCommand ==
    /\ Begin("idle")
    /\ Judge("test", \A x \in Suite : ~GoTest(suites[x]).error)
    /\ UNCHANGED <<submission, result, disk, comments, exit, book, faults>>

LintCommand ==
    /\ Begin("idle")
    /\ Judge("lint", cppcheck # "absent" /\ LintPasses(SummaryScore))
    /\ UNCHANGED <<submission, result, disk, comments, exit, book, faults>>

LintService(s) ==
    /\ Begin("idle")
    /\ Judge(s, cppcheck # "absent" /\ ServicePasses(ServiceScore(s)))
    /\ UNCHANGED <<submission, result, disk, comments, exit, book, faults>>

\* The calculator shares nothing with the other commands; it is run before the
\* first of them, and takes all of Runs.
GradeCommand ==
    /\ pc = "idle" /\ run = 0 /\ run' = Runs
    /\ book' \in Books
    /\ Judge("grade", GradePasses(book'))
    /\ UNCHANGED <<submission, pc, result, disk, comments, exit, faults>>

Next ==
    \/ Edit \/ StartCI \/ RunLinting \/ RunTests \/ CalculateGrade
    \/ NoReports \/ StartReports \/ ExportJSON \/ ExportHTML \/ PostResults \/ ExitCI \/ KillCI
    \/ TestCommand \/ LintCommand \/ GradeCommand
    \/ \E s \in Service : LintService(s)

Spec == Init /\ [][Next]_vars

-----------------------------------------------------------------------------
TypeOK ==
    /\ Submitted(issues, suites, cppcheck, go)
    /\ pc \in {"idle", "lint", "test", "grade", "reports", "json", "html", "post", "exit"}
    /\ target \in {"none", "github", "gitlab"} /\ threshold \in Thresholds
    /\ lint \in 0 .. 100
    /\ counts \in [total : Nat, passed : Nat, failed : Nat]
    /\ counts.passed + counts.failed <= counts.total
    /\ success \in BOOLEAN /\ reports \subseteq Report
    /\ disk \in [Report -> [run : 0 .. run, success : BOOLEAN]]
    /\ exit \in {"none", "0", "1", "killed", "panic"}
    /\ verdict \in [Command \cup Service -> {"none", "pass", "fail"}]
    /\ book \in [Category -> [score : Int, max : Int]]
    /\ run \in 0 .. Runs /\ faults \in 0 .. Faults

\* Whatever ended a run, every report it lists says on the disk what the run
\* found and two of them are of the same run; and two files of one run never
\* differ, listed or not, while those of two runs may (client.go:348-370).
ReportsAgree ==
    /\ \A r \in reports : disk[r].success = success
    /\ reports = Report \/ disk["json"].run = disk["html"].run => disk["json"] = disk["html"]

\* The exit status and the reports of a run judge one score by two limits: from
\* --fail-threshold 60 on, 0 comes with no report of FAILED; up to 60, one of
\* PASSED comes with 0; each may fail on the other side (client.go:339, ci.go:181).
ThresholdOrdersVerdicts ==
    exit \in {"0", "1"} /\ pc = "idle" =>
       \A r \in reports : /\ threshold >= 60 /\ exit = "0" => disk[r].success
                          /\ threshold <= 60 /\ disk[r].success => exit = "0"

\* A comment says PASSED only of a run without a FAIL line whose report says
\* so too, whoever it was posted by (github/client.go:194-198).
CommentIsHonest ==
    \A m \in comments : m.passes => m.failed = 0 /\ m.success

\* `lint` does not pass code of which one service falls below its own limit, and
\* a service it passes that `lint --service` fails is one of 80 to 82 points
\* (linter.go:344-400, lint.go:91-119).
LintBoundsServices ==
    verdict["lint"] = "pass" =>
       \A s \in Service : verdict[s] = "fail" => ServiceScore(s) \in 80 .. 82

\* A passing grade takes a compilation without a point missing.  It takes ten
\* points for functionality too, unless another category was given more than the
\* criterion's own maximum, which nothing refuses (calculator.go:110-219).
GradeNeedsCore ==
    verdict["grade"] = "pass" =>
       /\ book["compilation"].max > 0
       /\ book["compilation"].score >= book["compilation"].max
       /\ \/ book["functionality"].score >= 10
          \/ \E c \in Category \ {"functionality"} : book[c].score > MaxPoints[c]

\* "Calculate grade based on real test results and lint score"
\* (client.go:283): a run that passes has seen a test of the submission pass.
RealTestsGraded ==
    exit = "0" /\ pc = "idle" /\ verdict["ci"] = "pass" =>
       \E x \in Suite : GoTest(suites[x]).passed > 0
=============================================================================
