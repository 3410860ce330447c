-------------------------- MODULE AssessmentProofs --------------------------
(***************************************************************************)
(* Theorems about Assessment, for any services and findings, whatever      *)
(* `go test` prints and however it ends, any integers as marks of the      *)
(* calculator and as --fail-threshold, and any bounds.                     *)
(***************************************************************************)
EXTENDS Assessment, SumTheorems

-----------------------------------------------------------------------------
(* The grade. *)

\* What reaches a limit reaches every lower one.
LEMMA ReachesLess ==
    ASSUME NEW l \in Int, NEW p \in Int, NEW t \in Nat, NEW high \in Int, NEW low \in Int,
           low <= high, PipelineAtLeast(l, p, t, high)
    PROVE  PipelineAtLeast(l, p, t, low)
<1>1. CASE t = 0
  BY <1>1 DEF PipelineAtLeast
<1>2. CASE t # 0
  <2>1. PICK more \in Nat : high = low + more
    <3>1. high - low \in Nat /\ high = low + (high - low)
      OBVIOUS
    <3> QED BY <3>1
  <2>2. more * t \in Nat /\ low * t \in Int /\ l * t \in Int
    OBVIOUS
  <2>3. 10 * high * t = 10 * (low * t) + 10 * (more * t) /\ 10 * low * t = 10 * (low * t)
    BY <2>1
  <2>4. 450 * t + l * t + 350 * p >= 10 * high * t
    BY <1>2 DEF PipelineAtLeast
  <2>5. 450 * t + l * t + 350 * p >= 10 * low * t
    BY <2>2, <2>3, <2>4
  <2> QED BY <1>2, <2>5 DEF PipelineAtLeast
<1> QED BY <1>1, <1>2

\* A lint score is a percentage.
LEMMA ScoreRange ==
    ASSUME NEW e \in Nat, NEW w \in Nat, NEW s \in Nat
    PROVE  LintScore(e, w, s) \in 0 .. 100
BY DEF LintScore

\* More findings of any kind never give a better score.
LEMMA ScoreFalls ==
    ASSUME NEW e \in Nat, NEW w \in Nat, NEW s \in Nat, NEW ee \in Nat, NEW ww \in Nat, NEW ss \in Nat,
           e <= ee, w <= ww, s <= ss
    PROVE  LintScore(ee, ww, ss) <= LintScore(e, w, s)
BY DEF LintScore

\* What is found in a service counts in the summary, whose score is not better.
LEMMA SummaryScoreBounds ==
    ASSUME issues \in [Service -> Findings]
    PROVE  /\ SummaryScore \in 0 .. 100
           /\ \A s \in Service : ServiceScore(s) \in 0 .. 100 /\ SummaryScore <= ServiceScore(s)
<1> DEFINE errors == [s \in Service |-> Found(s).errors]
           warnings == [s \in Service |-> Found(s).warnings]
           styles == [s \in Service |-> Found(s).styles]
<1>1. /\ \A s \in Service : errors[s] \in Nat /\ warnings[s] \in Nat /\ styles[s] \in Nat
      /\ IsFiniteSet(Service)
  BY AssessmentAssumption DEF Found, Clean
<1>2. /\ SummaryScore = LintScore(SumFunctionOnSet(errors, Service), SumFunctionOnSet(warnings, Service),
                                  SumFunctionOnSet(styles, Service))
      /\ \A s \in Service : ServiceScore(s) = LintScore(errors[s], warnings[s], styles[s])
  BY DEF SummaryScore, ServiceScore, SumFunction
<1> HIDE DEF errors, warnings, styles
<1>3. /\ SumFunctionOnSet(errors, Service) \in Nat /\ SumFunctionOnSet(warnings, Service) \in Nat
      /\ SumFunctionOnSet(styles, Service) \in Nat
  BY <1>1, SumType
<1>4. ASSUME NEW s \in Service
      PROVE  /\ errors[s] <= SumFunctionOnSet(errors, Service)
             /\ warnings[s] <= SumFunctionOnSet(warnings, Service)
             /\ styles[s] <= SumFunctionOnSet(styles, Service)
  BY <1>1, SummandBelowSum
<1>5. SummaryScore \in 0 .. 100
  BY <1>2, <1>3, ScoreRange
<1>6. ASSUME NEW s \in Service
      PROVE  ServiceScore(s) \in 0 .. 100 /\ SummaryScore <= ServiceScore(s)
  <2>1. errors[s] \in Nat /\ warnings[s] \in Nat /\ styles[s] \in Nat
    BY <1>1
  <2>2. LintScore(errors[s], warnings[s], styles[s]) \in 0 .. 100
    BY <2>1, ScoreRange
  <2>3. LintScore(SumFunctionOnSet(errors, Service), SumFunctionOnSet(warnings, Service),
                  SumFunctionOnSet(styles, Service)) <= LintScore(errors[s], warnings[s], styles[s])
    BY <1>3, <1>4, <2>1, ScoreFalls
  <2> QED BY <1>2, <2>2, <2>3
<1> QED BY <1>5, <1>6

\* Whatever go test prints, the counts are numbers.
LEMMA GoTestLines ==
    ASSUME NEW o \in Outcomes
    PROVE  GoTest(o).passed \in Nat /\ GoTest(o).failed \in Nat /\ GoTest(o).skipped \in Nat
<1>1. o.passed \in Nat /\ o.failed \in Nat /\ o.skipped \in Nat
  BY AssessmentAssumption
<1> QED BY <1>1 DEF GoTest

\* The counts add up.
LEMMA SummaryLines ==
    ASSUME suites \in [Suite -> Outcomes]
    PROVE  /\ Summary \in [total : Nat, passed : Nat, failed : Nat]
           /\ Summary.passed + Summary.failed <= Summary.total
<1>1. suites["unit"] \in Outcomes /\ suites["integration"] \in Outcomes
  BY DEF Suite
<1> QED BY <1>1, GoTestLines DEF Summary

-----------------------------------------------------------------------------
(* Types. *)

Step == {"idle", "lint", "test", "grade", "reports", "json", "html", "post", "exit"}

LEMMA NewResultTypes ==
    ASSUME NewResult
    PROVE  /\ success' \in BOOLEAN /\ reports' \subseteq Report /\ lint' \in 0 .. 100
           /\ counts' \in [total : Nat, passed : Nat, failed : Nat]
           /\ counts'.passed + counts'.failed <= counts'.total
<1>1. success' = FALSE /\ reports' = {} /\ lint' = 0 /\ counts' = [total |-> 0, passed |-> 0, failed |-> 0]
  BY DEF NewResult
<1>2. reports' \subseteq Report /\ lint' \in 0 .. 100
  BY <1>1
<1>3. counts'.passed + counts'.failed <= counts'.total
  BY <1>1
<1>4. counts' \in [total : Nat, passed : Nat, failed : Nat]
  BY <1>1
<1> QED BY <1>1, <1>2, <1>3, <1>4

LEMMA EditTypes ==
    ASSUME TypeOK, Edit
    PROVE  TypeOK'
<1> USE DEF Edit, TypeOK, Submitted
<1>1. Submitted(issues', suites', cppcheck', go')
  BY DEF Submitted
<1>2. verdict' \in [Command \cup Service -> {"none", "pass", "fail"}]
  BY DEF Unjudged
<1>3. NewResult /\ target' = "none" /\ exit' = "none" /\ UNCHANGED <<pc, disk, comments, book, run, faults>>
  OBVIOUS
<1>4. /\ target' \in {"none", "github", "gitlab"}
      /\ threshold' \in Thresholds
      /\ exit' \in {"none", "0", "1", "killed", "panic"}
  BY <1>3, AssessmentAssumption
<1> QED BY <1>1, <1>2, <1>3, <1>4, NewResultTypes

LEMMA JudgeTypes ==
    ASSUME TypeOK, NEW c \in Command \cup Service, NEW b, Judge(c, b)
    PROVE  verdict' \in [Command \cup Service -> {"none", "pass", "fail"}]
BY DEF TypeOK, Judge

LEMMA OtherTypes ==
    ASSUME TypeOK, UNCHANGED <<submission, result, disk, comments, exit, faults>>,
           pc' \in Step, run' \in run .. Runs, book' \in [Category -> [score : Int, max : Int]],
           verdict' \in [Command \cup Service -> {"none", "pass", "fail"}]
    PROVE  TypeOK'
BY AssessmentAssumption DEF TypeOK, submission, result, Step, Submitted

LEMMA ExportTypes ==
    ASSUME TypeOK, NEW r \in Report, NEW n \in Step, Export(r, n)
    PROVE  TypeOK'
<1>1. disk' \in [Report -> [run : 0 .. run, success : BOOLEAN]]
  <2>1. run \in 0 .. run
    BY AssessmentAssumption DEF TypeOK
  <2>2. [run |-> run, success |-> success] \in [run : 0 .. run, success : BOOLEAN]
    BY <2>1 DEF TypeOK
  <2>3. [run |-> 0, success |-> FALSE] \in [run : 0 .. run, success : BOOLEAN]
    BY AssessmentAssumption DEF TypeOK
  <2> QED BY <2>2, <2>3 DEF Export, TypeOK
<1>2. reports' \subseteq Report /\ pc' \in Step
  BY DEF Export, TypeOK
<1>3. faults' \in 0 .. Faults
  BY AssessmentAssumption DEF Export, Fault, TypeOK
<1> QED BY <1>1, <1>2, <1>3 DEF Export, TypeOK, submission, Step, Submitted

LEMMA TypeInductive ==
    ASSUME TypeOK, [Next]_vars
    PROVE  TypeOK'
<1> USE DEF submission, result
<1>1. CASE Edit
  BY <1>1, EditTypes
<1>2. CASE StartCI
  <2>1. PICK environment \in {"local", "github", "gitlab"}, token \in {"none", "github", "gitlab"},
             numbered \in BOOLEAN :
          /\ run' = run + 1 /\ run < Runs /\ pc' \in {"idle", "lint"} /\ exit' \in {"panic", "none"}
          /\ target' = IF numbered THEN token ELSE "none"
          /\ threshold' \in Thresholds
    BY <1>2 DEF StartCI, Begin
  <2>2. verdict' \in [Command \cup Service -> {"none", "pass", "fail"}]
    BY <1>2 DEF StartCI, TypeOK
  <2>3. run' \in 0 .. Runs /\ disk \in [Report -> [run : 0 .. run', success : BOOLEAN]]
    <3>1. run' \in 0 .. Runs /\ \A k \in 0 .. run : k \in 0 .. run'
      BY <2>1, AssessmentAssumption DEF TypeOK
    <3> QED BY <3>1 DEF TypeOK
  <2>4. NewResult /\ UNCHANGED <<submission, disk, comments, book, faults>>
    BY <1>2 DEF StartCI
  <2> QED BY <2>1, <2>2, <2>3, <2>4, NewResultTypes DEF TypeOK, Submitted
<1>3. CASE RunLinting
  BY <1>3, SummaryScoreBounds DEF RunLinting, TypeOK, Submitted
<1>4. CASE RunTests
  BY <1>4, SummaryLines DEF RunTests, TypeOK, Submitted
<1>5. CASE CalculateGrade
  <2>1. Reaches(60) \in BOOLEAN
    <3>1. CASE counts.total = 0
      BY <3>1 DEF Reaches, PipelineAtLeast
    <3>2. CASE counts.total # 0
      BY <3>2 DEF Reaches, PipelineAtLeast
    <3> QED BY <3>1, <3>2
  <2> QED BY <1>5, <2>1 DEF CalculateGrade, TypeOK, Submitted
<1>6. CASE NoReports
  BY <1>6, AssessmentAssumption DEF NoReports, Fault, TypeOK, Submitted
<1>7. CASE StartReports
  BY <1>7 DEF StartReports, TypeOK, Submitted
<1>8. CASE ExportJSON \/ ExportHTML
  BY <1>8, ExportTypes DEF ExportJSON, ExportHTML, Report, Step
<1>9. CASE PostResults
  <2>1. faults' \in 0 .. Faults
    BY <1>9, AssessmentAssumption DEF PostResults, Post, Fault, TypeOK
  <2> QED BY <1>9, <2>1 DEF PostResults, Post, TypeOK, Submitted
<1>10. CASE ExitCI
  <2>1. verdict' \in [Command \cup Service -> {"none", "pass", "fail"}]
    BY <1>10, JudgeTypes DEF ExitCI, Command
  <2> QED BY <1>10, <2>1 DEF ExitCI, TypeOK, Submitted
<1>11. CASE KillCI
  BY <1>11 DEF KillCI, TypeOK, Submitted
<1>12. ASSUME NEW c \in Command \cup Service, NEW b, Judge(c, b), Begin("idle"),
              UNCHANGED <<submission, result, disk, comments, exit, book, faults>>
       PROVE  TypeOK'
  <2>1. run' \in run .. Runs /\ pc' \in Step /\ book' \in [Category -> [score : Int, max : Int]]
    BY <1>12, AssessmentAssumption DEF Begin, TypeOK, Step
  <2> QED BY <1>12, <2>1, JudgeTypes, OtherTypes
<1>13. CASE TestCommand \/ LintCommand \/ \E s \in Service : LintService(s)
  BY <1>12, <1>13 DEF TestCommand, LintCommand, LintService, Command
<1>14. CASE GradeCommand
  <2>1. run' \in run .. Runs /\ pc' \in Step /\ book' \in [Category -> [score : Int, max : Int]]
    BY <1>14, AssessmentAssumption DEF GradeCommand, TypeOK, Step
  <2>2. verdict' \in [Command \cup Service -> {"none", "pass", "fail"}]
    BY <1>14, JudgeTypes DEF GradeCommand, Command
  <2> QED BY <1>14, <2>1, <2>2, OtherTypes DEF GradeCommand
<1>15. CASE UNCHANGED vars
  BY <1>15 DEF vars, TypeOK, Submitted
<1> QED BY <1>1, <1>2, <1>3, <1>4, <1>5, <1>6, <1>7, <1>8, <1>9, <1>10, <1>11, <1>13, <1>14, <1>15 DEF Next

LEMMA TypeInitially == Init => TypeOK
<1> SUFFICES ASSUME Init PROVE TypeOK
  OBVIOUS
<1> USE DEF Init
<1>1. book \in [Category -> [score : Int, max : Int]]
  BY DEF NotEvaluated, Category, MaxPoints
<1>2. disk \in [Report -> [run : 0 .. run, success : BOOLEAN]]
  BY DEF Report
<1>3. verdict \in [Command \cup Service -> {"none", "pass", "fail"}]
  BY DEF Unjudged
<1>4. run \in 0 .. Runs /\ faults \in 0 .. Faults /\ threshold \in Thresholds
  BY AssessmentAssumption
<1>5. /\ success = FALSE /\ reports = {} /\ lint = 0
      /\ counts = [total |-> 0, passed |-> 0, failed |-> 0]
  OBVIOUS
<1>6. counts \in [total : Nat, passed : Nat, failed : Nat] /\ counts.passed + counts.failed <= counts.total
  BY <1>5
<1>7. lint \in 0 .. 100 /\ reports \subseteq Report
  BY <1>5
<1> QED BY <1>1, <1>2, <1>3, <1>4, <1>5, <1>6, <1>7 DEF TypeOK

\* Types; the lint score is between 0 and 100 whatever is found, and the counts
\* add up (linter.go:361-420, runner.go:86-113).
THEOREM TypeCorrect == Spec => []TypeOK
<1>1. TypeOK /\ [Next]_vars => TypeOK'
  BY TypeInductive
<1> QED BY TypeInitially, <1>1, PTL DEF Spec

-----------------------------------------------------------------------------
(* The reports: those a run lists are of one run and of its success.       *)

Written ==
    /\ pc \in {"lint", "test", "grade", "reports", "json"} => reports = {}
    /\ pc = "html" => reports \subseteq {"json"}
    /\ \E k \in Nat : /\ pc \in {"html", "post", "exit"} => k = run
                      /\ \A r \in reports : disk[r] = [run |-> k, success |-> success]

\* A report that is written is listed and on the disk with the verdict of this run.
LEMMA ExportWrites ==
    ASSUME TypeOK, Written, NEW r \in Report, NEW n, Export(r, n), n \in {"html", "post"},
           r = "json" <=> n = "html", reports \cap {r} = {}, r = "json" => reports = {}
    PROVE  Written'
<1>1. \A q \in reports : q # r /\ q \in Report
  BY DEF TypeOK
<1>2. pc = r /\ pc' = n /\ run' = run /\ success' = success /\ run \in Nat
  BY AssessmentAssumption DEF Export, TypeOK
<1>3. \A q \in reports : disk[q] = [run |-> run, success |-> success]
  BY <1>2 DEF Written, Report
<1>4. \A q \in Report \ {r} : disk'[q] = disk[q]
  BY DEF Export, TypeOK
<1>5. \/ reports' = reports \cup {r} /\ disk'[r] = [run |-> run, success |-> success]
      \/ reports' = reports
  BY DEF Export, TypeOK
<1>6. \A q \in reports' : disk'[q] = [run |-> run', success |-> success']
  BY <1>1, <1>2, <1>3, <1>4, <1>5
<1>7. pc' = "html" => reports' \subseteq {"json"}
  BY <1>2, <1>5
<1> QED BY <1>2, <1>6, <1>7 DEF Written

\* No command, edit, fault or kill breaks Written.
LEMMA WrittenKept ==
    ASSUME TypeOK, Written, [Next]_vars
    PROVE  Written'
<1> USE DEF submission, result
<1>1. ASSUME reports' = {}, run' \in Nat
      PROVE  Written'
  BY <1>1 DEF Written
<1>2. run \in Nat
  BY AssessmentAssumption DEF TypeOK
<1>3. CASE Edit \/ StartCI
  BY <1>1, <1>2, <1>3 DEF Edit, StartCI, Begin, NewResult
<1>4. ASSUME UNCHANGED <<reports, disk, success, run>>, pc' \in {"idle", "test", "grade", "json", "post", "exit"},
             pc' \in {"post", "exit"} => pc \in {"html", "post", "reports", "exit"},
             pc' \in {"test", "grade", "json"} => pc \in {"lint", "test", "grade", "reports"}
      PROVE  Written'
  <2>1. CASE pc \in {"lint", "test", "grade", "reports"}
    BY <1>1, <1>2, <1>4, <2>1 DEF Written
  <2>2. CASE pc \notin {"lint", "test", "grade", "reports"}
    BY <1>4, <2>2 DEF Written
  <2> QED BY <2>1, <2>2
<1>5. CASE RunLinting \/ RunTests \/ NoReports \/ StartReports \/ PostResults \/ ExitCI \/ KillCI
  BY <1>4, <1>5 DEF RunLinting, RunTests, NoReports, StartReports, PostResults, Post, ExitCI, KillCI
<1>6. CASE CalculateGrade
  BY <1>1, <1>2, <1>6 DEF CalculateGrade, Written
<1>7. CASE ExportJSON
  BY <1>7, ExportWrites DEF ExportJSON, Export, Report, Written
<1>8. CASE ExportHTML
  BY <1>8, ExportWrites DEF ExportHTML, Export, Report, Written
<1>9. ASSUME UNCHANGED <<reports, disk, success>>, pc' = "idle"
      PROVE  Written'
  BY <1>9 DEF Written
<1>10. CASE TestCommand \/ LintCommand \/ GradeCommand \/ \E s \in Service : LintService(s)
  BY <1>9, <1>10 DEF TestCommand, LintCommand, GradeCommand, LintService, Begin
<1>11. CASE UNCHANGED vars
  BY <1>11 DEF vars, Written
<1> QED BY <1>3, <1>5, <1>6, <1>7, <1>8, <1>10, <1>11 DEF Next

\* The files, listed or not: none is of the run that has still to write it, one that
\* cannot be read counts as of no run, and two of one run have its verdict.
OfOneRun ==
    /\ \A r \in Report : disk[r].run = 0 => disk[r].success = FALSE
    /\ pc \in {"lint", "test", "grade", "reports", "json"} => \A r \in Report : disk[r].run < run
    /\ pc = "html" => /\ disk["html"].run < run
                      /\ disk["json"].run = run => disk["json"].success = success
    /\ disk["json"].run = disk["html"].run => disk["json"].success = disk["html"].success

\* No command, edit, fault or kill breaks OfOneRun.
LEMMA OfOneRunKept ==
    ASSUME TypeOK, OfOneRun, [Next]_vars
    PROVE  OfOneRun'
<1> USE DEF submission, result
<1>1. /\ run \in Nat /\ Report = {"json", "html"} /\ DOMAIN disk = Report
      /\ \A r \in Report : disk[r].run \in 0 .. run /\ disk[r].success \in BOOLEAN
  BY AssessmentAssumption DEF TypeOK, Report
<1>2. ASSUME UNCHANGED disk, pc' \in {"idle", "post", "exit"}
      PROVE  OfOneRun'
  BY <1>2 DEF OfOneRun
<1>3. ASSUME UNCHANGED <<disk, run>>, pc \in {"lint", "test", "grade", "reports"},
             pc' \in {"test", "grade", "reports", "json"}
      PROVE  OfOneRun'
  BY <1>3 DEF OfOneRun
<1>4. CASE StartCI
  <2>1. UNCHANGED disk /\ run' = run + 1 /\ pc' \in {"idle", "lint"}
    BY <1>4 DEF StartCI, Begin
  <2>2. \A r \in Report : disk'[r].run < run'
    BY <1>1, <2>1
  <2> QED BY <2>1, <2>2 DEF OfOneRun
<1>5. CASE Edit \/ NoReports \/ PostResults \/ ExitCI \/ KillCI
  BY <1>2, <1>5 DEF Edit, NoReports, PostResults, Post, ExitCI, KillCI
<1>6. CASE RunLinting \/ RunTests \/ CalculateGrade \/ StartReports
  BY <1>3, <1>6 DEF RunLinting, RunTests, CalculateGrade, StartReports
<1>7. CASE ExportJSON
  <2>1. /\ pc = "json" /\ pc' = "html" /\ UNCHANGED <<run, success>> /\ disk'["html"] = disk["html"]
        /\ disk'["json"] \in {disk["json"], [run |-> run, success |-> success], [run |-> 0, success |-> FALSE]}
    BY <1>1, <1>7 DEF ExportJSON, Export
  <2>2. disk["json"].run < run /\ disk["html"].run < run
    BY <1>1, <2>1 DEF OfOneRun
  <2>3. CASE disk'["json"] = disk["json"]
    BY <1>1, <2>1, <2>2, <2>3 DEF OfOneRun
  <2>4. CASE disk'["json"] = [run |-> run, success |-> success]
    BY <1>1, <2>1, <2>2, <2>4 DEF OfOneRun
  <2>5. CASE disk'["json"] = [run |-> 0, success |-> FALSE]
    <3>1. /\ disk'["json"].run = 0 /\ disk'["json"].success = FALSE /\ 0 < run
          /\ disk["html"].run = 0 => disk["html"].success = FALSE
      BY <1>1, <2>2, <2>5 DEF OfOneRun
    <3>2. \A r \in Report : disk'[r].run = 0 => disk'[r].success = FALSE
      BY <1>1, <2>1, <3>1
    <3>3. disk'["html"].run < run' /\ disk'["json"].run # run'
      BY <2>1, <2>2, <3>1
    <3>4. disk'["json"].run = disk'["html"].run => disk'["json"].success = disk'["html"].success
      BY <2>1, <3>1
    <3> QED BY <2>1, <3>2, <3>3, <3>4 DEF OfOneRun
  <2> QED BY <2>1, <2>3, <2>4, <2>5
<1>8. CASE ExportHTML
  <2>1. /\ pc = "html" /\ pc' = "post" /\ UNCHANGED <<run, success>> /\ disk'["json"] = disk["json"]
        /\ disk'["html"] \in {disk["html"], [run |-> run, success |-> success], [run |-> 0, success |-> FALSE]}
    BY <1>1, <1>8 DEF ExportHTML, Export
  <2>2. disk["html"].run < run /\ (disk["json"].run = run => disk["json"].success = success)
    BY <1>1, <2>1 DEF OfOneRun
  <2>3. CASE disk'["html"] = disk["html"]
    BY <1>1, <2>1, <2>3 DEF OfOneRun
  <2>4. CASE disk'["html"] = [run |-> run, success |-> success]
    BY <1>1, <2>1, <2>2, <2>4 DEF OfOneRun
  <2>5. CASE disk'["html"] = [run |-> 0, success |-> FALSE]
    <3>1. /\ disk'["html"].run = 0 /\ disk'["html"].success = FALSE
          /\ disk["json"].run = 0 => disk["json"].success = FALSE
      BY <1>1, <2>5 DEF OfOneRun
    <3> QED BY <1>1, <2>1, <3>1 DEF OfOneRun
  <2> QED BY <2>1, <2>3, <2>4, <2>5
<1>9. CASE TestCommand \/ LintCommand \/ GradeCommand \/ \E s \in Service : LintService(s)
  BY <1>2, <1>9 DEF TestCommand, LintCommand, GradeCommand, LintService, Begin
<1>10. CASE UNCHANGED vars
  BY <1>10 DEF vars, OfOneRun
<1> QED BY <1>4, <1>5, <1>6, <1>7, <1>8, <1>9, <1>10 DEF Next

\* The reports a run lists are its own and say what it found, however it ended, and two
\* files of one run never differ, whatever failed or was killed before (client.go:348-370).
THEOREM ReportsAlwaysAgree == Spec => []ReportsAgree
<1>1. Init => Written
  BY DEF Init, Written
<1>2. TypeOK /\ Written /\ [Next]_vars => Written'
  BY WrittenKept
<1>3. Init => OfOneRun
  <2> SUFFICES ASSUME Init PROVE OfOneRun
    OBVIOUS
  <2>1. pc = "idle" /\ disk["json"] = [run |-> 0, success |-> FALSE] /\ disk["html"] = [run |-> 0, success |-> FALSE]
    BY DEF Init, Report
  <2> QED BY <2>1 DEF OfOneRun, Report
<1>4. TypeOK /\ OfOneRun /\ [Next]_vars => OfOneRun'
  BY OfOneRunKept
<1>5. TypeOK /\ Written /\ OfOneRun => ReportsAgree
  <2> SUFFICES ASSUME TypeOK, Written, OfOneRun PROVE ReportsAgree
    OBVIOUS
  <2>1. \A r \in reports : disk[r].success = success
    BY DEF Written
  <2>2. reports = Report => disk["json"] = disk["html"]
    BY DEF Written, Report
  <2>3. disk["json"].run = disk["html"].run => disk["json"] = disk["html"]
    BY DEF OfOneRun, TypeOK, Report
  <2> QED BY <2>1, <2>2, <2>3 DEF ReportsAgree
<1> QED BY <1>1, <1>2, <1>3, <1>4, <1>5, TypeCorrect, PTL DEF Spec

-----------------------------------------------------------------------------
(* The verdicts of one run. *)

Graded ==
    /\ pc \in {"reports", "json", "html", "post", "exit"} \/ exit \in {"0", "1"} => success = Reaches(60)
    /\ exit \in {"0", "1"} => pc = "idle"
    /\ exit \in {"0", "1"} => (exit = "0" <=> Reaches(threshold))

\* No command, edit, fault or kill breaks Graded.
LEMMA GradedKept ==
    ASSUME TypeOK, Graded, [Next]_vars
    PROVE  Graded'
<1> USE DEF submission, result
<1>1. ASSUME pc' \in {"idle", "lint", "test", "grade"}, exit' \notin {"0", "1"}
      PROVE  Graded'
  BY <1>1 DEF Graded
<1>2. CASE Edit \/ StartCI \/ KillCI
  BY <1>1, <1>2 DEF Edit, StartCI, KillCI, Begin
<1>3. CASE RunLinting \/ RunTests
  BY <1>1, <1>3 DEF RunLinting, RunTests, Graded
<1>4. UNCHANGED <<lint, counts, threshold>> =>
        (\A limit : Reaches(limit)' = Reaches(limit)) /\ Reaches(threshold)' = Reaches(threshold)
  BY DEF Reaches
<1>5. CASE CalculateGrade
  <2>1. /\ pc = "grade" /\ pc' = "reports" /\ success' = Reaches(60)
        /\ UNCHANGED <<threshold, lint, counts, exit>>
    BY <1>5 DEF CalculateGrade
  <2> QED BY <1>4, <2>1 DEF Graded
<1>6. CASE NoReports \/ StartReports \/ ExportJSON \/ ExportHTML \/ PostResults
  <2>1. /\ pc \in {"reports", "json", "html", "post"} /\ pc' \in {"json", "html", "post", "exit"}
        /\ UNCHANGED <<threshold, lint, counts, success, exit>>
    BY <1>6 DEF NoReports, StartReports, ExportJSON, ExportHTML, Export, PostResults, Post
  <2> QED BY <1>4, <2>1 DEF Graded
<1>7. CASE ExitCI
  <2>1. /\ pc = "exit" /\ pc' = "idle" /\ exit' = IF Reaches(threshold) THEN "0" ELSE "1"
        /\ UNCHANGED <<threshold, lint, counts, success>>
    BY <1>7 DEF ExitCI
  <2> QED BY <1>4, <2>1 DEF Graded
<1>8. CASE TestCommand \/ LintCommand \/ GradeCommand \/ (\E s \in Service : LintService(s)) \/ UNCHANGED vars
  <2>1. UNCHANGED <<pc, threshold, lint, counts, success, exit>>
    BY <1>8 DEF TestCommand, LintCommand, GradeCommand, LintService, Begin, vars
  <2> QED BY <1>4, <2>1 DEF Graded
<1> QED BY <1>2, <1>3, <1>5, <1>6, <1>7, <1>8 DEF Next

\* Past grading the verdict is what the counts and the lint score say.
LEMMA AlwaysGraded == Spec => []Graded
<1>1. Init => Graded
  BY DEF Init, Graded
<1>2. TypeOK /\ Graded /\ [Next]_vars => Graded'
  BY GradedKept
<1> QED BY <1>1, <1>2, TypeCorrect, PTL DEF Spec

\* Of the verdicts that reports and exit status give, the one with the higher limit implies
\* the other, whatever integer --fail-threshold is (client.go:339-345, ci.go:181).
THEOREM ThresholdAlwaysOrders == Spec => []ThresholdOrdersVerdicts
<1>1. Init => Written
  BY DEF Init, Written
<1>2. TypeOK /\ Written /\ [Next]_vars => Written'
  BY WrittenKept
<1>3. TypeOK /\ Graded /\ Written => ThresholdOrdersVerdicts
  <2> SUFFICES ASSUME TypeOK, Graded, Written, exit \in {"0", "1"}, NEW r \in reports
               PROVE  /\ threshold >= 60 /\ exit = "0" => disk[r].success
                      /\ threshold <= 60 /\ disk[r].success => exit = "0"
    BY DEF ThresholdOrdersVerdicts
  <2>1. disk[r].success = success /\ (success <=> Reaches(60)) /\ (exit = "0" <=> Reaches(threshold))
    BY DEF Written, Graded
  <2>2. lint \in Int /\ counts.passed \in Int /\ counts.total \in Nat /\ threshold \in Int
    BY AssessmentAssumption DEF TypeOK
  <2>3. threshold >= 60 /\ Reaches(threshold) => Reaches(60)
    BY <2>2, ReachesLess DEF Reaches
  <2>4. threshold <= 60 /\ Reaches(60) => Reaches(threshold)
    BY <2>2, ReachesLess DEF Reaches
  <2> QED BY <2>1, <2>3, <2>4
<1> QED BY <1>1, <1>2, <1>3, TypeCorrect, AlwaysGraded, PTL DEF Spec

\* A comment says PASSED only of a run without a failure that its report calls
\* a success (github/client.go:194-198).
THEOREM CommentsAreHonest == Spec => []CommentIsHonest
<1>1. Init => CommentIsHonest
  BY DEF Init, CommentIsHonest
<1>2. TypeOK /\ Graded /\ CommentIsHonest /\ [Next]_vars => CommentIsHonest'
  <2> SUFFICES ASSUME TypeOK, Graded, CommentIsHonest, [Next]_vars
               PROVE  CommentIsHonest'
    OBVIOUS
  <2>1. CASE PostResults
    <3>1. comments' \subseteq comments \cup {[run |-> run, target |-> target, passes |-> CommentPasses,
                                             failed |-> counts.failed, success |-> success]}
      BY <2>1 DEF PostResults, Post
    <3>2. pc = "post"
      BY <2>1 DEF PostResults, Post
    <3>3. CommentPasses => counts.failed = 0 /\ success
      BY <3>2 DEF CommentPasses, Graded
    <3> QED BY <3>1, <3>3 DEF CommentIsHonest
  <2>2. CASE ~PostResults
    <3>1. UNCHANGED comments
      BY <2>2 DEF Next, Edit, StartCI, RunLinting, RunTests, CalculateGrade, NoReports, StartReports,
         ExportJSON, ExportHTML, Export, ExitCI, KillCI, TestCommand, LintCommand, GradeCommand,
         LintService, vars
    <3> QED BY <3>1 DEF CommentIsHonest
  <2> QED BY <2>1, <2>2
<1> QED BY <1>1, <1>2, TypeCorrect, AlwaysGraded, PTL DEF Spec

-----------------------------------------------------------------------------
(* `lint` and `lint --service` on one submission. *)

LintJudged ==
    /\ verdict["lint"] = "pass" => cppcheck # "absent" /\ LintPasses(SummaryScore)
    /\ \A s \in Service : verdict[s] = "fail" => cppcheck = "absent" \/ ~ServicePasses(ServiceScore(s))

\* An edit clears the verdicts of lint; no other command changes what they are of.
LEMMA LintJudgedKept ==
    ASSUME TypeOK, LintJudged, [Next]_vars
    PROVE  LintJudged'
<1> USE DEF submission, result
<1>1. /\ Command \subseteq DOMAIN verdict /\ Service \subseteq DOMAIN verdict
      /\ "lint" \in Command /\ Service \cap Command = {}
  BY AssessmentAssumption DEF Command, TypeOK
<1>2. UNCHANGED submission => SummaryScore' = SummaryScore /\ \A s : ServiceScore(s)' = ServiceScore(s)
  BY DEF SummaryScore, ServiceScore, Found
<1>3. ASSUME UNCHANGED submission, verdict'["lint"] = verdict["lint"],
             \A s \in Service : verdict'[s] = verdict[s]
      PROVE  LintJudged'
  BY <1>2, <1>3 DEF LintJudged
<1>4. CASE Edit
  <2>1. \A c \in Command \cup Service : verdict'[c] = "none"
    BY <1>4 DEF Edit, Unjudged
  <2> QED BY <1>1, <2>1 DEF LintJudged
<1>5. ASSUME NEW c \in Command \ {"lint"}, NEW v, verdict' = [verdict EXCEPT ![c] = v], UNCHANGED submission
      PROVE  LintJudged'
  BY <1>1, <1>3, <1>5
<1>6. CASE StartCI
  <2>1. verdict' = [verdict EXCEPT !["ci"] = "none"] /\ UNCHANGED submission
    BY <1>6 DEF StartCI
  <2> QED BY <1>5, <2>1 DEF Command
<1>7. CASE ExitCI \/ TestCommand \/ GradeCommand
  BY <1>5, <1>7 DEF ExitCI, TestCommand, GradeCommand, Judge, Command
<1>8. CASE LintCommand
  <2>1. /\ UNCHANGED submission /\ \A s \in Service : verdict'[s] = verdict[s]
        /\ verdict'["lint"] = IF cppcheck # "absent" /\ LintPasses(SummaryScore) THEN "pass" ELSE "fail"
    BY <1>1, <1>8 DEF LintCommand, Judge
  <2> QED BY <1>2, <2>1 DEF LintJudged
<1>9. ASSUME NEW s \in Service, LintService(s) PROVE LintJudged'
  <2>1. /\ UNCHANGED submission /\ verdict'["lint"] = verdict["lint"]
        /\ \A t \in Service \ {s} : verdict'[t] = verdict[t]
        /\ verdict'[s] = IF cppcheck # "absent" /\ ServicePasses(ServiceScore(s)) THEN "pass" ELSE "fail"
    BY <1>1, <1>9 DEF LintService, Judge
  <2> QED BY <1>2, <2>1 DEF LintJudged
<1>10. CASE RunLinting \/ RunTests \/ CalculateGrade \/ NoReports \/ StartReports \/ ExportJSON \/ ExportHTML
            \/ PostResults \/ KillCI \/ UNCHANGED vars
  <2>1. UNCHANGED <<submission, verdict>>
    BY <1>10 DEF RunLinting, RunTests, CalculateGrade, NoReports, StartReports, ExportJSON, ExportHTML, Export,
         PostResults, Post, KillCI, vars
  <2> QED BY <1>3, <2>1
<1> QED BY <1>4, <1>6, <1>7, <1>8, <1>9, <1>10 DEF Next

\* Code that `lint` passes has no service below 80 points: the summary, whose limit is
\* lower than that of `lint --service`, adds up what there is against all of them
\* (linter.go:344-400, lint.go:91-119).
THEOREM LintAlwaysBoundsServices == Spec => []LintBoundsServices
<1>1. Init => LintJudged
  BY DEF Init, LintJudged, Unjudged, Command
<1>2. TypeOK /\ LintJudged /\ [Next]_vars => LintJudged'
  BY LintJudgedKept
<1>3. TypeOK /\ LintJudged => LintBoundsServices
  <2> SUFFICES ASSUME TypeOK, LintJudged, verdict["lint"] = "pass", NEW s \in Service, verdict[s] = "fail"
               PROVE  ServiceScore(s) \in 80 .. 82
    BY DEF LintBoundsServices
  <2>1. SummaryScore \in 0 .. 100 /\ ServiceScore(s) \in 0 .. 100 /\ SummaryScore <= ServiceScore(s)
    BY SummaryScoreBounds DEF TypeOK, Submitted
  <2>2. SummaryScore >= 80 /\ ~ (ServiceScore(s) >= 83)
    BY DEF LintJudged, LintPasses, ServicePasses
  <2> QED BY <2>1, <2>2
<1> QED BY <1>1, <1>2, <1>3, TypeCorrect, PTL DEF Spec

-----------------------------------------------------------------------------
(* The grade calculator. *)

\* The sum over the four categories, written out.
LEMMA CategorySum ==
    ASSUME NEW f \in [Category -> Int]
    PROVE  SumFunction(f) = f["compilation"] + f["functionality"] + f["performance"] + f["reliability"]
<1> DEFINE rest1 == Category \ {"compilation"}
           rest2 == rest1 \ {"functionality"}
           rest3 == rest2 \ {"performance"}
           rest4 == rest3 \ {"reliability"}
<1>1. /\ "compilation" \in Category /\ "functionality" \in rest1 /\ "performance" \in rest2
      /\ "reliability" \in rest3 /\ rest4 = {}
  BY DEF Category
<1>2. IsFiniteSet(Category)
  <2>1. Category = {} \cup {"compilation"} \cup {"functionality"} \cup {"performance"} \cup {"reliability"}
    BY DEF Category
  <2> QED BY <2>1, FS_EmptySet, FS_AddElement
<1>3. IsFiniteSet(rest1) /\ IsFiniteSet(rest2) /\ IsFiniteSet(rest3)
  BY <1>2, FS_Subset
<1>4. /\ \A c \in rest1 : f[c] \in Int
      /\ \A c \in rest2 : f[c] \in Int
      /\ \A c \in rest3 : f[c] \in Int
      /\ \A c \in Category : f[c] \in Int
  OBVIOUS
<1> HIDE DEF rest1, rest2, rest3, rest4
<1>5. SumFunctionOnSet(f, Category) = f["compilation"] + SumFunctionOnSet(f, rest1)
  BY <1>1, <1>2, <1>4, SumRemove DEF rest1
<1>6. SumFunctionOnSet(f, rest1) = f["functionality"] + SumFunctionOnSet(f, rest2)
  BY <1>1, <1>3, <1>4, SumRemove DEF rest2
<1>7. SumFunctionOnSet(f, rest2) = f["performance"] + SumFunctionOnSet(f, rest3)
  BY <1>1, <1>3, <1>4, SumRemove DEF rest3
<1>8. SumFunctionOnSet(f, rest3) = f["reliability"] + 0
  BY <1>1, <1>3, <1>4, SumRemove, SumEmpty DEF rest4
<1>9. /\ f["compilation"] \in Int /\ f["functionality"] \in Int
      /\ f["performance"] \in Int /\ f["reliability"] \in Int
  BY DEF Category
<1> QED BY <1>5, <1>6, <1>7, <1>8, <1>9 DEF SumFunction

\* A total of 18 takes 4 of functionality if the other categories give 14 at most, as
\* they do unless a score is above the criterion's points.
LEMMA GradeArithmetic ==
    ASSUME NEW b \in [Category -> [score : Int, max : Int]], GradePasses(b)
    PROVE  /\ b["compilation"].max > 0
           /\ b["compilation"].score >= b["compilation"].max
           /\ \/ b["functionality"].score >= 10
              \/ \E c \in Category \ {"functionality"} : b[c].score > MaxPoints[c]
<1>1. \A c \in Category : b[c].score \in Int /\ b[c].max \in Int
  OBVIOUS
<1>2. /\ b["compilation"].max > 0
      /\ b["compilation"].score >= b["compilation"].max
      /\ 100 * TotalScore(b) >= 60 * TotalMax
  <2>1. /\ b["compilation"].max > 0
        /\ 100 * b["compilation"].score >= 100 * b["compilation"].max
        /\ 100 * TotalScore(b) >= 60 * TotalMax
    BY DEF GradePasses, CategoryPasses, MustPass
  <2> QED BY <1>1, <2>1 DEF Category
<1> SUFFICES ASSUME \A c \in Category \ {"functionality"} : ~ (b[c].score > MaxPoints[c])
             PROVE  b["functionality"].score >= 10
  BY <1>2
<1> DEFINE w == [c \in Category |-> Weighted(c, b[c].score)]
<1>3. /\ \A c \in Category : w[c] \in Int
      /\ w["compilation"] <= 1 /\ w["performance"] <= 9 /\ w["reliability"] <= 4
  <2>1. /\ b["compilation"].score <= 10 /\ b["performance"].score <= 30 /\ b["reliability"].score <= 20
    BY <1>1 DEF Category, MaxPoints
  <2>2. \A c \in Category : w[c] \in Int
    BY <1>1 DEF Weighted, Weight, Category
  <2>3. w["compilation"] <= 1
    BY <1>1, <2>1 DEF Weighted, Weight, Category
  <2>4. w["performance"] <= 9
    BY <1>1, <2>1 DEF Weighted, Weight, Category
  <2>5. w["reliability"] <= 4
    BY <1>1, <2>1 DEF Weighted, Weight, Category
  <2> QED BY <2>2, <2>3, <2>4, <2>5
<1>4. w["functionality"] >= 4 => b["functionality"].score >= 10
  <2>1. w["functionality"] = Weighted("functionality", b["functionality"].score)
    BY DEF Category
  <2> QED BY <1>1, <2>1 DEF Weighted, Weight, Category
<1>5. TotalScore(b) = SumFunction(w)
  BY DEF TotalScore
<1> HIDE DEF w
<1>6. w \in [Category -> Int]
  BY <1>3 DEF w
<1>7. TotalScore(b) = w["compilation"] + w["functionality"] + w["performance"] + w["reliability"]
  BY <1>5, <1>6, CategorySum
<1>8. TotalMax = 30
  <2> DEFINE m == [c \in Category |-> Weighted(c, MaxPoints[c])]
  <2>1. m \in [Category -> Int]
    BY DEF Weighted, Weight, Category, MaxPoints
  <2>2. m["compilation"] = 1 /\ m["functionality"] = 16 /\ m["performance"] = 9 /\ m["reliability"] = 4
    BY DEF Weighted, Weight, Category, MaxPoints
  <2>3. TotalMax = SumFunction(m)
    BY DEF TotalMax
  <2> HIDE DEF m
  <2> QED BY <2>1, <2>2, <2>3, CategorySum
<1>9. w["functionality"] >= 4
  <2>1. /\ w["compilation"] \in Int /\ w["functionality"] \in Int
        /\ w["performance"] \in Int /\ w["reliability"] \in Int
    BY <1>3 DEF Category
  <2> QED BY <1>2, <1>3, <1>7, <1>8, <2>1
<1> QED BY <1>4, <1>9

BookGraded == verdict["grade"] = "pass" => GradePasses(book)

\* The book that has been graded is not replaced before the verdict is.
LEMMA BookGradedKept ==
    ASSUME TypeOK, BookGraded, [Next]_vars
    PROVE  BookGraded'
<1>1. /\ "grade" \in DOMAIN verdict /\ Service \cap Command = {}
      /\ DOMAIN verdict = Command \cup Service
  BY AssessmentAssumption DEF Command, TypeOK
<1>2. CASE GradeCommand
  BY <1>1, <1>2 DEF GradeCommand, Judge, BookGraded
<1>3. CASE ~GradeCommand
  <2>1. UNCHANGED book
    BY <1>3 DEF Next, Edit, StartCI, RunLinting, RunTests, CalculateGrade, NoReports, StartReports,
       ExportJSON, ExportHTML, Export, PostResults, Post, ExitCI, KillCI, TestCommand, LintCommand,
       LintService, vars
  <2>2. verdict'["grade"] \in {verdict["grade"], "none"}
    <3>1. CASE Edit \/ StartCI \/ ExitCI \/ TestCommand \/ LintCommand \/ \E s \in Service : LintService(s)
      BY <1>1, <3>1 DEF Edit, Unjudged, StartCI, ExitCI, TestCommand, LintCommand, LintService, Judge, Command
    <3>2. CASE RunLinting \/ RunTests \/ CalculateGrade \/ NoReports \/ StartReports \/ ExportJSON
               \/ ExportHTML \/ PostResults \/ KillCI \/ UNCHANGED vars
      BY <3>2 DEF RunLinting, RunTests, CalculateGrade, NoReports, StartReports, ExportJSON, ExportHTML,
         Export, PostResults, KillCI, vars
    <3> QED BY <1>3, <3>1, <3>2 DEF Next
  <2> QED BY <2>1, <2>2 DEF BookGraded
<1> QED BY <1>2, <1>3

\* Whatever marks the calculator is given, a grade passes with all compilation points only,
\* and with less than ten for functionality only if another category was given more than
\* the criterion has (calculator.go:110-219).
THEOREM GradesNeedTheCore == Spec => []GradeNeedsCore
<1>1. Init => BookGraded
  BY DEF Init, BookGraded, Unjudged, Command
<1>2. TypeOK /\ BookGraded /\ [Next]_vars => BookGraded'
  BY BookGradedKept
<1>3. TypeOK /\ BookGraded => GradeNeedsCore
  BY GradeArithmetic DEF TypeOK, BookGraded, GradeNeedsCore
<1> QED BY <1>1, <1>2, <1>3, TypeCorrect, PTL DEF Spec
=============================================================================
