------------------------------- MODULE Grading -------------------------------
(***************************************************************************)
(* The arithmetic of the harness's three gradings: the calculator of       *)
(* test-harness/pkg/grading/calculator.go, the lint score of               *)
(* pkg/linter/linter.go and the pipeline's grade of pkg/ci/client.go.      *)
(* Percentages are compared as fractions: the float64 results fall on the  *)
(* same side of every limit for lint scores up to 100 and up to 60 tests,  *)
(* and the weighted points of the calculator are cut to the same integer   *)
(* for marks up to 200000 either way.                                      *)
(***************************************************************************)
EXTENDS Integers, Functions

-----------------------------------------------------------------------------
(* The calculator: points per category, weighted by the category again. *)

Category == {"compilation", "functionality", "performance", "reliability"}
MaxPoints == [compilation |-> 10, functionality |-> 40, performance |-> 30, reliability |-> 20]
\* In tenths.
Weight == [compilation |-> 1, functionality |-> 4, performance |-> 3, reliability |-> 2]
MustPass == {"compilation"}

NotEvaluated(c) == [score |-> 0, max |-> MaxPoints[c]]

\* AddResult's verdict on category c with result r.
CategoryPasses(c, r) ==
    r.max > 0 /\ 100 * r.score >= (IF c \in MustPass THEN 100 ELSE 60) * r.max

\* int() cuts the weighted points of each category towards zero.
Weighted(c, points) ==
    IF points >= 0 THEN (Weight[c] * points) \div 10 ELSE 0 - ((Weight[c] * (0 - points)) \div 10)
TotalScore(book) == SumFunction([c \in Category |-> Weighted(c, book[c].score)])
TotalMax == SumFunction([c \in Category |-> Weighted(c, MaxPoints[c])])

\* A total that is good enough, whatever the must-pass categories.
GradePasses_AnyCategory(book) == 100 * TotalScore(book) >= 60 * TotalMax

\* Calculate's verdict on the results in book.
GradePasses(book) ==
    /\ \A c \in MustPass : CategoryPasses(c, book[c])
    /\ 100 * TotalScore(book) >= 60 * TotalMax

-----------------------------------------------------------------------------
(* The linter. *)

\* No minimum.
LintScore_Uncapped(errors, warnings, styles) ==
    LET half == 10 * errors + 4 * warnings + styles IN
    IF half >= 200 THEN 0 - ((half - 200) \div 2) ELSE (200 - half) \div 2

\* Deductions are counted in half points and the score is cut to an integer.
LintScore(errors, warnings, styles) ==
    LET half == 10 * errors + 4 * warnings + styles IN
    IF half >= 200 THEN 0 ELSE (200 - half) \div 2

\* The limits of RunAll's summary and of `lint --service`.
LintPasses(score) == score >= 80
ServicePasses(score) == score >= 83

-----------------------------------------------------------------------------
(* The pipeline. *)

\* totalScore >= limit for a lint score and p of t tests passed: 10% for a
\* compilation that is taken for granted, 10% lint, 35% tests, and placeholders
\* of 80 and 75 out of 100 for 25% performance and 20% reliability.
PipelineAtLeast(lint, p, t, limit) ==
    IF t = 0 THEN 450 + lint >= 10 * limit
             ELSE 450 * t + lint * t + 350 * p >= 10 * limit * t
=============================================================================
