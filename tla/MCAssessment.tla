---------------------------- MODULE MCAssessment ----------------------------
(* Instances of Assessment for TLC. *)
EXTENDS Assessment, TLC

CONSTANTS ingestion, query
Services == {ingestion, query}
ServiceSymmetry == Permutations(Services)
Issues(e, w, s) == [errors |-> e, warnings |-> w, styles |-> s]
\* 99, 81 and 46 points, and two services with the last have 0 together.
SomeFindings == {Issues(0, 0, 1), Issues(1, 5, 7), Issues(10, 2, 0)}

\* Error status and lines with PASS, FAIL and SKIP.
Ran(e, p, f, s) == [kind |-> "ran", error |-> e, passed |-> p, failed |-> f, skipped |-> s]
SomeOutcomes == {
    [kind |-> "missing", error |-> FALSE, passed |-> 0, failed |-> 0, skipped |-> 0],
    Ran(FALSE, 4, 0, 1),  \* three tests and the program pass
    Ran(TRUE, 2, 8, 0),   \* five tests fail, and what follows from it
    Ran(FALSE, 3, 1, 0),  \* two tests pass, one of them after writing FAIL
    Ran(TRUE, 0, 0, 0)}   \* no packages to test

\* The marks of runGrade, marks at and below a limit, and marks above the
\* criterion's points or below zero.
Mark(s, m) == [score |-> s, max |-> m]
SomeBooks ==
    {[compilation |-> c, functionality |-> f, performance |-> p, reliability |-> r] :
        c \in {Mark(9, 10), Mark(10, 10), Mark(30, 20)},
        f \in {Mark(0, 40), Mark(9, 40), Mark(10, 40), Mark(38, 40)},
        p \in {Mark(18, 20), Mark(30, 30), Mark(100, 100)},
        r \in {Mark(-5, 20), Mark(15, 15), Mark(20, 20)}}
\* One below the limit of the reports and the default above it.
SomeThresholds == {50, DefaultThreshold}
=============================================================================
