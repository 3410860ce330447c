-------------------------------- MODULE Search --------------------------------
(***************************************************************************)
(* The searches for a failing input of the test harness: property tests    *)
(* (test-harness/pkg/property/testing.go) and fuzzing                      *)
(* (test-harness/pkg/fuzz/fuzzer.go).                                      *)
(*                                                                         *)
(* A property test draws values until one fails its property, and shrinks  *)
(* that: it asks the generator for candidates and goes on with the first   *)
(* one that fails too.  The fuzzer draws inputs until the target panics.   *)
(* A value is an interface{}: its dynamic type and the value.              *)
(***************************************************************************)
EXTENDS Integers, SequencesExt

CONSTANTS
    Trials,      \* a generator and the values that fail, or make the target panic
    Iterations,  \* Config.Iterations
    MaxShrink    \* Config.MaxShrink

ASSUME SearchAssumption ==
    Iterations \in Nat \ {0} /\ MaxShrink \in Nat \ {0}

VARIABLES
    trial,      \* the search that runs
    pc,         \* where it is
    drawn,      \* the values drawn so far
    current,    \* the smallest failing value found
    candidates, \* what Shrink has returned for it
    next,       \* the candidate tried next
    shrinks,    \* number of shrinks
    outcome,    \* the result
    tally       \* the fuzzer's results by their kind

vars == <<trial, pc, drawn, current, candidates, next, shrinks, outcome, tally>>

Nothing == <<"nil">>
AnInt(n) == <<"int", n>>
AString(s) == <<"string", s>>
ASlice(s) == <<"slice", s>>
APair(a, b) == <<"pair", <<a, b>>>>
AMap(f) == <<"map", f>>

-----------------------------------------------------------------------------
(* Generators.  The elements of slices, maps and pairs are integers.       *)

Lengths(g) == g.min .. g.max
OfLengths(S, L) == UNION {[1 .. n -> S] : n \in L}
Ints(g) == {AnInt(n) : n \in g.min .. g.max}
\* Equal keys are drawn again: a map may have less than min entries.
MapsOver(keys, values, L) == UNION {[K -> values] : K \in {k \in SUBSET keys : \E n \in L : Cardinality(k) <= n /\ (n > 0 => k # {})}}

Generate(g) ==
    CASE g.kind = "int" -> Ints(g)
      [] g.kind = "string" -> {AString(s) : s \in OfLengths(g.chars, Lengths(g))}
      [] g.kind = "slice" -> {ASlice(s) : s \in OfLengths(Ints(g.elem), Lengths(g))}
      [] g.kind = "map" -> {AMap(f) : f \in MapsOver(Ints(g.key), Ints(g.value), Lengths(g))}
      [] g.kind = "pair" -> {APair(a, b) : a \in Ints(g.gen1), b \in Ints(g.gen2)}
      [] g.kind = "oneof" -> UNION {IF h.kind = "int" THEN Ints(h) ELSE {AString(s) : s \in OfLengths(h.chars, Lengths(h))} : h \in ToSet(g.gens)}
      [] g.kind = "bytes" -> g.inputs

\* Division in Go goes towards zero.
Half(n) == IF n >= 0 THEN n \div 2 ELSE -((-n) \div 2)

IntShrink(g, v) ==
    (IF v[2] > g.min THEN <<AnInt(Half(v[2])), AnInt(v[2] - 1)>> ELSE << >>)
    \o (IF v[2] < 0 THEN <<AnInt(-v[2])>> ELSE << >>)

\* Without the last element, without the first, the first half.
Shorter(s) == <<Front(s), Tail(s), SubSeq(s, 1, Len(s) \div 2)>>

StringShrink(g, v) ==
    IF Len(v[2]) <= g.min THEN << >>
    ELSE LET shorter == Shorter(v[2]) IN [k \in 1 .. 3 |-> AString(shorter[k])]

\* Elements are shrunk only in a slice that can be shortened.
SliceShrink(g, v) ==
    IF Len(v[2]) <= g.min THEN << >>
    ELSE LET shorter == Shorter(v[2])
             smaller(k) == LET e == IntShrink(g.elem, v[2][k]) IN
                           [j \in DOMAIN e |-> ASlice([v[2] EXCEPT ![k] = e[j]])]
         IN [k \in 1 .. 3 |-> ASlice(shorter[k])]
            \o FlattenSeq([k \in 1 .. Len(v[2]) |-> smaller(k)])

PairShrink(g, v) ==
    LET firsts == IntShrink(g.gen1, v[2][1])
        seconds == IntShrink(g.gen2, v[2][2])
    IN [k \in DOMAIN firsts |-> APair(firsts[k], v[2][2])]
       \o [k \in DOMAIN seconds |-> APair(v[2][1], seconds[k])]

\* One entry less: the one that the iteration over the map yields first.
MapShrinks(g, v) ==
    IF Cardinality(DOMAIN v[2]) <= g.min THEN {<< >>}
    ELSE {<<AMap([k \in DOMAIN v[2] \ {gone} |-> v[2][k]])>> : gone \in DOMAIN v[2]}

\* A generator that is asked for a value of another type panics: value.(int).
Panics(g, v) == g.kind # v[1]
BasicShrink(g, v) == IF g.kind = "int" THEN IntShrink(g, v) ELSE StringShrink(g, v)

\* OneOf asks its generators in turn until one has candidates.
Asked(g, v) == {k \in DOMAIN g.gens : \A j \in 1 .. k - 1 :
                   ~Panics(g.gens[j], v) /\ BasicShrink(g.gens[j], v) = << >>}
OneOfPanics(g, v) == \E k \in Asked(g, v) : Panics(g.gens[k], v)
OneOfShrink(g, v) ==
    LET answers == {BasicShrink(g.gens[k], v) : k \in Asked(g, v)} \ {<< >>}
    IN IF answers = {} THEN << >> ELSE CHOOSE a \in answers : TRUE

\* What Shrink may return for v.
Shrinks(g, v) ==
    CASE g.kind = "int" -> {IntShrink(g, v)}
      [] g.kind = "string" -> {StringShrink(g, v)}
      [] g.kind = "slice" -> {SliceShrink(g, v)}
      [] g.kind = "map" -> MapShrinks(g, v)
      [] g.kind = "pair" -> {PairShrink(g, v)}
      [] g.kind = "oneof" -> {OneOfShrink(g, v)}

\* The generators there are.  OneOf is used over integers and strings, and what fails a
\* property of slices is a slice.
ASSUME TrialAssumption ==
    \A t \in Trials :
       /\ t.gen.kind \in {"int", "string", "slice", "map", "pair", "oneof", "bytes"}
       /\ t.gen.kind = "oneof" => \A k \in DOMAIN t.gen.gens : t.gen.gens[k].kind \in {"int", "string"}
       /\ t.gen.kind = "slice" => \A v \in t.fails : v[2] \in Seq(ToSet(v[2]))

-----------------------------------------------------------------------------
Init ==
    /\ trial \in Trials
    /\ pc = "draw" /\ drawn = << >> /\ current = Nothing
    /\ candidates = << >> /\ next = 1 /\ shrinks = 0
    /\ outcome = "none"
    /\ tally = [crashes |-> 0, errors |-> 0, successes |-> 0]

End(result) == pc' = "end" /\ outcome' = result

\* The context is looked at between two draws only.
Cancel ==
    /\ pc = "draw" /\ Len(drawn) < Iterations
    /\ End("cancelled")
    /\ UNCHANGED <<trial, drawn, current, candidates, next, shrinks, tally>>

Exhaust ==
    /\ pc = "draw" /\ Len(drawn) = Iterations
    /\ End("passed")
    /\ UNCHANGED <<trial, drawn, current, candidates, next, shrinks, tally>>

\* Run of a property test draws a value and checks it.
Draw ==
    /\ pc = "draw" /\ Len(drawn) < Iterations /\ trial.gen.kind # "bytes"
    /\ \E v \in Generate(trial.gen) :
          /\ drawn' = Append(drawn, v)
          /\ IF v \in trial.fails THEN pc' = "shrink" /\ current' = v
                                  ELSE UNCHANGED <<pc, current>>
    /\ UNCHANGED <<trial, candidates, next, shrinks, outcome, tally>>

Shrink ==
    /\ pc = "shrink"
    /\ IF shrinks >= MaxShrink
       THEN End("failed") /\ UNCHANGED <<candidates, next>>
       ELSE IF trial.gen.kind = "oneof" /\ OneOfPanics(trial.gen, current)
            THEN End("panic") /\ UNCHANGED <<candidates, next>>
            ELSE /\ candidates' \in Shrinks(trial.gen, current)
                 /\ next' = 1 /\ pc' = "try"
                 /\ UNCHANGED outcome
    /\ UNCHANGED <<trial, drawn, current, shrinks, tally>>

\* Going on with the first candidate, whether it fails or not.
Try_Unchecked ==
    /\ pc = "try"
    /\ IF next > Len(candidates)
       THEN End("failed") /\ UNCHANGED <<current, shrinks>>
       ELSE current' = candidates[next] /\ shrinks' = shrinks + 1 /\ pc' = "shrink" /\ UNCHANGED outcome
    /\ UNCHANGED <<trial, drawn, candidates, next, tally>>

\* A shrink that does not count.
Try_Uncounted ==
    /\ pc = "try"
    /\ IF next > Len(candidates)
       THEN End("failed") /\ UNCHANGED <<current, next>>
       ELSE IF candidates[next] \in trial.fails
            THEN current' = candidates[next] /\ pc' = "shrink" /\ UNCHANGED <<next, outcome>>
            ELSE next' = next + 1 /\ UNCHANGED <<current, pc, outcome>>
    /\ UNCHANGED <<trial, drawn, candidates, shrinks, tally>>

\* The first candidate that fails is the next value; if none does, the search
\* is over.
Try ==
    /\ pc = "try"
    /\ IF next > Len(candidates)
       THEN End("failed") /\ UNCHANGED <<current, next, shrinks>>
       ELSE IF candidates[next] \in trial.fails
            THEN /\ current' = candidates[next] /\ shrinks' = shrinks + 1
                 /\ pc' = "shrink" /\ UNCHANGED <<next, outcome>>
            ELSE next' = next + 1 /\ UNCHANGED <<current, shrinks, pc, outcome>>
    /\ UNCHANGED <<trial, drawn, candidates, tally>>

\* A fuzzer that goes on after a panic.
Fuzz_GoesOn ==
    /\ pc = "draw" /\ Len(drawn) < Iterations /\ trial.gen.kind = "bytes"
    /\ \E v \in Generate(trial.gen) : drawn' = Append(drawn, v)
    /\ UNCHANGED <<trial, pc, current, candidates, next, shrinks, outcome, tally>>

\* Run of the fuzzer: a panic of the target is recovered and ends the run, which
\* is the caller's result either way.
Fuzz ==
    /\ pc = "draw" /\ Len(drawn) < Iterations /\ trial.gen.kind = "bytes"
    /\ \E v \in Generate(trial.gen) :
          LET kind == IF v \in trial.panics THEN "crashes"
                      ELSE IF v \in trial.fails THEN "errors" ELSE "successes"
          IN /\ drawn' = Append(drawn, v)
             /\ tally' = [tally EXCEPT ![kind] = @ + 1]
             /\ IF kind = "crashes" THEN End("failed") ELSE UNCHANGED <<pc, outcome>>
    /\ UNCHANGED <<trial, current, candidates, next, shrinks>>

Step == Exhaust \/ Draw \/ Shrink \/ Try \/ Fuzz
Next == Cancel \/ Step
Spec == Init /\ [][Next]_vars

\* A search is one goroutine that blocks nowhere.
FairSpec == Spec /\ WF_vars(Step)

-----------------------------------------------------------------------------
\* A search that passes has drawn its number of values and none of them failed,
\* or panicked; one that fails says so of the last value it drew
\* (testing.go:80-113, fuzzer.go:228-257).
OutcomeIsTrue ==
    LET bad == IF trial.gen.kind = "bytes" THEN trial.panics ELSE trial.fails
    IN /\ outcome = "passed" => Len(drawn) = Iterations /\ \A k \in DOMAIN drawn : drawn[k] \notin bad
       /\ outcome = "failed" => Last(drawn) \in bad /\ \A k \in 1 .. Len(drawn) - 1 : drawn[k] \notin bad

\* The value reported fails the property, and unless the search was cut short
\* by MaxShrink no candidate for it does (testing.go:116-142).
ReportIsMinimal ==
    outcome = "failed" /\ trial.gen.kind # "bytes" =>
       /\ current \in trial.fails
       /\ \/ shrinks = MaxShrink
          \/ \E c \in Shrinks(trial.gen, current) : \A k \in DOMAIN c : c[k] \notin trial.fails

\* Every search ends, although candidates need not be smaller: 0 is a candidate
\* for itself (testing.go:155-167).
SearchEnds == <>(pc = "end")
=============================================================================
