---------------------------- MODULE SearchProofs ----------------------------
(***************************************************************************)
(* Theorems about Search, for any generators, any sets of failing values   *)
(* and any bounds.                                                         *)
(***************************************************************************)
EXTENDS Search, SumTheorems

\* What makes the result of a search "failed".
Bad == IF trial.gen.kind = "bytes" THEN trial.panics ELSE trial.fails

\* What has been drawn: nothing bad while the search draws, the last value
\* alone once it has failed.
Drawn ==
    /\ trial \in Trials
    /\ pc \in {"draw", "shrink", "try", "end"}
    /\ drawn \in Seq(Generate(trial.gen))
    /\ pc = "draw" => outcome = "none" /\ \A k \in DOMAIN drawn : drawn[k] \notin Bad
    /\ pc \in {"shrink", "try"} \/ outcome = "failed" =>
         Len(drawn) > 0 /\ Last(drawn) \in Bad /\ \A k \in 1 .. Len(drawn) - 1 : drawn[k] \notin Bad
    /\ pc \in {"shrink", "try"} => outcome = "none" /\ trial.gen.kind # "bytes"
    /\ outcome = "passed" => Len(drawn) = Iterations /\ \A k \in DOMAIN drawn : drawn[k] \notin Bad

\* A value that fails is the last one drawn.
LEMMA DrawKeeps ==
    ASSUME Drawn, Draw
    PROVE  Drawn'
<1>1. PICK v \in Generate(trial.gen) :
         /\ drawn' = Append(drawn, v)
         /\ IF v \in trial.fails THEN pc' = "shrink" ELSE pc' = pc
  BY DEF Draw
<1>2. /\ pc = "draw" /\ outcome = "none" /\ trial.gen.kind # "bytes"
      /\ UNCHANGED <<trial, outcome>> /\ Bad' = Bad /\ Bad = trial.fails
  BY DEF Draw, Drawn, Bad
<1>3. /\ drawn' \in Seq(Generate(trial.gen))
      /\ Len(drawn') = Len(drawn) + 1 /\ drawn'[Len(drawn')] = v
      /\ \A k \in 1 .. Len(drawn) : drawn'[k] = drawn[k]
      /\ DOMAIN drawn = 1 .. Len(drawn) /\ DOMAIN drawn' = 1 .. Len(drawn) + 1
      /\ Len(drawn) \in Nat
  BY <1>1 DEF Drawn
<1>4. \A k \in 1 .. Len(drawn') - 1 : drawn'[k] \notin Bad
  BY <1>2, <1>3 DEF Drawn
<1>5. CASE v \in trial.fails
  <2>1. pc' = "shrink" /\ Last(drawn') \in Bad'
    BY <1>1, <1>2, <1>3, <1>5 DEF Last
  <2> QED BY <1>2, <1>3, <1>4, <2>1 DEF Drawn
<1>6. CASE v \notin trial.fails
  <2>1. pc' = "draw" /\ \A k \in DOMAIN drawn' : drawn'[k] \notin Bad'
    BY <1>1, <1>2, <1>3, <1>4, <1>6
  <2> QED BY <1>2, <1>3, <2>1 DEF Drawn
<1> QED BY <1>5, <1>6

\* An input that panics is the last one tried.
LEMMA FuzzKeeps ==
    ASSUME Drawn, Fuzz
    PROVE  Drawn'
<1>1. PICK v \in Generate(trial.gen) :
         /\ drawn' = Append(drawn, v)
         /\ IF v \in trial.panics THEN pc' = "end" /\ outcome' = "failed" ELSE UNCHANGED <<pc, outcome>>
  BY DEF Fuzz, End
<1>2. /\ pc = "draw" /\ outcome = "none" /\ UNCHANGED trial
      /\ Bad' = Bad /\ Bad = trial.panics
  BY DEF Fuzz, Drawn, Bad
<1>3. /\ drawn' \in Seq(Generate(trial.gen))
      /\ Len(drawn') = Len(drawn) + 1 /\ drawn'[Len(drawn')] = v
      /\ \A k \in 1 .. Len(drawn) : drawn'[k] = drawn[k]
      /\ DOMAIN drawn = 1 .. Len(drawn) /\ DOMAIN drawn' = 1 .. Len(drawn) + 1
      /\ Len(drawn) \in Nat
  BY <1>1 DEF Drawn
<1>4. \A k \in 1 .. Len(drawn') - 1 : drawn'[k] \notin Bad
  BY <1>2, <1>3 DEF Drawn
<1>5. CASE v \in trial.panics
  <2>1. pc' = "end" /\ outcome' = "failed" /\ Last(drawn') \in Bad'
    BY <1>1, <1>2, <1>3, <1>5 DEF Last
  <2> QED BY <1>2, <1>3, <1>4, <2>1 DEF Drawn
<1>6. CASE v \notin trial.panics
  <2>1. pc' = "draw" /\ outcome' = "none" /\ \A k \in DOMAIN drawn' : drawn'[k] \notin Bad'
    BY <1>1, <1>2, <1>3, <1>4, <1>6
  <2> QED BY <1>2, <1>3, <2>1 DEF Drawn
<1> QED BY <1>5, <1>6

\* No step of a search breaks Drawn.
LEMMA DrawnKept ==
    ASSUME Drawn, [Next]_vars
    PROVE  Drawn'
<1>1. CASE Shrink
  <2>1. UNCHANGED <<trial, drawn>> /\ pc = "shrink"
        /\ \/ pc' = "end" /\ outcome' \in {"failed", "panic"}
           \/ pc' = "try" /\ outcome' = outcome
    BY <1>1 DEF Shrink, End
  <2> QED BY <2>1 DEF Drawn, Bad
<1>2. CASE Try
  <2>1. UNCHANGED <<trial, drawn>> /\ pc = "try"
        /\ \/ pc' = "end" /\ outcome' = "failed"
           \/ pc' \in {"shrink", "try"} /\ outcome' = outcome
    BY <1>2 DEF Try, End
  <2> QED BY <2>1 DEF Drawn, Bad
<1>3. CASE Cancel \/ Exhaust
  <2>1. UNCHANGED <<trial, drawn>> /\ pc = "draw" /\ pc' = "end"
        /\ \/ outcome' = "cancelled"
           \/ outcome' = "passed" /\ Len(drawn) = Iterations
    BY <1>3 DEF Cancel, Exhaust, End
  <2> QED BY <2>1 DEF Drawn, Bad
<1>4. CASE UNCHANGED vars
  BY <1>4 DEF vars, Drawn, Bad
<1> QED BY <1>1, <1>2, <1>3, <1>4, DrawKeeps, FuzzKeeps DEF Next, Step

\* All values drawn but the last are known not to fail.
LEMMA AlwaysDrawn == Spec => []Drawn
<1>1. Init => Drawn
  BY DEF Init, Drawn
<1>2. Drawn /\ [Next]_vars => Drawn'
  BY DrawnKept
<1> QED BY <1>1, <1>2, PTL DEF Spec

\* A search that passes has drawn what it should and seen nothing fail, one that
\* fails has failed on the last value it drew (testing.go:80-113,
\* fuzzer.go:228-257).
THEOREM OutcomesAreTrue == Spec => []OutcomeIsTrue
<1>1. Drawn => OutcomeIsTrue
  BY DEF Drawn, OutcomeIsTrue, Bad
<1> QED BY <1>1, AlwaysDrawn, PTL

-----------------------------------------------------------------------------
(* What Shrink returns is a list: a sequence, whatever its elements are.   *)

IsList(c) == c \in Seq(ToSet(c))

\* Sequences are lists.
LEMMA ListOver ==
    ASSUME NEW S, NEW c \in Seq(S)
    PROVE  IsList(c)
BY DEF IsList, ToSet

\* A list is a sequence over any set that holds its elements.
LEMMA ListWithin ==
    ASSUME NEW c, IsList(c), NEW S, ToSet(c) \subseteq S
    PROVE  c \in Seq(S)
BY DEF IsList

\* Lists of no and of one element.
LEMMA ShortLists == IsList(<< >>) /\ \A x : IsList(<<x>>)
<1>1. << >> \in Seq({}) /\ \A x : <<x>> \in Seq({x})
  OBVIOUS
<1> QED BY <1>1, ListOver

\* append gives a list.
LEMMA ConcatenatedLists ==
    ASSUME NEW c, IsList(c), NEW d, IsList(d)
    PROVE  IsList(c \o d)
<1> DEFINE S == ToSet(c) \cup ToSet(d)
<1>1. c \in Seq(S) /\ d \in Seq(S)
  BY ListWithin
<1> HIDE DEF S
<1>2. c \o d \in Seq(S)
  BY <1>1
<1> QED BY <1>2, ListOver

\* f[i] is the concatenation of the first i sequences.
Flattens(f, seqs, n) == f = [i \in 1 .. n |-> IF i = 1 THEN seqs[i] ELSE f[i - 1] \o seqs[i]]

\* The function by which FlattenSeq is defined exists, by the least length without one.
LEMMA FlatteningExists ==
    ASSUME NEW seqs, NEW n \in Nat
    PROVE  \E f : Flattens(f, seqs, n)
<1> DEFINE T == {k \in Nat : ~ \E f : Flattens(f, seqs, k)}
<1> SUFFICES ASSUME T # {} PROVE FALSE
  OBVIOUS
<1>1. PICK m \in T : \A k \in T : m <= k
  <2>1. T \in SUBSET Nat
    OBVIOUS
  <2> HIDE DEF T
  <2> QED BY <2>1, LeastNumber
<1>2. CASE m = 0
  <2> DEFINE f == [i \in {} |-> {}]
  <2>1. 1 .. 0 = {}
    OBVIOUS
  <2>2. Flattens(f, seqs, 0)
    BY <2>1 DEF Flattens
  <2> QED BY <1>2, <2>2
<1>3. CASE m # 0
  <2>1. m - 1 \in Nat /\ m - 1 \notin T
    BY <1>1, <1>3
  <2>2. PICK f : Flattens(f, seqs, m - 1)
    BY <2>1
  <2> DEFINE value(g, i) == IF i = 1 THEN seqs[i] ELSE g[i - 1] \o seqs[i]
             h == [i \in 1 .. m |-> value(f, i)]
  <2>3. ASSUME NEW i \in 1 .. m PROVE value(h, i) = value(f, i)
    <3>1. CASE i = 1
      BY <3>1
    <3>2. CASE i # 1
      <4>1. i - 1 \in 1 .. m /\ i - 1 \in 1 .. (m - 1)
        BY <3>2
      <4>2. h[i - 1] = value(f, i - 1) /\ f[i - 1] = value(f, i - 1)
        BY <2>2, <4>1 DEF Flattens
      <4>3. h[i - 1] = f[i - 1]
        BY <4>2
      <4> HIDE DEF h
      <4> QED BY <3>2, <4>3
    <3> QED BY <3>1, <3>2
  <2>4. h = [i \in 1 .. m |-> value(h, i)]
    <3>1. \A i \in 1 .. m : value(f, i) = value(h, i)
      BY <2>3
    <3> HIDE DEF value
    <3> QED BY <3>1
  <2>5. Flattens(h, seqs, m)
    BY <2>4 DEF Flattens
  <2> QED BY <2>5
<1> QED BY <1>2, <1>3

\* A list of lists gives a list, by the shortest initial part that does not.
LEMMA FlattenedLists ==
    ASSUME NEW seqs, IsList(seqs), \A k \in 1 .. Len(seqs) : IsList(seqs[k])
    PROVE  IsList(FlattenSeq(seqs))
<1> DEFINE f == CHOOSE f : Flattens(f, seqs, Len(seqs))
           T == {k \in Nat : k \in 1 .. Len(seqs) /\ ~ IsList(f[k])}
<1>1. Len(seqs) \in Nat
  BY DEF IsList
<1>2. Flattens(f, seqs, Len(seqs))
  BY <1>1, FlatteningExists
<1>3. FlattenSeq(seqs) = IF Len(seqs) = 0 THEN seqs ELSE f[Len(seqs)]
  BY DEF FlattenSeq, Flattens
<1> HIDE DEF f
<1>4. T = {}
  <2> SUFFICES ASSUME T # {} PROVE FALSE
    OBVIOUS
  <2>1. PICK m \in T : \A k \in T : m <= k
    <3>1. T \in SUBSET Nat
      OBVIOUS
    <3> HIDE DEF T
    <3> QED BY <3>1, LeastNumber
  <2>2. f[m] = IF m = 1 THEN seqs[m] ELSE f[m - 1] \o seqs[m]
    BY <1>2, <2>1 DEF Flattens
  <2>3. CASE m # 1
    <3>1. m - 1 \in 1 .. Len(seqs) /\ m - 1 \notin T
      BY <1>1, <2>1, <2>3
    <3>2. IsList(f[m - 1]) /\ IsList(seqs[m])
      BY <2>1, <3>1
    <3>3. IsList(f[m])
      BY <2>2, <2>3, <3>2, ConcatenatedLists
    <3> QED BY <2>1, <3>3
  <2> QED BY <2>1, <2>2, <2>3
<1> QED BY <1>1, <1>3, <1>4

\* IntGenerator.Shrink returns a list.
LEMMA IntShrinkIsList == \A g, v : IsList(IntShrink(g, v))
<1> SUFFICES ASSUME NEW g, NEW v PROVE IsList(IntShrink(g, v))
  OBVIOUS
<1> DEFINE smaller == IF v[2] > g.min THEN <<AnInt(Half(v[2])), AnInt(v[2] - 1)>> ELSE << >>
           negated == IF v[2] < 0 THEN <<AnInt(-v[2])>> ELSE << >>
<1>1. IntShrink(g, v) = smaller \o negated
  BY DEF IntShrink
<1>2. \A x, y : IsList(<<x, y>>)
  <2>1. \A x, y : <<x, y>> \in Seq({x, y})
    OBVIOUS
  <2> QED BY <2>1, ListOver
<1>3. IsList(smaller) /\ IsList(negated)
  BY <1>2, ShortLists
<1> QED BY <1>1, <1>3, ConcatenatedLists

\* StringGenerator.Shrink returns a list.
LEMMA StringShrinkIsList == \A g, v : IsList(StringShrink(g, v))
<1> SUFFICES ASSUME NEW g, NEW v PROVE IsList(StringShrink(g, v))
  OBVIOUS
<1> DEFINE x(k) == AString(Shorter(v[2])[k])
           list == [k \in 1 .. 3 |-> x(k)]
<1>1. StringShrink(g, v) = IF Len(v[2]) <= g.min THEN << >> ELSE list
  BY DEF StringShrink
<1> HIDE DEF x
<1>2. list \in Seq({x(k) : k \in 1 .. 3})
  OBVIOUS
<1>3. IsList(list)
  BY <1>2, ListOver
<1> QED BY <1>1, <1>3, ShortLists

\* SliceGenerator.Shrink returns a list.
LEMMA SliceShrinkIsList ==
    ASSUME NEW g, NEW v, IsList(v[2])
    PROVE  IsList(SliceShrink(g, v))
<1> DEFINE shorter == Shorter(v[2])
           e(k) == IntShrink(g.elem, v[2][k])
           smaller(k) == [j \in DOMAIN e(k) |-> ASlice([v[2] EXCEPT ![k] = e(k)[j]])]
           firsts == [k \in 1 .. 3 |-> ASlice(shorter[k])]
           rest == [k \in 1 .. Len(v[2]) |-> smaller(k)]
<1>1. SliceShrink(g, v) = IF Len(v[2]) <= g.min THEN << >> ELSE firsts \o FlattenSeq(rest)
  BY DEF SliceShrink
<1>2. Len(v[2]) \in Nat
  BY DEF IsList
<1>3. ASSUME NEW k PROVE IsList(smaller(k))
  <2>1. DOMAIN e(k) = 1 .. Len(e(k)) /\ Len(e(k)) \in Nat
    BY IntShrinkIsList DEF IsList
  <2> DEFINE x(j) == ASlice([v[2] EXCEPT ![k] = e(k)[j]])
             S == {x(j) : j \in DOMAIN e(k)}
  <2>2. smaller(k) = [j \in DOMAIN e(k) |-> x(j)]
    OBVIOUS
  <2> HIDE DEF smaller, e, x
  <2>3. smaller(k) \in Seq(S)
    BY <2>1, <2>2
  <2> QED BY <2>3, ListOver
<1> HIDE DEF smaller, shorter
<1>4. IsList(firsts)
  <2>1. firsts \in Seq({ASlice(shorter[k]) : k \in 1 .. 3})
    OBVIOUS
  <2> QED BY <2>1, ListOver
<1>5. IsList(rest) /\ Len(rest) = Len(v[2]) /\ \A k \in 1 .. Len(v[2]) : rest[k] = smaller(k)
  <2>1. rest \in Seq({smaller(k) : k \in 1 .. Len(v[2])}) /\ Len(rest) = Len(v[2])
    BY <1>2
  <2> QED BY <2>1, ListOver
<1>6. IsList(FlattenSeq(rest))
  <2>1. \A k \in 1 .. Len(rest) : IsList(rest[k])
    BY <1>3, <1>5
  <2> HIDE DEF rest
  <2> QED BY <1>5, <2>1, FlattenedLists
<1>7. IsList(firsts \o FlattenSeq(rest))
  BY <1>4, <1>6, ConcatenatedLists
<1> QED BY <1>1, <1>7, ShortLists

\* combinedGenerator.Shrink returns a list.
LEMMA PairShrinkIsList == \A g, v : IsList(PairShrink(g, v))
<1> SUFFICES ASSUME NEW g, NEW v PROVE IsList(PairShrink(g, v))
  OBVIOUS
<1> DEFINE e1 == IntShrink(g.gen1, v[2][1])
           e2 == IntShrink(g.gen2, v[2][2])
           firsts == [k \in DOMAIN e1 |-> APair(e1[k], v[2][2])]
           seconds == [k \in DOMAIN e2 |-> APair(v[2][1], e2[k])]
<1>1. PairShrink(g, v) = firsts \o seconds
  BY DEF PairShrink
<1>2. /\ DOMAIN e1 = 1 .. Len(e1) /\ Len(e1) \in Nat
      /\ DOMAIN e2 = 1 .. Len(e2) /\ Len(e2) \in Nat
  BY IntShrinkIsList DEF IsList
<1> HIDE DEF e1, e2
<1>3. /\ firsts \in Seq({APair(e1[k], v[2][2]) : k \in DOMAIN e1})
      /\ seconds \in Seq({APair(v[2][1], e2[k]) : k \in DOMAIN e2})
  BY <1>2
<1>4. IsList(firsts) /\ IsList(seconds)
  BY <1>3, ListOver
<1> QED BY <1>1, <1>4, ConcatenatedLists

\* OneOfGenerator.Shrink returns a list.
LEMMA OneOfShrinkIsList ==
    ASSUME NEW g, NEW v
    PROVE  IsList(OneOfShrink(g, v))
<1>1. ASSUME NEW h PROVE IsList(BasicShrink(h, v))
  BY IntShrinkIsList, StringShrinkIsList DEF BasicShrink
<1> DEFINE answers == {BasicShrink(g.gens[k], v) : k \in Asked(g, v)} \ {<< >>}
<1>2. \A a \in answers : IsList(a)
  BY <1>1
<1>3. OneOfShrink(g, v) = IF answers = {} THEN << >> ELSE CHOOSE a \in answers : TRUE
  BY DEF OneOfShrink
<1> HIDE DEF answers
<1> QED BY <1>2, <1>3, ShortLists

\* Whatever fails, Shrink returns a list of candidates for it.
LEMMA ShrinkReturnsLists ==
    ASSUME NEW t \in Trials, NEW v \in t.fails, t.gen.kind # "bytes", NEW c \in Shrinks(t.gen, v)
    PROVE  IsList(c)
<1> DEFINE g == t.gen
<1>1. g.kind \in {"int", "string", "slice", "map", "pair", "oneof"}
  BY TrialAssumption
<1>2. CASE g.kind = "int"
  BY <1>2, IntShrinkIsList DEF Shrinks
<1>3. CASE g.kind = "string"
  BY <1>3, StringShrinkIsList DEF Shrinks
<1>4. CASE g.kind = "slice"
  <2>1. IsList(v[2])
    BY <1>4, TrialAssumption DEF IsList
  <2>2. c = SliceShrink(g, v)
    BY <1>4 DEF Shrinks
  <2> QED BY <2>1, <2>2, SliceShrinkIsList
<1>5. CASE g.kind = "map"
  <2>1. c \in MapShrinks(g, v)
    BY <1>5 DEF Shrinks
  <2>2. c = << >> \/ \E x : c = <<x>>
    BY <2>1 DEF MapShrinks
  <2> QED BY <2>2, ShortLists
<1>6. CASE g.kind = "pair"
  BY <1>6, PairShrinkIsList DEF Shrinks
<1>7. CASE g.kind = "oneof"
  BY <1>7, OneOfShrinkIsList DEF Shrinks
<1> QED BY <1>1, <1>2, <1>3, <1>4, <1>5, <1>6, <1>7

-----------------------------------------------------------------------------
(* Shrinking: the candidates before the next one do not fail.              *)

Shrunk ==
    /\ pc \in {"shrink", "try"} => current \in trial.fails /\ shrinks \in Nat
    /\ pc = "draw" => shrinks = 0
    /\ pc = "try" => /\ candidates \in Shrinks(trial.gen, current)
                     /\ Len(candidates) \in Nat /\ DOMAIN candidates = 1 .. Len(candidates)
                     /\ next \in Nat \ {0}
                     /\ \A k \in 1 .. next - 1 : candidates[k] \notin trial.fails
                     /\ shrinks < MaxShrink
    /\ shrinks \in 0 .. MaxShrink
    /\ ReportIsMinimal

\* No step of a search breaks Shrunk.
LEMMA ShrunkKept ==
    ASSUME Drawn, Shrunk, [Next]_vars
    PROVE  Shrunk'
<1> USE SearchAssumption
<1>1. CASE Draw
  BY <1>1 DEF Draw, Drawn, Shrunk, ReportIsMinimal
<1>2. CASE Shrink
  <2>1. CASE shrinks >= MaxShrink
    <3>1. /\ pc' = "end" /\ outcome' = "failed" /\ shrinks = MaxShrink
          /\ current \in trial.fails /\ UNCHANGED <<trial, current, shrinks>>
      BY <1>2, <2>1 DEF Shrink, Shrunk, End
    <3> QED BY <3>1 DEF ReportIsMinimal, Shrunk
  <2>2. CASE shrinks < MaxShrink /\ trial.gen.kind = "oneof" /\ OneOfPanics(trial.gen, current)
    BY <1>2, <2>2 DEF Shrink, Shrunk, End, ReportIsMinimal
  <2>3. CASE shrinks < MaxShrink /\ ~(trial.gen.kind = "oneof" /\ OneOfPanics(trial.gen, current))
    <3>1. /\ candidates' \in Shrinks(trial.gen, current) /\ next' = 1 /\ pc' = "try"
          /\ outcome' = outcome /\ UNCHANGED <<trial, drawn, current, shrinks>>
      BY <1>2, <2>3 DEF Shrink, Shrunk
    <3>2. trial.gen.kind # "bytes" /\ trial \in Trials /\ current \in trial.fails /\ outcome = "none"
      BY <1>2 DEF Shrink, Drawn, Shrunk
    <3>3. Len(candidates') \in Nat /\ DOMAIN candidates' = 1 .. Len(candidates')
      BY <3>1, <3>2, ShrinkReturnsLists DEF IsList
    <3> QED BY <1>2, <2>3, <3>1, <3>2, <3>3 DEF Shrink, Shrunk, ReportIsMinimal
  <2> QED BY <2>1, <2>2, <2>3 DEF Shrunk
<1>3. CASE Try
  <2>1. pc = "try" /\ outcome = "none" /\ UNCHANGED <<trial, drawn, candidates>>
    BY <1>3 DEF Try, Drawn
  <2>2. CASE next > Len(candidates)
    <3>1. pc' = "end" /\ outcome' = "failed" /\ UNCHANGED <<current, shrinks>>
      BY <1>3, <2>2 DEF Try, End
    <3>2. \A k \in DOMAIN candidates : candidates[k] \notin trial.fails
      BY <2>1, <2>2 DEF Shrunk
    <3>3. ReportIsMinimal'
      BY <2>1, <3>1, <3>2 DEF Shrunk, ReportIsMinimal
    <3> QED BY <2>1, <3>1, <3>3 DEF Shrunk
  <2>3. CASE next <= Len(candidates) /\ candidates[next] \in trial.fails
    BY <1>3, <2>1, <2>3 DEF Try, Shrunk, ReportIsMinimal
  <2>4. CASE next <= Len(candidates) /\ candidates[next] \notin trial.fails
    BY <1>3, <2>1, <2>4 DEF Try, Shrunk, ReportIsMinimal
  <2> QED BY <1>3, <2>1, <2>2, <2>3, <2>4 DEF Shrunk
<1>4. CASE Cancel \/ Exhaust \/ Fuzz
  BY <1>4 DEF Cancel, Exhaust, Fuzz, End, Drawn, Shrunk, ReportIsMinimal
<1>5. CASE UNCHANGED vars
  BY <1>5 DEF vars, Shrunk, ReportIsMinimal
<1> QED BY <1>1, <1>2, <1>3, <1>4, <1>5 DEF Next, Step

\* Every value reported fails, and none of the candidates its generator gives
\* for it does, unless MaxShrink cut the search short (testing.go:116-142).
THEOREM ReportsAreMinimal == Spec => []ReportIsMinimal
<1>1. Init => Shrunk
  BY SearchAssumption DEF Init, Shrunk, ReportIsMinimal
<1>2. Drawn /\ Shrunk /\ [Next]_vars => Shrunk'
  BY ShrunkKept
<1>3. Shrunk => ReportIsMinimal
  BY DEF Shrunk
<1> QED BY <1>1, <1>2, <1>3, AlwaysDrawn, PTL DEF Spec
=============================================================================
