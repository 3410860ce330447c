------------------------------- MODULE MCSearch -------------------------------
(* Instances of Search for TLC. *)
EXTENDS Search

IntGen(a, b) == [kind |-> "int", min |-> a, max |-> b]
StringGen(a, b) == [kind |-> "string", min |-> a, max |-> b, chars |-> {"x", "y"}]
SliceGen(a, b) == [kind |-> "slice", min |-> a, max |-> b, elem |-> IntGen(-1, 1)]
MapGen(a, b) == [kind |-> "map", min |-> a, max |-> b, key |-> IntGen(0, 2), value |-> IntGen(0, 0)]
PairGen == [kind |-> "pair", gen1 |-> IntGen(0, 2), gen2 |-> IntGen(-1, 0)]
OneOfGen(gens) == [kind |-> "oneof", gens |-> gens]

Trial(g, f) == [gen |-> g, fails |-> f, panics |-> {}]
Numbers(S) == {AnInt(n) : n \in S}

\* Every property of small integers, with and without zero and negative numbers.
AllInts == {Trial(IntGen(-2, 3), Numbers(F)) : F \in SUBSET (-2 .. 3)}
           \cup {Trial(IntGen(2, 5), Numbers(F)) : F \in SUBSET (1 .. 5)}

Strings == OfLengths({"x", "y"}, 0 .. 3)
AllStrings == {Trial(StringGen(m, 3), {AString(s) : s \in F}) : m \in 1 .. 2,
                 F \in {{s \in Strings : \E k \in DOMAIN s : s[k] = "y"},
                        {s \in Strings : Len(s) >= 2 /\ s[1] = "x"}, {s \in Strings : Len(s) # 2}}}

Slices == OfLengths(Numbers(-1 .. 1), 0 .. 2)
AllSlices == {Trial(SliceGen(m, 2), {ASlice(s) : s \in F}) : m \in 0 .. 1,
                F \in {{s \in Slices : \E k \in DOMAIN s : s[k] = AnInt(1)},
                       {s \in Slices : Len(s) = 2}, {s \in Slices : AnInt(0) \notin ToSet(s)}}}

Maps == MapsOver(Numbers(0 .. 2), Numbers({0}), {0, 3})
AllMaps == {Trial(MapGen(0, 3), {AMap(f) : f \in F}) :
              F \in {{f \in Maps : AnInt(1) \in DOMAIN f}, {f \in Maps : Cardinality(DOMAIN f) # 2}}}

Pairs == {APair(a, b) : a \in Numbers(0 .. 2), b \in Numbers(-1 .. 1)}
AllPairs == {Trial(PairGen, F) : F \in {{p \in Pairs : p[2][1] # AnInt(0)}, {p \in Pairs : p[2][1] # p[2][2]}}}

Mixed == {Trial(OneOfGen(gens), F) : gens \in {<<IntGen(0, 2), StringGen(0, 1)>>, <<StringGen(0, 1), IntGen(0, 2)>>},
            F \in {Numbers(1 .. 2), {AString(<<"x">>), AString(<< >>)}}}

Bytes(n) == <<"bytes", n>>
Fuzzing == {[gen |-> [kind |-> "bytes", inputs |-> {Bytes(n) : n \in 0 .. 2}], fails |-> {Bytes(1)}, panics |-> P] :
              P \in {{}, {Bytes(2)}}}

Everything == UNION {AllInts, AllStrings, AllSlices, AllMaps, AllPairs, Mixed, Fuzzing}
=============================================================================
