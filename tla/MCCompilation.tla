---------------------------- MODULE MCCompilation ----------------------------
(***************************************************************************)
(* Setups that exercise every part of the compilation: rules, builders,    *)
(* negations and nested operators, improvement, and shared plans.          *)
(***************************************************************************)
EXTENDS CompilationProperties

P(name) == Primitive(name)
Seq2(s, t) == Composite("SEQ", <<s, t>>)
Seq3(s, t, u) == Composite("SEQ", <<s, t, u>>)
And2(s, t) == Composite("AND", <<s, t>>)
Or2(s, t) == Composite("OR", <<s, t>>)
Not(s) == Unary("NOT", s)
Closure(s) == Unary("KC", s)

NoAtoms == And(<<>>)

\* Of the names used here one is part of another.
PartOfName(n, m) == n = m \/ <<n, m>> = <<"b", "b2">>

Builder(kind, negation) ==
    [kind |-> kind, pops |-> <<1, 0, 3, 2, 4>>, negation |-> negation, init |-> "greedy",
     steps |-> 0]

Even(names) ==
    [rates |-> [i \in DOMAIN names |-> 8],
     rarity |-> [i \in DOMAIN names |-> [j \in DOMAIN names |-> 1]]]

Setup(ps, names, stats, rules, builder) ==
    [patterns |-> ps, names |-> names, stats |-> stats, rules |-> rules,
     builder |-> builder, sharing |-> "leaves"]

\* Conditions on events of one operand, of several, and on closures.
Spread ==
    <<Atom("ad", {"a", "d"}), Atom("b", {"b"}), KleeneAtom("kb", {"b"}),
      And(<<Atom("bc", {"b", "c"}), Atom("abc", {"a", "b", "c"})>>), Atom("cd", {"c", "d"}),
      KleeneAtom("kab", {"a", "b"}), Atom("ab", {"a", "b"}), Atom("e", {"e"}),
      KleeneAtom("kb2", {"b2"})>>

RECURSIVE Closures(_)
Closures(s) == (IF s.op = "KC" THEN {ToSet(EventNames(s))} ELSE {})
                    \cup UNION {Closures(s.args[i]) : i \in DOMAIN s.args}

\* Those that are about a structure.
SpreadOver(s) ==
    And(SelectSeq(Spread, LAMBDA c : \A a \in Atoms(c) :
                                        IF a.kind = "kleene" THEN a.names \in Closures(s)
                                        ELSE a.names \subseteq ToSet(EventNames(s))))

Over(s) == Pattern(s, SpreadOver(s))

-----------------------------------------------------------------------------
(* Rules *)

ABCD == <<"a", "b", "c", "d">>

Rewritings ==
    {And2(P("a"), And2(P("b"), And2(P("c"), P("d")))),
     And2(P("a"), Composite("SEQ", <<P("b"), And2(P("c"), P("d"))>>)),
     Seq3(P("a"), Or2(P("b"), P("c")), P("d")),
     Seq3(P("a"), Not(And2(P("b"), P("c"))), P("d")),
     Seq2(Or2(P("a"), P("b")), Or2(P("c"), P("d"))),
     And2(P("a"), Or2(P("b"), Or2(P("c"), P("d")))),
     And2(P("a"), Seq2(P("b"), Or2(P("c"), P("d")))),
     And2(P("a"), Not(Or2(P("b"), P("c")))),
     And2(P("a"), Not(Not(Seq2(P("b"), P("c"))))),
     Or2(And2(P("a"), P("b")), Not(Not(Or2(P("c"), P("d"))))),
     Or2(Seq2(P("a"), Not(P("b"))), And2(P("c"), P("d")))}

RuleOrders ==
    {<<"AND_AND", "NOT_OR", "NOT_AND", "TOPMOST_OR", "INNER_OR", "NOT_NOT">>,
     <<"NOT_AND", "NOT_NOT", "INNER_OR", "TOPMOST_OR">>,
     <<"TOPMOST_OR", "INNER_OR">>, <<"NOT_NOT", "AND_AND">>}

SetupsRewritten ==
    {Setup(<<Over(s)>>, ABCD, NoStatistics, rules, Builder("trivial", "naive")) :
        s \in Rewritings, rules \in RuleOrders}

-----------------------------------------------------------------------------
(* Builders: flat patterns under statistics in which the cheapest plan is   *)
(* not the trivial one                                                      *)

Flat(op, names) == Composite(op, [i \in DOMAIN names |-> P(names[i])])

\* Rates that are multiples of 8, and rarities of 1 or 2.
Statistics(rates, rare) ==
    [rates |-> rates,
     rarity |-> [i \in DOMAIN rates |-> [j \in DOMAIN rates |->
                    IF {i, j} \in rare THEN 2 ELSE 1]]]

Statistics4 ==
    {Statistics(rates, rare) :
        rates \in {<<8, 16, 8, 32>>, <<32, 16, 8, 8>>, <<16, 8, 32, 16>>, <<24, 32, 8, 16>>},
        rare \in {{}, {{1, 4}}, {{2, 3}, {3}}, {{1, 2}, {3, 4}}, {{1, 3}, {2, 4}}}}

SetupsFlat ==
    {Setup(<<Over(Flat("SEQ", ABCD))>>, ABCD, stats, <<>>, Builder(kind, "naive")) :
        stats \in Statistics4,
        kind \in {"ascending", "greedy", "dp_left_deep", "dp_bushy", "zstream", "zstream_ord"}}

Improving(kind, init, steps) == [Builder(kind, "naive") EXCEPT !.init = init, !.steps = steps]

SetupsImproved ==
    {Setup(<<Over(Flat("AND", SubSeq(ABCD, 1, 3)))>>, SubSeq(ABCD, 1, 3),
           Statistics(<<16, 8, 32>>, {{1, 3}}), <<>>, Improving(kind, "random", 3)) :
        kind \in {"swap", "circle"}}
    \cup
    {Setup(<<Over(Flat("AND", ABCD))>>, ABCD, stats, <<>>, Improving("swap", "greedy", 2)) :
        stats \in Statistics4}

-----------------------------------------------------------------------------
(* Negations and nested operators *)

ABCDE == <<"a", "b", "c", "d", "e">>

Composites ==
    {Composite("SEQ", <<P("a"), Not(P("b")), P("c"), P("d"), Not(P("e"))>>),
     Composite("SEQ", <<Not(P("a")), P("b"), Not(P("c")), P("d"), P("e")>>),
     Composite("AND", <<P("a"), Not(P("b")), P("c"), Not(P("d")), P("e")>>),
     Seq3(And2(P("a"), P("b")), Not(P("c")), P("d")),
     And2(Seq2(P("a"), P("b")), Seq3(P("c"), Not(P("d")), P("e"))),
     Seq3(P("a"), And2(P("b"), Seq2(P("c"), P("d"))), P("e")),
     Seq3(P("a"), Not(Seq2(P("b"), P("c"))), P("d")),
     Seq3(P("a"), Not(Closure(P("b"))), P("d")),
     Seq3(P("a"), Closure(P("b")), And2(P("c"), P("d"))),
     Seq3(P("a"), Closure(P("b")), Closure(P("b2"))),
     Seq3(P("a"), Closure(P("b2")), Closure(P("b"))),
     Seq3(P("a"), Not(P("b")), Seq2(P("c"), P("d"))),
     Seq3(P("a"), Not(Seq2(P("b"), P("c"))), Seq2(P("d"), P("e"))),
     Composite("SEQ", <<P("a"), Not(P("b")), P("c"), Closure(P("d"))>>),
     Closure(Seq2(P("a"), P("b")))}

SetupsComposite ==
    {Setup(<<Over(s)>>, EventNames(s),
           Statistics(SubSeq(rates, 1, Len(EventNames(s))), {}),
           <<>>, Builder(kind, negation)) :
        s \in Composites, rates \in {<<1, 1, 2, 1, 1>>, <<2, 1, 1, 2, 1>>},
        kind \in {"trivial", "ascending", "greedy", "dp_bushy", "zstream_ord"},
        negation \in {"naive"}}
    \cup
    {Setup(<<Over(s)>>, EventNames(s), Statistics(rates, {}), <<>>, Builder("greedy", "statistic")) :
        s \in {c \in Composites : Len(EventNames(c)) = 5},
        rates \in {<<2, 4, 1, 2, 1>>, <<1, 2, 4, 4, 1>>}}

-----------------------------------------------------------------------------
(* Several patterns *)

Groups ==
    {<<Pattern(Flat("SEQ", <<"a", "b", "c">>), And(<<Atom("ab", {"a", "b"})>>)),
       Pattern(Flat("SEQ", <<"a", "b", "d">>), And(<<Atom("ab", {"a", "b"})>>)),
       Pattern(Flat("SEQ", <<"a", "b", "d">>), And(<<Atom("ab2", {"a", "b"}), Atom("b", {"b"})>>))>>,
     <<Pattern(Flat("AND", <<"a", "b">>), And(<<Atom("a", {"a"})>>)),
       Pattern(Flat("SEQ", <<"a", "b", "c">>), And(<<Atom("a", {"a"}), Atom("ac", {"a", "c"})>>)),
       Pattern(Seq3(P("a"), P("b"), Not(P("c"))), NoAtoms)>>,
     <<Pattern(Flat("SEQ", <<"a", "b">>), And(<<Atom("ab", {"a", "b"})>>)),
       Pattern(Flat("SEQ", <<"b", "a">>), And(<<Atom("ab", {"a", "b"})>>)),
       Pattern(Seq3(P("c"), P("b"), P("a")), And(<<Atom("ab", {"a", "b"})>>))>>,
     <<Pattern(Seq2(P("a"), Closure(P("b"))), NoAtoms),
       Pattern(Seq3(P("a"), Closure(P("b")), P("c")), NoAtoms),
       Pattern(Seq2(P("a"), Closure(P("b"))), And(<<KleeneAtom("kb", {"b"})>>))>>}

SetupsShared ==
    {[Setup(ps, ABCD, Even(ABCD), <<>>, Builder("trivial", "naive"))
        EXCEPT !.sharing = sharing] : ps \in Groups, sharing \in {"leaves", "subtrees"}}

-----------------------------------------------------------------------------

SetupsAll ==
    SetupsRewritten \cup SetupsFlat \cup SetupsImproved \cup SetupsComposite \cup SetupsShared
=============================================================================
