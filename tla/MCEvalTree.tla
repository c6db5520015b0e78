----------------------------- MODULE MCEvalTree -----------------------------
(***************************************************************************)
(* Small evaluation trees for TLC.  A name is the string of its leaves;    *)
(* the leaf "a" listens to type "A", "a1" and "a2" both listen to "A".     *)
(***************************************************************************)
EXTENDS EvalTreeProperties, TLC

\* Conditions over values 0 and 1: equality of two leaves, a constant.
Equal(x, y) ==
    [on |-> {x, y}, holds |-> {f \in [{x, y} -> Val] : f[x] = f[y]}]

IsOne(x) == [on |-> {x}, holds |-> {f \in [{x} -> Val] : f[x] = 1}]

Letters == ("a" :> "A") @@ ("b" :> "B") @@ ("c" :> "C")

NoSequences == {}

-----------------------------------------------------------------------------
(* SEQ(a, b, c), planned left-deep as ((a b) c), one pattern *)

LeafABC == {"a", "b", "c"}
IndexABC == ("a" :> 0) @@ ("b" :> 1) @@ ("c" :> 2)
OneABC == {"p"}
PrecedesABC == [p \in {"p"} |-> {<<"a", "b">>, <<"b", "c">>, <<"a", "c">>}]

InnerLD == {"ab", "abc"}
LeftLD == ("ab" :> "a") @@ ("abc" :> "ab")
RightLD == ("ab" :> "b") @@ ("abc" :> "c")
ParentsLD == ("a" :> <<"ab">>) @@ ("b" :> <<"ab">>) @@ ("ab" :> <<"abc">>)
                @@ ("c" :> <<"abc">>) @@ ("abc" :> <<>>)
SubtreeLD == ("a" :> {"a"}) @@ ("b" :> {"b"}) @@ ("c" :> {"c"})
                @@ ("ab" :> {"a", "b", "ab"})
                @@ ("abc" :> {"a", "b", "c", "ab", "abc"})
SeqLD == [i \in InnerLD |-> "SEQ"]
DefsLD == ("a" :> <<"a">>) @@ ("b" :> <<"b">>) @@ ("c" :> <<"c">>)
                @@ ("ab" :> <<"a", "b">>) @@ ("abc" :> <<"a", "b", "c">>)
RootLD == [p \in {"p"} |-> "abc"]
Window1LD == [n \in LeafABC \cup InnerLD |-> 1]
PatternWindow1 == [p \in {"p"} |-> 1]
NoCondition == [p \in {"p"} |-> {}]

-----------------------------------------------------------------------------
(* SEQ(a1, b, a2), planned out of order as ((a1 a2) b): both leaves of the    *)
(* inner pair listen to the same event type                                 *)

LeafABA == {"a1", "b", "a2"}
IndexABA == ("a1" :> 0) @@ ("b" :> 1) @@ ("a2" :> 2)
TypeOfABA == ("a1" :> "A") @@ ("a2" :> "A") @@ ("b" :> "B")
InnerABA == {"aa", "aba"}
LeftABA == ("aa" :> "a1") @@ ("aba" :> "aa")
RightABA == ("aa" :> "a2") @@ ("aba" :> "b")
ParentsABA == ("a1" :> <<"aa">>) @@ ("a2" :> <<"aa">>) @@ ("aa" :> <<"aba">>)
                @@ ("b" :> <<"aba">>) @@ ("aba" :> <<>>)
SubtreeABA == ("a1" :> {"a1"}) @@ ("a2" :> {"a2"}) @@ ("b" :> {"b"})
                @@ ("aa" :> {"a1", "a2", "aa"})
                @@ ("aba" :> {"a1", "a2", "b", "aa", "aba"})
OpsABA == [i \in InnerABA |-> "SEQ"]
DefsABA == ("a1" :> <<"a1">>) @@ ("a2" :> <<"a2">>) @@ ("b" :> <<"b">>)
                @@ ("aa" :> <<"a1", "a2">>) @@ ("aba" :> <<"a1", "b", "a2">>)
RootABA == [p \in {"p"} |-> "aba"]
WindowABA == [n \in LeafABA \cup InnerABA |-> 1]
PrecedesABA == [p \in {"p"} |-> {<<"a1", "b">>, <<"b", "a2">>, <<"a1", "a2">>}]
ConditionABA == [p \in {"p"} |-> {Equal("a1", "a2"), IsOne("b")}]

-----------------------------------------------------------------------------
(* Three patterns sharing nodes: p1 = SEQ(a, b) within 1, p2 = SEQ(a, b, c) *)
(* within 2 on top of it, p3 = AND(b, c) within 1 sharing both leaves       *)

Patterns123 == {"p1", "p2", "p3"}
InnerDag == {"ab", "abc", "bc"}
LeftDag == LeftLD @@ ("bc" :> "b")
RightDag == RightLD @@ ("bc" :> "c")
ParentsDag == ("b" :> <<"ab", "bc">>) @@ ("c" :> <<"abc", "bc">>)
                @@ ("bc" :> <<>>) @@ ParentsLD
SubtreeDag == SubtreeLD @@ ("bc" :> {"b", "c", "bc"})
OpsDag == ("ab" :> "SEQ") @@ ("abc" :> "SEQ") @@ ("bc" :> "AND")
DefsDag == DefsLD @@ ("bc" :> <<"b", "c">>)
RootDag == ("p1" :> "ab") @@ ("p2" :> "abc") @@ ("p3" :> "bc")
PatternWindowDag == ("p1" :> 1) @@ ("p2" :> 2) @@ ("p3" :> 1)
WindowDag == [n \in LeafABC \cup InnerDag |-> IF n = "bc" THEN 1 ELSE 2]
PrecedesDag == ("p1" :> {<<"a", "b">>}) @@ ("p2" :> PrecedesABC["p"])
                @@ ("p3" :> {})
ConditionDag == ("p1" :> {Equal("a", "b")}) @@ ("p2" :> {Equal("a", "b")})
                @@ ("p3" :> {})

-----------------------------------------------------------------------------
(* Policies over SEQ(a, b, c) *)

SequenceABC == {<<"a", "b", "c">>}
=============================================================================
