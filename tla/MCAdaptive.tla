----------------------------- MODULE MCAdaptive -----------------------------
(***************************************************************************)
(* A small pattern SEQ(x, b, y) with x and y of one type, alone and        *)
(* followed by NOT n, under the two mechanisms.                            *)
(***************************************************************************)
EXTENDS AdaptiveProperties, TLC

PositiveXBY == {"x", "b", "y"}
TypeXBY == ("x" :> "A") @@ ("y" :> "A") @@ ("b" :> "B") @@ ("n" :> "N")
OrderXBY == <<"x", "b", "y">>
PrecedesXBY == {<<"x", "b">>, <<"b", "y">>, <<"x", "y">>, <<"x", "n">>, <<"b", "n">>, <<"y", "n">>}

All == [n \in Name |-> Val]

Configuration(mechanism, optimizer, negated) ==
    [mechanism |-> mechanism, optimizer |-> optimizer, negated |-> negated,
     accepts |-> All]

\* The trivial mechanism loses pending matches, so it runs without negation.
SetupsAll ==
    {Configuration(m, o, FALSE) : m \in {"trivial", "simultaneous"},
                                  o \in {"trivial", "deviation"}}
    \cup {Configuration("simultaneous", "trivial", TRUE)}
=============================================================================
