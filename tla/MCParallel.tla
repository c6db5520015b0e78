----------------------------- MODULE MCParallel -----------------------------
(***************************************************************************)
(* SEQ(a, NOT b, c) with one key: the values of all three are equal.       *)
(***************************************************************************)
EXTENDS ParallelProperties, TLC

PositiveAC == {"a", "c"}
ChainB == <<"b">>
IndexBetween == ("a" :> 0) @@ ("b" :> 1) @@ ("c" :> 2)
TypeABC == ("a" :> "A") @@ ("b" :> "B") @@ ("c" :> "C")
Key(x, y) == [on |-> {x, y},
              holds |-> {f \in [{x, y} -> {0, 1}] : f[x] = f[y]}]
SameKey == {Key("a", "c"), Key("a", "b")}
Kinds == {[type |-> "A", val |-> 0], [type |-> "A", val |-> 1],
          [type |-> "B", val |-> 1], [type |-> "C", val |-> 1]}

AllAlgorithms == {"RIP", "GROUP_BY_KEY", "HYPER_CUBE"}
SquareOfFour == <<2, 2>>
DimensionsA == "A" :> {1, 2}
Three == {3}
=============================================================================
