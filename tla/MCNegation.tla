----------------------------- MODULE MCNegation -----------------------------
(***************************************************************************)
(* Small patterns with negated events for TLC.                             *)
(***************************************************************************)
EXTENDS NegationProperties, TLC

(* SEQ(a, NOT b, c, NOT d) with d = a: b listens to the type of a *)

PositiveAC == {"a", "c"}
ChainBD == <<"b", "d">>
IndexSeq == ("a" :> 0) @@ ("b" :> 1) @@ ("c" :> 2) @@ ("d" :> 3)
TypeSeq == ("a" :> "A") @@ ("b" :> "A") @@ ("c" :> "C") @@ ("d" :> "D")
KindSeq == {[type |-> "A", val |-> 0], [type |-> "A", val |-> 1],
            [type |-> "C", val |-> 0], [type |-> "D", val |-> 1]}
SameAD == {[on |-> {"a", "d"},
            holds |-> {f \in [{"a", "d"} -> {0, 1}] : f["a"] = f["d"]}]}
=============================================================================
