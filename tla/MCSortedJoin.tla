----------------------------- MODULE MCSortedJoin -----------------------------
(***************************************************************************)
(* A node over a, b on the left and c on the right, with every condition   *)
(* of one or two atoms of a choice: one atom, a conjunction, a             *)
(* disjunction.                                                            *)
(***************************************************************************)
EXTENDS SortedJoin, TLC

Atoms ==
    [left : {"a", "b"}, op : {"=", "#", ">", "<="}, right : {"c"}]
        \cup [left : {"c"}, op : {">=", "<"}, right : {"a", "b"}]

AllConditions ==
    {[atoms |-> <<x>>, clauses |-> {{1}}] : x \in Atoms}
        \cup {[atoms |-> <<x, y>>, clauses |-> f] :
                x, y \in Atoms, f \in {{{1}, {2}}, {{1, 2}}}}

PriorityABC == ("a" :> 1) @@ ("b" :> 2) @@ ("c" :> 3)
===============================================================================
