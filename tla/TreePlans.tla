------------------------------ MODULE TreePlans ------------------------------
(***************************************************************************)
(* Tree plans: their nodes, how a condition is distributed over them, what *)
(* a plan costs, when two plans are equivalent, and how the plans of       *)
(* several patterns are merged (TreePlan, TreeCostModel, the recursive     *)
(* traversal mergers).                                                     *)
(*                                                                         *)
(* A node is a value: nodes are shared if they are equal.  Indices count   *)
(* from 0 as in the code.                                                  *)
(***************************************************************************)
EXTENDS PatternStructures, PlanStatistics

Node(kind, op, index, name, kids) ==
    [kind |-> kind, op |-> op, index |-> index, original |-> index, name |-> name,
     kids |-> kids, args |-> <<>>, cost |-> 0, unbounded |-> FALSE, condition |-> And(<<>>)]

Leaf(index, name) == Node("leaf", "event", index, name, <<>>)
Nested(index, plan, args, cost) ==
    [Node("nested", "nested", index, "", <<plan>>) EXCEPT !.args = args, !.cost = cost]
KC(index, child) == Node("kc", "KC", index, "", <<child>>)
Binary(op, left, right) == Node("binary", op, 0, "", <<left, right>>)
Negative(op, left, right, unbounded) ==
    [Node("negative", "N" \o op, 0, "", <<left, right>>) EXCEPT !.unbounded = unbounded]

\* A node in whose place the builder raises an exception.
Failure == Node("failure", "failure", 0, "", <<>>)

\* get_leaves
RECURSIVE Leaves(_)
Leaves(n) ==
    IF n.kind = "leaf" THEN <<n>>
    ELSE FlattenSeq([i \in DOMAIN n.kids |-> Leaves(n.kids[i])])

Names(n) == LET leaves == Leaves(n) IN [i \in DOMAIN leaves |-> leaves[i].name]

RECURSIVE Subtrees(_)
Subtrees(n) == {n} \cup UNION {Subtrees(n.kids[i]) : i \in DOMAIN n.kids}

-----------------------------------------------------------------------------
(* Conditions *)

\* Fault: a node takes its part before its children take theirs.
RECURSIVE ApplyConditionTopDown(_, _)
ApplyConditionTopDown(n, condition) ==
    LET names == ToSet(Names(n))
        kleene == n.kind = "kc"
        rest == IF n.kind = "nested" THEN condition ELSE Consumed(condition, names, kleene)
        child(done, k) ==
            LET c == ApplyConditionTopDown(k, done.rest)
            IN  [kids |-> Append(done.kids, c.node), rest |-> c.rest]
        below == FoldLeft(child, [kids |-> <<>>, rest |-> rest], n.kids)
        own == IF n.kind = "nested" THEN n.condition ELSE ConditionOf(condition, names, kleene)
    IN  [node |-> [n EXCEPT !.kids = below.kids, !.condition = own], rest |-> below.rest]

\* apply_condition: the children take their parts of the condition in turn,
\* then the node takes what is about its events; a nested node takes nothing.
RECURSIVE ApplyCondition(_, _)
ApplyCondition(n, condition) ==
    LET child(done, k) ==
            LET c == ApplyCondition(k, done.rest)
            IN  [kids |-> Append(done.kids, c.node), rest |-> c.rest]
        below == FoldLeft(child, [kids |-> <<>>, rest |-> condition], n.kids)
        names == ToSet(Names(n))
        kleene == n.kind = "kc"
    IN  IF n.kind = "nested"
        THEN [node |-> [n EXCEPT !.kids = below.kids], rest |-> below.rest]
        ELSE [node |-> [n EXCEPT !.kids = below.kids,
                                 !.condition = ConditionOf(below.rest, names, kleene)],
              rest |-> Consumed(below.rest, names, kleene)]

-----------------------------------------------------------------------------
(* Costs *)

\* The indices below a node, the number of its partial matches, and the cost
\* of its subtree.
RECURSIVE Estimate(_, _)
Estimate(n, stats) ==
    IF n.kind = "leaf" THEN
        LET pm == Rate(stats, n.index) \div Rarity(stats, n.index, n.index)
        IN  [args |-> <<n.index>>, pm |-> pm, cost |-> pm]
    ELSE IF n.kind \in {"nested", "failure"}
    THEN [args |-> <<n.index>>, pm |-> n.cost, cost |-> n.cost]
    ELSE IF n.kind = "kc" THEN Estimate(n.kids[1], stats)
    ELSE LET left == Estimate(n.kids[1], stats)
             right == Estimate(n.kids[2], stats)
             rarity == RarityBetween(stats, left.args, right.args)
             pm == IF n.kind = "negative" THEN left.pm - left.pm \div rarity
                                          ELSE (left.pm * right.pm) \div rarity
         IN  [args |-> left.args \o right.args, pm |-> pm, cost |-> left.cost + right.cost + pm]

PlanCost(n, stats) == Estimate(n, stats).cost

-----------------------------------------------------------------------------
(* Merging *)

\* Fault: conditions are not compared.
RECURSIVE EquivalentStructures(_, _)
EquivalentStructures(m, n) ==
    /\ m.kind = n.kind /\ m.op = n.op /\ m.name = n.name /\ Len(m.kids) = Len(n.kids)
    /\ \A i \in DOMAIN m.kids : EquivalentStructures(m.kids[i], n.kids[i])

\* is_equivalent.  The two children of a binary node may change places, those
\* of a negative node may not; the operator of a negative node and the indices
\* of the leaves are not compared.
RECURSIVE Equivalent(_, _)
Equivalent(m, n) ==
    /\ m.kind = n.kind
    /\ EqualConditions(m.condition, n.condition)
    /\ CASE m.kind = "leaf"     -> m.name = n.name
         [] m.kind = "negative" -> /\ Equivalent(m.kids[1], n.kids[1])
                                   /\ Equivalent(m.kids[2], n.kids[2])
         [] m.kind = "binary"   ->
                /\ m.op = n.op
                /\ \/ /\ Equivalent(m.kids[1], n.kids[1])
                      /\ Equivalent(m.kids[2], n.kids[2])
                   \/ /\ Equivalent(m.kids[1], n.kids[2])
                      /\ Equivalent(m.kids[2], n.kids[1])
         [] OTHER               -> Equivalent(m.kids[1], n.kids[1])

\* _are_suitable_for_share of ShareLeaves and SubTreeSharing.
SuitableForShare(sharing, m, n) ==
    /\ sharing = "leaves" => m.kind = "leaf"
    /\ Equivalent(m, n)

\* __traverse_tree_plan: a node is replaced by a known one, or becomes known
\* with its children replaced.
RECURSIVE Traverse(_, _, _)
Traverse(sharing, n, known) ==
    LET candidates == {k \in known : SuitableForShare(sharing, k, n)}
        child(done, k) ==
            LET t == Traverse(sharing, k, done.known)
            IN  [kids |-> Append(done.kids, t.node), known |-> t.known]
        below == FoldLeft(child, [kids |-> <<>>, known |-> known], n.kids)
        node == [n EXCEPT !.kids = below.kids]
    IN  IF candidates # {} THEN [node |-> CHOOSE k \in candidates : TRUE, known |-> known]
                           ELSE [node |-> node, known |-> below.known \cup {node}]

\* merge_tree_plans: one plan after the other.
MergePlans(sharing, plans) ==
    LET next(done, p) ==
            LET t == Traverse(sharing, p, done.known)
            IN  [plans |-> Append(done.plans, t.node), known |-> t.known]
    IN  FoldLeft(next, [plans |-> <<>>, known |-> {}], plans).plans
=============================================================================
