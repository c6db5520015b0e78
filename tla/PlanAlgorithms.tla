---------------------------- MODULE PlanAlgorithms ----------------------------
(***************************************************************************)
(* The tree a plan builder makes of its problem: what the searches of      *)
(* PlanSearch find, the orders that need no search, and dynamic            *)
(* programming over orders (LeftDeepTreeBuilders).                         *)
(***************************************************************************)
EXTENDS TreePlans, PlanSearch

BareLeaf(i) == Leaf(i, "")

\* _instantiate_binary_node knows AND and SEQ.
BinaryNode(op, left, right) ==
    IF op \in {"AND", "SEQ"} THEN Binary(op, left, right) ELSE Failure

AscendingOrder(stats) ==
    LET before(i, j) == \/ Rate(stats, i) < Rate(stats, j)
                        \/ Rate(stats, i) = Rate(stats, j) /\ i < j
    IN  SetToSortSeq(Operands(stats), before)

\* DynamicProgrammingLeftDeepTreeBuilder: the best order of each subset.  What
\* is compared is the cost of the order without the operand that is added.
RECURSIVE BestOrder(_, _)
BestOrder(problem, items) ==
    IF Cardinality(items) = 1 THEN <<CHOOSE i \in items : TRUE>>
    ELSE LET without(i) == BestOrder(problem, items \ {i})
             last == CHOOSE i \in items : \A j \in items :
                        OrderCost(problem, without(i)) <= OrderCost(problem, without(j))
         IN  Append(without(last), last)

\* The order of a left-deep plan.  An improved order is the result of a search
\* that PlanSelection takes step by step.
EvaluationOrder(problem) ==
    LET stats == problem.stats
    IN  CASE problem.builder.kind = "trivial" -> TrivialOrder(stats)
          [] problem.builder.kind = "ascending" -> AscendingOrder(stats)
          [] problem.builder.kind = "greedy" -> Greedy(stats, problem.builder.pops).order
          [] problem.builder.kind = "dp_left_deep" -> BestOrder(problem, Operands(stats))
          [] problem.builder.kind = "improved" -> problem.builder.order

\* _create_tree_topology
Topology(problem) ==
    IF Len(problem.leaves) = 1 THEN problem.leaves[1]
    ELSE CASE problem.builder.kind = "dp_bushy" -> BushyTree(problem)
           [] problem.builder.kind \in {"zstream", "zstream_ord"} -> ZStreamTree(problem)
           [] OTHER -> LeftDeep(problem.op, EvaluationOrder(problem), problem.leaves)
=============================================================================
