----------------------------- MODULE PlanSelection -----------------------------
(***************************************************************************)
(* A plan builder at work on one problem.  Iterative improvement goes step *)
(* by step, from an initial order; the other searches take none, their     *)
(* result depends on the problem alone.                                    *)
(***************************************************************************)
EXTENDS PlanSearch

VARIABLES
    problem,     \* the problem at hand, NoProblem between two
    order,       \* new_order, curr_cost and step of IterativeImprovement.execute
    cost,
    step

selection == <<problem, order, cost, step>>

NoProblem ==
    [builder |-> [kind |-> "none"], op |-> "none", leaves |-> <<>>,
     stats |-> [rates |-> <<>>, rarity |-> <<>>]]

\* For a single operand there is nothing to search.
Improves(p) == p.builder.kind \in {"swap", "circle"} /\ Len(p.leaves) > 1

-----------------------------------------------------------------------------
(* The problems a builder is given, under a cost model that adds up *)

Orders(p) ==
    {o \in [1..Len(p.stats.rates) -> OperandsOf(p)] : SetOf(o) = OperandsOf(p)}

Joins(p, left, right) == {JoinOf(p, l, r) : l \in left, r \in right}

\* All trees over each set of operands.
AllTrees(p) ==
    LET trees[items \in (SUBSET OperandsOf(p)) \ {{}}] ==
            IF Cardinality(items) = 1 THEN {p.leaves[Least(items) + 1]}
            ELSE UNION {Joins(p, trees[part], trees[items \ part]) :
                            part \in (SUBSET items) \ {{}, items}}
    IN  trees

\* All trees over each interval of an order that keep the order.
OrderedTrees(p, o) ==
    LET trees[v \in Intervals(Len(o))] ==
            IF v[1] = v[2] THEN {p.leaves[o[v[1]] + 1]}
            ELSE UNION {Joins(p, trees[<<v[1], k>>], trees[<<k + 1, v[2]>>]) :
                            k \in v[1]..(v[2] - 1)}
    IN  trees

\* What a tree costs more than its two parts.
Extra(p, l, r) == CostOf(p, JoinOf(p, l, r)) - CostOf(p, l) - CostOf(p, r)

Extras(p, left, right) == {Extra(p, l, r) : l \in left, r \in right}

\* What the trees over some operands cost beyond their parts does not depend on
\* how they are split: it is what the cost model counts for the last node.
CostsAddUp(p) ==
    LET trees == AllTrees(p)
        extras(items) == UNION {Extras(p, trees[part], trees[items \ part]) :
                                    part \in (SUBSET items) \ {{}, items}}
    IN  \A items \in (SUBSET OperandsOf(p)) \ {{}} :
            /\ \A t \in trees[items] : CostOf(p, t) \in Nat
            /\ \A e, f \in extras(items) : e = f

OrderedCostsAddUp(p, o) ==
    LET trees == OrderedTrees(p, o)
        extras(v) == UNION {Extras(p, trees[<<v[1], k>>], trees[<<k + 1, v[2]>>]) :
                                k \in v[1]..(v[2] - 1)}
    IN  \A v \in Intervals(Len(o)) :
            /\ \A t \in trees[v] : CostOf(p, t) \in Nat
            /\ \A e, f \in extras(v) : e = f

\* Rates and rarities of all operands.
WellFormedStatistics(stats) ==
    /\ stats.rates \in Seq(Nat) /\ stats.rates # <<>>
    /\ stats.rarity \in [DOMAIN stats.rates -> [DOMAIN stats.rates -> Nat \ {0}]]

\* A set of operands pops one of them, and the costs of orders and trees are
\* numbers; those the dynamic programming builders compare add up.
WellFormed(p) ==
    /\ WellFormedStatistics(p.stats)
    /\ Len(p.leaves) = Len(p.stats.rates)
    /\ p.builder.pops \in Seq(Nat) /\ OperandsOf(p) \subseteq SetOf(p.builder.pops)
    /\ Improves(p) => p.builder.steps \in Nat
    /\ \A o \in Orders(p) : OrderCost(p, o) \in Nat
    /\ OrderedCostsAddUp(WithPlainLeaves(p), TrivialOrder(p.stats))
    /\ p.builder.kind = "dp_bushy" => CostsAddUp(p)
    /\ p.builder.kind \in {"zstream", "zstream_ord"} => OrderedCostsAddUp(p, ZStreamOrder(p))

-----------------------------------------------------------------------------

\* The initial order is random or greedy.
InitialOrders(p) ==
    IF p.builder.init = "greedy" THEN {Greedy(p.stats, p.builder.pops).order} ELSE Orders(p)

SelectionInit ==
    /\ problem = NoProblem
    /\ order = <<>> /\ cost = 0 /\ step = 0

StartSearch(p) ==
    /\ problem = NoProblem
    /\ problem' = p
    /\ IF Improves(p) THEN order' \in InitialOrders(p) /\ cost' = OrderCost(p, order')
                      ELSE order' = <<>> /\ cost' = 0
    /\ step' = 0

Moves == IF problem.builder.kind = "swap" THEN SwapMoves(Len(order)) ELSE CircleMoves(Len(order))

\* A move that does not lower the cost is followed by its reverse.
Improve ==
    /\ Improves(problem) /\ step < problem.builder.steps
    /\ \E move \in Moves :
          LET moved == Moved(order, move)
          IN  IF OrderCost(problem, moved) < cost
              THEN order' = moved /\ cost' = OrderCost(problem, moved)
              ELSE order' = Moved(moved, Reversed(move)) /\ cost' = cost
    /\ step' = step + 1
    /\ UNCHANGED problem

FinishSearch ==
    /\ problem # NoProblem
    /\ Improves(problem) => step = problem.builder.steps
    /\ problem' = NoProblem
    /\ order' = <<>> /\ cost' = 0 /\ step' = 0

SelectionNext ==
    \/ \E p : WellFormed(p) /\ StartSearch(p)
    \/ Improve
    \/ FinishSearch

Selection == SelectionInit /\ [][SelectionNext]_selection
=============================================================================
