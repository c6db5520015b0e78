------------------------ MODULE PlanSelectionProperties ------------------------
(***************************************************************************)
(* What the choice of a plan must achieve.                                 *)
(***************************************************************************)
EXTENDS PlanSelection

(* The dynamic programming builders find a cheapest plan: the bushy one of  *)
(* all trees, the ZStream ones of those with the leaves in their order.     *)
(* They combine best plans of parts, so a part that is left out, or a cost  *)
(* that does not add up, shows only in some statistics.                     *)
CheapestOfItsShape ==
    LET cheapest(plan, others) ==
            /\ plan \in others
            /\ \A t \in others : CostOf(problem, plan) <= CostOf(problem, t)
    IN  /\ problem.builder.kind = "dp_bushy" =>
              cheapest(BushyTree(problem), AllTrees(problem)[OperandsOf(problem)])
        /\ problem.builder.kind \in {"zstream", "zstream_ord"} =>
              LET o == ZStreamOrder(problem)
              IN  cheapest(ZStreamTree(problem), OrderedTrees(problem, o)[<<1, Len(o)>>])

(* The order that iterative improvement keeps has the cost it compares new  *)
(* orders with, so that it never gets worse: a rejected move was undone.    *)
(* For swaps.                                                               *)
CostIsOfOrder ==
    Improves(problem) /\ problem.builder.kind = "swap" => cost = OrderCost(problem, order)

(* The invariants recorded with a plan hold as long as the statistics it    *)
(* was planned for do, and they are tight: nothing that was not chosen is   *)
(* cheaper than the runner-up a greedy choice is compared with later.  The  *)
(* greedy order has every operand.                                          *)
InvariantsTight ==
    problem # NoProblem =>
        LET stats == problem.stats
            greedy == Greedy(stats, problem.builder.pops)
            before(i) == SubSeq(greedy.order, 1, i - 1)
            factor(i, operand) == ChangeFactor(stats, before(i), operand)
        IN  /\ WellFormed(problem)
            /\ greedy.order \in Orders(problem)
            /\ ~ GreedyViolated(greedy.invariants, stats)
            /\ ~ ZStreamViolated(ZStreamInvariants(problem), stats)
            /\ \A i \in 1..(Len(greedy.order) - 1) :
                  LET v == greedy.invariants[i]
                  IN  /\ v.left = greedy.order[i] /\ v.left # v.right
                      /\ \A j \in OperandsOf(problem) \ (SetOf(before(i)) \cup {v.left}) :
                            factor(i, v.right) <= factor(i, j)
=============================================================================
