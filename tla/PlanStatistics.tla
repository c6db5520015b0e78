---------------------------- MODULE PlanStatistics ----------------------------
(***************************************************************************)
(* What is known of the operands of a pattern when a plan is chosen: how   *)
(* often each comes, and how rarely two of them, or one alone, satisfy     *)
(* their conditions.  Operands are numbered from 0.  Rates are per window, *)
(* so that the window is a factor of 1, and a selectivity is one over an   *)
(* integer, its rarity.                                                    *)
(***************************************************************************)
EXTENDS Integers, Sequences

Operands(stats) == 0..(Len(stats.rates) - 1)

Rate(stats, i) == stats.rates[i + 1]
Rarity(stats, i, j) == stats.rarity[i + 1][j + 1]

Product(factors) ==
    LET upTo[k \in 0..Len(factors)] == IF k = 0 THEN 1 ELSE upTo[k - 1] * factors[k]
    IN  upTo[Len(factors)]

\* Of every operand on the left with every one on the right.
RarityBetween(stats, left, right) ==
    Product([i \in DOMAIN left |->
                Product([j \in DOMAIN right |-> Rarity(stats, left[i], right[j])])])

\* By how much operand i multiplies the number of partial matches of an order.
ChangeFactor(stats, order, i) ==
    Rate(stats, i) \div (Rarity(stats, i, i) * RarityBetween(stats, <<i>>, order))
=============================================================================
