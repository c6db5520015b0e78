--------------------------- MODULE PlanSearchProofs ---------------------------
(***************************************************************************)
(* The choice of a plan, for every problem: the greedy order, dynamic      *)
(* programming over groups of operands and over intervals of an order, the *)
(* moves of iterative improvement, and the invariants recorded with a      *)
(* plan.  Nothing is assumed of the cost model but what WellFormed says of *)
(* the costs in one problem.                                               *)
(*                                                                         *)
(* The searches are recursive functions.  That each has a value follows    *)
(* from a rank of its arguments: a solution up to a rank extends to the    *)
(* next (Upward), so the CHOOSE that a recursive definition stands for     *)
(* satisfies its equation.                                                 *)
(***************************************************************************)
EXTENDS PlanSelectionProperties, SequenceTheorems, FiniteSetTheorems,
        WellFoundedInduction, TLAPS

\* Induction up to n, by the least number without the property.
LEMMA Upward ==
    ASSUME NEW n \in Nat, NEW S, 0 \in S,
           \A k \in Nat : k < n /\ k \in S => k + 1 \in S
    PROVE  \A k \in 0..n : k \in S
<1> DEFINE Bad == {j \in Nat : j <= n /\ j \notin S}
<1>1. Bad = {}
  <2> SUFFICES ASSUME Bad # {} PROVE FALSE
    OBVIOUS
  <2>1. PICK j \in Bad : \A i \in Bad : ~ (<<i, j>> \in OpToRel(<, Nat))
    BY NatLessThanWellFounded, WFMin
  <2>2. /\ j \in Nat /\ j <= n /\ j \notin S
        /\ \A i \in Nat : i < j => i \in S
    <3>1. \A i \in Nat : i < j => i <= n
      OBVIOUS
    <3> QED
      BY <2>1, <3>1 DEF OpToRel
  <2>3. j # 0
    BY <2>2
  <2>4. j - 1 \in Nat /\ j - 1 < j /\ j - 1 < n /\ (j - 1) + 1 = j
    BY <2>2, <2>3
  <2> QED
    BY <2>2, <2>4
<1> QED
  BY <1>1

\* A nonempty set of numbers has a least one.
LEMMA LeastNumber ==
    ASSUME NEW S, S \subseteq Nat, S # {}
    PROVE  \E m \in S : \A k \in S : m <= k
<1>1. PICK m \in S : \A k \in S : ~ (<<k, m>> \in OpToRel(<, Nat))
  BY NatLessThanWellFounded, WFMin
<1>2. \A k \in S : ~ (k < m)
  BY <1>1 DEF OpToRel
<1>3. \A k \in S : m <= k
  BY <1>2
<1> QED
  BY <1>3

\* A function of 0..n is defined by its first value and by a step from each
\* value to the next, when the step stays in a set.
DefinesFunction(n, V, b, h) ==
    \E f \in [0..n -> V] : f[0] = b /\ \A k \in 1..n : f[k] = h[<<k, f[k - 1]>>]

LEMMA Recursion ==
    ASSUME NEW n \in Nat, NEW V, NEW b \in V, NEW h \in [(0..n) \X V -> V]
    PROVE  DefinesFunction(n, V, b, h)
<1> DEFINE Upto(f, m) ==
             /\ f \in [0..n -> V] /\ f[0] = b
             /\ \A k \in 1..n : k <= m => f[k] = h[<<k, f[k - 1]>>]
           S == {m \in Nat : \E f : Upto(f, m)}
<1>1. 0 \in S
  <2>1. PICK f : f = [k \in 0..n |-> b]
    OBVIOUS
  <2>2. Upto(f, 0)
    <3>1. f \in [0..n -> V] /\ f[0] = b
      BY <2>1
    <3> QED
      BY <3>1
  <2> QED
    BY <2>2
<1>2. ASSUME NEW m \in Nat, m < n, m \in S
      PROVE  m + 1 \in S
  <2>1. PICK g : Upto(g, m)
    BY <1>2
  <2>2. m + 1 \in 1..n /\ m \in 0..n /\ (m + 1) - 1 = m
    BY <1>2
  <2>3. g[m] \in V /\ h[<<m + 1, g[m]>>] \in V
    BY <2>1, <2>2
  <2>4. PICK f : f = [g EXCEPT ![m + 1] = h[<<m + 1, g[m]>>]]
    OBVIOUS
  <2>5. f \in [0..n -> V] /\ \A k \in 0..n : f[k] = IF k = m + 1 THEN h[<<m + 1, g[m]>>] ELSE g[k]
    BY <2>1, <2>2, <2>3, <2>4
  <2>6. f[0] = b
    BY <2>1, <2>5, 0 \in 0..n, 0 # m + 1
  <2>7. ASSUME NEW k \in 1..n, k <= m + 1
        PROVE  f[k] = h[<<k, f[k - 1]>>]
    <3>1. k \in 0..n /\ k - 1 \in 0..n /\ k - 1 # m + 1
      BY <2>7, <2>2
    <3>2. f[k - 1] = g[k - 1]
      BY <2>5, <3>1
    <3>3. CASE k = m + 1
      <4>1. f[k] = h[<<m + 1, g[m]>>]
        BY <2>5, <3>1, <3>3
      <4>2. g[k - 1] = g[m]
        BY <3>3, <2>2
      <4> QED
        BY <4>1, <4>2, <3>2, <3>3
    <3>4. CASE k # m + 1
      <4>1. k <= m
        BY <2>7, <3>4
      <4>2. f[k] = g[k]
        BY <2>5, <3>1, <3>4
      <4> QED
        BY <2>1, <3>2, <4>1, <4>2
    <3> QED
      BY <3>3, <3>4
  <2>8. Upto(f, m + 1)
    BY <2>5, <2>6, <2>7
  <2> HIDE DEF Upto
  <2> QED
    BY <2>8
<1>3. n \in S
  <2> HIDE DEF S
  <2>1. \A k \in 0..n : k \in S
    BY <1>1, <1>2, Upward
  <2> QED
    BY <2>1
<1>4. PICK f : Upto(f, n)
  BY <1>3
<1> QED
  BY <1>4 DEF DefinesFunction

-----------------------------------------------------------------------------
(* Statistics *)

\* A product has the first factors' product as its first, and each further
\* factor multiplies it; of positive factors it is positive.
LEMMA ProductIsPositive ==
    ASSUME NEW s \in Seq(Nat \ {0})
    PROVE  Product(s) \in Nat \ {0}
<1> DEFINE n == Len(s)
           P == Nat \ {0}
           upTo == CHOOSE f : f = [k \in 0..n |-> IF k = 0 THEN 1 ELSE f[k - 1] * s[k]]
           h == [kv \in (0..n) \X P |-> IF kv[1] \in 1..n THEN kv[2] * s[kv[1]] ELSE 1]
<1>1. n \in Nat /\ DOMAIN s = 1..n /\ \A k \in 1..n : s[k] \in P
  BY LenProperties, ElementOfSeq
<1>2. \A a, b \in P : a * b \in P
  OBVIOUS
<1>3. h \in [(0..n) \X P -> P]
  <2>1. ASSUME NEW kv \in (0..n) \X P
        PROVE  (IF kv[1] \in 1..n THEN kv[2] * s[kv[1]] ELSE 1) \in P
    <3>1. kv[2] \in P
      OBVIOUS
    <3>2. CASE kv[1] \in 1..n
      BY <1>1, <1>2, <3>1, <3>2
    <3>3. CASE kv[1] \notin 1..n
      BY <3>3
    <3> QED
      BY <3>2, <3>3
  <2> QED
    BY <2>1
<1>4. 1 \in P
  OBVIOUS
<1>5. PICK f \in [0..n -> P] : f[0] = 1 /\ \A k \in 1..n : f[k] = h[<<k, f[k - 1]>>]
  <2>1. n \in Nat /\ 1 \in P /\ h \in [(0..n) \X P -> P]
    BY <1>1, <1>3, <1>4
  <2>2. DefinesFunction(n, P, 1, h)
    <3> HIDE DEF P, h, n
    <3> QED
      BY ONLY <2>1, Recursion
  <2> QED
    BY <2>2 DEF DefinesFunction
<1>6. f = [k \in 0..n |-> IF k = 0 THEN 1 ELSE f[k - 1] * s[k]]
  <2>1. ASSUME NEW k \in 0..n, k # 0
        PROVE  f[k] = f[k - 1] * s[k]
    <3>1. k \in 1..n /\ k - 1 \in 0..n
      BY <1>1, <2>1
    <3>2. f[k - 1] \in P
      BY <1>5, <3>1
    <3>3. f[k] = h[<<k, f[k - 1]>>]
      BY <1>5, <3>1
    <3> QED
      BY <3>1, <3>2, <3>3
  <2> QED
    BY <1>5, <2>1
<1>7. upTo = [k \in 0..n |-> IF k = 0 THEN 1 ELSE upTo[k - 1] * s[k]]
  <2>1. \E g : g = [k \in 0..n |-> IF k = 0 THEN 1 ELSE g[k - 1] * s[k]]
    BY <1>6
  <2> QED
    BY <2>1
<1>8. \A k \in 0..n : upTo[k] = IF k = 0 THEN 1 ELSE upTo[k - 1] * s[k]
  <2> HIDE DEF upTo
  <2> QED
    BY <1>7
<1> DEFINE S == {k \in 0..n : upTo[k] \in P}
<1>9. 0 \in S
  BY <1>1, <1>8
<1>10. ASSUME NEW k \in Nat, k < n, k \in S
       PROVE  k + 1 \in S
  <2>1. k + 1 \in 0..n /\ k + 1 # 0 /\ (k + 1) - 1 = k /\ k + 1 \in 1..n
    BY <1>1, <1>10
  <2>2. upTo[k + 1] = upTo[k] * s[k + 1]
    BY <1>8, <2>1
  <2>3. upTo[k] \in P /\ s[k + 1] \in P
    BY <1>1, <1>10, <2>1
  <2> HIDE DEF upTo
  <2> QED
    BY <1>2, <2>1, <2>2, <2>3
<1>11. n \in S
  <2> HIDE DEF S
  <2>1. \A k \in 0..n : k \in S
    BY <1>1, <1>9, <1>10, Upward
  <2> QED
    BY <1>1, <2>1
<1>12. Product(s) = upTo[n]
  BY DEF Product
<1> QED
  BY <1>11, <1>12

LEMMA SizeOf ==
    ASSUME NEW stats, WellFormedStatistics(stats)
    PROVE  /\ Len(stats.rates) \in Nat \ {0}
           /\ DOMAIN stats.rates = 1..Len(stats.rates)
           /\ Operands(stats) = 0..(Len(stats.rates) - 1)
           /\ \A i \in Operands(stats) : i \in Nat /\ i + 1 \in DOMAIN stats.rates
<1>1. stats.rates \in Seq(Nat) /\ stats.rates # <<>>
  BY DEF WellFormedStatistics
<1>2. Len(stats.rates) \in Nat /\ DOMAIN stats.rates = 1..Len(stats.rates)
  BY <1>1, LenProperties
<1>3. Len(stats.rates) # 0
  BY <1>1, EmptySeq
<1>4. Operands(stats) = 0..(Len(stats.rates) - 1)
  BY DEF Operands
<1> QED
  BY <1>2, <1>3, <1>4

\* How much an operand multiplies the number of matches is a number.
LEMMA FactorIsNumber ==
    ASSUME NEW stats, WellFormedStatistics(stats),
           NEW o \in Seq(Operands(stats)), NEW i \in Operands(stats)
    PROVE  ChangeFactor(stats, o, i) \in Nat
<1> DEFINE D == DOMAIN stats.rates
           row == [j \in DOMAIN o |-> Rarity(stats, i, o[j])]
<1>1. \A a, b \in Operands(stats) : Rarity(stats, a, b) \in Nat \ {0}
  BY SizeOf DEF WellFormedStatistics, Rarity
<1>2. Rate(stats, i) \in Nat
  <2>1. stats.rates \in Seq(Nat) /\ i + 1 \in 1..Len(stats.rates)
    BY SizeOf DEF WellFormedStatistics
  <2> QED
    BY <2>1, ElementOfSeq DEF Rate
<1>3. row \in Seq(Nat \ {0})
  <2>1. DOMAIN o = 1..Len(o) /\ Len(o) \in Nat /\ \A j \in 1..Len(o) : o[j] \in Operands(stats)
    BY LenProperties, ElementOfSeq
  <2>2. \A j \in 1..Len(o) : Rarity(stats, i, o[j]) \in Nat \ {0}
    BY <1>1, <2>1
  <2>3. row = [j \in 1..Len(o) |-> Rarity(stats, i, o[j])]
    BY <2>1
  <2> QED
    BY <2>1, <2>2, <2>3, IsASeq
<1>4. Product(row) \in Nat \ {0}
  BY <1>3, ProductIsPositive
<1>5. RarityBetween(stats, <<i>>, o) = Product(<<Product(row)>>)
  <2>1. [k \in DOMAIN <<i>> |-> Product([j \in DOMAIN o |-> Rarity(stats, <<i>>[k], o[j])])]
          = <<Product(row)>>
    OBVIOUS
  <2> QED
    BY <2>1 DEF RarityBetween
<1>6. RarityBetween(stats, <<i>>, o) \in Nat \ {0}
  <2>1. <<Product(row)>> \in Seq(Nat \ {0})
    BY <1>4
  <2> QED
    BY <1>5, <2>1, ProductIsPositive
<1>7. \A a, b \in Nat \ {0} : a * b \in Nat \ {0}
  OBVIOUS
<1>8. Rarity(stats, i, i) * RarityBetween(stats, <<i>>, o) \in Nat \ {0}
  BY <1>1, <1>6, <1>7
<1>9. \A a \in Nat, b \in Nat \ {0} : a \div b \in Nat
  OBVIOUS
<1> QED
  BY <1>2, <1>8, <1>9 DEF ChangeFactor

-----------------------------------------------------------------------------
(* The greedy order *)

\* What is known of the choice and the runner-up after the operands of P: f has
\* the factor of each.
BestOf(best, P, f) ==
    /\ best = [choice |-> best.choice, factor |-> best.factor,
               second |-> best.second, secondFactor |-> best.secondFactor]
    /\ best.choice \in P /\ best.second \in P
    /\ best.factor = f[best.choice] /\ best.secondFactor = f[best.second]
    /\ \A j \in P : f[best.choice] <= f[j]
    /\ P = {best.choice} => best.second = best.choice
    /\ P # {best.choice} => /\ best.second # best.choice
                            /\ \A j \in P \ {best.choice} : f[best.second] <= f[j]

\* One more operand is considered.
LEMMA ConsiderKeepsBest ==
    ASSUME NEW stats, NEW o, NEW T, NEW f \in [T -> Nat], NEW P, P \subseteq T,
           NEW i \in T, i \notin P, ChangeFactor(stats, o, i) = f[i],
           NEW best, BestOf(best, P, f)
    PROVE  BestOf(Consider(stats, o, best, i), P \cup {i}, f)
<1> DEFINE Q == P \cup {i}
           c == best.choice
           s == best.second
           next == Consider(stats, o, best, i)
<1>1. /\ c \in P /\ s \in P /\ best.factor = f[c] /\ best.secondFactor = f[s]
      /\ \A j \in P : f[c] <= f[j]
      /\ P = {c} => s = c
      /\ P # {c} => s # c /\ \A j \in P \ {c} : f[s] <= f[j]
  BY DEF BestOf
<1>2. \A j \in Q : f[j] \in Nat
  OBVIOUS
<1>3. c \in Q /\ s \in Q /\ i \in Q /\ c # i /\ s # i
  BY <1>1
<1>4. CASE f[i] < f[c]
  <2>1. next = [choice |-> i, factor |-> f[i], second |-> c, secondFactor |-> f[c]]
    BY <1>1, <1>4 DEF Consider
  <2>2. \A j \in Q : f[i] <= f[j]
    BY <1>1, <1>2, <1>3, <1>4
  <2>3. \A j \in Q \ {i} : f[c] <= f[j]
    BY <1>1
  <2>4. Q # {i}
    BY <1>3
  <2>5. BestOf(next, Q, f)
    <3> HIDE DEF Q, c, s, next
    <3> QED
      BY <2>1, <2>2, <2>3, <2>4, <1>3 DEF BestOf
  <2> QED
    BY <2>5
<1>5. CASE ~ (f[i] < f[c]) /\ (f[i] < f[s] \/ s = c)
  <2>1. next = [choice |-> c, factor |-> f[c], second |-> i, secondFactor |-> f[i]]
    <3>1. next = [choice |-> c, factor |-> best.factor, second |-> i, secondFactor |-> f[i]]
      BY <1>1, <1>5 DEF Consider
    <3> QED
      BY <3>1, <1>1
  <2>2. \A j \in Q : f[c] <= f[j]
    <3>1. f[c] <= f[i]
      BY <1>2, <1>3, <1>5
    <3> QED
      BY <1>1, <3>1
  <2>3. \A j \in Q \ {c} : f[i] <= f[j]
    <3>1. ASSUME NEW j \in P, j # c PROVE f[i] <= f[j]
      <4>1. P # {c}
        BY <3>1
      <4>2. f[i] < f[s] /\ f[s] <= f[j]
        BY <1>1, <1>5, <3>1, <4>1
      <4> QED
        BY <4>2, <1>2, <1>3, <3>1
    <3> QED
      BY <1>2, <3>1
  <2>4. Q # {c}
    BY <1>3
  <2>5. BestOf(next, Q, f)
    <3> HIDE DEF Q, c, s, next
    <3> QED
      BY <2>1, <2>2, <2>3, <2>4, <1>3 DEF BestOf
  <2> QED
    BY <2>5
<1>6. CASE ~ (f[i] < f[c]) /\ ~ (f[i] < f[s] \/ s = c)
  <2>1. next = best
    BY <1>1, <1>6 DEF Consider
  <2>2. \A j \in Q : f[c] <= f[j]
    <3>1. f[c] <= f[i]
      BY <1>2, <1>3, <1>6
    <3> QED
      BY <1>1, <3>1
  <2>3. s # c /\ \A j \in Q \ {c} : f[s] <= f[j]
    <3>1. f[s] <= f[i]
      BY <1>2, <1>3, <1>6
    <3>2. P # {c}
      BY <1>1, <1>6
    <3> QED
      BY <1>1, <3>1, <3>2
  <2>4. Q # {c}
    BY <1>3
  <2>5. best = [choice |-> c, factor |-> best.factor, second |-> s,
                secondFactor |-> best.secondFactor]
    BY DEF BestOf
  <2>6. best.factor = f[c] /\ best.secondFactor = f[s]
    BY <1>1
  <2> QED
    BY <2>1, <2>2, <2>3, <2>4, <2>5, <2>6, <1>3 DEF BestOf
<1> QED
  BY <1>4, <1>5, <1>6

\* A set of operands that is not empty pops one of its own.
LEMMA NomineeIsLeft ==
    ASSUME NEW pops \in Seq(Nat), NEW left, left # {}, left \subseteq SetOf(pops)
    PROVE  Nominee(pops, left) \in left
<1> DEFINE places == {k \in DOMAIN pops : pops[k] \in left}
<1>1. places \subseteq Nat
  BY LenProperties
<1>2. places # {}
  BY DEF SetOf
<1>3. \E k \in places : \A l \in places : k <= l
  <2> HIDE DEF places
  <2> QED
    BY <1>1, <1>2, LeastNumber
<1>4. (CHOOSE k \in places : \A l \in places : k <= l) \in places
  <2> HIDE DEF places
  <2> QED
    BY <1>3
<1> QED
  BY <1>4 DEF Nominee

\* The next operand is a cheapest of those that are left, and the runner-up a
\* cheapest of the others, whatever the set pops.
LEMMA NextOperandIsBest ==
    ASSUME NEW stats, WellFormedStatistics(stats), NEW pops \in Seq(Nat),
           Operands(stats) \subseteq SetOf(pops), NEW o \in Seq(Operands(stats)),
           NEW left, left = Operands(stats) \ SetOf(o), left # {},
           NEW factors, factors = [i \in Operands(stats) |-> ChangeFactor(stats, o, i)]
    PROVE  BestOf(NextOperand(stats, pops, o), left, factors)
<1> DEFINE n == Len(stats.rates)
           nominee == Nominee(pops, left)
           start == [choice |-> nominee, factor |-> ChangeFactor(stats, o, nominee),
                     second |-> nominee, secondFactor |-> ChangeFactor(stats, o, nominee)]
           D == 0..n
           R(k) == k
           Step(g, k) ==
             IF k = 0 THEN start
             ELSE IF k - 1 \in left \ {nominee} THEN Consider(stats, o, g[k - 1], k - 1)
             ELSE g[k - 1]
<1>1. n \in Nat \ {0} /\ Operands(stats) = 0..(n - 1)
  BY SizeOf
<1>2. factors \in [Operands(stats) -> Nat]
  BY FactorIsNumber
<1>3. nominee \in left
  BY NomineeIsLeft
<1>4. ASSUME NEW g, NEW h, NEW x \in D, \A y \in D : R(y) < R(x) => g[y] = h[y]
      PROVE  Step(g, x) = Step(h, x)
  <2>1. x # 0 => x - 1 \in D /\ x - 1 < x
    BY <1>1
  <2>2. x # 0 => g[x - 1] = h[x - 1]
    BY <1>4, <2>1
  <2> QED
    BY <2>2
<1>5. n + 1 \in Nat /\ \A x \in D : R(x) \in Nat /\ R(x) < n + 1
  BY <1>1
<1> DEFINE From(f, m) == /\ f = [x \in D |-> f[x]]
                         /\ \A x \in D : R(x) < m => f[x] = Step(f, x)
           S == {m \in Nat : \E f : From(f, m)}
<1>6. 0 \in S
  <2>1. PICK f : f = [x \in D |-> 0]
    OBVIOUS
  <2>2. f = [x \in D |-> f[x]]
    <3> HIDE DEF D
    <3> QED
      BY <2>1
  <2>3. \A x \in D : ~ (R(x) < 0)
    <3> HIDE DEF D, R
    <3> QED
      BY <1>5
  <2>4. From(f, 0)
    <3> HIDE DEF D, R, Step
    <3> QED
      BY <2>2, <2>3
  <2> HIDE DEF From
  <2> QED
    BY <2>4
<1>7. ASSUME NEW m \in Nat, m < n + 1, m \in S
      PROVE  m + 1 \in S
  <2>1. PICK g : From(g, m)
    <3> HIDE DEF From
    <3> QED
      BY <1>7
  <2>2. PICK f : f = [x \in D |-> Step(g, x)]
    <3> HIDE DEF D, Step
    <3> QED
      OBVIOUS
  <2>3. f = [x \in D |-> f[x]] /\ \A x \in D : f[x] = Step(g, x)
    <3> HIDE DEF D, Step
    <3> QED
      BY <2>2
  <2>4. \A x \in D : R(x) < m => f[x] = g[x]
    <3> HIDE DEF D, R, Step
    <3> QED
      BY <2>1, <2>3
  <2>5. ASSUME NEW x \in D, R(x) < m + 1
        PROVE  f[x] = Step(f, x)
    <3>1. \A y \in D : R(y) < R(x) => f[y] = g[y]
      <4> HIDE DEF D, R, Step, From
      <4> QED
        BY <1>5, <2>4, <2>5
    <3>2. Step(f, x) = Step(g, x)
      <4> HIDE DEF D, R, Step, From
      <4> QED
        BY <3>1, <1>4
    <3> HIDE DEF D, R, Step
    <3> QED
      BY <2>3, <3>2
  <2>6. From(f, m + 1)
    <3> HIDE DEF D, R, Step
    <3> QED
      BY <2>3, <2>5
  <2> HIDE DEF From
  <2> QED
    BY <2>6
<1>8. n + 1 \in S
  <2> HIDE DEF S
  <2>1. \A k \in 0..(n + 1) : k \in S
    BY <1>5, <1>6, <1>7, Upward
  <2> QED
    BY <1>5, <2>1
<1>9. \E f : f = [x \in D |-> Step(f, x)]
  <2>1. PICK f : From(f, n + 1)
    <3> HIDE DEF From
    <3> QED
      BY <1>8
  <2>2. f = [x \in D |-> f[x]] /\ \A x \in D : f[x] = Step(f, x)
    <3> HIDE DEF D, R, Step
    <3> QED
      BY <1>5, <2>1
  <2> HIDE DEF D, R, Step, From
  <2> QED
    BY <2>2
<1> DEFINE upTo == CHOOSE g : g = [k \in D |-> Step(g, k)]
<1>10. upTo = [k \in D |-> Step(upTo, k)]
  <2> HIDE DEF D, Step
  <2> QED
    BY <1>9
<1>11. \A k \in D : upTo[k] = Step(upTo, k)
  <2> HIDE DEF D, Step, upTo
  <2> QED
    BY <1>10
<1>12. NextOperand(stats, pops, o) = upTo[n]
  BY DEF NextOperand
<1> DEFINE P(k) == {nominee} \cup {i \in left : i < k}
           Good == {k \in 0..n : BestOf(upTo[k], P(k), factors)}
<1>13. 0 \in Good
  <2>1. upTo[0] = start
    <3>1. 0 \in D /\ Step(upTo, 0) = start
      BY <1>1
    <3> HIDE DEF D, Step, upTo, start
    <3> QED
      BY <1>11, <3>1
  <2>2. P(0) = {nominee}
    BY <1>1
  <2>3. ChangeFactor(stats, o, nominee) = factors[nominee] /\ factors[nominee] \in Nat
    BY <1>2, <1>3
  <2>4. BestOf(start, {nominee}, factors)
    <3> HIDE DEF nominee
    <3> QED
      BY <2>3 DEF BestOf
  <2>5. BestOf(upTo[0], P(0), factors)
    <3> HIDE DEF upTo, start, P
    <3> QED
      BY <2>1, <2>2, <2>4
  <2> QED
    BY <1>1, <2>5
<1>14. ASSUME NEW k \in Nat, k < n, k \in Good
       PROVE  k + 1 \in Good
  <2>1. k + 1 \in D /\ k + 1 # 0 /\ (k + 1) - 1 = k /\ k + 1 \in 0..n
    BY <1>1, <1>14
  <2>2. BestOf(upTo[k], P(k), factors)
    BY <1>14
  <2>3. upTo[k + 1] = IF k \in left \ {nominee} THEN Consider(stats, o, upTo[k], k) ELSE upTo[k]
    <3>1. Step(upTo, k + 1)
            = IF k \in left \ {nominee} THEN Consider(stats, o, upTo[k], k) ELSE upTo[k]
      <4> HIDE DEF upTo, start, nominee
      <4> QED
        BY <2>1
    <3>2. upTo[k + 1] = Step(upTo, k + 1)
      <4> HIDE DEF D, Step, upTo
      <4> QED
        BY <1>11, <2>1
    <3> HIDE DEF Step, upTo
    <3> QED
      BY <3>1, <3>2
  <2>4. CASE k \in left \ {nominee}
    <3>1. P(k) \subseteq Operands(stats) /\ k \notin P(k) /\ k \in Operands(stats)
      BY <1>1, <1>3, <2>4
    <3>2. P(k + 1) = P(k) \cup {k}
      BY <1>1, <2>4
    <3>3. ChangeFactor(stats, o, k) = factors[k]
      BY <3>1
    <3>4. BestOf(Consider(stats, o, upTo[k], k), P(k) \cup {k}, factors)
      <4> HIDE DEF upTo, P, nominee
      <4> QED
        BY <1>2, <2>2, <3>1, <3>3, ConsiderKeepsBest
    <3>5. BestOf(upTo[k + 1], P(k + 1), factors)
      <4> HIDE DEF upTo, P, nominee
      <4> QED
        BY <2>3, <2>4, <3>2, <3>4
    <3> QED
      BY <2>1, <3>5
  <2>5. CASE k \notin left \ {nominee}
    <3>1. P(k + 1) = P(k)
      BY <1>1, <2>5
    <3>2. upTo[k + 1] = upTo[k]
      <4> HIDE DEF upTo, nominee
      <4> QED
        BY <2>3, <2>5
    <3>3. BestOf(upTo[k + 1], P(k + 1), factors)
      <4> HIDE DEF upTo, P
      <4> QED
        BY <2>2, <3>1, <3>2
    <3> QED
      BY <2>1, <3>3
  <2> QED
    BY <2>4, <2>5
<1>15. n \in Good
  <2> HIDE DEF Good
  <2>1. \A k \in 0..n : k \in Good
    BY <1>1, <1>13, <1>14, Upward
  <2> QED
    BY <1>1, <2>1
<1>16. P(n) = left
  BY <1>1, <1>3
<1> HIDE DEF upTo, P
<1> QED
  BY <1>12, <1>15, <1>16

-----------------------------------------------------------------------------
(* The greedy order as a whole *)

\* What the record v says of the operand chosen after the order o, and of the
\* runner-up.
Chosen(stats, o, v) ==
    LET left == Operands(stats) \ SetOf(o)
    IN  /\ v.left \in left /\ v.right \in left
        /\ ChangeFactor(stats, o, v.left) <= ChangeFactor(stats, o, v.right)
        /\ Len(o) + 1 < Len(stats.rates) =>
              /\ v.left # v.right
              /\ \A j \in left \ {v.left} :
                    ChangeFactor(stats, o, v.right) <= ChangeFactor(stats, o, j)

\* The greedy order after k places.
GreedyAt(stats, g, k) ==
    /\ g.order \in Seq(Operands(stats)) /\ Len(g.order) = k
    /\ IsFiniteSet(SetOf(g.order)) /\ Cardinality(SetOf(g.order)) = k
    /\ g.invariants \in Seq([left : Operands(stats), right : Operands(stats)])
    /\ Len(g.invariants) = k
    /\ \A i \in 1..k : /\ g.invariants[i].left = g.order[i]
                       /\ Chosen(stats, SubSeq(g.order, 1, i - 1), g.invariants[i])

\* As long as a place is free, an operand is left.
LEMMA OperandIsLeft ==
    ASSUME NEW stats, WellFormedStatistics(stats), NEW O, O \subseteq Operands(stats),
           IsFiniteSet(O), Cardinality(O) < Len(stats.rates)
    PROVE  /\ Operands(stats) \ O # {}
           /\ \A c : Operands(stats) \ O = {c} => ~ (Cardinality(O) + 1 < Len(stats.rates))
<1>1. IsFiniteSet(Operands(stats)) /\ Cardinality(Operands(stats)) = Len(stats.rates)
  <2>1. Len(stats.rates) \in Nat \ {0} /\ Operands(stats) = 0..(Len(stats.rates) - 1)
    BY SizeOf
  <2>2. IsFiniteSet(0..(Len(stats.rates) - 1))
        /\ Cardinality(0..(Len(stats.rates) - 1))
             = IF 0 > Len(stats.rates) - 1 THEN 0 ELSE (Len(stats.rates) - 1) - 0 + 1
    <3>1. 0 \in Int /\ Len(stats.rates) - 1 \in Int
      BY <2>1
    <3> HIDE DEF Operands
    <3> QED
      BY ONLY <3>1, FS_Interval
  <2> QED
    BY <2>1, <2>2
<1>2. Cardinality(O) \in Nat /\ Len(stats.rates) \in Nat
  BY FS_CardinalityType, SizeOf
<1>3. Operands(stats) \ O # {}
  <2>1. O # Operands(stats)
    BY <1>1, <1>2
  <2> QED
    BY <2>1
<1>4. ASSUME NEW c, Operands(stats) \ O = {c}
      PROVE  ~ (Cardinality(O) + 1 < Len(stats.rates))
  <2>1. Operands(stats) = O \cup {c} /\ c \notin O
    BY <1>4
  <2>2. Cardinality(O \cup {c}) = Cardinality(O) + 1
    BY <2>1, FS_AddElement
  <2> QED
    BY <1>1, <1>2, <2>1, <2>2
<1> QED
  BY <1>3, <1>4

\* The next place.
LEMMA GreedyStep ==
    ASSUME NEW stats, WellFormedStatistics(stats), NEW pops \in Seq(Nat),
           Operands(stats) \subseteq SetOf(pops), NEW k \in Nat, k < Len(stats.rates),
           NEW g, GreedyAt(stats, g, k),
           NEW next, next = NextOperand(stats, pops, g.order)
    PROVE  GreedyAt(stats, [order |-> Append(g.order, next.choice),
                            invariants |-> Append(g.invariants,
                                             [left |-> next.choice, right |-> next.second])],
                    k + 1)
<1> DEFINE n == Len(stats.rates)
           o == g.order
           w == g.invariants
           Ops == Operands(stats)
           left == Ops \ SetOf(o)
           f == [i \in Ops |-> ChangeFactor(stats, o, i)]
           c == next.choice
           s == next.second
           v == [left |-> c, right |-> s]
           o2 == Append(o, c)
           w2 == Append(w, v)
<1>1. o \in Seq(Ops) /\ Len(o) = k /\ IsFiniteSet(SetOf(o)) /\ Cardinality(SetOf(o)) = k
  BY DEF GreedyAt
<1>2. DOMAIN o = 1..k /\ \A i \in 1..k : o[i] \in Ops
  BY <1>1, LenProperties, ElementOfSeq
<1>3. SetOf(o) \subseteq Ops
  BY <1>2 DEF SetOf
<1>4. left # {} /\ \A x : left = {x} => ~ (k + 1 < n)
  BY <1>1, <1>3, OperandIsLeft
<1>5. BestOf(next, left, f)
  <2>1. \E l : l = left
    OBVIOUS
  <2>2. \E h : h = f
    OBVIOUS
  <2>3. BestOf(NextOperand(stats, pops, o), left, f)
    <3> HIDE DEF o
    <3> QED
      BY <1>1, <1>4, NextOperandIsBest
  <2> QED
    BY <2>3
<1>6. /\ c \in left /\ s \in left /\ \A j \in left : f[c] <= f[j]
      /\ left # {c} => s # c /\ \A j \in left \ {c} : f[s] <= f[j]
  BY <1>5 DEF BestOf
<1>7. c \in Ops /\ s \in Ops /\ c \notin SetOf(o)
  BY <1>6
<1>8. \A j \in left : f[j] = ChangeFactor(stats, o, j)
  OBVIOUS
<1>9. Chosen(stats, o, v)
  <2>1. ChangeFactor(stats, o, c) <= ChangeFactor(stats, o, s)
    BY <1>6, <1>8
  <2>2. ASSUME k + 1 < n
        PROVE  c # s /\ \A j \in left \ {c} : ChangeFactor(stats, o, s) <= ChangeFactor(stats, o, j)
    <3>1. left # {c}
      BY <1>4, <2>2
    <3> QED
      BY <3>1, <1>6, <1>8
  <2> QED
    BY <1>1, <1>6, <2>1, <2>2 DEF Chosen
<1>10. /\ o2 \in Seq(Ops) /\ Len(o2) = k + 1
       /\ \A i \in 1..(k + 1) : o2[i] = IF i <= k THEN o[i] ELSE c
  <2> HIDE DEF o, c
  <2> QED
    BY <1>1, <1>7, AppendProperties
<1>11. /\ w2 \in Seq([left : Ops, right : Ops]) /\ Len(w2) = k + 1
       /\ \A i \in 1..(k + 1) : w2[i] = IF i <= k THEN w[i] ELSE v
  <2>1. w \in Seq([left : Ops, right : Ops]) /\ Len(w) = k
    BY DEF GreedyAt
  <2>2. v \in [left : Ops, right : Ops]
    BY <1>7
  <2> HIDE DEF w, v, Ops
  <2> QED
    BY <2>1, <2>2, AppendProperties
<1>12. SetOf(o2) = SetOf(o) \cup {c}
  <2>1. DOMAIN o2 = 1..(k + 1)
    BY <1>10, LenProperties
  <2> HIDE DEF o2, o, c
  <2>2. \A i \in 1..k : o2[i] = o[i] /\ i \in 1..(k + 1)
    BY <1>10
  <2>3. o2[k + 1] = c /\ k + 1 \in 1..(k + 1)
    BY <1>10
  <2>4. \A i \in 1..(k + 1) : i = k + 1 \/ i \in 1..k
    OBVIOUS
  <2>5. SetOf(o2) \subseteq SetOf(o) \cup {c}
    BY <1>2, <2>1, <2>2, <2>3, <2>4 DEF SetOf
  <2>6. SetOf(o) \subseteq SetOf(o2)
    BY <1>2, <2>1, <2>2 DEF SetOf
  <2>7. c \in SetOf(o2)
    BY <2>1, <2>3 DEF SetOf
  <2> QED
    BY <2>5, <2>6, <2>7
<1>13. IsFiniteSet(SetOf(o2)) /\ Cardinality(SetOf(o2)) = k + 1
  <2>1. IsFiniteSet(SetOf(o) \cup {c})
        /\ Cardinality(SetOf(o) \cup {c}) = IF c \in SetOf(o) THEN Cardinality(SetOf(o))
                                            ELSE Cardinality(SetOf(o)) + 1
    <3> HIDE DEF o, c
    <3> QED
      BY ONLY <1>1, FS_AddElement
  <2> HIDE DEF o, o2, c
  <2> QED
    BY <1>1, <1>7, <1>12, <2>1
<1>14. ASSUME NEW i \in 1..(k + 1)
       PROVE  SubSeq(o2, 1, i - 1) = SubSeq(o, 1, i - 1)
  <2> HIDE DEF o2, o, c, Ops
  <2>1. \A j \in 1..(i - 1) : j \in 1..k /\ o2[j] = o[j] /\ o[j] \in Ops /\ o2[j] \in Ops
    BY <1>2, <1>10
  <2>2. 1 \in Int /\ i - 1 \in Int
    OBVIOUS
  <2>3. /\ SubSeq(o, 1, i - 1) \in Seq(Ops)
        /\ Len(SubSeq(o, 1, i - 1)) = IF 1 <= i - 1 THEN (i - 1) - 1 + 1 ELSE 0
        /\ \A j \in 1 .. (i - 1) - 1 + 1 : SubSeq(o, 1, i - 1)[j] = o[1 + j - 1]
    BY <2>1, <2>2, SubSeqProperties
  <2>4. /\ SubSeq(o2, 1, i - 1) \in Seq(Ops)
        /\ Len(SubSeq(o2, 1, i - 1)) = IF 1 <= i - 1 THEN (i - 1) - 1 + 1 ELSE 0
        /\ \A j \in 1 .. (i - 1) - 1 + 1 : SubSeq(o2, 1, i - 1)[j] = o2[1 + j - 1]
    BY <2>1, <2>2, SubSeqProperties
  <2>5. \A j \in 1..(i - 1) : 1 + j - 1 = j /\ j \in 1 .. (i - 1) - 1 + 1
    OBVIOUS
  <2>6. Len(SubSeq(o2, 1, i - 1)) = i - 1 /\ Len(SubSeq(o, 1, i - 1)) = i - 1
    BY <2>3, <2>4
  <2>7. \A j \in 1..(i - 1) : SubSeq(o2, 1, i - 1)[j] = SubSeq(o, 1, i - 1)[j]
    BY <2>1, <2>3, <2>4, <2>5
  <2> QED
    BY <2>3, <2>4, <2>6, <2>7, SeqEqual
<1>15. ASSUME NEW i \in 1..(k + 1)
       PROVE  w2[i].left = o2[i] /\ Chosen(stats, SubSeq(o2, 1, i - 1), w2[i])
  <2>1. CASE i <= k
    <3>1. i \in 1..k
      BY <2>1
    <3>2. w[i].left = o[i] /\ Chosen(stats, SubSeq(o, 1, i - 1), w[i])
      BY <3>1 DEF GreedyAt
    <3>3. w2[i] = w[i] /\ o2[i] = o[i]
      BY <1>10, <1>11, <2>1
    <3> HIDE DEF w, w2, o, o2
    <3> QED
      BY <3>2, <3>3, <1>14
  <2>2. CASE ~ (i <= k)
    <3>1. i = k + 1 /\ i - 1 = k
      BY <2>2
    <3>2. w2[i] = v /\ o2[i] = c
      BY <1>10, <1>11, <2>2
    <3>3. SubSeq(o, 1, i - 1) = o
      BY <1>1, <3>1, SubSeqFull
    <3>4. v.left = c
      OBVIOUS
    <3> HIDE DEF w, w2, o, o2, v, c
    <3> QED
      BY <1>9, <1>14, <3>2, <3>3, <3>4
  <2> QED
    BY <2>1, <2>2
<1> DEFINE g2 == [order |-> o2, invariants |-> w2]
<1>16. GreedyAt(stats, g2, k + 1)
  <2>1. g2.order = o2 /\ g2.invariants = w2
    OBVIOUS
  <2> HIDE DEF g2, o2, w2
  <2> QED
    BY <2>1, <1>10, <1>11, <1>13, <1>15 DEF GreedyAt
<1> QED
  BY <1>16

\* The greedy order has every operand once, and each choice with its runner-up.
LEMMA GreedyChooses ==
    ASSUME NEW stats, WellFormedStatistics(stats), NEW pops \in Seq(Nat),
           Operands(stats) \subseteq SetOf(pops)
    PROVE  GreedyAt(stats, Greedy(stats, pops), Len(stats.rates))
<1> DEFINE n == Len(stats.rates)
           After(g) == LET next == NextOperand(stats, pops, g.order)
                       IN  [order |-> Append(g.order, next.choice),
                            invariants |-> Append(g.invariants,
                                            [left |-> next.choice, right |-> next.second])]
           D == 0..n
           R(k) == k
           Step(g, k) == IF k = 0 THEN [order |-> <<>>, invariants |-> <<>>] ELSE After(g[k - 1])
<1>1. n \in Nat \ {0}
  BY SizeOf
<1>2. ASSUME NEW g, NEW h, NEW x \in D, \A y \in D : R(y) < R(x) => g[y] = h[y]
      PROVE  Step(g, x) = Step(h, x)
  <2>1. x # 0 => x - 1 \in D /\ x - 1 < x
    BY <1>1
  <2>2. x # 0 => g[x - 1] = h[x - 1]
    BY <1>2, <2>1
  <2> HIDE DEF After
  <2> QED
    BY <2>2
<1>3. n + 1 \in Nat /\ \A x \in D : R(x) \in Nat /\ R(x) < n + 1
  BY <1>1
<1> DEFINE From(f, m) == /\ f = [x \in D |-> f[x]]
                         /\ \A x \in D : R(x) < m => f[x] = Step(f, x)
           S == {m \in Nat : \E f : From(f, m)}
<1>4. 0 \in S
  <2>1. PICK f : f = [x \in D |-> 0]
    OBVIOUS
  <2>2. f = [x \in D |-> f[x]]
    <3> HIDE DEF D
    <3> QED
      BY <2>1
  <2>3. \A x \in D : ~ (R(x) < 0)
    <3> HIDE DEF D, R
    <3> QED
      BY <1>3
  <2>4. From(f, 0)
    <3> HIDE DEF D, R, Step
    <3> QED
      BY <2>2, <2>3
  <2> HIDE DEF From
  <2> QED
    BY <2>4
<1>5. ASSUME NEW m \in Nat, m < n + 1, m \in S
      PROVE  m + 1 \in S
  <2>1. PICK g : From(g, m)
    <3> HIDE DEF From
    <3> QED
      BY <1>5
  <2>2. PICK f : f = [x \in D |-> Step(g, x)]
    <3> HIDE DEF D, Step
    <3> QED
      OBVIOUS
  <2>3. f = [x \in D |-> f[x]] /\ \A x \in D : f[x] = Step(g, x)
    <3> HIDE DEF D, Step
    <3> QED
      BY <2>2
  <2>4. \A x \in D : R(x) < m => f[x] = g[x]
    <3> HIDE DEF D, R, Step
    <3> QED
      BY <2>1, <2>3
  <2>5. ASSUME NEW x \in D, R(x) < m + 1
        PROVE  f[x] = Step(f, x)
    <3>1. \A y \in D : R(y) < R(x) => f[y] = g[y]
      <4> HIDE DEF D, R, Step, From
      <4> QED
        BY <1>3, <2>4, <2>5
    <3>2. Step(f, x) = Step(g, x)
      <4> HIDE DEF D, R, Step, From
      <4> QED
        BY <3>1, <1>2
    <3> HIDE DEF D, R, Step
    <3> QED
      BY <2>3, <3>2
  <2>6. From(f, m + 1)
    <3> HIDE DEF D, R, Step
    <3> QED
      BY <2>3, <2>5
  <2> HIDE DEF From
  <2> QED
    BY <2>6
<1>6. n + 1 \in S
  <2> HIDE DEF S
  <2>1. \A k \in 0..(n + 1) : k \in S
    BY <1>3, <1>4, <1>5, Upward
  <2> QED
    BY <1>3, <2>1
<1>7. \E f : f = [x \in D |-> Step(f, x)]
  <2>1. PICK f : From(f, n + 1)
    <3> HIDE DEF From
    <3> QED
      BY <1>6
  <2>2. f = [x \in D |-> f[x]] /\ \A x \in D : f[x] = Step(f, x)
    <3> HIDE DEF D, R, Step
    <3> QED
      BY <1>3, <2>1
  <2> HIDE DEF D, R, Step, From
  <2> QED
    BY <2>2
<1> DEFINE chosen == CHOOSE g : g = [k \in D |-> Step(g, k)]
<1>8. chosen = [k \in D |-> Step(chosen, k)]
  <2> HIDE DEF D, Step
  <2> QED
    BY <1>7
<1>9. \A k \in D : chosen[k] = Step(chosen, k)
  <2> HIDE DEF D, Step, chosen
  <2> QED
    BY <1>8
<1>10. Greedy(stats, pops) = chosen[n]
  BY DEF Greedy
<1> DEFINE Good == {k \in 0..n : GreedyAt(stats, chosen[k], k)}
<1>11. 0 \in Good
  <2> DEFINE first == [order |-> <<>>, invariants |-> <<>>]
  <2>1. chosen[0] = first
    <3>1. 0 \in D /\ Step(chosen, 0) = first
      BY <1>1
    <3> HIDE DEF D, Step, chosen, first
    <3> QED
      BY <1>9, <3>1
  <2>2. first.order = <<>> /\ first.invariants = <<>>
    OBVIOUS
  <2>3. SetOf(<<>>) = {}
    BY DEF SetOf
  <2>4. IsFiniteSet({}) /\ Cardinality({}) = 0
    BY FS_EmptySet
  <2>0. /\ Len(<<>>) = 0 /\ <<>> \in Seq(Operands(stats))
        /\ <<>> \in Seq([left : Operands(stats), right : Operands(stats)])
        /\ \A i \in 1..0 : FALSE
    OBVIOUS
  <2>5. GreedyAt(stats, first, 0)
    <3> HIDE DEF first
    <3> QED
      BY <2>2, <2>3, <2>4, <2>0 DEF GreedyAt
  <2> HIDE DEF chosen, first
  <2> QED
    BY <1>1, <2>1, <2>5
<1>12. ASSUME NEW k \in Nat, k < n, k \in Good
       PROVE  k + 1 \in Good
  <2>1. k + 1 \in D /\ k + 1 # 0 /\ (k + 1) - 1 = k /\ k + 1 \in 0..n
    BY <1>1, <1>12
  <2>2. chosen[k + 1] = After(chosen[k])
    <3>1. Step(chosen, k + 1) = After(chosen[k])
      <4> HIDE DEF chosen, After
      <4> QED
        BY <2>1
    <3> HIDE DEF D, Step, chosen, After
    <3> QED
      BY <1>9, <2>1, <3>1
  <2>3. GreedyAt(stats, chosen[k], k)
    BY <1>12
  <2>4. GreedyAt(stats, After(chosen[k]), k + 1)
    <3>1. PICK g : g = chosen[k]
      OBVIOUS
    <3>2. PICK next : next = NextOperand(stats, pops, g.order)
      OBVIOUS
    <3>3. GreedyAt(stats, g, k)
      <4> HIDE DEF chosen
      <4> QED
        BY <2>3, <3>1
    <3>4. After(g) = [order |-> Append(g.order, next.choice),
                      invariants |-> Append(g.invariants,
                                       [left |-> next.choice, right |-> next.second])]
      BY <3>2
    <3>5. GreedyAt(stats, [order |-> Append(g.order, next.choice),
                           invariants |-> Append(g.invariants,
                                            [left |-> next.choice, right |-> next.second])],
                   k + 1)
      <4> HIDE DEF chosen, After
      <4> QED
        BY <1>12, <3>2, <3>3, GreedyStep
    <3> HIDE DEF chosen, After
    <3> QED
      BY <3>1, <3>4, <3>5
  <2> HIDE DEF chosen, After
  <2> QED
    BY <2>1, <2>2, <2>4
<1>13. n \in Good
  <2> HIDE DEF Good
  <2>1. \A k \in 0..n : k \in Good
    BY <1>1, <1>11, <1>12, Upward
  <2> QED
    BY <1>1, <2>1
<1> HIDE DEF chosen
<1> QED
  BY <1>10, <1>13

\* The invariants of a greedy plan hold under the statistics it was planned for.
LEMMA GreedyInvariantsHold ==
    ASSUME NEW stats, WellFormedStatistics(stats), NEW pops \in Seq(Nat),
           Operands(stats) \subseteq SetOf(pops)
    PROVE  ~ GreedyViolated(Greedy(stats, pops).invariants, stats)
<1> DEFINE g == Greedy(stats, pops)
           n == Len(stats.rates)
           o == g.order
           w == g.invariants
<1>1. GreedyAt(stats, g, n)
  <2> HIDE DEF g
  <2>1. g = Greedy(stats, pops)
    BY DEF g
  <2> QED
    BY <2>1, GreedyChooses
<1>2. n \in Nat \ {0} /\ \A x \in Operands(stats) : x \in Nat
  BY SizeOf
<1>3. /\ o \in Seq(Operands(stats)) /\ Len(o) = n /\ Len(w) = n
      /\ \A i \in 1..n : w[i].left = o[i] /\ Chosen(stats, SubSeq(o, 1, i - 1), w[i])
  <2> HIDE DEF g
  <2> QED
    BY <1>1 DEF GreedyAt
<1>4. ASSUME NEW i \in 1..(n - 1), NEW before, before = [j \in 1..(i - 1) |-> w[j].left]
      PROVE  ~ (ChangeFactor(stats, before, w[i].left) > ChangeFactor(stats, before, w[i].right))
  <2> HIDE DEF g
  <2>1. \A j \in 1..(i - 1) : j \in 1..n /\ o[j] \in Operands(stats) /\ w[j].left = o[j]
    BY <1>2, <1>3, ElementOfSeq
  <2>2. i \in 1..n /\ i - 1 \in Nat
    BY <1>2
  <2>3. before = SubSeq(o, 1, i - 1)
    <3>1. SubSeq(o, 1, i - 1) = [j \in 1..(i - 1) |-> o[j]]
      <4>1. /\ SubSeq(o, 1, i - 1) \in Seq(Operands(stats))
            /\ Len(SubSeq(o, 1, i - 1)) = IF 1 <= i - 1 THEN (i - 1) - 1 + 1 ELSE 0
            /\ \A j \in 1 .. (i - 1) - 1 + 1 : SubSeq(o, 1, i - 1)[j] = o[1 + j - 1]
        BY <2>1, <2>2, SubSeqProperties
      <4>2. Len(SubSeq(o, 1, i - 1)) = i - 1
        BY <2>2, <4>1
      <4>3. \A j \in 1..(i - 1) : SubSeq(o, 1, i - 1)[j] = o[j]
        BY <2>2, <4>1
      <4>4. SubSeq(o, 1, i - 1) \in [1..(i - 1) -> Operands(stats)]
        BY <4>1, <4>2, LenProperties
      <4> QED
        BY <4>3, <4>4
    <3> QED
      BY <1>4, <2>1, <3>1
  <2>4. /\ before \in Seq(Operands(stats))
    <3>1. before = [j \in 1..(i - 1) |-> o[j]]
      BY <1>4, <2>1
    <3> QED
      BY <2>1, <2>2, <3>1, IsASeq
  <2>5. Chosen(stats, before, w[i])
    BY <1>3, <2>2, <2>3
  <2>6. /\ ChangeFactor(stats, before, w[i].left) <= ChangeFactor(stats, before, w[i].right)
        /\ w[i].left \in Operands(stats) /\ w[i].right \in Operands(stats)
    BY <2>5 DEF Chosen
  <2>7. ChangeFactor(stats, before, w[i].left) \in Nat
        /\ ChangeFactor(stats, before, w[i].right) \in Nat
    BY <2>4, <2>6, FactorIsNumber
  <2> QED
    BY <2>6, <2>7
<1> HIDE DEF g
<1>5. ~ GreedyViolated(w, stats)
  BY <1>3, <1>4 DEF GreedyViolated
<1>6. g = Greedy(stats, pops)
  BY DEF g
<1> QED
  BY <1>5, <1>6

-----------------------------------------------------------------------------
(* Iterative improvement *)

\* Two places, or three different ones.
Places(n) ==
    {m \in (1..n) \X (1..n) : TRUE}
        \cup {m \in (1..n) \X (1..n) \X (1..n) : m[1] # m[2] /\ m[1] # m[3] /\ m[2] # m[3]}

\* A move only changes the places of what an order has.
LEMMA MovedKeeps ==
    ASSUME NEW T, NEW n \in Nat, NEW o \in [1..n -> T], NEW m \in Places(n)
    PROVE  Moved(o, m) \in [1..n -> T] /\ SetOf(Moved(o, m)) = SetOf(o)
<1>1. CASE m \in (1..n) \X (1..n)
  <2>1. PICK a \in 1..n, b \in 1..n : m = <<a, b>>
    BY <1>1
  <2>2. PICK f : f = Moved(o, m)
    OBVIOUS
  <2>3. f = [[o EXCEPT ![a] = o[b]] EXCEPT ![b] = o[a]]
    BY <2>1, <2>2 DEF Moved
  <2>4. /\ f \in [1..n -> T]
        /\ \A i \in 1..n : f[i] = IF i = b THEN o[a] ELSE IF i = a THEN o[b] ELSE o[i]
    BY <2>3
  <2>5. SetOf(f) = SetOf(o)
    <3>1. DOMAIN f = 1..n /\ DOMAIN o = 1..n
      BY <2>4
    <3>2. \A i \in 1..n : \E j \in 1..n : f[i] = o[j]
      BY <2>4
    <3>3. ASSUME NEW i \in 1..n PROVE \E j \in 1..n : o[i] = f[j]
      <4>1. f[a] = o[b] /\ f[b] = o[a]
        BY <2>4
      <4>2. CASE i = a
        BY <4>1, <4>2
      <4>3. CASE i = b
        BY <4>1, <4>3
      <4>4. CASE i # a /\ i # b
        BY <2>4, <4>4
      <4> QED
        BY <4>2, <4>3, <4>4
    <3>4. \A i \in 1..n : \E j \in 1..n : o[i] = f[j]
      BY <3>3
    <3>5. SetOf(f) \subseteq SetOf(o)
      <4> SUFFICES ASSUME NEW x \in SetOf(f) PROVE x \in SetOf(o)
        OBVIOUS
      <4>1. PICK i \in 1..n : x = f[i]
        BY <3>1 DEF SetOf
      <4>2. PICK j \in 1..n : x = o[j]
        BY <3>2, <4>1
      <4>3. j \in DOMAIN o
        BY <3>1
      <4> QED
        BY ONLY <4>2, <4>3 DEF SetOf
    <3>6. SetOf(o) \subseteq SetOf(f)
      <4> SUFFICES ASSUME NEW x \in SetOf(o) PROVE x \in SetOf(f)
        OBVIOUS
      <4>1. PICK i \in 1..n : x = o[i]
        BY <3>1 DEF SetOf
      <4>2. PICK j \in 1..n : x = f[j]
        BY <3>4, <4>1
      <4>3. j \in DOMAIN f
        BY <3>1
      <4> QED
        BY ONLY <4>2, <4>3 DEF SetOf
    <3> QED
      BY ONLY <3>5, <3>6
  <2> QED
    BY <2>2, <2>4, <2>5
<1>2. CASE m \in {x \in (1..n) \X (1..n) \X (1..n) : x[1] # x[2] /\ x[1] # x[3] /\ x[2] # x[3]}
  <2>1. PICK a \in 1..n, b \in 1..n, c \in 1..n :
            m = <<a, b, c>> /\ a # b /\ a # c /\ b # c
    BY <1>2
  <2>2. PICK f : f = Moved(o, m)
    OBVIOUS
  <2>3. f = [[[o EXCEPT ![a] = o[b]] EXCEPT ![b] = o[c]] EXCEPT ![c] = o[a]]
    BY <2>1, <2>2 DEF Moved
  <2>4. /\ f \in [1..n -> T]
        /\ \A i \in 1..n :
              f[i] = IF i = c THEN o[a] ELSE IF i = b THEN o[c] ELSE IF i = a THEN o[b] ELSE o[i]
    BY <2>3
  <2>5. SetOf(f) = SetOf(o)
    <3>1. DOMAIN f = 1..n /\ DOMAIN o = 1..n
      BY <2>4
    <3>2. \A i \in 1..n : \E j \in 1..n : f[i] = o[j]
      BY <2>4
    <3>3. ASSUME NEW i \in 1..n PROVE \E j \in 1..n : o[i] = f[j]
      <4>1. f[a] = o[b] /\ f[b] = o[c] /\ f[c] = o[a]
        BY <2>1, <2>4
      <4>2. CASE i = a
        BY <4>1, <4>2
      <4>3. CASE i = b
        BY <4>1, <4>3
      <4>4. CASE i = c
        BY <4>1, <4>4
      <4>5. CASE i # a /\ i # b /\ i # c
        BY <2>4, <4>5
      <4> QED
        BY <4>2, <4>3, <4>4, <4>5
    <3>4. \A i \in 1..n : \E j \in 1..n : o[i] = f[j]
      BY <3>3
    <3>5. SetOf(f) \subseteq SetOf(o)
      <4> SUFFICES ASSUME NEW x \in SetOf(f) PROVE x \in SetOf(o)
        OBVIOUS
      <4>1. PICK i \in 1..n : x = f[i]
        BY <3>1 DEF SetOf
      <4>2. PICK j \in 1..n : x = o[j]
        BY <3>2, <4>1
      <4>3. j \in DOMAIN o
        BY <3>1
      <4> QED
        BY ONLY <4>2, <4>3 DEF SetOf
    <3>6. SetOf(o) \subseteq SetOf(f)
      <4> SUFFICES ASSUME NEW x \in SetOf(o) PROVE x \in SetOf(f)
        OBVIOUS
      <4>1. PICK i \in 1..n : x = o[i]
        BY <3>1 DEF SetOf
      <4>2. PICK j \in 1..n : x = f[j]
        BY <3>4, <4>1
      <4>3. j \in DOMAIN f
        BY <3>1
      <4> QED
        BY ONLY <4>2, <4>3 DEF SetOf
    <3> QED
      BY ONLY <3>5, <3>6
  <2> QED
    BY <2>2, <2>4, <2>5
<1> QED
  BY <1>1, <1>2 DEF Places

\* The reverse of a swap undoes it.
LEMMA SwapIsUndone ==
    ASSUME NEW T, NEW n \in Nat, NEW o \in [1..n -> T], NEW m \in SwapMoves(n)
    PROVE  Moved(Moved(o, m), Reversed(m)) = o
<1>1. PICK a \in 1..n, b \in 1..n : m = <<a, b>>
  BY DEF SwapMoves
<1>2. PICK f : f = Moved(o, m)
  OBVIOUS
<1>3. PICK g : g = Moved(f, Reversed(m))
  OBVIOUS
<1>4. f = [[o EXCEPT ![a] = o[b]] EXCEPT ![b] = o[a]]
  BY <1>1, <1>2 DEF Moved
<1>5. Reversed(m) = <<b, a>>
  BY <1>1 DEF Reversed
<1>6. g = [[f EXCEPT ![b] = f[a]] EXCEPT ![a] = f[b]]
  BY <1>3, <1>5 DEF Moved
<1>7. /\ f \in [1..n -> T]
      /\ \A i \in 1..n : f[i] = IF i = b THEN o[a] ELSE IF i = a THEN o[b] ELSE o[i]
  BY <1>4
<1>8. /\ g \in [1..n -> T]
      /\ \A i \in 1..n : g[i] = IF i = a THEN f[b] ELSE IF i = b THEN f[a] ELSE f[i]
  BY <1>6, <1>7
<1>9. \A i \in 1..n : g[i] = o[i]
  BY <1>7, <1>8
<1>10. g = o
  BY <1>8, <1>9
<1> QED
  BY <1>2, <1>3, <1>10

LEMMA MovesArePlaces ==
    ASSUME NEW n \in Nat
    PROVE  /\ SwapMoves(n) \subseteq Places(n) /\ CircleMoves(n) \subseteq Places(n)
           /\ \A m \in SwapMoves(n) \cup CircleMoves(n) : Reversed(m) \in Places(n)
<1>1. ASSUME NEW m \in SwapMoves(n)
      PROVE  m \in Places(n) /\ Reversed(m) \in Places(n)
  <2>1. PICK a \in 1..n, b \in 1..n : m = <<a, b>>
    BY DEF SwapMoves
  <2>2. Reversed(m) = <<b, a>>
    BY <2>1 DEF Reversed
  <2> QED
    BY <2>1, <2>2 DEF Places
<1>2. ASSUME NEW m \in CircleMoves(n)
      PROVE  m \in Places(n) /\ Reversed(m) \in Places(n)
  <2>1. PICK a \in 1..n, b \in 1..n, c \in 1..n :
            m = <<a, b, c>> /\ a < b /\ a < c /\ b # c
    BY DEF CircleMoves
  <2>2. Reversed(m) = <<c, a, b>>
    BY <2>1 DEF Reversed
  <2>3. a # b /\ a # c
    BY <2>1
  <2> QED
    BY <2>1, <2>2, <2>3 DEF Places
<1> QED
  BY <1>1, <1>2

\* The greedy order is an order, and so is every initial order.
LEMMA GreedyIsOrder ==
    ASSUME NEW p, WellFormed(p)
    PROVE  /\ Greedy(p.stats, p.builder.pops).order \in Orders(p)
           /\ Greedy(p.stats, p.builder.pops).order \in Seq(OperandsOf(p))
           /\ InitialOrders(p) \subseteq Orders(p)
<1> DEFINE stats == p.stats
           pops == p.builder.pops
           n == Len(stats.rates)
           o == Greedy(stats, pops).order
<1>1. /\ WellFormedStatistics(stats) /\ pops \in Seq(Nat)
      /\ Operands(stats) \subseteq SetOf(pops) /\ OperandsOf(p) = Operands(stats)
  BY DEF WellFormed, OperandsOf
<1>2. GreedyAt(stats, Greedy(stats, pops), n)
  <2> HIDE DEF stats, pops
  <2> QED
    BY <1>1, GreedyChooses
<1>3. /\ o \in Seq(Operands(stats)) /\ Len(o) = n
      /\ IsFiniteSet(SetOf(o)) /\ Cardinality(SetOf(o)) = n
  BY <1>2 DEF GreedyAt
<1>4. o \in [1..n -> Operands(stats)]
  BY <1>3, LenProperties
<1>5. SetOf(o) \subseteq Operands(stats)
  BY <1>4 DEF SetOf
<1>6. SetOf(o) = Operands(stats)
  <2>1. n \in Nat \ {0} /\ Operands(stats) = 0..(n - 1)
    BY <1>1, SizeOf
  <2>2. IsFiniteSet(Operands(stats)) /\ Cardinality(Operands(stats)) = n
    <3>1. 0 \in Int /\ n - 1 \in Int
      BY <2>1
    <3>2. /\ IsFiniteSet(0..(n - 1))
          /\ Cardinality(0..(n - 1)) = IF 0 > n - 1 THEN 0 ELSE (n - 1) - 0 + 1
      <4> HIDE DEF n
      <4> QED
        BY ONLY <3>1, FS_Interval
    <3> HIDE DEF n, stats
    <3> QED
      BY <2>1, <3>2
  <2> HIDE DEF o, stats, n
  <2> QED
    BY <1>3, <1>5, <2>2, FS_Subset
<1>7. o \in Orders(p)
  BY <1>1, <1>4, <1>6 DEF Orders
<1>8. InitialOrders(p) \subseteq Orders(p)
  BY <1>7 DEF InitialOrders
<1> QED
  BY <1>1, <1>3, <1>7, <1>8

\* The order that iterative improvement keeps has every operand once.
OrderIsComplete == Improves(problem) => order \in Orders(problem)

CostIsNumber == Improves(problem) => cost \in Nat

\* What a plan builder maintains at every step of its search.
SelectionInv ==
    /\ problem = NoProblem \/ WellFormed(problem)
    /\ OrderIsComplete
    /\ CostIsNumber
    /\ CostIsOfOrder

LEMMA NoProblemImproves == ~ Improves(NoProblem)
  BY DEF Improves, NoProblem

\* What a move leaves is an order, and a rejected swap leaves the order as it was.
LEMMA MoveKeepsOrder ==
    ASSUME NEW p, WellFormed(p), NEW o \in Orders(p), NEW n, n = Len(o),
           NEW m \in SwapMoves(n) \cup CircleMoves(n)
    PROVE  /\ Moved(o, m) \in Orders(p) /\ Moved(Moved(o, m), Reversed(m)) \in Orders(p)
           /\ m \in SwapMoves(n) => Moved(Moved(o, m), Reversed(m)) = o
<1>1. WellFormedStatistics(p.stats)
  BY DEF WellFormed
<1>2. Len(p.stats.rates) \in Nat
  BY <1>1, SizeOf
<1>3. o \in [1..Len(p.stats.rates) -> OperandsOf(p)] /\ SetOf(o) = OperandsOf(p)
  BY DEF Orders
<1>4. n = Len(p.stats.rates) /\ n \in Nat
  BY <1>2, <1>3
<1>5. o \in [1..n -> OperandsOf(p)]
  BY <1>3, <1>4
<1>6. m \in Places(n) /\ Reversed(m) \in Places(n)
  BY <1>4, MovesArePlaces
<1>7. Moved(o, m) \in [1..n -> OperandsOf(p)] /\ SetOf(Moved(o, m)) = SetOf(o)
  <2>1. n \in Nat /\ o \in [1..n -> OperandsOf(p)] /\ m \in Places(n)
    BY <1>4, <1>5, <1>6
  <2> QED
    BY ONLY <2>1, MovedKeeps
<1>8. /\ Moved(Moved(o, m), Reversed(m)) \in [1..n -> OperandsOf(p)]
      /\ SetOf(Moved(Moved(o, m), Reversed(m))) = SetOf(Moved(o, m))
  <2> DEFINE r == Reversed(m)
             f == Moved(o, m)
  <2>1. n \in Nat /\ f \in [1..n -> OperandsOf(p)] /\ r \in Places(n)
    BY <1>4, <1>6, <1>7
  <2>2. Moved(f, r) \in [1..n -> OperandsOf(p)] /\ SetOf(Moved(f, r)) = SetOf(f)
    <3> HIDE DEF f, r
    <3> QED
      BY ONLY <2>1, MovedKeeps
  <2> QED
    BY <2>2
<1>9. m \in SwapMoves(n) => Moved(Moved(o, m), Reversed(m)) = o
  BY <1>4, <1>5, SwapIsUndone
<1> QED
  BY <1>3, <1>4, <1>7, <1>8, <1>9 DEF Orders

LEMMA StartKeepsInv ==
    ASSUME SelectionInv, NEW p, WellFormed(p), StartSearch(p)
    PROVE  SelectionInv'
<1>1. problem' = p
  BY DEF StartSearch
<1>2. CASE Improves(p)
  <2>1. order' \in Orders(p) /\ cost' = OrderCost(p, order')
    BY <1>2, GreedyIsOrder DEF StartSearch
  <2>2. cost' \in Nat
    BY <2>1 DEF WellFormed
  <2> QED
    BY <1>1, <2>1, <2>2 DEF SelectionInv, OrderIsComplete, CostIsNumber, CostIsOfOrder
<1>3. CASE ~ Improves(p)
  BY <1>1, <1>3 DEF SelectionInv, OrderIsComplete, CostIsNumber, CostIsOfOrder
<1> QED
  BY <1>2, <1>3

\* One step of iterative improvement: the invariant is kept, and the cost does
\* not rise.
LEMMA ImproveKeepsInv ==
    ASSUME SelectionInv, Improve
    PROVE  SelectionInv' /\ problem' = problem /\ cost' <= cost
<1>1. Improves(problem) /\ problem' = problem
  BY DEF Improve
<1>2. WellFormed(problem) /\ order \in Orders(problem) /\ cost \in Nat
  BY <1>1, NoProblemImproves DEF SelectionInv, OrderIsComplete, CostIsNumber
<1>3. PICK move \in Moves :
          IF OrderCost(problem, Moved(order, move)) < cost
          THEN order' = Moved(order, move) /\ cost' = OrderCost(problem, Moved(order, move))
          ELSE order' = Moved(Moved(order, move), Reversed(move)) /\ cost' = cost
  BY DEF Improve
<1>4. /\ move \in SwapMoves(Len(order)) \cup CircleMoves(Len(order))
      /\ problem.builder.kind = "swap" => move \in SwapMoves(Len(order))
  BY DEF Moves
<1>5. /\ Moved(order, move) \in Orders(problem)
      /\ Moved(Moved(order, move), Reversed(move)) \in Orders(problem)
      /\ move \in SwapMoves(Len(order)) => Moved(Moved(order, move), Reversed(move)) = order
  BY <1>2, <1>4, MoveKeepsOrder
<1>6. OrderCost(problem, Moved(order, move)) \in Nat
  BY <1>2, <1>5 DEF WellFormed
<1>7. CASE OrderCost(problem, Moved(order, move)) < cost
  <2>1. order' = Moved(order, move) /\ cost' = OrderCost(problem, Moved(order, move))
    BY <1>3, <1>7
  <2>2. cost' \in Nat /\ cost' <= cost
    BY <1>2, <1>6, <1>7, <2>1
  <2> QED
    BY <1>1, <1>2, <1>5, <2>1, <2>2 DEF SelectionInv, OrderIsComplete, CostIsNumber, CostIsOfOrder
<1>8. CASE ~ (OrderCost(problem, Moved(order, move)) < cost)
  <2>1. order' = Moved(Moved(order, move), Reversed(move)) /\ cost' = cost
    BY <1>3, <1>8
  <2>2. problem.builder.kind = "swap" => order' = order
    BY <1>4, <1>5, <2>1
  <2>3. CostIsOfOrder'
    BY <1>1, <2>1, <2>2 DEF SelectionInv, CostIsOfOrder
  <2> QED
    BY <1>1, <1>2, <1>5, <2>1, <2>3 DEF SelectionInv, OrderIsComplete, CostIsNumber
<1> QED
  BY <1>7, <1>8

LEMMA FinishKeepsInv ==
    ASSUME SelectionInv, FinishSearch
    PROVE  SelectionInv'
<1>1. problem' = NoProblem
  BY DEF FinishSearch
<1>2. ~ Improves(problem')
  BY <1>1, NoProblemImproves
<1> QED
  BY <1>1, <1>2 DEF SelectionInv, OrderIsComplete, CostIsNumber, CostIsOfOrder

\* The invariant is inductive.
LEMMA SelectionInvariant == Selection => []SelectionInv
<1>1. SelectionInit => SelectionInv
  BY NoProblemImproves
     DEF SelectionInit, SelectionInv, OrderIsComplete, CostIsNumber, CostIsOfOrder
<1>2. SelectionInv /\ [SelectionNext]_selection => SelectionInv'
  <2> SUFFICES ASSUME SelectionInv, [SelectionNext]_selection PROVE SelectionInv'
    OBVIOUS
  <2>1. CASE \E p : WellFormed(p) /\ StartSearch(p)
    BY <2>1, StartKeepsInv
  <2>2. CASE Improve
    BY <2>2, ImproveKeepsInv
  <2>3. CASE FinishSearch
    BY <2>3, FinishKeepsInv
  <2>4. CASE UNCHANGED selection
    BY <2>4 DEF selection, SelectionInv, OrderIsComplete, CostIsNumber, CostIsOfOrder
  <2> QED
    BY <2>1, <2>2, <2>3, <2>4 DEF SelectionNext
<1> QED
  BY <1>1, <1>2, PTL DEF Selection

(* What iterative improvement keeps is, at every step, an order of all the  *)
(* operands: moves and the steps back lose none and double none             *)
(* (LocalSearch of IterativeImprovement.execute).                           *)
THEOREM OrdersStayComplete == Selection => []OrderIsComplete
<1>1. SelectionInv => OrderIsComplete
  BY DEF SelectionInv
<1> QED
  BY <1>1, SelectionInvariant, PTL

(* The cost that new orders are compared with is that of the order at hand, *)
(* however many swaps were tried and undone.                                *)
THEOREM CostsStayThoseOfOrders == Selection => []CostIsOfOrder
<1>1. SelectionInv => CostIsOfOrder
  BY DEF SelectionInv
<1> QED
  BY <1>1, SelectionInvariant, PTL

\* While a problem is worked at, the order at hand gets no more expensive.
OrderGetsNoWorse ==
    problem' = problem /\ Improves(problem) /\ problem.builder.kind = "swap" =>
        OrderCost(problem, order') <= OrderCost(problem, order)

(* Improvement by swaps never makes the order more expensive.               *)
THEOREM SwapsNeverWorsen == Selection => [][OrderGetsNoWorse]_selection
<1>1. SelectionInv /\ SelectionInv' /\ [SelectionNext]_selection => [OrderGetsNoWorse]_selection
  <2> SUFFICES ASSUME SelectionInv, SelectionInv', SelectionNext, problem' = problem,
                      Improves(problem), problem.builder.kind = "swap"
               PROVE  OrderCost(problem, order') <= OrderCost(problem, order)
    BY DEF OrderGetsNoWorse
  <2>1. problem # NoProblem
    BY NoProblemImproves
  <2>2. Improve
    BY <2>1 DEF SelectionNext, StartSearch, FinishSearch
  <2>3. cost' <= cost
    BY <2>2, ImproveKeepsInv
  <2>4. cost = OrderCost(problem, order) /\ cost' = OrderCost(problem, order')
    BY DEF SelectionInv, CostIsOfOrder
  <2> QED
    BY <2>3, <2>4
<1> QED
  BY <1>1, SelectionInvariant, PTL DEF Selection

-----------------------------------------------------------------------------
(* Bushy trees *)

Groups(p) == (SUBSET OperandsOf(p)) \ {{}}

\* A part of a group and the rest of it are smaller groups.
LEMMA GroupIsFinite ==
    ASSUME NEW p, WellFormedStatistics(p.stats), NEW items \in Groups(p)
    PROVE  /\ IsFiniteSet(items) /\ Cardinality(items) \in Nat \ {0}
           /\ Cardinality(items) <= Len(p.stats.rates)
           /\ Least(items) \in items /\ Least(items) + 1 \in 1..Len(p.stats.rates)
           /\ \A part \in (SUBSET items) \ {{}, items} :
                 /\ part \in Groups(p) /\ items \ part \in Groups(p)
                 /\ Cardinality(part) < Cardinality(items)
                 /\ Cardinality(items \ part) < Cardinality(items)
           /\ Cardinality(items) # 1 => items # {Least(items)}
<1> DEFINE n == Len(p.stats.rates)
<1>1. n \in Nat \ {0} /\ OperandsOf(p) = 0..(n - 1)
  BY SizeOf DEF OperandsOf
<1>2. items # {} /\ items \subseteq OperandsOf(p)
  BY DEF Groups
<1>3. IsFiniteSet(0..(n - 1)) /\ Cardinality(0..(n - 1)) = n
  <2>1. 0 \in Int /\ n - 1 \in Int
    BY <1>1
  <2>2. /\ IsFiniteSet(0..(n - 1))
        /\ Cardinality(0..(n - 1)) = IF 0 > n - 1 THEN 0 ELSE (n - 1) - 0 + 1
    <3> HIDE DEF n
    <3> QED
      BY ONLY <2>1, FS_Interval
  <2> HIDE DEF n
  <2> QED
    BY <1>1, <2>2
<1>4. ASSUME NEW S, S \subseteq 0..(n - 1)
      PROVE  IsFiniteSet(S) /\ Cardinality(S) \in Nat /\ Cardinality(S) <= n
  <2>1. S \in SUBSET (0..(n - 1))
    BY <1>4
  <2>2. IsFiniteSet(S) /\ Cardinality(S) <= Cardinality(0..(n - 1))
    <3> HIDE DEF n
    <3> QED
      BY ONLY <1>3, <2>1, FS_Subset
  <2>3. Cardinality(S) \in Nat
    BY ONLY <2>2, FS_CardinalityType
  <2> HIDE DEF n
  <2> QED
    BY <1>3, <2>2, <2>3
<1>5. IsFiniteSet(items) /\ Cardinality(items) \in Nat /\ Cardinality(items) <= n
  <2> HIDE DEF n
  <2> QED
    BY <1>1, <1>2, <1>4
<1>6. Cardinality(items) # 0
  BY <1>2, <1>5, FS_EmptySet
<1>7. Least(items) \in items /\ Least(items) + 1 \in 1..n
  <2>1. items \subseteq Nat
    BY <1>1, <1>2
  <2>2. \E m \in items : \A k \in items : m <= k
    BY <1>2, <2>1, LeastNumber
  <2>3. Least(items) \in items
    BY <2>2 DEF Least
  <2>4. Least(items) \in 0..(n - 1)
    BY <1>1, <1>2, <2>3
  <2> HIDE DEF n
  <2> QED
    BY <1>1, <2>3, <2>4
<1>8. ASSUME NEW S, S \subseteq items, S # items
      PROVE  Cardinality(S) < Cardinality(items)
  <2>1. S \in SUBSET items
    BY <1>8
  <2>2. Cardinality(S) <= Cardinality(items) /\ Cardinality(S) # Cardinality(items)
    BY ONLY <1>5, <1>8, <2>1, FS_Subset
  <2>3. Cardinality(S) \in Nat
    <3>1. S \subseteq 0..(n - 1)
      BY <1>1, <1>2, <2>1
    <3> HIDE DEF n
    <3> QED
      BY <3>1, <1>4
  <2> HIDE DEF n
  <2> QED
    BY <1>5, <2>2, <2>3
<1>9. ASSUME NEW part \in (SUBSET items) \ {{}, items}
      PROVE  /\ part \in Groups(p) /\ items \ part \in Groups(p)
             /\ Cardinality(part) < Cardinality(items)
             /\ Cardinality(items \ part) < Cardinality(items)
  <2>1. part \subseteq items /\ part # {} /\ part # items
    OBVIOUS
  <2>2. items \ part \subseteq items /\ items \ part # {} /\ items \ part # items
    BY <2>1
  <2> HIDE DEF n
  <2> QED
    BY <1>2, <1>8, <2>1, <2>2 DEF Groups
<1>10. ASSUME Cardinality(items) # 1 PROVE items # {Least(items)}
  BY <1>10, FS_Singleton
<1> HIDE DEF n
<1>11. Len(p.stats.rates) = n
  BY DEF n
<1> QED
  BY <1>5, <1>6, <1>7, <1>9, <1>10, <1>11

\* The parts that get_all_disjoint_sets yields.
LEMMA FirstPartsArePairs ==
    ASSUME NEW p, WellFormedStatistics(p.stats), NEW items \in Groups(p)
    PROVE  /\ \A part \in FirstParts(items) : part \in (SUBSET items) \ {{}, items}
           /\ \A part \in (SUBSET items) \ {{}, items} :
                 part \in FirstParts(items) \/ items \ part \in FirstParts(items)
           /\ Cardinality(items) # 1 => FirstParts(items) # {}
<1>1. Least(items) \in items
  BY GroupIsFinite
<1>2. \A part \in FirstParts(items) : part \in (SUBSET items) \ {{}, items}
  BY DEF FirstParts
<1>3. ASSUME NEW part \in (SUBSET items) \ {{}, items}
      PROVE  part \in FirstParts(items) \/ items \ part \in FirstParts(items)
  <2>1. CASE Least(items) \in part
    BY <2>1 DEF FirstParts
  <2>2. CASE Least(items) \notin part
    <3>1. Least(items) \in items \ part /\ items \ part # items
      BY <1>1, <2>2
    <3> QED
      BY <3>1 DEF FirstParts
  <2> QED
    BY <2>1, <2>2
<1>4. ASSUME Cardinality(items) # 1
      PROVE  FirstParts(items) # {}
  <2>1. items # {Least(items)}
    BY <1>4, GroupIsFinite
  <2>2. {Least(items)} \in FirstParts(items)
    BY <1>1, <2>1 DEF FirstParts
  <2> QED
    BY <2>2
<1> QED
  BY <1>2, <1>3, <1>4

\* The recursion equations of the best trees and of all trees.
LEMMA BestTreesOf ==
    ASSUME NEW p, WellFormedStatistics(p.stats)
    PROVE  \A items \in Groups(p) :
              BestTrees(p)[items] =
                IF Cardinality(items) = 1 THEN p.leaves[Least(items) + 1]
                ELSE LET trees == {JoinOf(p, BestTrees(p)[part], BestTrees(p)[items \ part]) :
                                        part \in FirstParts(items)}
                     IN  Cheapest(p, trees)
<1> DEFINE n == Len(p.stats.rates)
           D == (SUBSET OperandsOf(p)) \ {{}}
           R(items) == Cardinality(items)
           Step(f, items) ==
             IF Cardinality(items) = 1 THEN p.leaves[Least(items) + 1]
             ELSE LET trees == {JoinOf(p, f[part], f[items \ part]) : part \in FirstParts(items)}
                  IN  Cheapest(p, trees)
<1>1. D = Groups(p)
  BY DEF Groups
<1>2. n \in Nat
  BY SizeOf
<1>3. ASSUME NEW g, NEW h, NEW x \in D, \A y \in D : R(y) < R(x) => g[y] = h[y]
      PROVE  Step(g, x) = Step(h, x)
  <2>1. \A part \in FirstParts(x) : g[part] = h[part] /\ g[x \ part] = h[x \ part]
    <3>1. \A part \in FirstParts(x) : part \in (SUBSET x) \ {{}, x}
      BY <1>1, FirstPartsArePairs
    <3> QED
      BY <1>1, <1>3, <3>1, GroupIsFinite
  <2>2. {JoinOf(p, g[part], g[x \ part]) : part \in FirstParts(x)}
          = {JoinOf(p, h[part], h[x \ part]) : part \in FirstParts(x)}
    BY <2>1
  <2> QED
    BY <2>2
<1>4. n + 1 \in Nat /\ \A x \in D : R(x) \in Nat /\ R(x) < n + 1
  <2>1. \A x \in D : R(x) \in Nat /\ R(x) <= n
    BY <1>1, GroupIsFinite
  <2> HIDE DEF D, R, n
  <2> QED
    BY <1>2, <2>1
<1> DEFINE From(f, m) == /\ f = [x \in D |-> f[x]]
                         /\ \A x \in D : R(x) < m => f[x] = Step(f, x)
           S == {m \in Nat : \E f : From(f, m)}
<1>6. 0 \in S
  <2>1. PICK f : f = [x \in D |-> 0]
    OBVIOUS
  <2>2. f = [x \in D |-> f[x]]
    <3> HIDE DEF D
    <3> QED
      BY <2>1
  <2>3. \A x \in D : ~ (R(x) < 0)
    <3> HIDE DEF D, R
    <3> QED
      BY <1>4
  <2>4. From(f, 0)
    <3> HIDE DEF D, R, Step
    <3> QED
      BY <2>2, <2>3
  <2> HIDE DEF From
  <2> QED
    BY <2>4
<1>7. ASSUME NEW m \in Nat, m < n + 1, m \in S
      PROVE  m + 1 \in S
  <2>1. PICK g : From(g, m)
    <3> HIDE DEF From
    <3> QED
      BY <1>7
  <2>2. PICK f : f = [x \in D |-> Step(g, x)]
    <3> HIDE DEF D, Step
    <3> QED
      OBVIOUS
  <2>3. f = [x \in D |-> f[x]] /\ \A x \in D : f[x] = Step(g, x)
    <3> HIDE DEF D, Step
    <3> QED
      BY <2>2
  <2>4. \A x \in D : R(x) < m => f[x] = g[x]
    <3> HIDE DEF D, R, Step
    <3> QED
      BY <2>1, <2>3
  <2>5. ASSUME NEW x \in D, R(x) < m + 1
        PROVE  f[x] = Step(f, x)
    <3>1. \A y \in D : R(y) < R(x) => f[y] = g[y]
      <4> HIDE DEF D, R, Step, From
      <4> QED
        BY <1>4, <2>4, <2>5
    <3>2. Step(f, x) = Step(g, x)
      <4> HIDE DEF D, R, Step, From
      <4> QED
        BY <3>1, <1>3
    <3> HIDE DEF D, R, Step
    <3> QED
      BY <2>3, <3>2
  <2>6. From(f, m + 1)
    <3> HIDE DEF D, R, Step
    <3> QED
      BY <2>3, <2>5
  <2> HIDE DEF From
  <2> QED
    BY <2>6
<1>8. n + 1 \in S
  <2> HIDE DEF S
  <2>1. \A k \in 0..(n + 1) : k \in S
    BY <1>4, <1>6, <1>7, Upward
  <2> QED
    BY <1>4, <2>1
<1>9. \E f : f = [x \in D |-> Step(f, x)]
  <2>1. PICK f : From(f, n + 1)
    <3> HIDE DEF From
    <3> QED
      BY <1>8
  <2>2. f = [x \in D |-> f[x]] /\ \A x \in D : f[x] = Step(f, x)
    <3> HIDE DEF D, R, Step
    <3> QED
      BY <1>4, <2>1
  <2> HIDE DEF D, R, Step, From
  <2> QED
    BY <2>2
<1> DEFINE whole == CHOOSE f : f = [x \in D |-> Step(f, x)]
<1>20. whole = [x \in D |-> Step(whole, x)]
  <2> HIDE DEF D, Step
  <2> QED
    BY <1>9
<1>21. BestTrees(p) = whole
  BY DEF BestTrees
<1>22. \A x \in D : whole[x] = Step(whole, x)
  <2> HIDE DEF D, Step, whole
  <2> QED
    BY <1>20
<1>23. \A x \in D : BestTrees(p)[x] = Step(BestTrees(p), x)
  <2> HIDE DEF D, Step, whole
  <2> QED
    BY <1>21, <1>22
<1> HIDE DEF D
<1> QED
  BY <1>1, <1>23

LEMMA AllTreesOf ==
    ASSUME NEW p, WellFormedStatistics(p.stats)
    PROVE  \A items \in Groups(p) :
              AllTrees(p)[items] =
                IF Cardinality(items) = 1 THEN {p.leaves[Least(items) + 1]}
                ELSE UNION {Joins(p, AllTrees(p)[part], AllTrees(p)[items \ part]) :
                                part \in (SUBSET items) \ {{}, items}}
<1> DEFINE n == Len(p.stats.rates)
           D == (SUBSET OperandsOf(p)) \ {{}}
           R(items) == Cardinality(items)
           Step(f, items) ==
             IF Cardinality(items) = 1 THEN {p.leaves[Least(items) + 1]}
             ELSE UNION {Joins(p, f[part], f[items \ part]) :
                            part \in (SUBSET items) \ {{}, items}}
<1>1. D = Groups(p)
  BY DEF Groups
<1>2. n \in Nat
  BY SizeOf
<1>3. ASSUME NEW g, NEW h, NEW x \in D, \A y \in D : R(y) < R(x) => g[y] = h[y]
      PROVE  Step(g, x) = Step(h, x)
  <2>1. \A part \in (SUBSET x) \ {{}, x} : g[part] = h[part] /\ g[x \ part] = h[x \ part]
    BY <1>1, <1>3, GroupIsFinite
  <2>2. {Joins(p, g[part], g[x \ part]) : part \in (SUBSET x) \ {{}, x}}
          = {Joins(p, h[part], h[x \ part]) : part \in (SUBSET x) \ {{}, x}}
    BY <2>1
  <2> QED
    BY <2>2
<1>4. n + 1 \in Nat /\ \A x \in D : R(x) \in Nat /\ R(x) < n + 1
  <2>1. \A x \in D : R(x) \in Nat /\ R(x) <= n
    BY <1>1, GroupIsFinite
  <2> HIDE DEF D, R, n
  <2> QED
    BY <1>2, <2>1
<1> DEFINE From(f, m) == /\ f = [x \in D |-> f[x]]
                         /\ \A x \in D : R(x) < m => f[x] = Step(f, x)
           S == {m \in Nat : \E f : From(f, m)}
<1>6. 0 \in S
  <2>1. PICK f : f = [x \in D |-> 0]
    OBVIOUS
  <2>2. f = [x \in D |-> f[x]]
    <3> HIDE DEF D
    <3> QED
      BY <2>1
  <2>3. \A x \in D : ~ (R(x) < 0)
    <3> HIDE DEF D, R
    <3> QED
      BY <1>4
  <2>4. From(f, 0)
    <3> HIDE DEF D, R, Step
    <3> QED
      BY <2>2, <2>3
  <2> HIDE DEF From
  <2> QED
    BY <2>4
<1>7. ASSUME NEW m \in Nat, m < n + 1, m \in S
      PROVE  m + 1 \in S
  <2>1. PICK g : From(g, m)
    <3> HIDE DEF From
    <3> QED
      BY <1>7
  <2>2. PICK f : f = [x \in D |-> Step(g, x)]
    <3> HIDE DEF D, Step
    <3> QED
      OBVIOUS
  <2>3. f = [x \in D |-> f[x]] /\ \A x \in D : f[x] = Step(g, x)
    <3> HIDE DEF D, Step
    <3> QED
      BY <2>2
  <2>4. \A x \in D : R(x) < m => f[x] = g[x]
    <3> HIDE DEF D, R, Step
    <3> QED
      BY <2>1, <2>3
  <2>5. ASSUME NEW x \in D, R(x) < m + 1
        PROVE  f[x] = Step(f, x)
    <3>1. \A y \in D : R(y) < R(x) => f[y] = g[y]
      <4> HIDE DEF D, R, Step, From
      <4> QED
        BY <1>4, <2>4, <2>5
    <3>2. Step(f, x) = Step(g, x)
      <4> HIDE DEF D, R, Step, From
      <4> QED
        BY <3>1, <1>3
    <3> HIDE DEF D, R, Step
    <3> QED
      BY <2>3, <3>2
  <2>6. From(f, m + 1)
    <3> HIDE DEF D, R, Step
    <3> QED
      BY <2>3, <2>5
  <2> HIDE DEF From
  <2> QED
    BY <2>6
<1>8. n + 1 \in S
  <2> HIDE DEF S
  <2>1. \A k \in 0..(n + 1) : k \in S
    BY <1>4, <1>6, <1>7, Upward
  <2> QED
    BY <1>4, <2>1
<1>9. \E f : f = [x \in D |-> Step(f, x)]
  <2>1. PICK f : From(f, n + 1)
    <3> HIDE DEF From
    <3> QED
      BY <1>8
  <2>2. f = [x \in D |-> f[x]] /\ \A x \in D : f[x] = Step(f, x)
    <3> HIDE DEF D, R, Step
    <3> QED
      BY <1>4, <2>1
  <2> HIDE DEF D, R, Step, From
  <2> QED
    BY <2>2
<1> DEFINE whole == CHOOSE f : f = [x \in D |-> Step(f, x)]
<1>20. whole = [x \in D |-> Step(whole, x)]
  <2> HIDE DEF D, Step
  <2> QED
    BY <1>9
<1>21. AllTrees(p) = whole
  BY DEF AllTrees
<1>22. \A x \in D : whole[x] = Step(whole, x)
  <2> HIDE DEF D, Step, whole
  <2> QED
    BY <1>20
<1>23. \A x \in D : AllTrees(p)[x] = Step(AllTrees(p), x)
  <2> HIDE DEF D, Step, whole
  <2> QED
    BY <1>21, <1>22
<1> HIDE DEF D
<1> QED
  BY <1>1, <1>23

\* Among trees whose costs are numbers there is a cheapest.
LEMMA CheapestExists ==
    ASSUME NEW p, NEW trees, trees # {}, \A t \in trees : CostOf(p, t) \in Nat
    PROVE  \E t \in trees : \A u \in trees : CostOf(p, t) <= CostOf(p, u)
<1> DEFINE costs == {CostOf(p, t) : t \in trees}
<1>1. costs \subseteq Nat /\ costs # {}
  OBVIOUS
<1>2. \E m \in costs : \A k \in costs : m <= k
  <2> HIDE DEF costs
  <2> QED
    BY <1>1, LeastNumber
<1> QED
  BY <1>2

\* Of two trees over the same operands, the one of cheaper parts is cheaper.
LEMMA CheaperParts ==
    ASSUME NEW p, NEW l, NEW r, NEW l2, NEW r2,
           CostOf(p, l) \in Nat, CostOf(p, r) \in Nat, CostOf(p, l2) \in Nat, CostOf(p, r2) \in Nat,
           CostOf(p, JoinOf(p, l, r)) \in Nat, CostOf(p, JoinOf(p, l2, r2)) \in Nat,
           Extra(p, l, r) = Extra(p, l2, r2),
           CostOf(p, l) + CostOf(p, r) <= CostOf(p, l2) + CostOf(p, r2)
    PROVE  CostOf(p, JoinOf(p, l, r)) <= CostOf(p, JoinOf(p, l2, r2))
<1>1. CostOf(p, JoinOf(p, l, r)) - CostOf(p, l) - CostOf(p, r)
        = CostOf(p, JoinOf(p, l2, r2)) - CostOf(p, l2) - CostOf(p, r2)
  BY DEF Extra
<1>2. \A a, b, c, d, x, y \in Nat : x - a - b = y - c - d /\ a + b <= c + d => x <= y
  OBVIOUS
<1> QED
  BY <1>1, <1>2

\* What CostsAddUp says of the trees of one group.
LEMMA GroupCosts ==
    ASSUME NEW p, WellFormedStatistics(p.stats), CostsAddUp(p), NEW items \in Groups(p)
    PROVE  /\ \A t \in AllTrees(p)[items] : CostOf(p, t) \in Nat
           /\ \A a, b \in (SUBSET items) \ {{}, items} :
                 \A l \in AllTrees(p)[a], r \in AllTrees(p)[items \ a],
                    l2 \in AllTrees(p)[b], r2 \in AllTrees(p)[items \ b] :
                       Extra(p, l, r) = Extra(p, l2, r2)
<1> DEFINE all == AllTrees(p)
           extras == UNION {Extras(p, all[part], all[items \ part]) :
                                part \in (SUBSET items) \ {{}, items}}
<1>1. (\A t \in all[items] : CostOf(p, t) \in Nat) /\ \A e, f \in extras : e = f
  BY DEF CostsAddUp, Groups
<1>2. ASSUME NEW a \in (SUBSET items) \ {{}, items}, NEW l \in all[a], NEW r \in all[items \ a]
      PROVE  Extra(p, l, r) \in extras
  <2>1. Extra(p, l, r) \in Extras(p, all[a], all[items \ a])
    BY DEF Extras
  <2> QED
    BY <2>1
<1> HIDE DEF all, extras
<1>3. \A a, b \in (SUBSET items) \ {{}, items} :
         \A l \in all[a], r \in all[items \ a], l2 \in all[b], r2 \in all[items \ b] :
            Extra(p, l, r) = Extra(p, l2, r2)
  BY <1>1, <1>2
<1> USE DEF all
<1> QED
  BY <1>1, <1>3

\* The join of trees over a part and over the rest is one of all trees, and
\* each tree of more than one operand is such a join.
MadeOfJoins(p, items) ==
    /\ \A part \in (SUBSET items) \ {{}, items} :
          \A l \in AllTrees(p)[part], r \in AllTrees(p)[items \ part] :
             JoinOf(p, l, r) \in AllTrees(p)[items]
    /\ \A t \in AllTrees(p)[items] :
          \E part \in (SUBSET items) \ {{}, items} :
             \E l \in AllTrees(p)[part], r \in AllTrees(p)[items \ part] :
                t = JoinOf(p, l, r)

LEMMA GroupTrees ==
    ASSUME NEW p, WellFormedStatistics(p.stats), NEW items \in Groups(p), Cardinality(items) # 1
    PROVE  MadeOfJoins(p, items)
<1> DEFINE all == AllTrees(p)
           parts == (SUBSET items) \ {{}, items}
<1>1. all[items] = UNION {Joins(p, all[part], all[items \ part]) : part \in parts}
  BY AllTreesOf
<1> HIDE DEF all, parts
<1>2. ASSUME NEW part \in parts, NEW l \in all[part], NEW r \in all[items \ part]
      PROVE  JoinOf(p, l, r) \in all[items]
  <2>1. JoinOf(p, l, r) \in Joins(p, all[part], all[items \ part])
    BY DEF Joins
  <2> QED
    BY <1>1, <2>1
<1>3. ASSUME NEW t \in all[items]
      PROVE  \E part \in parts : \E l \in all[part], r \in all[items \ part] : t = JoinOf(p, l, r)
  <2>1. PICK part \in parts : t \in Joins(p, all[part], all[items \ part])
    BY <1>1
  <2>2. \E l \in all[part], r \in all[items \ part] : t = JoinOf(p, l, r)
    BY ONLY <2>1 DEF Joins
  <2> QED
    BY ONLY <2>2
<1>4. /\ \A part \in parts : \A l \in all[part], r \in all[items \ part] :
            JoinOf(p, l, r) \in all[items]
      /\ \A t \in all[items] :
            \E part \in parts : \E l \in all[part], r \in all[items \ part] : t = JoinOf(p, l, r)
  BY <1>2, <1>3
<1> QED
  BY <1>4 DEF all, parts, MadeOfJoins

\* Dynamic programming over groups is exact: the best tree of a group is one of
\* all trees over it and none is cheaper.  It is enough to try the parts with
\* the least operand, since what a join costs does not depend on the sides.
LEMMA BestTreesAreCheapest ==
    ASSUME NEW p, WellFormedStatistics(p.stats), CostsAddUp(p)
    PROVE  \A items \in Groups(p) :
              /\ BestTrees(p)[items] \in AllTrees(p)[items]
              /\ \A t \in AllTrees(p)[items] : CostOf(p, BestTrees(p)[items]) <= CostOf(p, t)
<1> DEFINE n == Len(p.stats.rates)
           best == BestTrees(p)
           all == AllTrees(p)
           Fine(items) == /\ best[items] \in all[items]
                          /\ \A t \in all[items] : CostOf(p, best[items]) <= CostOf(p, t)
           Good == {k \in Nat : \A items \in Groups(p) : Cardinality(items) <= k => Fine(items)}
<1>1. n \in Nat
  BY SizeOf
<1>2. \A items \in Groups(p) : Cardinality(items) \in Nat \ {0} /\ Cardinality(items) <= n
  BY GroupIsFinite
<1>3. 0 \in Good
  <2> HIDE DEF Fine
  <2> QED
    BY <1>2
<1>4. ASSUME NEW k \in Nat, k < n, k \in Good
      PROVE  k + 1 \in Good
  <2> SUFFICES ASSUME NEW items \in Groups(p), Cardinality(items) <= k + 1
               PROVE  Fine(items)
    <3> HIDE DEF Fine
    <3> QED
      OBVIOUS
  <2> DEFINE parts == (SUBSET items) \ {{}, items}
             trees == {JoinOf(p, best[part], best[items \ part]) : part \in FirstParts(items)}
  <2>1. ASSUME NEW part \in parts
        PROVE  Fine(part) /\ Fine(items \ part)
    <3>1. /\ part \in Groups(p) /\ items \ part \in Groups(p)
          /\ Cardinality(part) < Cardinality(items)
          /\ Cardinality(items \ part) < Cardinality(items)
      BY GroupIsFinite
    <3>2. Cardinality(part) <= k /\ Cardinality(items \ part) <= k
      BY <1>2, <3>1
    <3> HIDE DEF Fine
    <3> QED
      BY <1>4, <3>1, <3>2
  <2>2. CASE Cardinality(items) = 1
    <3>1. best[items] = p.leaves[Least(items) + 1]
      BY <2>2, BestTreesOf
    <3>2. all[items] = {p.leaves[Least(items) + 1]}
      BY <2>2, AllTreesOf
    <3>3. \A t \in all[items] : CostOf(p, t) \in Nat
      BY GroupCosts
    <3> HIDE DEF best, all
    <3>4. \A t \in all[items] : t = best[items] /\ CostOf(p, t) \in Nat
      BY <3>1, <3>2, <3>3
    <3>5. \A c \in Nat : c <= c
      OBVIOUS
    <3> QED
      BY <3>1, <3>2, <3>4, <3>5
  <2>3. CASE Cardinality(items) # 1
    <3>1. best[items] = Cheapest(p, trees)
      BY <2>3, BestTreesOf
    <3>2. /\ \A part \in parts : \A l \in all[part], r \in all[items \ part] :
                JoinOf(p, l, r) \in all[items]
          /\ \A t \in all[items] :
                \E part \in parts :
                    \E l \in all[part], r \in all[items \ part] : t = JoinOf(p, l, r)
      <4>1. WellFormedStatistics(p.stats) /\ items \in Groups(p) /\ Cardinality(items) # 1
        BY <2>3
      <4>2. MadeOfJoins(p, items)
        BY ONLY <4>1, GroupTrees
      <4> QED
        BY ONLY <4>2 DEF MadeOfJoins
    <3>3. /\ \A t \in all[items] : CostOf(p, t) \in Nat
          /\ \A a, b \in parts :
                \A l \in all[a], r \in all[items \ a], l2 \in all[b], r2 \in all[items \ b] :
                   Extra(p, l, r) = Extra(p, l2, r2)
      BY GroupCosts
    <3>4. /\ \A part \in FirstParts(items) : part \in parts
          /\ \A part \in parts : part \in FirstParts(items) \/ items \ part \in FirstParts(items)
          /\ FirstParts(items) # {}
      BY <2>3, FirstPartsArePairs
    <3>5. \A part \in parts :
             /\ \A t \in all[part] : CostOf(p, t) \in Nat
             /\ \A t \in all[items \ part] : CostOf(p, t) \in Nat
             /\ items \ part \in parts /\ items \ (items \ part) = part
      <4> TAKE part \in parts
      <4>1. part \in Groups(p) /\ items \ part \in Groups(p)
        BY GroupIsFinite
      <4>2. \A t \in all[part] : CostOf(p, t) \in Nat
        BY <4>1, GroupCosts
      <4>3. \A t \in all[items \ part] : CostOf(p, t) \in Nat
        BY <4>1, GroupCosts
      <4>4. items \ part \in parts /\ items \ (items \ part) = part
        OBVIOUS
      <4> HIDE DEF all, parts
      <4> QED
        BY <4>2, <4>3, <4>4
    <3> HIDE DEF best, all, parts
    <3>6. trees # {} /\ trees \subseteq all[items]
      <4>1. \A part \in FirstParts(items) : JoinOf(p, best[part], best[items \ part]) \in all[items]
        BY <2>1, <3>2, <3>4
      <4> QED
        BY <3>4, <4>1
    <3>7. best[items] \in trees /\ \A u \in trees : CostOf(p, best[items]) <= CostOf(p, u)
      <4>1. \A t \in trees : CostOf(p, t) \in Nat
        BY <3>3, <3>6
      <4> HIDE DEF trees
      <4>2. \E t \in trees : \A u \in trees : CostOf(p, t) <= CostOf(p, u)
        BY <3>6, <4>1, CheapestExists
      <4> QED
        BY <3>1, <4>2 DEF Cheapest
    <3>8. ASSUME NEW t \in all[items]
          PROVE  CostOf(p, best[items]) <= CostOf(p, t)
      <4>1. PICK part \in parts : \E l \in all[part], r \in all[items \ part] : t = JoinOf(p, l, r)
        BY <3>2
      <4>2. PICK l \in all[part], r \in all[items \ part] : t = JoinOf(p, l, r)
        BY <4>1
      <4> DEFINE bl == best[part]
                 br == best[items \ part]
      <4>3. bl \in all[part] /\ br \in all[items \ part]
        BY <2>1
      <4>4. CostOf(p, bl) <= CostOf(p, l) /\ CostOf(p, br) <= CostOf(p, r)
        BY <2>1
      <4>5. /\ CostOf(p, bl) \in Nat /\ CostOf(p, br) \in Nat
            /\ CostOf(p, l) \in Nat /\ CostOf(p, r) \in Nat
        BY <3>5, <4>3
      <4> HIDE DEF bl, br
      <4>6. CostOf(p, bl) + CostOf(p, br) <= CostOf(p, l) + CostOf(p, r)
            /\ CostOf(p, br) + CostOf(p, bl) <= CostOf(p, l) + CostOf(p, r)
        BY <4>4, <4>5
      <4>7. CostOf(p, t) \in Nat /\ CostOf(p, best[items]) \in Nat
        BY <3>3, <3>6, <3>7
      <4>8. CASE part \in FirstParts(items)
        <5>1. JoinOf(p, bl, br) \in trees
          BY <4>8 DEF bl, br
        <5>2. /\ CostOf(p, JoinOf(p, bl, br)) \in Nat
              /\ CostOf(p, best[items]) <= CostOf(p, JoinOf(p, bl, br))
          BY <3>3, <3>6, <3>7, <5>1
        <5>3. Extra(p, bl, br) = Extra(p, l, r)
          BY <3>3, <4>3
        <5>4. CostOf(p, JoinOf(p, bl, br)) <= CostOf(p, JoinOf(p, l, r))
          <6>1. CostOf(p, JoinOf(p, l, r)) \in Nat
            BY <4>2, <4>7
          <6> QED
            BY ONLY <4>5, <4>6, <5>2, <5>3, <6>1, CheaperParts
        <5>5. \A x, y, z \in Nat : x <= y /\ y <= z => x <= z
          OBVIOUS
        <5> QED
          BY <4>2, <4>7, <5>2, <5>4, <5>5
      <4>9. CASE items \ part \in FirstParts(items)
        <5>1. JoinOf(p, br, bl) \in trees
          BY <3>5, <4>9 DEF bl, br
        <5>2. /\ CostOf(p, JoinOf(p, br, bl)) \in Nat
              /\ CostOf(p, best[items]) <= CostOf(p, JoinOf(p, br, bl))
          BY <3>3, <3>6, <3>7, <5>1
        <5>3. Extra(p, br, bl) = Extra(p, l, r)
          <6>1. PICK other : other = items \ part
            OBVIOUS
          <6>2. other \in parts /\ items \ other = part
            BY <3>5, <6>1
          <6>3. br \in all[other] /\ bl \in all[items \ other]
            BY <4>3, <6>1, <6>2
          <6> QED
            BY <3>3, <6>2, <6>3
        <5>4. CostOf(p, JoinOf(p, br, bl)) <= CostOf(p, JoinOf(p, l, r))
          <6>1. CostOf(p, JoinOf(p, l, r)) \in Nat
            BY <4>2, <4>7
          <6> QED
            BY ONLY <4>5, <4>6, <5>2, <5>3, <6>1, CheaperParts
        <5>5. \A x, y, z \in Nat : x <= y /\ y <= z => x <= z
          OBVIOUS
        <5> QED
          BY <4>2, <4>7, <5>2, <5>4, <5>5
      <4> QED
        BY <3>4, <4>8, <4>9
    <3> HIDE DEF trees
    <3> QED
      BY <3>6, <3>7, <3>8
  <2> QED
    BY <2>2, <2>3
<1>5. n \in Good
  <2> HIDE DEF Good
  <2>1. \A k \in 0..n : k \in Good
    BY <1>1, <1>3, <1>4, Upward
  <2> QED
    BY <1>1, <2>1
<1>6. \A items \in Groups(p) : Fine(items)
  <2> HIDE DEF Fine, n
  <2> QED
    BY <1>2, <1>5
<1> QED
  BY <1>6

-----------------------------------------------------------------------------
(* Orders that are kept: the splits of an interval *)

\* After some splits: the best of them, how many leaves it has on the left, and
\* a second that is one of them.
SplitsTried(p, splits, b, k) ==
    /\ b = [best |-> b.best, second |-> b.second, place |-> b.place]
    /\ b.place \in 1..k /\ b.best = splits[b.place]
    /\ \E j \in 1..k : b.second = splits[j]
    /\ \A j \in 1..k : CostOf(p, b.best) <= CostOf(p, splits[j])

LEMMA ConsiderSplitKeepsBest ==
    ASSUME NEW p, NEW splits, NEW n \in Nat, \A j \in 1..n : CostOf(p, splits[j]) \in Nat,
           NEW k \in Nat, k + 1 <= n, NEW b, SplitsTried(p, splits, b, k),
           NEW first
    PROVE  SplitsTried(p, splits, ConsiderSplit(p, b, first, splits[k + 1], k + 1), k + 1)
<1> DEFINE tree == splits[k + 1]
           next == ConsiderSplit(p, b, first, tree, k + 1)
<1>1. /\ b.place \in 1..k /\ b.best = splits[b.place]
      /\ \E j \in 1..k : b.second = splits[j]
      /\ \A j \in 1..k : CostOf(p, b.best) <= CostOf(p, splits[j])
  BY DEF SplitsTried
<1>2. /\ \A j \in 1..k : j \in 1..(k + 1) /\ j \in 1..n
      /\ k + 1 \in 1..(k + 1) /\ k + 1 \in 1..n
      /\ \A j \in 1..(k + 1) : j \in 1..k \/ j = k + 1
  OBVIOUS
<1>3. CostOf(p, b.best) \in Nat /\ CostOf(p, tree) \in Nat
      /\ \A j \in 1..(k + 1) : CostOf(p, splits[j]) \in Nat
  BY <1>1, <1>2
<1>4. CASE CostOf(p, tree) < CostOf(p, b.best)
  <2>1. next = [best |-> tree, second |-> b.best, place |-> k + 1]
    BY <1>4 DEF ConsiderSplit
  <2>2. \A j \in 1..(k + 1) : CostOf(p, tree) <= CostOf(p, splits[j])
    <3>1. \A j \in 1..k : CostOf(p, tree) <= CostOf(p, splits[j])
      BY <1>1, <1>2, <1>3, <1>4
    <3> QED
      BY <1>2, <1>3, <3>1
  <2>3. \E j \in 1..(k + 1) : b.best = splits[j]
    BY <1>1, <1>2
  <2> HIDE DEF next
  <2>4. SplitsTried(p, splits, next, k + 1)
    BY <1>2, <2>1, <2>2, <2>3 DEF SplitsTried
  <2> QED
    BY <2>4 DEF next
<1>5. CASE ~ (CostOf(p, tree) < CostOf(p, b.best))
  <2>1. next.best = b.best /\ next.place = b.place
    BY <1>5 DEF ConsiderSplit
  <2>2. next = [best |-> next.best, second |-> next.second, place |-> next.place]
    BY <1>5 DEF ConsiderSplit, SplitsTried
  <2>3. next.second = b.second \/ next.second = tree
    BY <1>5 DEF ConsiderSplit
  <2>4. \E j \in 1..(k + 1) : next.second = splits[j]
    <3> HIDE DEF next
    <3> QED
      BY <1>1, <1>2, <2>3
  <2>5. \A j \in 1..(k + 1) : CostOf(p, b.best) <= CostOf(p, splits[j])
    <3>1. CostOf(p, b.best) <= CostOf(p, tree)
      BY <1>3, <1>5
    <3> QED
      BY <1>1, <1>2, <3>1
  <2> HIDE DEF next
  <2>6. SplitsTried(p, splits, next, k + 1)
    BY <1>1, <1>2, <2>1, <2>2, <2>4, <2>5 DEF SplitsTried
  <2> QED
    BY <2>6 DEF next
<1> QED
  BY <1>4, <1>5

\* The search through the splits, step by step.
SplitSearch(p, splits, w, n) ==
    /\ BestSplit(p, splits) = w[n]
    /\ \A k \in 1..n :
          w[k] = IF k = 1 THEN [best |-> splits[1], second |-> splits[1], place |-> 1]
                 ELSE ConsiderSplit(p, w[k - 1], splits[1], splits[k], k)

LEMMA BestSplitOf ==
    ASSUME NEW p, NEW splits, NEW n \in Nat \ {0}, n = Len(splits)
    PROVE  \E w : SplitSearch(p, splits, w, n)
<1> DEFINE D == 1..n
           R(k) == k
           Step(f, k) ==
             IF k = 1 THEN [best |-> splits[1], second |-> splits[1], place |-> 1]
             ELSE ConsiderSplit(p, f[k - 1], splits[1], splits[k], k)
<1>1. ASSUME NEW g, NEW h, NEW x \in D, \A y \in D : R(y) < R(x) => g[y] = h[y]
      PROVE  Step(g, x) = Step(h, x)
  <2>1. x # 1 => x - 1 \in D /\ x - 1 < x
    OBVIOUS
  <2>2. x # 1 => g[x - 1] = h[x - 1]
    BY <1>1, <2>1
  <2> QED
    BY <2>2
<1>2. n + 1 \in Nat /\ \A x \in D : R(x) \in Nat /\ R(x) < n + 1
  OBVIOUS
<1> DEFINE From(f, m) == /\ f = [x \in D |-> f[x]]
                         /\ \A x \in D : R(x) < m => f[x] = Step(f, x)
           S == {m \in Nat : \E f : From(f, m)}
<1>3. 0 \in S
  <2>1. PICK f : f = [x \in D |-> 0]
    OBVIOUS
  <2>2. f = [x \in D |-> f[x]]
    <3> HIDE DEF D
    <3> QED
      BY <2>1
  <2>3. \A x \in D : ~ (R(x) < 0)
    <3> HIDE DEF D, R
    <3> QED
      BY <1>2
  <2>4. From(f, 0)
    <3> HIDE DEF D, R, Step
    <3> QED
      BY <2>2, <2>3
  <2> HIDE DEF From
  <2> QED
    BY <2>4
<1>4. ASSUME NEW m \in Nat, m < n + 1, m \in S
      PROVE  m + 1 \in S
  <2>1. PICK g : From(g, m)
    <3> HIDE DEF From
    <3> QED
      BY <1>4
  <2>2. PICK f : f = [x \in D |-> Step(g, x)]
    <3> HIDE DEF D, Step
    <3> QED
      OBVIOUS
  <2>3. f = [x \in D |-> f[x]] /\ \A x \in D : f[x] = Step(g, x)
    <3> HIDE DEF D, Step
    <3> QED
      BY <2>2
  <2>4. \A x \in D : R(x) < m => f[x] = g[x]
    <3> HIDE DEF D, R, Step
    <3> QED
      BY <2>1, <2>3
  <2>5. ASSUME NEW x \in D, R(x) < m + 1
        PROVE  f[x] = Step(f, x)
    <3>1. \A y \in D : R(y) < R(x) => f[y] = g[y]
      <4> HIDE DEF D, R, Step, From
      <4> QED
        BY <1>2, <2>4, <2>5
    <3>2. Step(f, x) = Step(g, x)
      <4> HIDE DEF D, R, Step, From
      <4> QED
        BY <3>1, <1>1
    <3> HIDE DEF D, R, Step
    <3> QED
      BY <2>3, <3>2
  <2>6. From(f, m + 1)
    <3> HIDE DEF D, R, Step
    <3> QED
      BY <2>3, <2>5
  <2> HIDE DEF From
  <2> QED
    BY <2>6
<1>5. n + 1 \in S
  <2> HIDE DEF S
  <2>1. \A k \in 0..(n + 1) : k \in S
    BY <1>2, <1>3, <1>4, Upward
  <2> QED
    BY <1>2, <2>1
<1>6. \E f : f = [x \in D |-> Step(f, x)]
  <2>1. PICK f : From(f, n + 1)
    <3> HIDE DEF From
    <3> QED
      BY <1>5
  <2>2. f = [x \in D |-> f[x]] /\ \A x \in D : f[x] = Step(f, x)
    <3> HIDE DEF D, R, Step
    <3> QED
      BY <1>2, <2>1
  <2> HIDE DEF D, R, Step, From
  <2> QED
    BY <2>2
<1> DEFINE whole == CHOOSE f : f = [x \in D |-> Step(f, x)]
<1>20. whole = [x \in D |-> Step(whole, x)]
  <2> HIDE DEF D, Step
  <2> QED
    BY <1>6
<1>21. BestSplit(p, splits) = whole[n]
  BY DEF BestSplit
<1>22. \A x \in D : whole[x] = Step(whole, x)
  <2> HIDE DEF D, Step, whole
  <2> QED
    BY <1>20
<1>23. SplitSearch(p, splits, whole, n)
  <2> HIDE DEF whole
  <2> QED
    BY <1>21, <1>22 DEF SplitSearch
<1> HIDE DEF whole
<1> QED
  BY <1>23

\* The place of the best is one of the splits, whatever the costs.
LEMMA BestSplitHasPlace ==
    ASSUME NEW p, NEW splits, NEW n \in Nat \ {0}, n = Len(splits)
    PROVE  BestSplit(p, splits).place \in 1..n
<1>1. PICK w : SplitSearch(p, splits, w, n)
  BY BestSplitOf
<1> DEFINE Good == {k \in 0..n : k # 0 => w[k].place \in 1..k}
<1>2. 0 \in Good
  OBVIOUS
<1>3. ASSUME NEW k \in Nat, k < n, k \in Good
      PROVE  k + 1 \in Good
  <2>1. k + 1 \in 1..n /\ k + 1 \in 0..n /\ (k + 1) - 1 = k
    BY <1>3
  <2>2. CASE k = 0
    <3>1. w[1].place = 1
      BY <1>1, <2>1, <2>2 DEF SplitSearch
    <3> QED
      BY <2>1, <2>2, <3>1
  <2>3. CASE k # 0
    <3>1. w[k + 1] = ConsiderSplit(p, w[k], splits[1], splits[k + 1], k + 1)
      BY <1>1, <2>1, <2>3 DEF SplitSearch
    <3>2. w[k + 1].place = k + 1 \/ w[k + 1].place = w[k].place
      BY <3>1 DEF ConsiderSplit
    <3>3. w[k].place \in 1..k
      BY <1>3, <2>3
    <3> QED
      BY <2>1, <3>2, <3>3
  <2> QED
    BY <2>2, <2>3
<1>4. n \in Good
  <2> HIDE DEF Good
  <2>1. \A k \in 0..n : k \in Good
    BY <1>2, <1>3, Upward
  <2> QED
    BY <2>1
<1> QED
  BY <1>1, <1>4 DEF SplitSearch

\* The best of all splits, and a second.
LEMMA BestSplitIsBest ==
    ASSUME NEW p, NEW splits, NEW n \in Nat \ {0}, n = Len(splits),
           \A j \in 1..n : CostOf(p, splits[j]) \in Nat
    PROVE  SplitsTried(p, splits, BestSplit(p, splits), n)
<1>1. PICK w : SplitSearch(p, splits, w, n)
  BY BestSplitOf
<1> DEFINE Good == {k \in 0..n : k # 0 => SplitsTried(p, splits, w[k], k)}
<1>2. 0 \in Good
  OBVIOUS
<1>3. ASSUME NEW k \in Nat, k < n, k \in Good
      PROVE  k + 1 \in Good
  <2>1. k + 1 \in 1..n /\ k + 1 \in 0..n /\ (k + 1) - 1 = k /\ k + 1 <= n
    BY <1>3
  <2>2. CASE k = 0
    <3>2. w[1] = [best |-> splits[1], second |-> splits[1], place |-> 1]
      BY <1>1, <2>1, <2>2 DEF SplitSearch
    <3>3. 1 \in 1..1 /\ \A j \in 1..1 : j = 1
      OBVIOUS
    <3>4. CostOf(p, splits[1]) <= CostOf(p, splits[1])
      <4>1. CostOf(p, splits[1]) \in Nat
        OBVIOUS
      <4> QED
        BY <4>1
    <3>5. SplitsTried(p, splits, w[1], 1)
      BY <3>2, <3>3, <3>4 DEF SplitsTried
    <3> QED
      BY <2>1, <2>2, <3>5
  <2>3. CASE k # 0
    <3>2. w[k + 1] = ConsiderSplit(p, w[k], splits[1], splits[k + 1], k + 1)
      BY <1>1, <2>1, <2>3 DEF SplitSearch
    <3>3. SplitsTried(p, splits, w[k], k)
      BY <1>3, <2>3
    <3>4. SplitsTried(p, splits, ConsiderSplit(p, w[k], splits[1], splits[k + 1], k + 1), k + 1)
      BY <2>1, <3>3, ConsiderSplitKeepsBest
    <3> QED
      BY <2>1, <3>2, <3>4
  <2> QED
    BY <2>2, <2>3
<1>4. n \in Good
  <2> HIDE DEF Good
  <2>1. \A k \in 0..n : k \in Good
    BY <1>2, <1>3, Upward
  <2> QED
    BY <2>1
<1> QED
  BY <1>1, <1>4 DEF SplitSearch

-----------------------------------------------------------------------------
(* Orders that are kept: the trees of all intervals *)

SplitsOf(p, trees, a, b) ==
    [k \in 1..(b - a) |-> JoinOf(p, trees[<<a, a + k - 1>>].best, trees[<<a + k, b>>].best)]

\* The trees of the interval from a to b follow from those of shorter ones.
IntervalStep(p, o, trees, a, b) ==
    IF a = b
    THEN [best |-> p.leaves[o[a] + 1], second |-> p.leaves[o[a] + 1], below |-> {<<a, b>>}]
    ELSE LET done == BestSplit(p, SplitsOf(p, trees, a, b))
         IN  [best |-> done.best, second |-> done.second,
              below |-> {<<a, b>>} \cup trees[<<a, a + done.place - 1>>].below
                                   \cup trees[<<a + done.place, b>>].below]

OrderedStep(p, o, trees, a, b) ==
    IF a = b THEN {p.leaves[o[a] + 1]}
    ELSE UNION {Joins(p, trees[<<a, k>>], trees[<<k + 1, b>>]) : k \in a..(b - 1)}

LEMMA OrderedTreesOf ==
    ASSUME NEW p, NEW o, Len(o) \in Nat
    PROVE  \A a, b \in 1..Len(o) : a <= b =>
              OrderedTrees(p, o)[<<a, b>>] = OrderedStep(p, o, OrderedTrees(p, o), a, b)
<1> DEFINE n == Len(o)
           D == Intervals(Len(o))
           R(v) == v[2] - v[1]
           Step(f, v) ==
             IF v[1] = v[2] THEN {p.leaves[o[v[1]] + 1]}
             ELSE UNION {Joins(p, f[<<v[1], k>>], f[<<k + 1, v[2]>>]) : k \in v[1]..(v[2] - 1)}
<1>1. \A v \in D : v[1] \in 1..n /\ v[2] \in 1..n /\ v[1] <= v[2]
  BY DEF Intervals
<1>2. \A a, b \in 1..n : a <= b => <<a, b>> \in D
  BY DEF Intervals
<1>3. ASSUME NEW g, NEW h, NEW x \in D, \A y \in D : R(y) < R(x) => g[y] = h[y]
      PROVE  Step(g, x) = Step(h, x)
  <2> DEFINE a == x[1]
             b == x[2]
  <2>1. a \in 1..n /\ b \in 1..n /\ a <= b
    BY <1>1
  <2>2. ASSUME NEW k \in a..(b - 1)
        PROVE  g[<<a, k>>] = h[<<a, k>>] /\ g[<<k + 1, b>>] = h[<<k + 1, b>>]
    <3> HIDE DEF a, b
    <3>1. k \in 1..n /\ k + 1 \in 1..n /\ a <= k /\ k + 1 <= b
      BY <2>1
    <3>2. <<a, k>> \in D /\ <<k + 1, b>> \in D
      <4> HIDE DEF D, n
      <4> QED
        BY <1>2, <2>1, <3>1
    <3>3. R(<<a, k>>) < b - a /\ R(<<k + 1, b>>) < b - a
      BY <2>1, <3>1
    <3>4. R(x) = b - a
      BY DEF a, b
    <3> HIDE DEF D, R
    <3> QED
      BY <1>3, <3>2, <3>3, <3>4
  <2>3. {Joins(p, g[<<a, k>>], g[<<k + 1, b>>]) : k \in a..(b - 1)}
          = {Joins(p, h[<<a, k>>], h[<<k + 1, b>>]) : k \in a..(b - 1)}
    <3> HIDE DEF a, b
    <3> QED
      BY <2>2
  <2> QED
    BY <2>3
<1>4. n + 1 \in Nat /\ \A x \in D : R(x) \in Nat /\ R(x) < n + 1
  <2> HIDE DEF D
  <2> QED
    BY <1>1
<1> DEFINE From(f, m) == /\ f = [x \in D |-> f[x]]
                         /\ \A x \in D : R(x) < m => f[x] = Step(f, x)
           S == {m \in Nat : \E f : From(f, m)}
<1>6. 0 \in S
  <2>1. PICK f : f = [x \in D |-> 0]
    OBVIOUS
  <2>2. f = [x \in D |-> f[x]]
    <3> HIDE DEF D
    <3> QED
      BY <2>1
  <2>3. \A x \in D : ~ (R(x) < 0)
    <3> HIDE DEF D, R
    <3> QED
      BY <1>4
  <2>4. From(f, 0)
    <3> HIDE DEF D, R, Step
    <3> QED
      BY <2>2, <2>3
  <2> HIDE DEF From
  <2> QED
    BY <2>4
<1>7. ASSUME NEW m \in Nat, m < n + 1, m \in S
      PROVE  m + 1 \in S
  <2>1. PICK g : From(g, m)
    <3> HIDE DEF From
    <3> QED
      BY <1>7
  <2>2. PICK f : f = [x \in D |-> Step(g, x)]
    <3> HIDE DEF D, Step
    <3> QED
      OBVIOUS
  <2>3. f = [x \in D |-> f[x]] /\ \A x \in D : f[x] = Step(g, x)
    <3> HIDE DEF D, Step
    <3> QED
      BY <2>2
  <2>4. \A x \in D : R(x) < m => f[x] = g[x]
    <3> HIDE DEF D, R, Step
    <3> QED
      BY <2>1, <2>3
  <2>5. ASSUME NEW x \in D, R(x) < m + 1
        PROVE  f[x] = Step(f, x)
    <3>1. \A y \in D : R(y) < R(x) => f[y] = g[y]
      <4> HIDE DEF D, R, Step, From
      <4> QED
        BY <1>4, <2>4, <2>5
    <3>2. Step(f, x) = Step(g, x)
      <4> HIDE DEF D, R, Step, From
      <4> QED
        BY <3>1, <1>3
    <3> HIDE DEF D, R, Step
    <3> QED
      BY <2>3, <3>2
  <2>6. From(f, m + 1)
    <3> HIDE DEF D, R, Step
    <3> QED
      BY <2>3, <2>5
  <2> HIDE DEF From
  <2> QED
    BY <2>6
<1>8. n + 1 \in S
  <2> HIDE DEF S
  <2>1. \A k \in 0..(n + 1) : k \in S
    BY <1>4, <1>6, <1>7, Upward
  <2> QED
    BY <1>4, <2>1
<1>9. \E f : f = [x \in D |-> Step(f, x)]
  <2>1. PICK f : From(f, n + 1)
    <3> HIDE DEF From
    <3> QED
      BY <1>8
  <2>2. f = [x \in D |-> f[x]] /\ \A x \in D : f[x] = Step(f, x)
    <3> HIDE DEF D, R, Step
    <3> QED
      BY <1>4, <2>1
  <2> HIDE DEF D, R, Step, From
  <2> QED
    BY <2>2
<1> DEFINE whole == CHOOSE f : f = [x \in D |-> Step(f, x)]
<1>20. whole = [x \in D |-> Step(whole, x)]
  <2> HIDE DEF D, Step
  <2> QED
    BY <1>9
<1>21. OrderedTrees(p, o) = whole
  BY DEF OrderedTrees
<1>22. \A x \in D : whole[x] = Step(whole, x)
  <2> HIDE DEF D, Step, whole
  <2> QED
    BY <1>20
<1>23. \A x \in D : OrderedTrees(p, o)[x] = Step(OrderedTrees(p, o), x)
  <2> HIDE DEF D, Step, whole
  <2> QED
    BY <1>21, <1>22
<1>24. ASSUME NEW a \in 1..n, NEW b \in 1..n, a <= b
       PROVE  OrderedTrees(p, o)[<<a, b>>] = OrderedStep(p, o, OrderedTrees(p, o), a, b)
  <2> DEFINE T == OrderedTrees(p, o)
  <2>1. T[<<a, b>>] = Step(T, <<a, b>>)
    <3>1. <<a, b>> \in D
      BY <1>2, <1>24
    <3> HIDE DEF D, Step
    <3> QED
      BY <1>23, <3>1
  <2>2. Step(T, <<a, b>>) = OrderedStep(p, o, T, a, b)
    <3> HIDE DEF T
    <3>1. <<a, b>>[1] = a /\ <<a, b>>[2] = b
      OBVIOUS
    <3> QED
      BY <3>1 DEF OrderedStep
  <2> HIDE DEF Step, T
  <2>3. T[<<a, b>>] = OrderedStep(p, o, T, a, b)
    BY <2>1, <2>2
  <2> QED
    BY <2>3 DEF T
<1> QED
  BY <1>24

LEMMA IntervalTreesOf ==
    ASSUME NEW p, NEW o, Len(o) \in Nat
    PROVE  \A a, b \in 1..Len(o) : a <= b =>
              IntervalTrees(p, o)[<<a, b>>] = IntervalStep(p, o, IntervalTrees(p, o), a, b)
<1> DEFINE n == Len(o)
           D == Intervals(Len(o))
           R(v) == v[2] - v[1]
           Step(f, v) ==
             IF v[1] = v[2]
             THEN LET leaf == p.leaves[o[v[1]] + 1]
                  IN  [best |-> leaf, second |-> leaf, below |-> {v}]
             ELSE LET split(k) == JoinOf(p, f[<<v[1], v[1] + k - 1>>].best,
                                            f[<<v[1] + k, v[2]>>].best)
                      done == BestSplit(p, [k \in 1..(v[2] - v[1]) |-> split(k)])
                  IN  [best |-> done.best, second |-> done.second,
                       below |-> {v} \cup f[<<v[1], v[1] + done.place - 1>>].below
                                     \cup f[<<v[1] + done.place, v[2]>>].below]
<1>1. \A v \in D : v[1] \in 1..n /\ v[2] \in 1..n /\ v[1] <= v[2] /\ v = <<v[1], v[2]>>
  BY DEF Intervals
<1>2. \A a, b \in 1..n : a <= b => <<a, b>> \in D
  BY DEF Intervals
<1>0. ASSUME NEW f, NEW v \in D
      PROVE  Step(f, v) = IntervalStep(p, o, f, v[1], v[2])
  <2>1. v = <<v[1], v[2]>>
    BY <1>1
  <2>2. CASE v[1] = v[2]
    BY <2>1, <2>2 DEF IntervalStep
  <2>3. CASE v[1] # v[2]
    BY <2>1, <2>3 DEF IntervalStep, SplitsOf
  <2> QED
    BY <2>2, <2>3
<1>3. ASSUME NEW g, NEW h, NEW x \in D, \A y \in D : R(y) < R(x) => g[y] = h[y]
      PROVE  Step(g, x) = Step(h, x)
  <2> DEFINE a == x[1]
             b == x[2]
  <2>1. a \in 1..n /\ b \in 1..n /\ a <= b
    BY <1>1
  <2>2. ASSUME NEW k \in 1..(b - a)
        PROVE  g[<<a, a + k - 1>>] = h[<<a, a + k - 1>>] /\ g[<<a + k, b>>] = h[<<a + k, b>>]
    <3> HIDE DEF a, b
    <3>1. a + k - 1 \in 1..n /\ a + k \in 1..n /\ a <= a + k - 1 /\ a + k <= b
      BY <2>1
    <3>2. <<a, a + k - 1>> \in D /\ <<a + k, b>> \in D
      <4> HIDE DEF D, n
      <4> QED
        BY <1>2, <2>1, <3>1
    <3>3. R(<<a, a + k - 1>>) < b - a /\ R(<<a + k, b>>) < b - a
      BY <2>1, <3>1
    <3>4. R(x) = b - a
      BY DEF a, b
    <3> HIDE DEF D, R
    <3> QED
      BY <1>3, <3>2, <3>3, <3>4
  <2>3. SplitsOf(p, g, a, b) = SplitsOf(p, h, a, b)
    <3> HIDE DEF a, b
    <3> QED
      BY <2>2 DEF SplitsOf
  <2>4. a # b => BestSplit(p, SplitsOf(p, g, a, b)).place \in 1..(b - a)
    <3> HIDE DEF a, b
    <3> SUFFICES ASSUME a # b PROVE BestSplit(p, SplitsOf(p, g, a, b)).place \in 1..(b - a)
      OBVIOUS
    <3>1. b - a \in Nat \ {0}
      BY <2>1
    <3>2. b - a = Len(SplitsOf(p, g, a, b))
      BY <3>1 DEF SplitsOf
    <3> QED
      BY <3>1, <3>2, BestSplitHasPlace
  <2>5. IntervalStep(p, o, g, a, b) = IntervalStep(p, o, h, a, b)
    <3> HIDE DEF a, b
    <3>1. CASE a = b
      BY <3>1 DEF IntervalStep
    <3>2. CASE a # b
      <4>1. PICK done : done = BestSplit(p, SplitsOf(p, g, a, b))
        OBVIOUS
      <4>2. done.place \in 1..(b - a)
        BY <2>4, <3>2, <4>1
      <4>3. /\ g[<<a, a + done.place - 1>>] = h[<<a, a + done.place - 1>>]
            /\ g[<<a + done.place, b>>] = h[<<a + done.place, b>>]
        BY <2>2, <4>2
      <4> QED
        BY <2>3, <3>2, <4>1, <4>3 DEF IntervalStep
    <3> QED
      BY <3>1, <3>2
  <2> HIDE DEF Step, D
  <2> QED
    BY <1>0, <2>5
<1>4. n + 1 \in Nat /\ \A x \in D : R(x) \in Nat /\ R(x) < n + 1
  <2> HIDE DEF D
  <2> QED
    BY <1>1
<1> DEFINE From(f, m) == /\ f = [x \in D |-> f[x]]
                         /\ \A x \in D : R(x) < m => f[x] = Step(f, x)
           S == {m \in Nat : \E f : From(f, m)}
<1>6. 0 \in S
  <2>1. PICK f : f = [x \in D |-> 0]
    OBVIOUS
  <2>2. f = [x \in D |-> f[x]]
    <3> HIDE DEF D
    <3> QED
      BY <2>1
  <2>3. \A x \in D : ~ (R(x) < 0)
    <3> HIDE DEF D, R
    <3> QED
      BY <1>4
  <2>4. From(f, 0)
    <3> HIDE DEF D, R, Step
    <3> QED
      BY <2>2, <2>3
  <2> HIDE DEF From
  <2> QED
    BY <2>4
<1>7. ASSUME NEW m \in Nat, m < n + 1, m \in S
      PROVE  m + 1 \in S
  <2>1. PICK g : From(g, m)
    <3> HIDE DEF From
    <3> QED
      BY <1>7
  <2>2. PICK f : f = [x \in D |-> Step(g, x)]
    <3> HIDE DEF D, Step
    <3> QED
      OBVIOUS
  <2>3. f = [x \in D |-> f[x]] /\ \A x \in D : f[x] = Step(g, x)
    <3> HIDE DEF D, Step
    <3> QED
      BY <2>2
  <2>4. \A x \in D : R(x) < m => f[x] = g[x]
    <3> HIDE DEF D, R, Step
    <3> QED
      BY <2>1, <2>3
  <2>5. ASSUME NEW x \in D, R(x) < m + 1
        PROVE  f[x] = Step(f, x)
    <3>1. \A y \in D : R(y) < R(x) => f[y] = g[y]
      <4> HIDE DEF D, R, Step, From
      <4> QED
        BY <1>4, <2>4, <2>5
    <3>2. Step(f, x) = Step(g, x)
      <4> HIDE DEF D, R, Step, From
      <4> QED
        BY <3>1, <1>3
    <3> HIDE DEF D, R, Step
    <3> QED
      BY <2>3, <3>2
  <2>6. From(f, m + 1)
    <3> HIDE DEF D, R, Step
    <3> QED
      BY <2>3, <2>5
  <2> HIDE DEF From
  <2> QED
    BY <2>6
<1>8. n + 1 \in S
  <2> HIDE DEF S
  <2>1. \A k \in 0..(n + 1) : k \in S
    BY <1>4, <1>6, <1>7, Upward
  <2> QED
    BY <1>4, <2>1
<1>9. \E f : f = [x \in D |-> Step(f, x)]
  <2>1. PICK f : From(f, n + 1)
    <3> HIDE DEF From
    <3> QED
      BY <1>8
  <2>2. f = [x \in D |-> f[x]] /\ \A x \in D : f[x] = Step(f, x)
    <3> HIDE DEF D, R, Step
    <3> QED
      BY <1>4, <2>1
  <2> HIDE DEF D, R, Step, From
  <2> QED
    BY <2>2
<1> DEFINE whole == CHOOSE f : f = [x \in D |-> Step(f, x)]
<1>20. whole = [x \in D |-> Step(whole, x)]
  <2> HIDE DEF D, Step
  <2> QED
    BY <1>9
<1>21. IntervalTrees(p, o) = whole
  BY DEF IntervalTrees
<1>22. \A x \in D : whole[x] = Step(whole, x)
  <2> HIDE DEF D, Step, whole
  <2> QED
    BY <1>20
<1>23. \A x \in D : IntervalTrees(p, o)[x] = Step(IntervalTrees(p, o), x)
  <2> HIDE DEF D, Step, whole
  <2> QED
    BY <1>21, <1>22
<1>24. ASSUME NEW a \in 1..n, NEW b \in 1..n, a <= b
       PROVE  IntervalTrees(p, o)[<<a, b>>] = IntervalStep(p, o, IntervalTrees(p, o), a, b)
  <2> DEFINE T == IntervalTrees(p, o)
  <2>1. <<a, b>> \in D /\ <<a, b>>[1] = a /\ <<a, b>>[2] = b
    BY <1>2, <1>24
  <2>2. T[<<a, b>>] = Step(T, <<a, b>>)
    <3> HIDE DEF D, Step
    <3> QED
      BY <1>23, <2>1
  <2>3. Step(T, <<a, b>>) = IntervalStep(p, o, T, a, b)
    <3>1. Step(T, <<a, b>>) = IntervalStep(p, o, T, <<a, b>>[1], <<a, b>>[2])
      <4> HIDE DEF D, Step, T
      <4> QED
        BY <1>0, <2>1
    <3> HIDE DEF Step, T
    <3> QED
      BY <2>1, <3>1
  <2> HIDE DEF Step, T
  <2>4. T[<<a, b>>] = IntervalStep(p, o, T, a, b)
    BY <2>2, <2>3
  <2> QED
    BY <2>4 DEF T
<1> QED
  BY <1>24

\* What OrderedCostsAddUp says of the trees of one interval.
OrderedCosts(p, o, a, b) ==
    /\ \A t \in OrderedTrees(p, o)[<<a, b>>] : CostOf(p, t) \in Nat
    /\ \A i, j \in a..(b - 1) :
          \A l \in OrderedTrees(p, o)[<<a, i>>], r \in OrderedTrees(p, o)[<<i + 1, b>>],
             l2 \in OrderedTrees(p, o)[<<a, j>>], r2 \in OrderedTrees(p, o)[<<j + 1, b>>] :
                Extra(p, l, r) = Extra(p, l2, r2)

LEMMA IntervalCosts ==
    ASSUME NEW p, NEW o, Len(o) \in Nat, OrderedCostsAddUp(p, o),
           NEW a \in 1..Len(o), NEW b \in 1..Len(o), a <= b
    PROVE  OrderedCosts(p, o, a, b)
<1> DEFINE all == OrderedTrees(p, o)
           extras == UNION {Extras(p, all[<<a, k>>], all[<<k + 1, b>>]) : k \in a..(b - 1)}
<1>1. <<a, b>> \in Intervals(Len(o))
  BY DEF Intervals
<1>2. (\A t \in all[<<a, b>>] : CostOf(p, t) \in Nat) /\ \A e, f \in extras : e = f
  <2>1. \A v \in Intervals(Len(o)) :
           /\ \A t \in all[v] : CostOf(p, t) \in Nat
           /\ \A e, f \in UNION {Extras(p, all[<<v[1], k>>], all[<<k + 1, v[2]>>]) :
                                    k \in v[1]..(v[2] - 1)} : e = f
    BY DEF OrderedCostsAddUp
  <2>2. PICK v \in Intervals(Len(o)) : v = <<a, b>>
    BY <1>1
  <2>3. v[1] = a /\ v[2] = b
    BY <2>2
  <2> HIDE DEF all
  <2>4. extras = UNION {Extras(p, all[<<v[1], k>>], all[<<k + 1, v[2]>>]) :
                           k \in v[1]..(v[2] - 1)}
    BY <2>3
  <2> HIDE DEF extras
  <2> QED
    BY <2>1, <2>2, <2>4
<1>3. ASSUME NEW i \in a..(b - 1), NEW l \in all[<<a, i>>], NEW r \in all[<<i + 1, b>>]
      PROVE  Extra(p, l, r) \in extras
  <2>1. Extra(p, l, r) \in Extras(p, all[<<a, i>>], all[<<i + 1, b>>])
    BY DEF Extras
  <2> QED
    BY <2>1
<1> HIDE DEF all, extras
<1>4. \A i, j \in a..(b - 1) :
         \A l \in all[<<a, i>>], r \in all[<<i + 1, b>>],
            l2 \in all[<<a, j>>], r2 \in all[<<j + 1, b>>] :
               Extra(p, l, r) = Extra(p, l2, r2)
  BY <1>2, <1>3
<1> QED
  BY <1>2, <1>4 DEF all, OrderedCosts

\* The trees of an interval of two leaves and more are the joins of those of
\* its parts.
IntervalJoins(p, o, a, b) ==
    /\ \A i \in a..(b - 1) :
          \A l \in OrderedTrees(p, o)[<<a, i>>], r \in OrderedTrees(p, o)[<<i + 1, b>>] :
             JoinOf(p, l, r) \in OrderedTrees(p, o)[<<a, b>>]
    /\ \A t \in OrderedTrees(p, o)[<<a, b>>] :
          \E i \in a..(b - 1) :
             \E l \in OrderedTrees(p, o)[<<a, i>>], r \in OrderedTrees(p, o)[<<i + 1, b>>] :
                t = JoinOf(p, l, r)

LEMMA IntervalsJoin ==
    ASSUME NEW p, NEW o, Len(o) \in Nat, NEW a \in 1..Len(o), NEW b \in 1..Len(o), a < b
    PROVE  IntervalJoins(p, o, a, b)
<1> DEFINE all == OrderedTrees(p, o)
<1>1. all[<<a, b>>] = UNION {Joins(p, all[<<a, k>>], all[<<k + 1, b>>]) : k \in a..(b - 1)}
  <2>1. all[<<a, b>>] = OrderedStep(p, o, all, a, b)
    BY OrderedTreesOf
  <2>2. a # b
    OBVIOUS
  <2> HIDE DEF all
  <2> QED
    BY ONLY <2>1, <2>2 DEF OrderedStep
<1> HIDE DEF all
<1>2. ASSUME NEW i \in a..(b - 1), NEW l \in all[<<a, i>>], NEW r \in all[<<i + 1, b>>]
      PROVE  JoinOf(p, l, r) \in all[<<a, b>>]
  <2>1. JoinOf(p, l, r) \in Joins(p, all[<<a, i>>], all[<<i + 1, b>>])
    BY DEF Joins
  <2> QED
    BY <1>1, <2>1
<1>3. ASSUME NEW t \in all[<<a, b>>]
      PROVE  \E i \in a..(b - 1) :
                \E l \in all[<<a, i>>], r \in all[<<i + 1, b>>] : t = JoinOf(p, l, r)
  <2>1. PICK i \in a..(b - 1) : t \in Joins(p, all[<<a, i>>], all[<<i + 1, b>>])
    BY <1>1
  <2>2. \E l \in all[<<a, i>>], r \in all[<<i + 1, b>>] : t = JoinOf(p, l, r)
    BY ONLY <2>1 DEF Joins
  <2> QED
    BY <2>2
<1>4. /\ \A i \in a..(b - 1) : \A l \in all[<<a, i>>], r \in all[<<i + 1, b>>] :
            JoinOf(p, l, r) \in all[<<a, b>>]
      /\ \A t \in all[<<a, b>>] : \E i \in a..(b - 1) :
            \E l \in all[<<a, i>>], r \in all[<<i + 1, b>>] : t = JoinOf(p, l, r)
  BY <1>2, <1>3
<1> QED
  BY <1>4 DEF all, IntervalJoins

\* What dynamic programming has found for an interval: a tree that is one of
\* all that keep the order, none of them and no second being cheaper, and the
\* intervals of its subtrees.
IntervalFine(p, o, a, b) ==
    /\ IntervalTrees(p, o)[<<a, b>>].best \in OrderedTrees(p, o)[<<a, b>>]
    /\ IntervalTrees(p, o)[<<a, b>>].second \in OrderedTrees(p, o)[<<a, b>>]
    /\ \A t \in OrderedTrees(p, o)[<<a, b>>] :
          CostOf(p, IntervalTrees(p, o)[<<a, b>>].best) <= CostOf(p, t)
    /\ CostOf(p, IntervalTrees(p, o)[<<a, b>>].best)
          <= CostOf(p, IntervalTrees(p, o)[<<a, b>>].second)
    /\ IntervalTrees(p, o)[<<a, b>>].below \subseteq Intervals(Len(o))

LEMMA LeafIsFine ==
    ASSUME NEW p, NEW o, Len(o) \in Nat, OrderedCostsAddUp(p, o), NEW a \in 1..Len(o)
    PROVE  IntervalFine(p, o, a, a)
<1> DEFINE leaf == p.leaves[o[a] + 1]
           T == IntervalTrees(p, o)
           O == OrderedTrees(p, o)
<1>1. T[<<a, a>>] = [best |-> leaf, second |-> leaf, below |-> {<<a, a>>}]
  <2>1. a <= a /\ T[<<a, a>>] = IntervalStep(p, o, T, a, a)
    BY IntervalTreesOf
  <2> HIDE DEF T
  <2> QED
    BY <2>1 DEF IntervalStep
<1>2. O[<<a, a>>] = {leaf}
  <2>1. a <= a /\ O[<<a, a>>] = OrderedStep(p, o, O, a, a)
    BY OrderedTreesOf
  <2> HIDE DEF O
  <2> QED
    BY <2>1 DEF OrderedStep
<1>3. CostOf(p, leaf) \in Nat
  <2>1. OrderedCosts(p, o, a, a)
    BY IntervalCosts
  <2> HIDE DEF leaf
  <2> QED
    BY <1>2, <2>1 DEF OrderedCosts
<1>4. <<a, a>> \in Intervals(Len(o))
  BY DEF Intervals
<1> HIDE DEF leaf
<1> QED
  BY <1>1, <1>2, <1>3, <1>4 DEF IntervalFine

LEMMA SplitIsFine ==
    ASSUME NEW p, NEW o, Len(o) \in Nat, OrderedCostsAddUp(p, o),
           NEW a \in 1..Len(o), NEW b \in 1..Len(o), a < b,
           \A i \in 1..(b - a) : /\ IntervalFine(p, o, a, a + i - 1)
                                 /\ IntervalFine(p, o, a + i, b)
    PROVE  IntervalFine(p, o, a, b)
<1> DEFINE T == IntervalTrees(p, o)
           O == OrderedTrees(p, o)
           m == b - a
           splits == SplitsOf(p, T, a, b)
           done == BestSplit(p, splits)
<1>1. m \in Nat \ {0} /\ m = Len(splits)
  BY DEF SplitsOf
<1>2. \A i \in 1..m : splits[i] = JoinOf(p, T[<<a, a + i - 1>>].best, T[<<a + i, b>>].best)
  BY DEF SplitsOf
<1>3. \A i \in 1..m : /\ a + i - 1 \in a..(b - 1) /\ (a + i - 1) + 1 = a + i
                      /\ a + i - 1 \in 1..Len(o) /\ a + i \in 1..Len(o)
                      /\ a <= a + i - 1 /\ a + i <= b
  OBVIOUS
<1>4. OrderedCosts(p, o, a, b)
  BY IntervalCosts
<1>5. IntervalJoins(p, o, a, b)
  BY IntervalsJoin
<1>6. T[<<a, b>>] = [best |-> done.best, second |-> done.second,
                     below |-> {<<a, b>>} \cup T[<<a, a + done.place - 1>>].below
                                          \cup T[<<a + done.place, b>>].below]
  <2>1. a <= b /\ T[<<a, b>>] = IntervalStep(p, o, T, a, b)
    BY IntervalTreesOf
  <2> HIDE DEF T
  <2> QED
    BY <2>1 DEF IntervalStep
<1> HIDE DEF m, splits, T, O
<1>7. ASSUME NEW i \in 1..m
      PROVE  /\ T[<<a, a + i - 1>>].best \in O[<<a, a + i - 1>>]
             /\ T[<<a + i, b>>].best \in O[<<a + i, b>>]
             /\ \A l \in O[<<a, a + i - 1>>] : CostOf(p, T[<<a, a + i - 1>>].best) <= CostOf(p, l)
             /\ \A r \in O[<<a + i, b>>] : CostOf(p, T[<<a + i, b>>].best) <= CostOf(p, r)
             /\ T[<<a, a + i - 1>>].below \subseteq Intervals(Len(o))
             /\ T[<<a + i, b>>].below \subseteq Intervals(Len(o))
             /\ \A l \in O[<<a, a + i - 1>>] : CostOf(p, l) \in Nat
             /\ \A r \in O[<<a + i, b>>] : CostOf(p, r) \in Nat
  <2>1. IntervalFine(p, o, a, a + i - 1) /\ IntervalFine(p, o, a + i, b)
    BY DEF m
  <2>2. OrderedCosts(p, o, a, a + i - 1)
    BY <1>3, IntervalCosts
  <2>3. OrderedCosts(p, o, a + i, b)
    BY <1>3, IntervalCosts
  <2>4. /\ \A l \in O[<<a, a + i - 1>>] : CostOf(p, l) \in Nat
        /\ \A r \in O[<<a + i, b>>] : CostOf(p, r) \in Nat
    BY <2>2, <2>3 DEF O, OrderedCosts
  <2> QED
    BY <2>1, <2>4 DEF O, T, IntervalFine
<1>8. ASSUME NEW i \in 1..m
      PROVE  splits[i] \in O[<<a, b>>]
  <2>1. PICK k \in a..(b - 1) : k = a + i - 1 /\ k + 1 = a + i
    BY <1>3
  <2>2. T[<<a, k>>].best \in O[<<a, k>>] /\ T[<<k + 1, b>>].best \in O[<<k + 1, b>>]
    BY <1>7, <2>1
  <2>3. JoinOf(p, T[<<a, k>>].best, T[<<k + 1, b>>].best) \in O[<<a, b>>]
    BY <1>5, <2>2 DEF IntervalJoins, O
  <2> QED
    BY <1>2, <2>1, <2>3
<1>9. \A t \in O[<<a, b>>] : CostOf(p, t) \in Nat
  BY <1>4 DEF OrderedCosts, O
<1>10. SplitsTried(p, splits, done, m)
  BY <1>1, <1>8, <1>9, BestSplitIsBest
<1> HIDE DEF done
<1>11. done.best \in O[<<a, b>>] /\ done.second \in O[<<a, b>>]
       /\ done.place \in 1..m
       /\ \A j \in 1..m : CostOf(p, done.best) <= CostOf(p, splits[j])
       /\ CostOf(p, done.best) <= CostOf(p, done.second)
  BY <1>8, <1>10 DEF SplitsTried
<1>12. ASSUME NEW t \in O[<<a, b>>]
       PROVE  CostOf(p, done.best) <= CostOf(p, t)
  <2>1. PICK k \in a..(b - 1) :
            \E l \in O[<<a, k>>], r \in O[<<k + 1, b>>] : t = JoinOf(p, l, r)
    BY <1>5 DEF IntervalJoins, O
  <2>2. PICK l \in O[<<a, k>>], r \in O[<<k + 1, b>>] : t = JoinOf(p, l, r)
    BY <2>1
  <2>3. PICK i \in 1..m : k = a + i - 1 /\ k + 1 = a + i
    <3>0. a \in Int /\ b \in Int /\ k \in Int /\ a <= k /\ k <= b - 1
      OBVIOUS
    <3>1. k - a + 1 \in 1..(b - a) /\ k = a + (k - a + 1) - 1 /\ k + 1 = a + (k - a + 1)
      BY ONLY <3>0
    <3> QED
      BY <3>1 DEF m
  <2> DEFINE bl == T[<<a, k>>].best
             br == T[<<k + 1, b>>].best
  <2>4. /\ bl \in O[<<a, k>>] /\ br \in O[<<k + 1, b>>]
        /\ CostOf(p, bl) <= CostOf(p, l) /\ CostOf(p, br) <= CostOf(p, r)
        /\ CostOf(p, bl) \in Nat /\ CostOf(p, br) \in Nat
        /\ CostOf(p, l) \in Nat /\ CostOf(p, r) \in Nat
    BY <1>7, <2>3
  <2>5. splits[i] = JoinOf(p, bl, br)
    BY <1>2, <2>3
  <2> HIDE DEF bl, br
  <2>6. CostOf(p, done.best) <= CostOf(p, JoinOf(p, bl, br)) /\ CostOf(p, JoinOf(p, bl, br)) \in Nat
        /\ CostOf(p, JoinOf(p, l, r)) \in Nat /\ CostOf(p, done.best) \in Nat
    BY <1>8, <1>9, <1>11, <2>2, <2>5
  <2>7. Extra(p, bl, br) = Extra(p, l, r)
    BY <1>4, <2>4 DEF OrderedCosts, O
  <2>8. CostOf(p, bl) + CostOf(p, br) <= CostOf(p, l) + CostOf(p, r)
    BY <2>4
  <2>9. CostOf(p, JoinOf(p, bl, br)) <= CostOf(p, JoinOf(p, l, r))
    BY ONLY <2>4, <2>6, <2>7, <2>8, CheaperParts
  <2>10. \A x, y, z \in Nat : x <= y /\ y <= z => x <= z
    OBVIOUS
  <2> QED
    BY <2>2, <2>6, <2>9, <2>10
<1>13. <<a, b>> \in Intervals(Len(o))
  BY DEF Intervals
<1>14. T[<<a, b>>].below \subseteq Intervals(Len(o))
  <2>1. T[<<a, b>>].below = {<<a, b>>} \cup T[<<a, a + done.place - 1>>].below
                                       \cup T[<<a + done.place, b>>].below
    BY <1>6
  <2>2. /\ T[<<a, a + done.place - 1>>].below \subseteq Intervals(Len(o))
        /\ T[<<a + done.place, b>>].below \subseteq Intervals(Len(o))
    BY <1>7, <1>11
  <2> QED
    BY <1>13, <2>1, <2>2
<1>15. T[<<a, b>>].best = done.best /\ T[<<a, b>>].second = done.second
  BY <1>6
<1> QED
  BY <1>11, <1>12, <1>14, <1>15 DEF IntervalFine, T, O

\* Dynamic programming over intervals is exact.
LEMMA IntervalTreesAreFine ==
    ASSUME NEW p, NEW o, Len(o) \in Nat, OrderedCostsAddUp(p, o)
    PROVE  \A a, b \in 1..Len(o) : a <= b => IntervalFine(p, o, a, b)
<1> DEFINE n == Len(o)
           Good == {k \in Nat : \A a, b \in 1..n : a <= b /\ b - a < k => IntervalFine(p, o, a, b)}
<1>1. 0 \in Good
  OBVIOUS
<1>2. ASSUME NEW k \in Nat, k < n, k \in Good
      PROVE  k + 1 \in Good
  <2> SUFFICES ASSUME NEW a \in 1..n, NEW b \in 1..n, a <= b, b - a < k + 1
               PROVE  IntervalFine(p, o, a, b)
    OBVIOUS
  <2>1. CASE a = b
    BY <2>1, LeafIsFine
  <2>2. CASE a < b
    <3>1. ASSUME NEW i \in 1..(b - a)
          PROVE  IntervalFine(p, o, a, a + i - 1) /\ IntervalFine(p, o, a + i, b)
      <4>1. /\ a + i - 1 \in 1..n /\ a + i \in 1..n /\ a <= a + i - 1 /\ a + i <= b
            /\ (a + i - 1) - a < k /\ b - (a + i) < k
        OBVIOUS
      <4> QED
        BY <1>2, <4>1
    <3> QED
      BY <2>2, <3>1, SplitIsFine
  <2> QED
    BY <2>1, <2>2
<1>3. n \in Good
  <2> HIDE DEF Good
  <2>1. \A k \in 0..n : k \in Good
    BY <1>1, <1>2, Upward
  <2> QED
    BY <2>1
<1>4. \A a, b \in 1..n : b - a < n
  OBVIOUS
<1> QED
  BY <1>3, <1>4

-----------------------------------------------------------------------------
(* Plans and their invariants *)

LEMMA OrdersHaveLength ==
    ASSUME NEW p, WellFormed(p)
    PROVE  /\ Len(TrivialOrder(p.stats)) \in Nat \ {0}
           /\ Len(ZStreamOrder(p)) \in Nat \ {0}
<1> DEFINE n == Len(p.stats.rates)
<1>1. WellFormedStatistics(p.stats)
  BY DEF WellFormed
<1>2. n \in Nat \ {0} /\ DOMAIN p.stats.rates = 1..n
  BY <1>1, SizeOf
<1>3. Len(TrivialOrder(p.stats)) = n
  <2>1. TrivialOrder(p.stats) = [i \in 1..n |-> i - 1]
    BY <1>2 DEF TrivialOrder
  <2> HIDE DEF n
  <2> QED
    BY <1>2, <2>1
<1>4. Len(Greedy(p.stats, p.builder.pops).order) = n
  <2>1. p.builder.pops \in Seq(Nat) /\ Operands(p.stats) \subseteq SetOf(p.builder.pops)
    BY DEF WellFormed, OperandsOf
  <2>2. GreedyAt(p.stats, Greedy(p.stats, p.builder.pops), Len(p.stats.rates))
    BY ONLY <1>1, <2>1, GreedyChooses
  <2> QED
    BY <2>2 DEF GreedyAt
<1> HIDE DEF n
<1> QED
  BY <1>2, <1>3, <1>4 DEF ZStreamOrder

LEMMA BushyTreeIsCheapest ==
    ASSUME NEW p, WellFormedStatistics(p.stats), CostsAddUp(p)
    PROVE  /\ BushyTree(p) \in AllTrees(p)[OperandsOf(p)]
           /\ \A t \in AllTrees(p)[OperandsOf(p)] : CostOf(p, BushyTree(p)) <= CostOf(p, t)
<1>1. OperandsOf(p) \in Groups(p)
  <2>1. 0 \in OperandsOf(p)
    BY SizeOf DEF OperandsOf
  <2> QED
    BY <2>1 DEF Groups
<1>2. BushyTree(p) = BestTrees(p)[OperandsOf(p)]
  BY DEF BushyTree
<1>3. /\ BestTrees(p)[OperandsOf(p)] \in AllTrees(p)[OperandsOf(p)]
      /\ \A t \in AllTrees(p)[OperandsOf(p)] :
            CostOf(p, BestTrees(p)[OperandsOf(p)]) <= CostOf(p, t)
  BY <1>1, BestTreesAreCheapest
<1> QED
  BY <1>2, <1>3

LEMMA OrderedTreeIsCheapest ==
    ASSUME NEW p, NEW o, Len(o) \in Nat \ {0}, OrderedCostsAddUp(p, o)
    PROVE  /\ IntervalTrees(p, o)[<<1, Len(o)>>].best \in OrderedTrees(p, o)[<<1, Len(o)>>]
           /\ \A t \in OrderedTrees(p, o)[<<1, Len(o)>>] :
                 CostOf(p, IntervalTrees(p, o)[<<1, Len(o)>>].best) <= CostOf(p, t)
<1>1. 1 \in 1..Len(o) /\ Len(o) \in 1..Len(o) /\ 1 <= Len(o)
  OBVIOUS
<1>2. IntervalFine(p, o, 1, Len(o))
  BY <1>1, IntervalTreesAreFine
<1> QED
  BY <1>2 DEF IntervalFine

\* The invariants of a ZStream plan hold under the statistics it was planned for.
LEMMA ZStreamInvariantsHold ==
    ASSUME NEW p, WellFormed(p)
    PROVE  ~ ZStreamViolated(ZStreamInvariants(p), p.stats)
<1> DEFINE q == WithPlainLeaves(p)
           o == TrivialOrder(p.stats)
           T == IntervalTrees(q, o)
<1>1. Len(o) \in Nat \ {0} /\ OrderedCostsAddUp(q, o)
  BY OrdersHaveLength DEF WellFormed
<1>2. q.stats = p.stats
  BY DEF WithPlainLeaves
<1>3. ZStreamInvariants(p) = {[left |-> T[v].best, right |-> T[v].second] :
                                 v \in {w \in T[<<1, Len(o)>>].below : w[2] - w[1] > 1}}
  BY DEF ZStreamInvariants
<1> HIDE DEF q, o
<1>4. \A a, b \in 1..Len(o) : a <= b => IntervalFine(q, o, a, b)
  BY <1>1, IntervalTreesAreFine
<1>5. T[<<1, Len(o)>>].below \subseteq Intervals(Len(o))
  <2>1. 1 \in 1..Len(o) /\ Len(o) \in 1..Len(o) /\ 1 <= Len(o)
    BY <1>1
  <2> QED
    BY <1>4, <2>1 DEF IntervalFine
<1>6. ASSUME NEW v \in Intervals(Len(o))
      PROVE  ~ (Cost(T[v].best, p.stats) > Cost(T[v].second, p.stats))
  <2>1. PICK a \in 1..Len(o), b \in 1..Len(o) : v = <<a, b>> /\ a <= b
    BY DEF Intervals
  <2>2. IntervalFine(q, o, a, b)
    BY <1>4, <2>1
  <2>3. OrderedCosts(q, o, a, b)
    BY <1>1, <2>1, IntervalCosts
  <2>4. /\ CostOf(q, T[v].best) <= CostOf(q, T[v].second)
        /\ CostOf(q, T[v].best) \in Nat /\ CostOf(q, T[v].second) \in Nat
    BY <2>1, <2>2, <2>3 DEF IntervalFine, OrderedCosts
  <2>5. CostOf(q, T[v].best) = Cost(T[v].best, p.stats)
        /\ CostOf(q, T[v].second) = Cost(T[v].second, p.stats)
    BY <1>2 DEF CostOf
  <2> QED
    BY <2>4, <2>5
<1>7. ASSUME NEW w \in ZStreamInvariants(p)
      PROVE  ~ (Cost(w.left, p.stats) > Cost(w.right, p.stats))
  <2>1. PICK v \in T[<<1, Len(o)>>].below : w = [left |-> T[v].best, right |-> T[v].second]
    BY <1>3
  <2>2. w.left = T[v].best /\ w.right = T[v].second
    BY <2>1
  <2>3. v \in Intervals(Len(o))
    BY <1>5
  <2> HIDE DEF T
  <2> QED
    BY <1>6, <2>2, <2>3
<1> QED
  BY <1>7 DEF ZStreamViolated

\* After the operands before, choice was chosen, and of the others none is
\* cheaper than the runner-up.
RunnerUpIsNext(p, before, choice, v) ==
    /\ v.left = choice /\ v.left # v.right
    /\ \A j \in OperandsOf(p) \ (SetOf(before) \cup {v.left}) :
          ChangeFactor(p.stats, before, v.right) <= ChangeFactor(p.stats, before, j)

\* A greedy plan of a well formed problem has every operand, and its invariants
\* are tight.
LEMMA GreedyIsTight ==
    ASSUME NEW p, WellFormed(p), NEW greedy, greedy = Greedy(p.stats, p.builder.pops),
           NEW i \in 1..(Len(greedy.order) - 1), NEW v, v = greedy.invariants[i],
           NEW before, before = SubSeq(greedy.order, 1, i - 1)
    PROVE  RunnerUpIsNext(p, before, greedy.order[i], v)
<1> DEFINE stats == p.stats
           n == Len(stats.rates)
<1>1. /\ WellFormedStatistics(stats) /\ p.builder.pops \in Seq(Nat)
      /\ Operands(stats) \subseteq SetOf(p.builder.pops) /\ OperandsOf(p) = Operands(stats)
  BY DEF WellFormed, OperandsOf
<1>2. GreedyAt(stats, greedy, n)
  <2>1. GreedyAt(p.stats, Greedy(p.stats, p.builder.pops), Len(p.stats.rates))
    BY ONLY <1>1, GreedyChooses
  <2> QED
    BY <2>1
<1>3. n \in Nat \ {0}
  BY <1>1, SizeOf
<1>4. Len(greedy.order) = n /\ greedy.order \in Seq(Operands(stats))
  BY <1>2 DEF GreedyAt
<1>5. i \in 1..n /\ i < n /\ i - 1 <= n /\ i - 1 \in Nat
  BY <1>3, <1>4
<1>6. v.left = greedy.order[i] /\ Chosen(stats, before, v)
  <2> HIDE DEF stats, n
  <2> QED
    BY <1>2, <1>5 DEF GreedyAt
<1>7. Len(before) = i - 1
  <2>1. \A j \in 1..(i - 1) : greedy.order[j] \in Operands(stats)
    <3>1. \A j \in 1..(i - 1) : j \in 1..Len(greedy.order)
      BY <1>4, <1>5
    <3> QED
      BY <1>4, <3>1, ElementOfSeq
  <2>2. 1 \in Int /\ i - 1 \in Int
    BY <1>5
  <2>3. Len(SubSeq(greedy.order, 1, i - 1)) = IF 1 <= i - 1 THEN (i - 1) - 1 + 1 ELSE 0
    BY ONLY <2>1, <2>2, SubSeqProperties
  <2> QED
    BY <1>5, <2>3
<1>8. Len(before) + 1 < n
  BY <1>5, <1>7
<1>9. /\ v.left # v.right
      /\ \A j \in (Operands(stats) \ SetOf(before)) \ {v.left} :
            ChangeFactor(stats, before, v.right) <= ChangeFactor(stats, before, j)
  <2> HIDE DEF stats
  <2> QED
    BY <1>6, <1>8 DEF Chosen
<1> QED
  BY <1>1, <1>6, <1>9 DEF RunnerUpIsNext

-----------------------------------------------------------------------------
(* The dynamic programming builders find a cheapest plan of the shape they  *)
(* search (BushyTreeBuilders.py), for every problem whose costs add up.     *)
THEOREM PlansAreCheapest == Selection => []CheapestOfItsShape
<1>1. SelectionInv => CheapestOfItsShape
  <2> SUFFICES ASSUME SelectionInv PROVE CheapestOfItsShape
    OBVIOUS
  <2>1. problem.builder.kind \in {"dp_bushy", "zstream", "zstream_ord"} => WellFormed(problem)
    BY DEF SelectionInv, NoProblem
  <2>2. CASE problem.builder.kind = "dp_bushy"
    <3>1. WellFormedStatistics(problem.stats) /\ CostsAddUp(problem)
      BY <2>1, <2>2 DEF WellFormed
    <3>2. /\ BushyTree(problem) \in AllTrees(problem)[OperandsOf(problem)]
          /\ \A t \in AllTrees(problem)[OperandsOf(problem)] :
                CostOf(problem, BushyTree(problem)) <= CostOf(problem, t)
      BY <3>1, BushyTreeIsCheapest
    <3> QED
      BY <2>2, <3>2 DEF CheapestOfItsShape
  <2>3. CASE problem.builder.kind \in {"zstream", "zstream_ord"}
    <3> DEFINE o == ZStreamOrder(problem)
    <3>1. Len(o) \in Nat \ {0} /\ OrderedCostsAddUp(problem, o)
      BY <2>1, <2>3, OrdersHaveLength DEF WellFormed
    <3>2. ZStreamTree(problem) = IntervalTrees(problem, o)[<<1, Len(o)>>].best
      BY DEF ZStreamTree
    <3>3. /\ ZStreamTree(problem) \in OrderedTrees(problem, o)[<<1, Len(o)>>]
          /\ \A t \in OrderedTrees(problem, o)[<<1, Len(o)>>] :
                CostOf(problem, ZStreamTree(problem)) <= CostOf(problem, t)
      <4> HIDE DEF o
      <4> QED
        BY <3>1, <3>2, OrderedTreeIsCheapest
    <3> QED
      BY <2>3, <3>3 DEF CheapestOfItsShape
  <2>4. CASE problem.builder.kind \notin {"dp_bushy", "zstream", "zstream_ord"}
    BY <2>4 DEF CheapestOfItsShape
  <2> QED
    BY <2>2, <2>3, <2>4
<1> QED
  BY <1>1, SelectionInvariant, PTL

(* The invariants recorded with a plan hold under the statistics it was     *)
(* planned for, and the runner-up of a greedy choice is the cheapest of     *)
(* those that were not chosen (plan/invariant, LeftDeepTreeBuilders.py,     *)
(* InvariantAware builders).                                                *)
THEOREM RecordedInvariantsAreTight == Selection => []InvariantsTight
<1>1. SelectionInv => InvariantsTight
  <2> SUFFICES ASSUME SelectionInv, problem # NoProblem PROVE InvariantsTight
    BY DEF InvariantsTight
  <2> DEFINE stats == problem.stats
             greedy == Greedy(stats, problem.builder.pops)
             before(i) == SubSeq(greedy.order, 1, i - 1)
  <2>1. WellFormed(problem)
    BY DEF SelectionInv
  <2>2. greedy.order \in Orders(problem)
    BY <2>1, GreedyIsOrder
  <2>3. ~ GreedyViolated(greedy.invariants, stats)
    <3>1. /\ WellFormedStatistics(stats) /\ problem.builder.pops \in Seq(Nat)
          /\ Operands(stats) \subseteq SetOf(problem.builder.pops)
      BY <2>1 DEF WellFormed, OperandsOf
    <3> HIDE DEF stats
    <3> QED
      BY <3>1, GreedyInvariantsHold
  <2>4. ~ ZStreamViolated(ZStreamInvariants(problem), stats)
    BY <2>1, ZStreamInvariantsHold
  <2>5. ASSUME NEW i \in 1..(Len(greedy.order) - 1)
        PROVE  LET v == greedy.invariants[i]
               IN  /\ v.left = greedy.order[i] /\ v.left # v.right
                   /\ \A j \in OperandsOf(problem) \ (SetOf(before(i)) \cup {v.left}) :
                         ChangeFactor(stats, before(i), v.right)
                            <= ChangeFactor(stats, before(i), j)
    <3>1. PICK g : g = greedy
      OBVIOUS
    <3>2. PICK v : v = g.invariants[i]
      OBVIOUS
    <3>3. PICK b : b = SubSeq(g.order, 1, i - 1)
      OBVIOUS
    <3>4. g = Greedy(problem.stats, problem.builder.pops) /\ i \in 1..(Len(g.order) - 1)
      BY <3>1
    <3>5. /\ v.left = g.order[i] /\ v.left # v.right
          /\ \A j \in OperandsOf(problem) \ (SetOf(b) \cup {v.left}) :
                ChangeFactor(problem.stats, b, v.right) <= ChangeFactor(problem.stats, b, j)
      <4>1. RunnerUpIsNext(problem, b, g.order[i], v)
        BY ONLY <2>1, <3>2, <3>3, <3>4, GreedyIsTight
      <4> QED
        BY <4>1 DEF RunnerUpIsNext
    <3> HIDE DEF greedy
    <3> QED
      BY <3>1, <3>2, <3>3, <3>5
  <2> QED
    BY <2>1, <2>2, <2>3, <2>4, <2>5 DEF InvariantsTight
<1> QED
  BY <1>1, SelectionInvariant, PTL

=============================================================================
