--------------------------- MODULE ParallelProofs ---------------------------
(***************************************************************************)
(* Proofs about DataParallel, for every pattern with bounded negation,     *)
(* input, number of units, interval and interleaving of the threads.       *)
(*                                                                         *)
(* For every way to split the input: the type invariant, and no match is   *)
(* delivered twice.  What a unit has received and what waits in its queue  *)
(* are the events it has been given so far, in the order of the input      *)
(* (ShareInv); what it has found is completed by the last of them          *)
(* (FoundInv), so it finds nothing twice, and at most one of the units     *)
(* that hold all events of a match keeps it (KeeperUnique).                *)
(*                                                                         *)
(* For a split that agrees with the pattern (SplitAgrees) the threads      *)
(* implement one evaluation of the whole input: nothing a unit keeps is    *)
(* lost (LossInv), every unit has its whole share when the output closes   *)
(* (AllStopped), and the events that prevent a match reach its unit before *)
(* the last event of the match does (KeptByInvariant).  The ranges of RIP  *)
(* agree because three times within an interval lie in at most two ranges, *)
(* the middle one with one of the outer two (RangeBetween).  A cube agrees *)
(* because its types have dimensions of their own and some unit has any    *)
(* given coordinates (UnitAt): one unit lies on a face of every event of a *)
(* match, and the least of such units keeps it (CubeAgrees).               *)
(***************************************************************************)
EXTENDS ParallelProperties, SequenceTheorems, FiniteSetTheorems,
        WellFoundedInduction, TLAPS

-----------------------------------------------------------------------------
(* Sequences and matches *)

\* Appending adds one element to the range.
LEMMA RangeAppend ==
    ASSUME NEW S, NEW s \in Seq(S), NEW e
    PROVE  Range(Append(s, e)) = Range(s) \cup {e}
<1>1. /\ DOMAIN Append(s, e) = 1..(Len(s) + 1)
      /\ \A i \in 1..Len(s) : Append(s, e)[i] = s[i]
      /\ Append(s, e)[Len(s) + 1] = e
      /\ DOMAIN s = 1..Len(s)
      /\ Len(s) \in Nat
  OBVIOUS
<1> QED
  BY <1>1 DEF Range

\* The tail of a sequence, position by position.
LEMMA TailFacts ==
    ASSUME NEW S, NEW s \in Seq(S), s # <<>>
    PROVE  /\ DOMAIN Tail(s) = 1..(Len(s) - 1)
           /\ Len(Tail(s)) = Len(s) - 1
           /\ \A i \in 1..(Len(s) - 1) : Tail(s)[i] = s[i + 1]
           /\ DOMAIN s = 1..Len(s)
           /\ Len(s) \in Nat \ {0}
           /\ s[1] = Head(s)
OBVIOUS

\* The elements of a sequence are its head and those of its tail.
LEMMA RangeTail ==
    ASSUME NEW S, NEW s \in Seq(S), s # <<>>
    PROVE  Range(s) = {Head(s)} \cup Range(Tail(s))
<1>1. /\ DOMAIN Tail(s) = 1..(Len(s) - 1)
      /\ \A i \in 1..(Len(s) - 1) : Tail(s)[i] = s[i + 1]
      /\ Head(s) = s[1]
      /\ DOMAIN s = 1..Len(s)
      /\ Len(s) \in Nat \ {0}
  BY TailFacts
<1>2. ASSUME NEW x \in Range(s)
      PROVE  x \in {Head(s)} \cup Range(Tail(s))
  <2>1. PICK i \in 1..Len(s) : x = s[i]
    BY <1>1 DEF Range
  <2>2. CASE i = 1
    BY <1>1, <2>1, <2>2
  <2>3. CASE i # 1
    <3>1. i - 1 \in 1..(Len(s) - 1) /\ Tail(s)[i - 1] = x
      BY <1>1, <2>1, <2>3
    <3> QED
      BY <1>1, <3>1 DEF Range
  <2> QED
    BY <2>2, <2>3
<1>3. Head(s) \in Range(s)
  BY <1>1 DEF Range
<1>4. ASSUME NEW x \in Range(Tail(s))
      PROVE  x \in Range(s)
  <2>1. PICK i \in 1..(Len(s) - 1) : x = Tail(s)[i]
    BY <1>1 DEF Range
  <2>2. i + 1 \in 1..Len(s) /\ s[i + 1] = x
    BY <1>1, <2>1
  <2> QED
    BY <1>1, <2>2 DEF Range
<1> QED
  BY <1>2, <1>3, <1>4

\* An atom about a negated event is about no other negated event.
LEMMA AtomNames ==
    ASSUME NEW n \in Negative, NEW a \in Condition, n \in a.on
    PROVE  a.on \subseteq Positive \cup {n}
<1>1. IsFiniteSet(Negative)
  <2>1. Chain \in Seq(Negative)
    BY NegationAssumption
  <2>2. DOMAIN Chain = 1..Len(Chain) /\ Len(Chain) \in Nat
    BY <2>1
  <2>3. IsFiniteSet(1..Len(Chain))
    BY ONLY <2>2, FS_Interval
  <2>4. Chain \in Surjection(1..Len(Chain), Negative)
    BY <2>1, <2>2 DEF Surjection, Negative, Range
  <2> QED
    BY ONLY <2>3, <2>4, FS_Surjection
<1>2. ASSUME NEW x \in a.on \cap Negative, x # n
      PROVE  FALSE
  <2>1. IsFiniteSet({n}) /\ Cardinality({n}) = 1
    BY FS_Singleton
  <2>2. Cardinality({n} \cup {x}) = 2
    <3>1. Cardinality({n} \cup {x}) = Cardinality({n}) + 1
      BY ONLY <1>2, <2>1, FS_AddElement, Zenon
    <3> QED
      BY <2>1, <3>1
  <2>3. {n} \cup {x} \subseteq a.on \cap Negative
    BY <1>2
  <2>4. IsFiniteSet(a.on \cap Negative)
    BY <1>1, FS_Subset
  <2>5. Cardinality({n} \cup {x}) <= Cardinality(a.on \cap Negative)
    BY <2>3, <2>4, FS_Subset
  <2>6. Cardinality(a.on \cap Negative) \in Nat
    BY <2>4, FS_CardinalityType
  <2> QED
    BY <2>2, <2>5, <2>6, ConditionAssumption
<1>3. a.on \subseteq Name
  BY ConditionAssumption
<1> QED
  BY <1>2, <1>3 DEF Name

\* The event that completes a match is the greatest one.
LEMMA CompletedIs ==
    ASSUME NEW m, NEW k \in Range(m), \A d \in Range(m) : d \in Int /\ d <= k
    PROVE  Completed(m) = k
<1> DEFINE Greatest(e) == e \in Range(m) /\ \A d \in Range(m) : d <= e
<1>1. Greatest(k)
  OBVIOUS
<1>2. \A e : Greatest(e) => e = k
  OBVIOUS
<1>3. (CHOOSE e : Greatest(e)) = k
  BY <1>1, <1>2
<1>4. Completed(m) = CHOOSE e : Greatest(e)
  BY DEF Completed
<1> QED
  BY <1>3, <1>4

-----------------------------------------------------------------------------
(* What a unit has been given *)

\* The events unit u is to be handed, and those it has been handed so far.
Share(u) == {e \in EventIds : u \in Classifier(e)}

Given(u) == {e \in Share(u) : e < next /\ ~ (e = next - 1 /\ u \in todo)}

\* No match is handed over twice, by one unit or by two.
DeliveredOnce == IsInjective(output)

MainInv ==
    /\ input \in Inputs
    /\ algorithm \in Algorithms
    /\ next \in 1..(Len(input) + 1)
    /\ todo \subseteq Unit
    /\ todo # {} => next > 1
    /\ \A e \in EventIds : e = next - 1 => \A u \in todo : u \in Classifier(e)
    /\ joined \in 0..Cardinality(Unit)
    /\ \A u \in Unit : u < joined => status[u] = "stopped"
    /\ lock \in Unit \cup {NoUnit}
    /\ outputClosed \in BOOLEAN
    /\ outputClosed => joined = Cardinality(Unit)

\* The variables that have a value for each unit.
ShapeInv ==
    /\ queue \in [Unit -> Seq(EventIds \cup {Closed})]
    /\ received \in [Unit -> Seq(EventIds)]
    /\ DOMAIN found = Unit
    /\ status \in [Unit -> {"running", "stopped"}]

\* What a unit has received and what still waits in its queue, in this order, are
\* the events it has been given so far, in the order of the input.  The queue
\* is closed only after the last of its share.
ShareInv(u) ==
    /\ \A i \in 1..(Len(queue[u]) - 1) : queue[u][i] # Closed
    /\ Range(received[u]) \cup (Range(queue[u]) \ {Closed}) = Given(u)
    /\ \A i, j \in DOMAIN received[u] : i < j => received[u][i] < received[u][j]
    /\ \A i, j \in DOMAIN queue[u] :
            i < j /\ queue[u][j] # Closed => queue[u][i] < queue[u][j]
    /\ \A i \in DOMAIN received[u], j \in DOMAIN queue[u] :
            queue[u][j] # Closed => received[u][i] < queue[u][j]
    /\ Closed \in Range(queue[u]) \/ status[u] = "stopped" => AllHandedOut
    /\ status[u] = "stopped" => queue[u] = <<>> /\ found[u] = {}

\* Unit u has been handed every event of the combination m.
HeldBy(u, m) == m \in PositiveMatches(input) /\ Range(m) \subseteq Range(received[u])

\* What a unit has found is completed by the last event it received, and no
\* event it received prevents it.
FoundInv(u) ==
    \A m \in found[u] :
        /\ HeldBy(u, m)
        /\ received[u] # <<>>
        /\ received[u][Len(received[u])] \in Range(m)
        /\ \A n \in Negative, e \in Range(received[u]) : ~ PreventedBy(input, n, m, e)

\* Nothing a unit is to hand over is lost.
LossInv(u) ==
    \A m \in Demanded(input) :
        Keeps(u, m) /\ HeldBy(u, m) => m \in found[u] \/ m \in Range(output)

\* A match in the output has been handed over by the unit that keeps it, which
\* does not hold it any more.
OutputInv ==
    /\ output \in Seq(PositiveMatches(input))
    /\ \A m \in Range(output) :
            \E u \in Unit : Keeps(u, m) /\ HeldBy(u, m) /\ m \notin found[u]
    /\ DeliveredOnce

UnitInv(u) == ShareInv(u) /\ FoundInv(u) /\ LossInv(u)

\* The inductive invariant.
IInv == MainInv /\ ShapeInv /\ (\A u \in Unit : UnitInv(u)) /\ OutputInv

-----------------------------------------------------------------------------
(* The cube                                                                *)

LEMMA MultipleMonotone ==
    ASSUME NEW i \in Nat \ {0}, NEW a \in Int, NEW b \in Int, a <= b
    PROVE  i * a <= i * b
OBVIOUS

LEMMA DivisionBounds ==
    ASSUME NEW i \in Nat \ {0}, NEW x \in Int
    PROVE  x \div i \in Int /\ i * (x \div i) <= x /\ x < i * (x \div i) + i
OBVIOUS

\* The quotient of x by t is the number of times t goes into x.
LEMMA QuotientIs ==
    ASSUME NEW t \in Nat \ {0}, NEW x \in Int, NEW q \in Int, t * q <= x, x < t * q + t
    PROVE  x \div t = q
<1> DEFINE p == x \div t
<1>1. p \in Int /\ t * p <= x /\ x < t * p + t
  BY DivisionBounds
<1> HIDE DEF p
<1>2. \A a \in Int : t * (a + 1) = t * a + t /\ t * a \in Int
  OBVIOUS
<1>3. ~ (p + 1 <= q)
  <2> SUFFICES ASSUME p + 1 <= q PROVE FALSE
    OBVIOUS
  <2>1. t * (p + 1) <= t * q
    BY <1>1, MultipleMonotone
  <2> QED
    BY <1>1, <1>2, <2>1
<1>4. ~ (q + 1 <= p)
  <2> SUFFICES ASSUME q + 1 <= p PROVE FALSE
    OBVIOUS
  <2>1. t * (q + 1) <= t * p
    BY <1>1, MultipleMonotone
  <2> QED
    BY <1>1, <1>2, <2>1
<1>5. p = q
  BY <1>1, <1>3, <1>4
<1> QED
  BY <1>5 DEF p

\* Multiples of the divisor go into the quotient and leave the rest alone.
LEMMA QuotientShifts ==
    ASSUME NEW t \in Nat \ {0}, NEW a \in Int, NEW x \in Int
    PROVE  (t * a + x) \div t = a + x \div t
<1>1. PICK q \in Int : q = x \div t /\ t * q <= x /\ x < t * q + t
  BY DivisionBounds
<1>2. t * (a + q) = t * a + t * q /\ t * a \in Int /\ t * q \in Int
  BY <1>1
<1>3. t * (a + q) <= t * a + x /\ t * a + x < t * (a + q) + t
  BY <1>1, <1>2
<1>4. a + q \in Int /\ t * a + x \in Int
  BY <1>1, <1>2
<1> QED
  BY <1>1, <1>3, <1>4, QuotientIs

LEMMA RestIs ==
    ASSUME NEW t \in Nat \ {0}, NEW x \in Int
    PROVE  x % t = x - t * (x \div t) /\ x % t \in 0..(t - 1)
OBVIOUS

LEMMA RestStays ==
    ASSUME NEW t \in Nat \ {0}, NEW a \in Int, NEW x \in Int
    PROVE  (t * a + x) % t = x % t
<1>1. PICK q \in Int : q = x \div t
  BY DivisionBounds
<1>2. (t * a + x) \div t = a + q
  BY <1>1, QuotientShifts
<1>3. t * a \in Int /\ t * q \in Int /\ t * (a + q) = t * a + t * q
  BY <1>1
<1>4. (t * a + x) % t = (t * a + x) - t * (a + q)
  <2>1. PICK y \in Int : y = t * a + x
    BY <1>3
  <2>2. y % t = y - t * (y \div t)
    BY RestIs
  <2> QED
    BY <1>2, <2>1, <2>2
<1>5. x % t = x - t * q
  BY <1>1, RestIs
<1> QED
  BY <1>3, <1>4, <1>5

\* A set of numbers that has n and the predecessor of each of its members.
LEMMA Downward ==
    ASSUME NEW n \in Nat \ {0}, NEW S, n \in S,
           \A k \in 1..(n - 1) : k + 1 \in S => k \in S
    PROVE  1..n \subseteq S
<1> DEFINE Bad == {j \in Nat : j < n /\ n - j \notin S}
<1>1. Bad = {}
  <2> SUFFICES ASSUME Bad # {} PROVE FALSE
    OBVIOUS
  <2>1. PICK j \in Bad : \A i \in Bad : ~ (<<i, j>> \in OpToRel(<, Nat))
    BY NatLessThanWellFounded, WFMin
  <2>2. /\ j \in Nat /\ j < n /\ n - j \notin S
        /\ \A i \in Nat : i < j => n - i \in S
    <3>1. \A i \in Nat : i < j => i < n
      OBVIOUS
    <3> QED
      BY <2>1, <3>1 DEF OpToRel
  <2>3. j # 0
    BY <2>2
  <2>4. j - 1 \in Nat /\ j - 1 < j
    BY <2>2, <2>3
  <2>5. n - (j - 1) \in S
    BY <2>2, <2>4
  <2>6. n - j \in 1..(n - 1) /\ n - (j - 1) = (n - j) + 1
    BY <2>2, <2>3
  <2> QED
    BY <2>2, <2>5, <2>6
<1>2. ASSUME NEW k \in 1..n
      PROVE  k \in S
  <2>1. n - k \in Nat /\ n - k < n /\ n - (n - k) = k
    OBVIOUS
  <2>2. \A j \in Nat : j < n => n - j \in S
    BY <1>1
  <2>3. n - (n - k) \in S
    BY <2>1, <2>2
  <2> QED
    BY <2>1, <2>3
<1> QED
  BY <1>2

\* The strides: one in the last dimension, and in each dimension before the size
\* of the next one times its stride.
LEMMA Strides ==
    ASSUME Shape # <<>>
    PROVE  /\ Len(Shape) \in Nat \ {0} /\ DOMAIN Shape = 1..Len(Shape)
           /\ \A k \in 1..Len(Shape) : Shape[k] \in Nat \ {0} /\ Stride(k) \in Nat \ {0}
           /\ Stride(Len(Shape)) = 1
           /\ \A k \in 1..(Len(Shape) - 1) : Stride(k) = Shape[k + 1] * Stride(k + 1)
<1>1. Shape \in Seq(Nat \ {0})
  BY ParallelAssumption
<1>2. PICK n : n = Len(Shape)
  OBVIOUS
<1>3. n \in Nat \ {0} /\ DOMAIN Shape = 1..n
  BY <1>1, <1>2, EmptySeq, LenProperties
<1>4. \A k \in 1..n : Shape[k] \in Nat \ {0}
  BY <1>1, <1>3, ElementOfSeq
<1> DEFINE Step(f, k) == IF k = n THEN 1 ELSE Shape[k + 1] * f[k + 1]
           From(f, k) == /\ f = [j \in 1..n |-> f[j]]
                         /\ \A j \in k..n : f[j] = Step(f, j)
           S == {k \in 1..n : \E f : From(f, k)}
<1>5. n \in S
  <2>1. PICK f : f = [j \in 1..n |-> 1]
    OBVIOUS
  <2>2. f = [j \in 1..n |-> f[j]] /\ \A j \in n..n : j = n /\ f[j] = 1
    BY <1>3, <2>1
  <2>3. From(f, n)
    BY <2>2
  <2>4. n \in 1..n
    BY <1>3
  <2> HIDE DEF From
  <2> QED
    BY <2>3, <2>4
<1>6. ASSUME NEW k \in 1..(n - 1), k + 1 \in S
      PROVE  k \in S
  <2>1. PICK g : From(g, k + 1)
    BY <1>6
  <2>2. PICK f : f = [j \in 1..n |-> Step(g, j)]
    OBVIOUS
  <2>3. f = [j \in 1..n |-> f[j]] /\ \A j \in 1..n : f[j] = Step(g, j)
    <3> HIDE DEF Step
    <3> QED
      BY <2>2
  <2>4. \A j \in (k + 1)..n : j \in 1..n /\ f[j] = g[j]
    <3>1. \A j \in (k + 1)..n : j \in 1..n
      BY <1>3
    <3> HIDE DEF Step
    <3> QED
      BY <2>1, <2>3, <3>1
  <2>5. ASSUME NEW j \in k..n
        PROVE  f[j] = Step(f, j)
    <3>1. j \in 1..n
      BY <1>3
    <3>2. f[j] = Step(g, j)
      BY <2>3, <3>1
    <3>3. j # n => j + 1 \in (k + 1)..n
      BY <1>3
    <3>4. Step(f, j) = Step(g, j)
      BY <2>4, <3>3
    <3> QED
      BY <3>2, <3>4
  <2>6. From(f, k)
    <3> HIDE DEF Step
    <3> QED
      BY <2>3, <2>5
  <2>7. k \in 1..n
    BY <1>3
  <2> HIDE DEF From
  <2> QED
    BY <2>6, <2>7
<1>7. 1 \in S
  <2> HIDE DEF S
  <2>1. 1..n \subseteq S
    BY <1>3, <1>5, <1>6, Downward
  <2>2. 1 \in 1..n
    BY <1>3
  <2> QED
    BY <2>1, <2>2
<1>8. PICK f : f = [k \in 1..n |-> Step(f, k)]
  <2>1. PICK f : From(f, 1)
    BY <1>7
  <2>2. f = [j \in 1..n |-> f[j]] /\ \A j \in 1..n : f[j] = Step(f, j)
    BY <2>1
  <2>3. f = [k \in 1..n |-> Step(f, k)]
    <3> HIDE DEF Step
    <3> QED
      BY <2>2
  <2> QED
    BY <2>3
<1>9. PICK P : /\ P = [k \in 1..n |-> IF k = n THEN 1 ELSE Shape[k + 1] * P[k + 1]]
               /\ \A k : Stride(k) = P[k]
  <2>1. PICK P : P = CHOOSE h : h = [k \in DOMAIN Shape |->
                        IF k = Len(Shape) THEN 1 ELSE Shape[k + 1] * h[k + 1]]
    OBVIOUS
  <2>2. \A k : Stride(k) = P[k]
    BY <2>1 DEF Stride
  <2>3. P = [k \in 1..n |-> IF k = n THEN 1 ELSE Shape[k + 1] * P[k + 1]]
    BY <1>2, <1>3, <1>8, <2>1
  <2> QED
    BY <2>2, <2>3
<1>10. \A k \in 1..n : P[k] = IF k = n THEN 1 ELSE Shape[k + 1] * P[k + 1]
  BY <1>9
<1>11. 1..n \subseteq {k \in 1..n : P[k] \in Nat \ {0}}
  <2>1. n \in 1..n /\ P[n] = 1
    BY <1>3, <1>10
  <2>2. ASSUME NEW k \in 1..(n - 1), P[k + 1] \in Nat \ {0}
        PROVE  k \in 1..n /\ P[k] \in Nat \ {0}
    <3>1. k \in 1..n /\ k # n /\ k + 1 \in 1..n
      BY <1>3
    <3>2. P[k] = Shape[k + 1] * P[k + 1]
      BY <1>10, <3>1
    <3>3. Shape[k + 1] \in Nat \ {0}
      BY <1>4, <3>1
    <3>4. \A a, b \in Nat \ {0} : a * b \in Nat \ {0}
      OBVIOUS
    <3> QED
      BY <2>2, <3>1, <3>2, <3>3, <3>4
  <2>3. PICK T : T = {k \in 1..n : P[k] \in Nat \ {0}}
    OBVIOUS
  <2>4. n \in T /\ \A k \in 1..(n - 1) : k + 1 \in T => k \in T
    BY <2>1, <2>2, <2>3
  <2>5. 1..n \subseteq T
    BY <1>3, <2>4, Downward
  <2> QED
    BY <2>3, <2>5
<1>12. \A k \in 1..(n - 1) : k \in 1..n /\ k # n
  BY <1>3
<1>13. n \in 1..n
  BY <1>3
<1> QED
  BY <1>2, <1>3, <1>4, <1>9, <1>10, <1>11, <1>12, <1>13

\* The cube has units.
LEMMA CubeHasUnits == "HYPER_CUBE" \in Algorithms => CubeSize \in Nat \ {0}
<1> SUFFICES ASSUME "HYPER_CUBE" \in Algorithms PROVE CubeSize \in Nat \ {0}
  OBVIOUS
<1>1. Shape # <<>>
  BY ParallelAssumption
<1>2. 1 \in 1..Len(Shape)
  BY <1>1, Strides
<1>3. Stride(1) \in Nat \ {0} /\ Shape[1] \in Nat \ {0}
  BY <1>1, <1>2, Strides
<1>4. \A a, b \in Nat \ {0} : a * b \in Nat \ {0}
  OBVIOUS
<1> QED
  BY <1>3, <1>4 DEF CubeSize

-----------------------------------------------------------------------------
(* Units and shares                                                        *)

\* The units are the first natural numbers.
LEMMA UnitNumbers ==
    ASSUME algorithm \in Algorithms
    PROVE  /\ Unit = 0..(Cardinality(Unit) - 1)
           /\ Cardinality(Unit) \in Nat \ {0}
           /\ NoUnit \notin Unit
<1>1. PICK k \in Nat \ {0} : Unit = 0..(k - 1)
  BY ParallelAssumption, CubeHasUnits DEF Unit
<1>2. Cardinality(Unit) = k
  BY <1>1, FS_Interval
<1> QED
  BY <1>1, <1>2 DEF NoUnit

LEMMA InputEvents ==
    ASSUME input \in Inputs
    PROVE  /\ Len(input) \in Nat \ {0}
           /\ DOMAIN input = EventIds
           /\ \A e \in EventIds : input[e].ts \in Nat /\ input[e].val \in Int
<1>1. PICK k \in InputLengths :
        input \in [1..k -> [type : {q.type : q \in Kind}, ts : 0..(MaxGap * (k - 1)),
                            val : {q.val : q \in Kind}]]
  BY DEF Inputs
<1> DEFINE R == [type : {q.type : q \in Kind}, ts : 0..(MaxGap * (k - 1)),
                 val : {q.val : q \in Kind}]
<1>2. k \in Nat \ {0} /\ \A q \in Kind : q.val \in Int
  BY ParallelAssumption
<1>3. \A r \in R : r.ts \in 0..(MaxGap * (k - 1)) /\ r.val \in {q.val : q \in Kind}
  OBVIOUS
<1>4. \A r \in R : r.ts \in Nat /\ r.val \in Int
  BY <1>2, <1>3
<1> HIDE DEF R
<1>5. input \in Seq(R) /\ Len(input) = k
  <2>1. input \in [1..k -> R]
    BY <1>1 DEF R
  <2> QED
    BY <1>2, <2>1, SeqDef
<1>6. DOMAIN input = 1..k
  BY <1>1
<1> QED
  BY <1>2, <1>4, <1>5, <1>6 DEF EventIds

LEMMA ClassifierUnits ==
    ASSUME MainInv, NEW e \in EventIds
    PROVE  Classifier(e) \subseteq Unit
<1>1. /\ Interval \in Nat \ {0} /\ UnitsNumber \in Nat \ {0}
      /\ Window \in Nat
      /\ algorithm \in {"RIP", "GROUP_BY_KEY", "HYPER_CUBE"}
  BY ParallelAssumption, NegationAssumption DEF MainInv
<1>2. input[e].ts \in Nat /\ input[e].val \in Int /\ input[1].ts \in Nat
  BY InputEvents DEF MainInv, EventIds
<1>3. CASE algorithm = "RIP"
  <2>1. \A t \in Int : UnitOfTime(t) \in 0..(UnitsNumber - 1)
    BY <1>1, <1>2 DEF UnitOfTime
  <2>2. input[e].ts \in Int /\ input[e].ts - Window \in Int
    BY <1>1, <1>2
  <2>3. Unit = 0..(UnitsNumber - 1)
    BY <1>3 DEF Unit
  <2> QED
    BY <1>3, <2>1, <2>2, <2>3 DEF Classifier
<1>4. CASE algorithm = "GROUP_BY_KEY"
  BY <1>1, <1>2, <1>4 DEF Classifier, Unit
<1>5. CASE algorithm = "HYPER_CUBE"
  BY <1>5 DEF Classifier
<1> QED
  BY <1>1, <1>3, <1>4, <1>5

\* Every combination has an event.
LEMMA MatchHasEvents ==
    ASSUME NEW s, NEW m \in PositiveMatches(s)
    PROVE  Range(m) # {}
<1>1. m \in [Positive -> 1..Len(s)] /\ Positive # {}
  BY NegationAssumption DEF PositiveMatches
<1> QED
  BY <1>1 DEF Range

-----------------------------------------------------------------------------
(* What a step leaves alone                                                *)

LEMMA Frame ==
    ASSUME input' = input, algorithm' = algorithm
    PROVE  /\ Unit' = Unit
           /\ EventIds' = EventIds
           /\ \A e : Classifier(e)' = Classifier(e)
           /\ \A u : Share(u)' = Share(u)
           /\ \A u, m : Keeps(u, m)' = Keeps(u, m)
           /\ PositiveMatches(input)' = PositiveMatches(input)
           /\ Demanded(input)' = Demanded(input)
<1>1. Unit' = Unit /\ EventIds' = EventIds
  BY DEF Unit, EventIds
<1>2. \A t : UnitOfTime(t)' = UnitOfTime(t)
  BY DEF UnitOfTime
<1>3. \A e : Classifier(e)' = Classifier(e)
  BY <1>1, <1>2 DEF Classifier
<1>4. \A u : Share(u)' = Share(u)
  BY <1>1, <1>3 DEF Share
<1>5. \A m : CommonUnits(m)' = CommonUnits(m)
  BY <1>1, <1>3 DEF CommonUnits
<1>6. \A m : FirstTimestamp(m)' = FirstTimestamp(m)
  BY DEF FirstTimestamp
<1>7. \A m : UnitOfTime(FirstTimestamp(m))' = UnitOfTime(FirstTimestamp(m))
  BY <1>6 DEF UnitOfTime
<1>8. \A u, m : Keeps(u, m)' = Keeps(u, m)
  BY <1>5, <1>7 DEF Keeps
<1> QED
  BY <1>1, <1>3, <1>4, <1>8

\* A unit no step of which is taken.
LEMMA UnitStays ==
    ASSUME input' = input, algorithm' = algorithm,
           NEW u, UnitInv(u),
           queue'[u] = queue[u], received'[u] = received[u], found'[u] = found[u],
           status'[u] = status[u],
           Given(u)' = Given(u),
           AllHandedOut => AllHandedOut',
           Range(output) \subseteq Range(output)'
    PROVE  UnitInv(u)'
<1>1. ShareInv(u)'
  BY DEF UnitInv, ShareInv
<1>2. \A m : HeldBy(u, m)' = HeldBy(u, m)
  BY DEF HeldBy
<1>3. FoundInv(u)'
  BY <1>2 DEF UnitInv, FoundInv
<1>4. LossInv(u)'
  BY <1>2, Frame DEF UnitInv, LossInv
<1> QED
  BY <1>1, <1>3, <1>4 DEF UnitInv

LEMMA OutputStays ==
    ASSUME input' = input, algorithm' = algorithm, OutputInv,
           output' = output, received' = received,
           \A u \in Unit : found'[u] \subseteq found[u]
    PROVE  OutputInv'
<1>1. \A u, m : HeldBy(u, m)' = HeldBy(u, m)
  BY DEF HeldBy
<1>2. \A m \in Range(output)' :
        \E u \in Unit' : Keeps(u, m)' /\ HeldBy(u, m)' /\ m \notin found'[u]
  BY <1>1, Frame DEF OutputInv
<1>3. DeliveredOnce'
  BY DEF OutputInv, DeliveredOnce, IsInjective
<1> QED
  BY <1>2, <1>3 DEF OutputInv

-----------------------------------------------------------------------------
(* The initial states                                                      *)

LEMMA InitInv == Init => IInv
<1> SUFFICES ASSUME Init PROVE IInv
  OBVIOUS
<1> USE DEF Init
<1>1. /\ Cardinality(Unit) \in Nat \ {0}
      /\ \A u \in Unit : ~ u < joined
      /\ Len(input) \in Nat \ {0}
  BY UnitNumbers, InputEvents
<1>2. MainInv
  <2>1. next \in 1..(Len(input) + 1) /\ joined \in 0..Cardinality(Unit)
    BY <1>1
  <2>2. outputClosed \in BOOLEAN /\ ~ outputClosed
    OBVIOUS
  <2> QED
    BY <1>1, <2>1, <2>2 DEF MainInv
<1>3. ShapeInv
  BY DEF ShapeInv
<1>4. ASSUME NEW u \in Unit
      PROVE  UnitInv(u)
  <2>1. queue[u] = <<>> /\ received[u] = <<>> /\ found[u] = {} /\ status[u] = "running"
    OBVIOUS
  <2>2. Range(queue[u]) = {} /\ Range(received[u]) = {}
    BY <2>1 DEF Range
  <2>3. Given(u) = {}
    BY <1>1 DEF Given, Share, EventIds
  <2>4. ShareInv(u)
    BY <2>1, <2>2, <2>3 DEF ShareInv
  <2>5. \A m : ~ HeldBy(u, m)
    BY <2>2, MatchHasEvents DEF HeldBy
  <2> QED
    BY <2>1, <2>4, <2>5 DEF UnitInv, FoundInv, LossInv
<1>5. OutputInv
  <2>1. Range(output) = {} /\ DeliveredOnce
    BY DEF Range, DeliveredOnce, IsInjective
  <2> QED
    BY <2>1 DEF OutputInv
<1> QED
  BY <1>2, <1>3, <1>4, <1>5 DEF IInv

-----------------------------------------------------------------------------
(* The main thread                                                         *)

LEMMA ClassifyInv == IInv /\ Classify => IInv'
<1> SUFFICES ASSUME IInv, Classify PROVE IInv'
  OBVIOUS
<1> USE DEF Classify
<1>1. MainInv /\ ShapeInv /\ Len(input) \in Nat \ {0}
  BY InputEvents DEF IInv, MainInv
<1>2. next \in EventIds
  BY <1>1 DEF MainInv, EventIds
<1>3. Classifier(next) \subseteq Unit
  BY <1>1, <1>2, ClassifierUnits
<1>4. \A e \in EventIds : e = next' - 1 => Classifier(e)' = Classifier(next)
  BY <1>1, Frame DEF MainInv
<1>5. MainInv'
  BY <1>1, <1>2, <1>3, <1>4, Frame DEF MainInv, EventIds
<1>6. ShapeInv'
  BY <1>1, Frame DEF ShapeInv
<1>7. ASSUME NEW u \in Unit
      PROVE  UnitInv(u)'
  <2>1. Given(u)' = Given(u)
    <3>1. ASSUME NEW e \in Share(u)
          PROVE  (e < next' /\ ~ (e = next' - 1 /\ u \in todo'))
                    <=> (e < next /\ ~ (e = next - 1 /\ u \in todo))
      <4>1. e \in Nat /\ next \in Nat
        BY <1>1 DEF Share, EventIds, MainInv
      <4>2. e = next => u \in Classifier(next)
        BY DEF Share
      <4> QED
        BY <4>1, <4>2
    <3> QED
      BY <3>1, Frame DEF Given
  <2>2. ~ AllHandedOut
    BY <1>1 DEF AllHandedOut, MainInv
  <2>3. UnitInv(u)
    BY DEF IInv
  <2> QED
    BY <2>1, <2>2, <2>3, UnitStays
<1>8. OutputInv'
  BY OutputStays DEF IInv
<1> QED
  BY <1>5, <1>6, <1>7, <1>8, Frame DEF IInv

LEMMA HandOutInv == \A u \in Unit : IInv /\ HandOut(u) => IInv'
<1> SUFFICES ASSUME NEW u \in Unit, IInv, HandOut(u) PROVE IInv'
  OBVIOUS
<1> USE DEF HandOut
<1> DEFINE e == next - 1
<1>1. MainInv /\ ShapeInv /\ Len(input) \in Nat \ {0}
  BY InputEvents DEF IInv, MainInv
<1>2. e \in EventIds /\ u \in Classifier(e) /\ e \in Share(u) /\ e # Closed
  BY <1>1 DEF MainInv, EventIds, Share, Closed
<1>3. MainInv'
  BY <1>1, Frame DEF MainInv
<1>4. queue'[u] = Append(queue[u], e) /\ queue[u] \in Seq(EventIds \cup {Closed})
  BY <1>1 DEF ShapeInv
<1>5. ShapeInv'
  <2>1. Append(queue[u], e) \in Seq(EventIds \cup {Closed})
    BY <1>2, <1>4
  <2> QED
    BY <1>1, <2>1, Frame DEF ShapeInv
<1>6. ~ AllHandedOut
  BY DEF AllHandedOut
<1>7. ASSUME NEW v \in Unit
      PROVE  UnitInv(v)'
  <2>1. UnitInv(v)
    BY DEF IInv
  <2>2. CASE v # u
    <3>1. queue'[v] = queue[v]
      BY <1>1, <2>2 DEF ShapeInv
    <3>2. Given(v)' = Given(v)
      BY <2>2, Frame DEF Given
    <3> QED
      BY <1>6, <2>1, <3>1, <3>2, UnitStays
  <2>3. CASE v = u
    <3>1. ShareInv(u)
      BY <2>1, <2>3 DEF UnitInv
    <3>2. Given(u)' = Given(u) \cup {e}
      <4>1. \A d \in Share(u) : d < next <=> d < e \/ d = e
        BY <1>1 DEF Share, EventIds, MainInv
      <4> QED
        BY <1>2, <4>1, Frame DEF Given
    <3>3. \A d \in Given(u) : d < e
      BY <1>1 DEF Given, Share, EventIds, MainInv
    <3>4. Closed \notin Range(queue[u]) /\ status[u] = "running"
      BY <1>1, <1>6, <3>1 DEF ShareInv, ShapeInv
    <3>5. Range(queue'[u]) = Range(queue[u]) \cup {e}
      BY <1>4, RangeAppend
    <3>6. /\ DOMAIN queue'[u] = DOMAIN queue[u] \cup {Len(queue[u]) + 1}
          /\ Len(queue'[u]) = Len(queue[u]) + 1
          /\ DOMAIN queue[u] = 1..Len(queue[u])
          /\ Len(queue[u]) \in Nat
          /\ \A i \in DOMAIN queue[u] : queue'[u][i] = queue[u][i]
          /\ queue'[u][Len(queue[u]) + 1] = e
      BY <1>4
    <3>7. /\ \A i \in DOMAIN queue[u] : queue[u][i] < e /\ queue[u][i] # Closed
          /\ \A i \in DOMAIN received[u] : received[u][i] < e
      BY <3>1, <3>3, <3>4 DEF ShareInv, Range
    <3>8. ShareInv(u)'
      <4>1. \A i \in 1..(Len(queue'[u]) - 1) : queue'[u][i] # Closed
        BY <3>6, <3>7
      <4>2. Range(received'[u]) \cup (Range(queue'[u]) \ {Closed}) = Given(u)'
        BY <1>2, <3>1, <3>2, <3>5 DEF ShareInv
      <4>3. \A i, j \in DOMAIN queue'[u] :
                i < j /\ queue'[u][j] # Closed => queue'[u][i] < queue'[u][j]
        BY <3>1, <3>6, <3>7 DEF ShareInv
      <4>4. \A i \in DOMAIN received'[u], j \in DOMAIN queue'[u] :
                queue'[u][j] # Closed => received'[u][i] < queue'[u][j]
        BY <3>1, <3>6, <3>7 DEF ShareInv
      <4>5. Closed \notin Range(queue'[u])
        BY <1>2, <3>4, <3>5
      <4> QED
        BY <3>1, <3>4, <4>1, <4>2, <4>3, <4>4, <4>5 DEF ShareInv
    <3>9. \A m : HeldBy(u, m)' = HeldBy(u, m)
      BY DEF HeldBy
    <3> QED
      BY <2>1, <2>3, <3>8, <3>9, Frame DEF UnitInv, FoundInv, LossInv
  <2> QED
    BY <2>2, <2>3
<1>8. OutputInv'
  BY OutputStays DEF IInv
<1> QED
  BY <1>3, <1>5, <1>7, <1>8, Frame DEF IInv

-----------------------------------------------------------------------------
(* What a unit finds in its part of the input                              *)

\* The events of a part of the input, as the unit that gets it sees them.
Part(ids) == [i \in DOMAIN ids |-> input[ids[i]]]

\* A combination of the events of a part, in the numbers of the whole input.
Whole(ids, m) == [l \in DOMAIN m |-> ids[m[l]]]

Ordered(ids) ==
    /\ ids \in Seq(EventIds)
    /\ \A i, j \in DOMAIN ids : i < j => ids[i] < ids[j]

LEMMA OrderedFacts ==
    ASSUME NEW ids, Ordered(ids)
    PROVE  /\ DOMAIN ids = 1..Len(ids) /\ Len(ids) \in Nat
           /\ DOMAIN Part(ids) = 1..Len(ids) /\ Len(Part(ids)) = Len(ids)
           /\ \A i \in DOMAIN ids : ids[i] \in EventIds /\ Part(ids)[i] = input[ids[i]]
           /\ \A i, j \in DOMAIN ids : ids[i] = ids[j] => i = j
           /\ \A i, j \in DOMAIN ids : ids[i] < ids[j] <=> i < j
<1>1. /\ DOMAIN ids = 1..Len(ids) /\ Len(ids) \in Nat
      /\ \A i \in DOMAIN ids : ids[i] \in EventIds
  BY DEF Ordered
<1>2. \A i \in DOMAIN ids : ids[i] \in Int /\ i \in Int
  BY <1>1 DEF EventIds
<1>3. \A i, j \in DOMAIN ids : i < j => ids[i] < ids[j]
  BY DEF Ordered
<1>4. DOMAIN Part(ids) = 1..Len(ids)
  BY <1>1 DEF Part
<1>5. Len(Part(ids)) = Len(ids)
  <2>1. Part(ids) = [i \in 1..Len(ids) |-> input[ids[i]]]
    BY <1>1 DEF Part
  <2> QED
    BY <1>1, <2>1
<1>6. \A i, j \in DOMAIN ids : ids[i] = ids[j] => i = j
  BY <1>2, <1>3
<1>7. \A i, j \in DOMAIN ids : ids[i] < ids[j] <=> i < j
  BY <1>2, <1>3
<1> QED
  BY <1>1, <1>4, <1>5, <1>6, <1>7 DEF Part

\* The checks see only timestamps and values, and which events are the same.
LEMMA ValidInPart ==
    ASSUME NEW ids, Ordered(ids), NEW S, NEW f \in [S -> DOMAIN ids],
           NEW atoms, \A a \in atoms : a.on \subseteq S
    PROVE  ValidFor(Part(ids), f, atoms) <=> ValidFor(input, Whole(ids, f), atoms)
<1>1. /\ DOMAIN f = S /\ DOMAIN Whole(ids, f) = S
      /\ \A l \in S : Whole(ids, f)[l] = ids[f[l]]
  BY DEF Whole
<1>2. \A l \in S : Part(ids)[f[l]] = input[Whole(ids, f)[l]]
  BY <1>1, OrderedFacts
<1>3. IsInjective(f) <=> IsInjective(Whole(ids, f))
  BY <1>1, OrderedFacts DEF IsInjective
<1>4. ASSUME NEW a \in atoms
      PROVE  Satisfies(Part(ids), f, a) <=> Satisfies(input, Whole(ids, f), a)
  <2>1. [l \in a.on |-> Part(ids)[f[l]].val] = [l \in a.on |-> input[Whole(ids, f)[l]].val]
    BY <1>2
  <2> QED
    BY <2>1 DEF Satisfies
<1> QED
  BY <1>1, <1>2, <1>3, <1>4 DEF ValidFor

LEMMA PositiveInPart ==
    ASSUME NEW ids, Ordered(ids), NEW m \in [Positive -> DOMAIN ids]
    PROVE  m \in PositiveMatches(Part(ids)) <=> Whole(ids, m) \in PositiveMatches(input)
<1> DEFINE atoms == {a \in Condition : a.on \subseteq Positive}
<1>1. /\ DOMAIN m = Positive
      /\ \A l \in Positive : /\ Whole(ids, m)[l] \in 1..Len(input)
                             /\ Part(ids)[m[l]] = input[Whole(ids, m)[l]]
      /\ m \in [Positive -> 1..Len(Part(ids))]
  BY OrderedFacts DEF Whole, EventIds
<1>2. Whole(ids, m) \in [Positive -> 1..Len(input)]
  BY <1>1 DEF Whole
<1>3. ValidFor(Part(ids), m, atoms) <=> ValidFor(input, Whole(ids, m), atoms)
  BY ValidInPart
<1> HIDE DEF atoms
<1>4. m \in PositiveMatches(Part(ids)) <=>
        /\ \A l \in Positive : Part(ids)[m[l]].type = TypeOf[l]
        /\ ValidFor(Part(ids), m, atoms)
  BY <1>1 DEF PositiveMatches, atoms
<1>5. Whole(ids, m) \in PositiveMatches(input) <=>
        /\ \A l \in Positive : input[Whole(ids, m)[l]].type = TypeOf[l]
        /\ ValidFor(input, Whole(ids, m), atoms)
  BY <1>2 DEF PositiveMatches, atoms
<1> QED
  BY <1>1, <1>3, <1>4, <1>5

LEMMA InvalidatesInPart ==
    ASSUME NEW ids, Ordered(ids), NEW m \in [Positive -> DOMAIN ids],
           NEW n \in Negative, NEW i \in DOMAIN ids
    PROVE  /\ AcceptedBy(Part(ids), n, i) <=> AcceptedBy(input, n, ids[i])
           /\ Invalidates(Part(ids), n, m, i) <=>
                Invalidates(input, n, Whole(ids, m), ids[i])
<1> DEFINE atoms == {a \in Condition : n \in a.on /\ a.on # {n}}
           f == [k \in Positive \cup {n} |-> IF k = n THEN i ELSE m[k]]
           g == [k \in Positive \cup {n} |-> IF k = n THEN ids[i] ELSE Whole(ids, m)[k]]
<1>1. Part(ids)[i] = input[ids[i]]
  BY OrderedFacts
<1>2. AcceptedBy(Part(ids), n, i) <=> AcceptedBy(input, n, ids[i])
  <2>1. ASSUME NEW a \in Condition, a.on = {n}
        PROVE  Satisfies(Part(ids), [k \in {n} |-> i], a)
                    <=> Satisfies(input, [k \in {n} |-> ids[i]], a)
    BY <1>1, <2>1 DEF Satisfies
  <2> QED
    BY <1>1, <2>1 DEF AcceptedBy
<1>3. f \in [Positive \cup {n} -> DOMAIN ids]
  OBVIOUS
<1>4. g = Whole(ids, f)
  <2>1. DOMAIN f = Positive \cup {n}
    OBVIOUS
  <2>2. \A k \in Positive \cup {n} :
            (IF k = n THEN ids[i] ELSE Whole(ids, m)[k]) = ids[f[k]]
    BY DEF Whole
  <2> QED
    BY <2>1, <2>2 DEF Whole
<1>5. \A a \in atoms : a.on \subseteq Positive \cup {n}
  BY AtomNames
<1>6. ValidFor(Part(ids), f, atoms) <=> ValidFor(input, g, atoms)
  <2> HIDE DEF f, g, atoms
  <2> QED
    BY <1>3, <1>4, <1>5, ValidInPart
<1> QED
  BY <1>2, <1>6 DEF Invalidates

\* Match m of a part that ends with it is prevented there by the events that
\* prevent it in the whole input, as far as they are in the part.
LEMMA PreventedInPart ==
    ASSUME NEW ids, Ordered(ids), NEW m \in [Positive -> DOMAIN ids],
           Len(ids) \in Range(m), NEW n \in Negative, NEW i \in DOMAIN ids
    PROVE  PreventedBy(Part(ids), n, m, i)
                <=> PreventedBy(input, n, Whole(ids, m), ids[i])
<1>1. /\ DOMAIN ids = 1..Len(ids) /\ Len(ids) \in Nat
      /\ \A j \in DOMAIN ids : ids[j] \in Int
      /\ \A j, k \in DOMAIN ids : ids[j] < ids[k] <=> j < k
  BY OrderedFacts DEF EventIds
<1>2. /\ DOMAIN m = Positive /\ DOMAIN Whole(ids, m) = Positive
      /\ \A l \in Positive : m[l] \in DOMAIN ids /\ Whole(ids, m)[l] = ids[m[l]]
  BY DEF Whole
<1>3. PICK l \in Positive : m[l] = Len(ids)
  BY <1>2 DEF Range
<1>4. Completed(m) = Len(ids)
  <2>1. \A d \in Range(m) : d \in Int /\ d <= Len(ids)
    BY <1>1, <1>2 DEF Range
  <2> QED
    BY <2>1, CompletedIs
<1>5. Completed(Whole(ids, m)) = ids[Len(ids)]
  <2>1. ids[Len(ids)] \in Range(Whole(ids, m))
    BY <1>2, <1>3 DEF Range
  <2>2. ASSUME NEW k \in Positive
        PROVE  ids[m[k]] \in Int /\ ids[m[k]] <= ids[Len(ids)]
    <3>1. m[k] \in 1..Len(ids)
      BY <1>1, <1>2
    <3>2. Len(ids) \in DOMAIN ids
      BY <1>2, <1>3
    <3>3. ~ ids[Len(ids)] < ids[m[k]]
      BY <1>1, <3>1, <3>2
    <3> QED
      BY <1>1, <3>1, <3>2, <3>3
  <2>3. \A d \in Range(Whole(ids, m)) : d \in Int /\ d <= ids[Len(ids)]
    BY <1>2, <2>2 DEF Range
  <2> HIDE DEF Whole
  <2> QED
    BY <2>1, <2>3, CompletedIs
<1>6. Len(ids) \in DOMAIN ids
  BY <1>2, <1>3
<1>7. i < Completed(m) <=> ids[i] < Completed(Whole(ids, m))
  BY <1>1, <1>4, <1>5, <1>6
<1> QED
  BY <1>7, InvalidatesInPart DEF PreventedBy

\* The matches a unit finds with the last event of its part: those of the input
\* that the event completes and no event of the part prevents.
LEMMA NewMatchesAre ==
    ASSUME NEW ids, Ordered(ids), ids # <<>>
    PROVE  NewMatches(ids) =
            {w \in PositiveMatches(input) :
                /\ Range(w) \subseteq Range(ids)
                /\ ids[Len(ids)] \in Range(w)
                /\ \A n \in Negative, e \in Range(ids) : ~ PreventedBy(input, n, w, e)}
<1> DEFINE Right == {w \in PositiveMatches(input) :
                /\ Range(w) \subseteq Range(ids)
                /\ ids[Len(ids)] \in Range(w)
                /\ \A n \in Negative, e \in Range(ids) : ~ PreventedBy(input, n, w, e)}
           Own == {q \in Demanded(Part(ids)) : Len(Part(ids)) \in Range(q)}
<1>1. /\ DOMAIN ids = 1..Len(ids) /\ Len(ids) \in Nat \ {0}
      /\ Len(Part(ids)) = Len(ids)
      /\ \A i, j \in DOMAIN ids : ids[i] = ids[j] => i = j
  <2>1. ids \in Seq(EventIds)
    BY DEF Ordered
  <2>2. Len(ids) # 0
    BY <2>1
  <2> QED
    BY <2>2, OrderedFacts
<1>2. NewMatches(ids) = {[l \in Positive |-> ids[m[l]]] : m \in Own}
  BY DEF NewMatches, Part
<1>3. ASSUME NEW m \in [Positive -> DOMAIN ids]
      PROVE  m \in Own <=> Whole(ids, m) \in Right
  <2>1. m \in PositiveMatches(Part(ids)) <=> Whole(ids, m) \in PositiveMatches(input)
    BY PositiveInPart
  <2>2. /\ DOMAIN m = Positive /\ DOMAIN Whole(ids, m) = Positive
        /\ \A l \in Positive : m[l] \in DOMAIN ids /\ Whole(ids, m)[l] = ids[m[l]]
    BY DEF Whole
  <2>3. Range(Whole(ids, m)) \subseteq Range(ids)
    BY <2>2 DEF Range
  <2>4. Len(ids) \in Range(m) <=> ids[Len(ids)] \in Range(Whole(ids, m))
    BY <1>1, <2>2 DEF Range
  <2>5. ASSUME Len(ids) \in Range(m)
        PROVE  Prevented(Part(ids), m) <=>
                \E n \in Negative, e \in Range(ids) : PreventedBy(input, n, Whole(ids, m), e)
    <3>1. \A n \in Negative, i \in DOMAIN ids :
            PreventedBy(Part(ids), n, m, i)
                <=> PreventedBy(input, n, Whole(ids, m), ids[i])
      BY <2>5, PreventedInPart
    <3>2. DOMAIN ids = 1..Len(Part(ids))
      BY <1>1
    <3> QED
      BY <3>1, <3>2 DEF Prevented, Range
  <2> QED
    BY <1>1, <2>1, <2>3, <2>4, <2>5 DEF Demanded
<1>4. Own \subseteq [Positive -> DOMAIN ids]
  BY <1>1 DEF Demanded, PositiveMatches
<1>5. \A m \in [Positive -> DOMAIN ids] : [l \in Positive |-> ids[m[l]]] = Whole(ids, m)
  BY DEF Whole
<1>6. ASSUME NEW w \in Right
      PROVE  \E m \in [Positive -> DOMAIN ids] : w = Whole(ids, m)
  <2>1. w \in [Positive -> 1..Len(input)] /\ Range(w) \subseteq Range(ids)
    BY DEF PositiveMatches
  <2>2. \A l \in Positive : \E i \in DOMAIN ids : w[l] = ids[i]
    BY <2>1 DEF Range
  <2> DEFINE m == [l \in Positive |-> CHOOSE i \in DOMAIN ids : w[l] = ids[i]]
  <2>3. \A l \in Positive : m[l] \in DOMAIN ids /\ w[l] = ids[m[l]]
    BY <2>2
  <2>4. m \in [Positive -> DOMAIN ids]
    BY <2>3
  <2>5. w = [l \in Positive |-> ids[m[l]]]
    BY <2>1, <2>3
  <2> QED
    BY <2>4, <2>5, <1>5
<1> HIDE DEF Own, Right
<1>7. NewMatches(ids) = Right
  BY <1>2, <1>3, <1>4, <1>5, <1>6
<1> QED
  BY <1>7 DEF Right

-----------------------------------------------------------------------------
(* The end of the input                                                    *)

LEMMA CloseUnitInv == \A u \in Unit : IInv /\ CloseUnit(u) => IInv'
<1> SUFFICES ASSUME NEW u \in Unit, IInv, CloseUnit(u) PROVE IInv'
  OBVIOUS
<1> USE DEF CloseUnit
<1>1. MainInv /\ ShapeInv
  BY DEF IInv
<1>2. MainInv'
  BY <1>1, Frame DEF MainInv
<1>3. queue'[u] = Append(queue[u], Closed) /\ queue[u] \in Seq(EventIds \cup {Closed})
  BY <1>1 DEF ShapeInv
<1>4. ShapeInv'
  <2>1. Append(queue[u], Closed) \in Seq(EventIds \cup {Closed})
    BY <1>3
  <2> QED
    BY <1>1, <2>1, Frame DEF ShapeInv
<1>5. AllHandedOut'
  BY DEF AllHandedOut
<1>6. \A v : Given(v)' = Given(v)
  BY Frame DEF Given
<1>7. ASSUME NEW v \in Unit
      PROVE  UnitInv(v)'
  <2>1. UnitInv(v)
    BY DEF IInv
  <2>2. CASE v # u
    <3>1. queue'[v] = queue[v]
      BY <1>1, <2>2 DEF ShapeInv
    <3> QED
      BY <1>5, <1>6, <2>1, <3>1, UnitStays
  <2>3. CASE v = u
    <3>1. ShareInv(u) /\ status[u] = "running"
      BY <2>1, <2>3 DEF UnitInv
    <3>2. Range(queue'[u]) = Range(queue[u]) \cup {Closed}
      BY <1>3, RangeAppend
    <3>3. /\ DOMAIN queue'[u] = DOMAIN queue[u] \cup {Len(queue[u]) + 1}
          /\ Len(queue'[u]) = Len(queue[u]) + 1
          /\ DOMAIN queue[u] = 1..Len(queue[u])
          /\ Len(queue[u]) \in Nat
          /\ \A i \in DOMAIN queue[u] : queue'[u][i] = queue[u][i]
          /\ queue'[u][Len(queue[u]) + 1] = Closed
      BY <1>3
    <3>4. \A i \in DOMAIN queue[u] : queue[u][i] # Closed
      BY DEF Range
    <3>5. ShareInv(u)'
      <4>1. \A i \in 1..(Len(queue'[u]) - 1) : queue'[u][i] # Closed
        BY <3>3, <3>4
      <4>2. Range(received'[u]) \cup (Range(queue'[u]) \ {Closed}) = Given(u)'
        BY <1>6, <3>1, <3>2 DEF ShareInv
      <4>3. \A i, j \in DOMAIN queue'[u] :
                i < j /\ queue'[u][j] # Closed => queue'[u][i] < queue'[u][j]
        BY <3>1, <3>3 DEF ShareInv
      <4>4. \A i \in DOMAIN received'[u], j \in DOMAIN queue'[u] :
                queue'[u][j] # Closed => received'[u][i] < queue'[u][j]
        BY <3>1, <3>3 DEF ShareInv
      <4> QED
        BY <1>5, <3>1, <4>1, <4>2, <4>3, <4>4 DEF ShareInv
    <3>6. \A m : HeldBy(u, m)' = HeldBy(u, m)
      BY DEF HeldBy
    <3> QED
      BY <2>1, <2>3, <3>5, <3>6, Frame DEF UnitInv, FoundInv, LossInv
  <2> QED
    BY <2>2, <2>3
<1>8. OutputInv'
  BY OutputStays DEF IInv
<1> QED
  BY <1>2, <1>4, <1>7, <1>8, Frame DEF IInv

LEMMA JoinUnitInv == \A u \in Unit : IInv /\ JoinUnit(u) => IInv'
<1> SUFFICES ASSUME NEW u \in Unit, IInv, JoinUnit(u) PROVE IInv'
  OBVIOUS
<1> USE DEF JoinUnit
<1>1. MainInv /\ ShapeInv
  BY DEF IInv
<1>2. /\ Unit = 0..(Cardinality(Unit) - 1) /\ Cardinality(Unit) \in Nat \ {0}
      /\ joined \in Unit
  BY <1>1, UnitNumbers DEF MainInv
<1>3. MainInv'
  <2>1. joined' \in 0..Cardinality(Unit) /\ joined # Cardinality(Unit)
    BY <1>2
  <2>2. ASSUME NEW v \in Unit, v < joined'
        PROVE  status[v] = "stopped"
    <3>1. v < joined \/ v = joined
      BY <1>2, <2>2
    <3> QED
      BY <1>1, <3>1 DEF MainInv
  <2> QED
    BY <1>1, <2>1, <2>2, Frame DEF MainInv
<1>4. ShapeInv'
  BY <1>1, Frame DEF ShapeInv
<1>5. AllHandedOut' /\ \A v : Given(v)' = Given(v)
  BY Frame DEF AllHandedOut, Given
<1>6. \A v \in Unit : UnitInv(v)'
  BY <1>5, UnitStays DEF IInv
<1>7. OutputInv'
  BY OutputStays DEF IInv
<1> QED
  BY <1>3, <1>4, <1>6, <1>7, Frame DEF IInv

LEMMA CloseOutputInv == IInv /\ CloseOutput => IInv'
<1> SUFFICES ASSUME IInv, CloseOutput PROVE IInv'
  OBVIOUS
<1> USE DEF CloseOutput
<1>1. MainInv' /\ ShapeInv'
  BY Frame DEF IInv, MainInv, ShapeInv
<1>2. (AllHandedOut => AllHandedOut') /\ \A v : Given(v)' = Given(v)
  BY Frame DEF AllHandedOut, Given
<1>3. \A v \in Unit : UnitInv(v)'
  BY <1>2, UnitStays DEF IInv
<1>4. OutputInv'
  BY OutputStays DEF IInv
<1> QED
  BY <1>1, <1>3, <1>4, Frame DEF IInv

-----------------------------------------------------------------------------
(* An execution unit                                                       *)

\* A step of a unit that leaves the main thread's variables alone.
LEMMA WorkFrame ==
    ASSUME MainInv, lock' \in Unit \cup {NoUnit},
           UNCHANGED <<input, algorithm, next, todo, joined, outputClosed>>,
           \A u \in Unit : status[u] = "stopped" => status'[u] = "stopped"
    PROVE  /\ MainInv'
           /\ AllHandedOut' = AllHandedOut
           /\ \A v : Given(v)' = Given(v)
<1>1. AllHandedOut' = AllHandedOut
  BY DEF AllHandedOut
<1>2. \A v : Given(v)' = Given(v)
  BY Frame DEF Given
<1> QED
  BY <1>1, <1>2, Frame DEF MainInv

LEMMA EvaluateInv == \A u \in Unit : IInv /\ Evaluate(u) => IInv'
<1> SUFFICES ASSUME NEW u \in Unit, IInv, Evaluate(u) PROVE IInv'
  OBVIOUS
<1> USE DEF Evaluate
<1> DEFINE e == Head(queue[u])
<1>1. MainInv /\ ShapeInv /\ UnitInv(u) /\ ShareInv(u)
  BY DEF IInv, UnitInv
<1>2. MainInv' /\ AllHandedOut' = AllHandedOut /\ \A v : Given(v)' = Given(v)
  BY <1>1, WorkFrame DEF MainInv
<1>3. /\ queue[u] \in Seq(EventIds \cup {Closed}) /\ received[u] \in Seq(EventIds)
      /\ queue'[u] = Tail(queue[u])
      /\ received'[u] = Append(received[u], e)
      /\ found'[u] = NewMatches(received'[u])
      /\ status[u] = "running"
  BY <1>1 DEF ShapeInv, ShareInv
<1>4. /\ DOMAIN queue'[u] = 1..(Len(queue[u]) - 1)
      /\ Len(queue'[u]) = Len(queue[u]) - 1
      /\ \A i \in 1..(Len(queue[u]) - 1) : queue'[u][i] = queue[u][i + 1]
      /\ DOMAIN queue[u] = 1..Len(queue[u])
      /\ Len(queue[u]) \in Nat \ {0}
      /\ queue[u][1] = e
  BY <1>3, TailFacts
<1>5. e \in EventIds /\ queue'[u] \in Seq(EventIds \cup {Closed})
  BY <1>3, HeadTailProperties
<1>6. received'[u] \in Seq(EventIds)
  BY <1>3, <1>5
<1>7. ShapeInv'
  <2>1. Tail(queue[u]) \in Seq(EventIds \cup {Closed})
    BY <1>3, <1>5
  <2>2. Append(received[u], e) \in Seq(EventIds)
    BY <1>3, <1>6
  <2> QED
    BY <1>1, <2>1, <2>2, Frame DEF ShapeInv
<1>8. /\ Range(queue[u]) = {e} \cup Range(queue'[u])
      /\ Range(received'[u]) = Range(received[u]) \cup {e}
  BY <1>3, RangeTail, RangeAppend
<1>9. /\ DOMAIN received'[u] = DOMAIN received[u] \cup {Len(received[u]) + 1}
      /\ DOMAIN received[u] = 1..Len(received[u])
      /\ Len(received[u]) \in Nat
      /\ Len(received'[u]) = Len(received[u]) + 1
      /\ \A i \in DOMAIN received[u] : received'[u][i] = received[u][i]
      /\ received'[u][Len(received[u]) + 1] = e
  BY <1>3
<1>20. \A i \in DOMAIN queue'[u] : /\ i \in Int /\ i + 1 \in DOMAIN queue[u] /\ 1 < i + 1
                                  /\ queue'[u][i] = queue[u][i + 1]
  BY <1>4
<1>21. 1 \in DOMAIN queue[u]
  BY <1>4
<1>10. /\ \A i \in DOMAIN received[u] : received[u][i] < e
       /\ \A j \in DOMAIN queue'[u] : queue'[u][j] # Closed => e < queue'[u][j]
  BY <1>1, <1>4, <1>20, <1>21 DEF ShareInv
<1>11. e \notin Range(received[u])
  BY <1>5, <1>10 DEF Range, EventIds
<1>12. ShareInv(u)'
  <2>1. \A i \in 1..(Len(queue'[u]) - 1) : queue'[u][i] # Closed
    BY <1>1, <1>4 DEF ShareInv
  <2>2. Range(received'[u]) \cup (Range(queue'[u]) \ {Closed}) = Given(u)'
    BY <1>1, <1>2, <1>8 DEF ShareInv
  <2>3. \A i, j \in DOMAIN received'[u] : i < j => received'[u][i] < received'[u][j]
    BY <1>1, <1>9, <1>10 DEF ShareInv
  <2>4. \A i, j \in DOMAIN queue'[u] :
            i < j /\ queue'[u][j] # Closed => queue'[u][i] < queue'[u][j]
    <3>1. \A i, j \in DOMAIN queue'[u] : i < j => i + 1 < j + 1
      BY <1>20
    <3> QED
      BY <1>1, <1>20, <3>1 DEF ShareInv
  <2>5. \A i \in DOMAIN received'[u], j \in DOMAIN queue'[u] :
            queue'[u][j] # Closed => received'[u][i] < queue'[u][j]
    <3>1. \A i \in DOMAIN received[u], j \in DOMAIN queue'[u] :
            queue'[u][j] # Closed => received[u][i] < queue'[u][j]
      BY <1>1, <1>20 DEF ShareInv
    <3> QED
      BY <1>9, <1>10, <3>1
  <2> QED
    BY <1>1, <1>2, <1>3, <1>8, <2>1, <2>2, <2>3, <2>4, <2>5 DEF ShareInv
<1>13. found'[u] = {w \in PositiveMatches(input) :
            /\ Range(w) \subseteq Range(received'[u])
            /\ received'[u][Len(received'[u])] \in Range(w)
            /\ \A n \in Negative, d \in Range(received'[u]) :
                    ~ PreventedBy(input, n, w, d)}
  <2>1. Ordered(received'[u]) /\ received'[u] # <<>>
    BY <1>6, <1>9, <1>12 DEF Ordered, ShareInv
  <2> QED
    BY <1>3, <2>1, NewMatchesAre
<1>14. received'[u][Len(received'[u])] = e
  BY <1>9
<1>15. FoundInv(u)'
  <2>1. received'[u] # <<>>
    BY <1>9
  <2> QED
    BY <1>13, <2>1 DEF FoundInv, HeldBy
<1>16. LossInv(u)'
  <2> SUFFICES ASSUME NEW m \in Demanded(input), Keeps(u, m)', HeldBy(u, m)',
                      m \notin Range(output)
               PROVE  m \in found'[u]
    BY Frame DEF LossInv
  <2>1. Keeps(u, m) /\ m \in PositiveMatches(input) /\ Range(m) \subseteq Range(received'[u])
    BY Frame DEF HeldBy
  <2>2. ~ Range(m) \subseteq Range(received[u])
    BY <1>1, <2>1 DEF UnitInv, LossInv, HeldBy
  <2>3. e \in Range(m)
    BY <1>8, <2>1, <2>2
  <2>4. Range(received'[u]) \subseteq 1..Len(input)
    <3>1. \A i \in DOMAIN received'[u] : received'[u][i] \in EventIds
      BY <1>6
    <3> QED
      BY <3>1 DEF Range, EventIds
  <2>5. \A n \in Negative, d \in Range(received'[u]) : ~ PreventedBy(input, n, m, d)
    BY <2>4 DEF Demanded, Prevented
  <2> QED
    BY <1>13, <1>14, <2>1, <2>3, <2>5
<1>17. ASSUME NEW v \in Unit
       PROVE  UnitInv(v)'
  <2>1. CASE v # u
    <3>1. /\ queue'[v] = queue[v] /\ received'[v] = received[v] /\ found'[v] = found[v]
          /\ UnitInv(v)
      BY <1>1, <2>1 DEF ShapeInv, IInv
    <3> QED
      BY <1>2, <3>1, UnitStays
  <2> QED
    BY <1>12, <1>15, <1>16, <2>1 DEF UnitInv
<1>18. OutputInv'
  <2>1. ASSUME NEW m \in Range(output)
        PROVE  \E v \in Unit : Keeps(v, m) /\ HeldBy(v, m)' /\ m \notin found'[v]
    <3>1. PICK v \in Unit : Keeps(v, m) /\ HeldBy(v, m) /\ m \notin found[v]
      BY DEF IInv, OutputInv
    <3>2. CASE v # u
      BY <1>1, <3>1, <3>2 DEF HeldBy, ShapeInv
    <3>3. CASE v = u
      <4>1. HeldBy(u, m)'
        BY <1>8, <3>1, <3>3 DEF HeldBy
      <4>2. m \notin found'[u]
        BY <1>11, <1>13, <1>14, <3>1, <3>3 DEF HeldBy
      <4> QED
        BY <3>1, <3>3, <4>1, <4>2
    <3> QED
      BY <3>2, <3>3
  <2>2. DeliveredOnce'
    BY DEF IInv, OutputInv, DeliveredOnce, IsInjective
  <2> QED
    BY <2>1, <2>2, Frame DEF IInv, OutputInv
<1> QED
  BY <1>2, <1>7, <1>17, <1>18, Frame DEF IInv

\* A unit that hands over or drops what it has found.
LEMMA UnitHandsOver ==
    ASSUME UNCHANGED <<input, algorithm, next, todo, queue, received, status>>,
           NEW u, UnitInv(u),
           found'[u] \subseteq found[u],
           \A m \in found[u] \ found'[u] : Keeps(u, m) => m \in Range(output)',
           Range(output) \subseteq Range(output)'
    PROVE  UnitInv(u)'
<1>1. Given(u)' = Given(u) /\ AllHandedOut' = AllHandedOut
  BY Frame DEF Given, AllHandedOut
<1>2. ShareInv(u)'
  BY <1>1 DEF UnitInv, ShareInv
<1>3. \A m : HeldBy(u, m)' = HeldBy(u, m)
  BY DEF HeldBy
<1>4. FoundInv(u)'
  BY <1>3 DEF UnitInv, FoundInv
<1>5. LossInv(u)'
  BY <1>3, Frame DEF UnitInv, LossInv
<1> QED
  BY <1>2, <1>4, <1>5 DEF UnitInv

LEMMA SkipInv == \A u \in Unit : IInv /\ Skip(u) => IInv'
<1> SUFFICES ASSUME NEW u \in Unit, IInv, Skip(u) PROVE IInv'
  OBVIOUS
<1> USE DEF Skip
<1>1. MainInv /\ ShapeInv
  BY DEF IInv
<1>2. PICK m \in found[u] : ~ Keeps(u, m) /\ found' = [found EXCEPT ![u] = @ \ {m}]
  OBVIOUS
<1>3. found'[u] = found[u] \ {m} /\ \A v \in Unit \ {u} : found'[v] = found[v]
  BY <1>1, <1>2 DEF ShapeInv
<1>4. MainInv' /\ ShapeInv'
  BY <1>1, <1>2, WorkFrame, Frame DEF MainInv, ShapeInv
<1>5. \A v \in Unit : UnitInv(v)'
  BY <1>2, <1>3, UnitHandsOver DEF IInv
<1>6. OutputInv'
  BY <1>3, OutputStays DEF IInv
<1> QED
  BY <1>4, <1>5, <1>6, Frame DEF IInv

LEMMA AcquireInv == \A u \in Unit : IInv /\ Acquire(u) => IInv'
<1> SUFFICES ASSUME NEW u \in Unit, IInv, Acquire(u) PROVE IInv'
  OBVIOUS
<1> USE DEF Acquire
<1>1. MainInv /\ ShapeInv
  BY DEF IInv
<1>2. MainInv' /\ ShapeInv'
  BY <1>1, WorkFrame, Frame DEF ShapeInv
<1>3. \A v \in Unit : UnitInv(v)'
  BY UnitHandsOver DEF IInv
<1>4. OutputInv'
  BY OutputStays DEF IInv
<1> QED
  BY <1>2, <1>3, <1>4, Frame DEF IInv

\* A unit that holds all events of a match is one of its common units.
LEMMA HoldersAreCommon ==
    ASSUME NEW u \in Unit, ShareInv(u), NEW m, HeldBy(u, m)
    PROVE  u \in CommonUnits(m)
<1>1. m \in [Positive -> 1..Len(input)] /\ Range(m) \subseteq Given(u)
  BY DEF HeldBy, ShareInv, PositiveMatches
<1>2. \A l \in Positive : m[l] \in Given(u)
  BY <1>1 DEF Range
<1> QED
  BY <1>2 DEF CommonUnits, Given, Share

\* At most one unit holds the events of a match and keeps it.
LEMMA KeeperUnique ==
    ASSUME MainInv, NEW u \in Unit, NEW v \in Unit, NEW m \in PositiveMatches(input),
           u \in CommonUnits(m), v \in CommonUnits(m), Keeps(u, m), Keeps(v, m)
    PROVE  u = v
<1>1. algorithm \in {"RIP", "GROUP_BY_KEY", "HYPER_CUBE"}
  BY ParallelAssumption DEF MainInv
<1>2. CASE algorithm = "RIP"
  BY <1>2 DEF Keeps
<1>3. CASE algorithm = "GROUP_BY_KEY"
  <2>1. PICK l \in Positive : TRUE
    BY NegationAssumption
  <2>2. u \in Classifier(m[l]) /\ v \in Classifier(m[l])
    BY DEF CommonUnits
  <2> QED
    BY <1>3, <2>2 DEF Classifier
<1>4. CASE algorithm = "HYPER_CUBE"
  <2>1. u <= v /\ v <= u
    BY <1>4 DEF Keeps
  <2>2. u \in Int /\ v \in Int
    BY UnitNumbers DEF MainInv
  <2> QED
    BY <2>1, <2>2
<1> QED
  BY <1>1, <1>2, <1>3, <1>4

\* What a unit is to hand over is not yet in the output.
LEMMA FoundIsNew ==
    ASSUME IInv, NEW u \in Unit, NEW m \in found[u], Keeps(u, m)
    PROVE  m \in PositiveMatches(input) /\ m \notin Range(output)
<1>1. HeldBy(u, m) /\ ShareInv(u)
  BY DEF IInv, UnitInv, FoundInv
<1>2. ASSUME m \in Range(output)
      PROVE  FALSE
  <2>1. PICK v \in Unit : Keeps(v, m) /\ HeldBy(v, m) /\ m \notin found[v]
    BY <1>2 DEF IInv, OutputInv
  <2>2. ShareInv(v)
    BY DEF IInv, UnitInv
  <2>3. u \in CommonUnits(m) /\ v \in CommonUnits(m)
    BY <1>1, <2>1, <2>2, HoldersAreCommon
  <2>4. u = v
    BY <1>1, <2>1, <2>3, KeeperUnique DEF IInv, HeldBy
  <2> QED
    BY <2>1, <2>4
<1> QED
  BY <1>1, <1>2 DEF HeldBy

LEMMA DeliverInv == \A u \in Unit : IInv /\ Deliver(u) => IInv'
<1> SUFFICES ASSUME NEW u \in Unit, IInv, Deliver(u) PROVE IInv'
  OBVIOUS
<1> USE DEF Deliver
<1>1. MainInv /\ ShapeInv /\ OutputInv
  BY DEF IInv
<1>2. PICK m \in found[u] : /\ Keeps(u, m)
                            /\ output' = Append(output, m)
                            /\ found' = [found EXCEPT ![u] = @ \ {m}]
  OBVIOUS
<1>3. found'[u] = found[u] \ {m} /\ \A v \in Unit \ {u} : found'[v] = found[v]
  BY <1>1, <1>2 DEF ShapeInv
<1>4. m \in PositiveMatches(input) /\ m \notin Range(output) /\ HeldBy(u, m)
  BY <1>2, FoundIsNew DEF IInv, UnitInv, FoundInv
<1>5. output \in Seq(PositiveMatches(input)) /\ Range(output)' = Range(output) \cup {m}
  BY <1>1, <1>2, RangeAppend DEF OutputInv
<1>6. MainInv' /\ ShapeInv'
  BY <1>1, <1>2, WorkFrame, Frame DEF MainInv, ShapeInv
<1>7. \A v \in Unit : UnitInv(v)'
  BY <1>2, <1>3, <1>5, UnitHandsOver DEF IInv
<1>8. OutputInv'
  <2>1. output' \in Seq(PositiveMatches(input))
    BY <1>2, <1>4, <1>5
  <2>2. \A v, w : HeldBy(v, w)' = HeldBy(v, w)
    BY DEF HeldBy
  <2>3. \A w \in Range(output)' :
            \E v \in Unit : Keeps(v, w) /\ HeldBy(v, w) /\ w \notin found'[v]
    BY <1>1, <1>2, <1>3, <1>4, <1>5 DEF OutputInv
  <2>4. DeliveredOnce'
    <3>1. /\ DOMAIN output' = DOMAIN output \cup {Len(output) + 1}
          /\ \A i \in DOMAIN output : output'[i] = output[i] /\ output[i] # m
          /\ output'[Len(output) + 1] = m
      BY <1>2, <1>4, <1>5 DEF Range
    <3> QED
      BY <1>1, <3>1 DEF OutputInv, DeliveredOnce, IsInjective
  <2> QED
    BY <2>1, <2>2, <2>3, <2>4, Frame DEF OutputInv
<1> QED
  BY <1>6, <1>7, <1>8, Frame DEF IInv

LEMMA StopInv == \A u \in Unit : IInv /\ Stop(u) => IInv'
<1> SUFFICES ASSUME NEW u \in Unit, IInv, Stop(u) PROVE IInv'
  OBVIOUS
<1> USE DEF Stop
<1>1. MainInv /\ ShapeInv /\ UnitInv(u) /\ ShareInv(u)
  BY DEF IInv, UnitInv
<1>2. /\ queue[u] \in Seq(EventIds \cup {Closed})
      /\ queue'[u] = Tail(queue[u]) /\ status'[u] = "stopped"
  BY <1>1 DEF ShapeInv
<1>3. MainInv' /\ AllHandedOut' = AllHandedOut /\ \A v : Given(v)' = Given(v)
  <2>1. \A v \in Unit : status[v] = "stopped" => status'[v] = "stopped"
    BY <1>1 DEF ShapeInv
  <2> QED
    BY <1>1, <2>1, WorkFrame DEF MainInv
<1>4. queue[u][1] = Closed /\ Len(queue[u]) \in Nat \ {0} /\ DOMAIN queue[u] = 1..Len(queue[u])
  BY <1>2, TailFacts
<1>5. Len(queue[u]) = 1
  <2> SUFFICES ASSUME Len(queue[u]) # 1 PROVE FALSE
    OBVIOUS
  <2>1. \A n \in Nat \ {0} : n # 1 => 1 \in 1..(n - 1)
    BY ONLY SMT
  <2>2. 1 \in 1..(Len(queue[u]) - 1)
    BY <1>4, <2>1
  <2> QED
    BY <1>1, <1>4, <2>2 DEF ShareInv
<1>6. queue'[u] = <<>>
  <2>1. Tail(queue[u]) \in Seq(EventIds \cup {Closed})
    BY <1>2, HeadTailProperties
  <2>2. Len(Tail(queue[u])) = 0
    BY <1>2, <1>5, TailFacts
  <2>3. Tail(queue[u]) = <<>>
    BY ONLY <2>1, <2>2, EmptySeq
  <2> QED
    BY <1>2, <2>3
<1>7. ShapeInv'
  BY <1>1, <1>2, <1>6, Frame DEF ShapeInv
<1>8. AllHandedOut /\ Range(queue[u]) = {Closed}
  <2>1. Range(queue[u]) = {Closed}
    BY <1>4, <1>5 DEF Range
  <2> QED
    BY <1>1, <2>1 DEF ShareInv
<1>9. ShareInv(u)'
  <2>1. Range(queue'[u]) = {} /\ DOMAIN queue'[u] = {}
    BY <1>6 DEF Range
  <2>2. Len(queue'[u]) = 0
    BY <1>6
  <2> QED
    BY <1>1, <1>3, <1>6, <1>8, <2>1, <2>2 DEF ShareInv
<1>10. ASSUME NEW v \in Unit
       PROVE  UnitInv(v)'
  <2>1. UnitInv(v)
    BY DEF IInv
  <2>2. CASE v # u
    <3>1. queue'[v] = queue[v] /\ status'[v] = status[v]
      BY <1>1, <2>2 DEF ShapeInv
    <3> QED
      BY <1>3, <2>1, <3>1, UnitStays
  <2>3. CASE v = u
    <3>1. \A m : HeldBy(u, m)' = HeldBy(u, m)
      BY DEF HeldBy
    <3> QED
      BY <1>9, <2>1, <2>3, <3>1, Frame DEF UnitInv, FoundInv, LossInv
  <2> QED
    BY <2>2, <2>3
<1>11. OutputInv'
  BY OutputStays DEF IInv
<1> QED
  BY <1>3, <1>7, <1>10, <1>11, Frame DEF IInv

-----------------------------------------------------------------------------
(* Every way to split the input                                            *)

LEMMA StutterInv == IInv /\ UNCHANGED vars => IInv'
<1> SUFFICES ASSUME IInv, UNCHANGED vars PROVE IInv'
  OBVIOUS
<1> USE DEF vars
<1>1. MainInv' /\ ShapeInv'
  BY Frame DEF IInv, MainInv, ShapeInv
<1>2. \A u \in Unit : UnitInv(u)'
  BY UnitHandsOver DEF IInv
<1>3. OutputInv'
  BY OutputStays DEF IInv
<1> QED
  BY <1>1, <1>2, <1>3, Frame DEF IInv

LEMMA NextInv == IInv /\ [Next]_vars => IInv'
<1> SUFFICES ASSUME IInv, [Next]_vars PROVE IInv'
  OBVIOUS
<1>1. CASE Main
  BY <1>1, ClassifyInv, HandOutInv, CloseUnitInv, JoinUnitInv, CloseOutputInv DEF Main
<1>2. CASE \E u \in Unit : Work(u)
  BY <1>2, EvaluateInv, SkipInv, AcquireInv, DeliverInv, StopInv DEF Work
<1> QED
  BY <1>1, <1>2, StutterInv DEF Next

\* The invariant and its parts, for every reachable state.
THEOREM Invariance == Spec => []IInv
BY InitInv, NextInv, PTL DEF Spec

LEMMA TypeByInvariant == IInv => TypeOK
<1> SUFFICES ASSUME IInv PROVE TypeOK
  OBVIOUS
<1>1. MainInv /\ ShapeInv /\ OutputInv
  BY DEF IInv
<1>2. PositiveMatches(input) \subseteq [Positive -> EventIds]
  BY DEF PositiveMatches, EventIds
<1>3. \A S : \A s \in Seq(S) : Range(s) \subseteq S
  <2>1. \A S : \A s \in Seq(S) : \A i \in DOMAIN s : s[i] \in S
    OBVIOUS
  <2> QED
    BY <2>1 DEF Range
<1>4. ASSUME NEW u \in Unit
      PROVE  /\ Range(queue[u]) \subseteq EventIds \cup {Closed}
             /\ \A i \in 1..(Len(queue[u]) - 1) : queue[u][i] # Closed
             /\ Range(received[u]) \subseteq EventIds
             /\ found[u] \subseteq [Positive -> EventIds]
             /\ status[u] \in {"running", "stopped"}
             /\ status[u] = "stopped" => queue[u] = <<>> /\ found[u] = {}
  <2>1. ShareInv(u) /\ FoundInv(u)
    BY DEF IInv, UnitInv
  <2>2. /\ queue[u] \in Seq(EventIds \cup {Closed}) /\ received[u] \in Seq(EventIds)
        /\ status[u] \in {"running", "stopped"}
    BY <1>1 DEF ShapeInv
  <2>3. found[u] \subseteq [Positive -> EventIds]
    BY <1>2, <2>1 DEF FoundInv, HeldBy
  <2> QED
    BY <1>3, <2>1, <2>2, <2>3 DEF ShareInv
<1>5. Range(output) \subseteq [Positive -> EventIds]
  BY <1>1, <1>2, <1>3 DEF OutputInv
<1> QED
  BY <1>1, <1>4, <1>5 DEF MainInv, TypeOK

\* The type invariant, with the discipline of the queues: a queue is closed at
\* most once, nothing follows, and a unit stops only when all is done.
THEOREM TypeCorrect == Spec => []TypeOK
BY Invariance, TypeByInvariant, PTL

\* No match is delivered twice, whatever the interleaving of the units and the
\* way the input is split: the filters of all units together let each match
\* pass once (_create_skip_item).
THEOREM NoMatchDeliveredTwice == Spec => []DeliveredOnce
<1>1. IInv => DeliveredOnce
  BY DEF IInv, OutputInv
<1> QED
  BY <1>1, Invariance, PTL

-----------------------------------------------------------------------------
(* The ranges of RIP                                                       *)

\* Of three times, the outer two no more than an interval apart, the middle one is
\* in the time range of one of the outer two.
LEMMA RangeBetween ==
    ASSUME NEW i \in Nat \ {0}, NEW x \in Int, NEW y \in Int, NEW z \in Int,
           x <= y, y <= z, z - x <= i
    PROVE  y \div i = x \div i \/ y \div i = z \div i
<1> DEFINE a == x \div i
           b == y \div i
           c == z \div i
<1>1. /\ a \in Int /\ i * a <= x /\ x < i * a + i
      /\ b \in Int /\ i * b <= y /\ y < i * b + i
      /\ c \in Int /\ i * c <= z /\ z < i * c + i
  BY DivisionBounds
<1> HIDE DEF a, b, c
<1>2. \A d \in Int : i * (d + 1) = i * d + i /\ i * d \in Int
  OBVIOUS
<1>3. a <= b
  <2> SUFFICES ASSUME b + 1 <= a PROVE FALSE
    BY <1>1
  <2>1. i * (b + 1) <= i * a
    BY <1>1, MultipleMonotone
  <2> QED
    BY <1>1, <1>2, <2>1
<1>4. b <= c
  <2> SUFFICES ASSUME c + 1 <= b PROVE FALSE
    BY <1>1
  <2>1. i * (c + 1) <= i * b
    BY <1>1, MultipleMonotone
  <2> QED
    BY <1>1, <1>2, <2>1
<1>5. b = a \/ b = c
  <2> SUFFICES ASSUME a + 1 <= b, b + 1 <= c PROVE FALSE
    BY <1>1, <1>3, <1>4
  <2>1. i * (a + 1) <= i * b /\ i * (b + 1) <= i * c
    BY <1>1, MultipleMonotone
  <2> QED
    BY <1>1, <1>2, <2>1
<1> QED
  BY <1>5 DEF a, b, c

-----------------------------------------------------------------------------
(* Splits that agree with the pattern                                      *)

\* The split agrees with the pattern and the input: of every demanded match some
\* unit gets all events and keeps it, and a unit that gets all events of a match
\* and keeps it gets the negative events that prevent it.
SplitAgrees ==
    /\ \A m \in Demanded(input) : \E u \in CommonUnits(m) : Keeps(u, m)
    /\ \A m \in PositiveMatches(input) : \A u \in CommonUnits(m) :
        Keeps(u, m) =>
            \A n \in Negative, e \in EventIds :
                PreventedBy(input, n, m, e) => u \in Classifier(e)

\* Every negated event follows a positive one in the pattern.
NegationsFollow == \A n \in Negative : \E p \in Positive : Index[p] < Index[n]

\* All events of a match, and the ones that prevent it, have one key.
OneKey(s) ==
    \A m \in PositiveMatches(s) :
        /\ \A k, l \in Positive : s[m[k]].val = s[m[l]].val
        /\ \A n \in Negative, e \in 1..Len(s), l \in Positive :
                PreventedBy(s, n, m, e) => s[e].val = s[m[l]].val

LEMMA FirstTimestampIs ==
    ASSUME input \in Inputs, NEW m \in PositiveMatches(input)
    PROVE  /\ FirstTimestamp(m) \in Nat
           /\ \E l \in Positive : FirstTimestamp(m) = input[m[l]].ts
           /\ \A l \in Positive : FirstTimestamp(m) <= input[m[l]].ts
<1> DEFINE T == {input[m[l]].ts : l \in Positive}
<1>1. m \in [Positive -> EventIds] /\ Positive # {}
  BY NegationAssumption DEF PositiveMatches, EventIds
<1>2. T \subseteq Nat /\ T # {}
  BY <1>1, InputEvents
<1>3. PICK t \in T : \A x \in T : ~ (<<x, t>> \in OpToRel(<, Nat))
  BY <1>2, NatLessThanWellFounded, WFMin
<1>4. \A x \in T : t <= x
  <2> HIDE DEF T
  <2>1. \A x \in T : ~ (x < t)
    BY <1>2, <1>3 DEF OpToRel
  <2> QED
    BY <1>2, <2>1
<1>5. \A l \in Positive : t <= input[m[l]].ts
  BY <1>4
<1>6. FirstTimestamp(m) = CHOOSE x \in T : \A l \in Positive : x <= input[m[l]].ts
  BY DEF FirstTimestamp
<1>7. FirstTimestamp(m) \in T /\ \A l \in Positive : FirstTimestamp(m) <= input[m[l]].ts
  BY <1>5, <1>6
<1> QED
  BY <1>2, <1>7

\* An event at most a window after the first of a match reaches the unit in
\* charge of the match.
LEMMA ReachesRange ==
    ASSUME input \in Inputs, algorithm = "RIP", NEW e \in EventIds, NEW t \in Nat,
           t <= input[e].ts, input[e].ts - t <= Window
    PROVE  UnitOfTime(t) \in Classifier(e)
<1>1. Interval \in Nat \ {0} /\ Interval >= Window /\ Window \in Nat
  BY ParallelAssumption, NegationAssumption
<1>2. input[e].ts \in Nat /\ input[1].ts \in Nat
  BY InputEvents DEF EventIds
<1> DEFINE x == input[e].ts - Window - input[1].ts
           y == t - input[1].ts
           z == input[e].ts - input[1].ts
<1>3. /\ x \in Int /\ y \in Int /\ z \in Int
      /\ x <= y /\ y <= z /\ z - x <= Interval
  BY <1>1, <1>2
<1>4. y \div Interval = x \div Interval \/ y \div Interval = z \div Interval
  <2> HIDE DEF x, y, z
  <2> QED
    BY ONLY <1>1, <1>3, RangeBetween
<1> QED
  BY <1>4 DEF Classifier, UnitOfTime

\* The ranges of RIP agree with every pattern whose negated events follow a
\* positive one: all events that matter come in the window that starts with
\* the first event of the match.
LEMMA RIPAgrees ==
    ASSUME Init, algorithm = "RIP", NegationsFollow
    PROVE  SplitAgrees
<1>1. input \in Inputs
  BY DEF Init
<1>2. ASSUME NEW m \in PositiveMatches(input)
      PROVE  \A l \in Positive : UnitOfTime(FirstTimestamp(m)) \in Classifier(m[l])
  <2>1. PICK k \in Positive : FirstTimestamp(m) = input[m[k]].ts
    BY <1>1, FirstTimestampIs
  <2>2. \A l \in Positive : input[m[l]].ts - input[m[k]].ts <= Window
    BY DEF PositiveMatches, ValidFor
  <2>3. \A l \in Positive : m[l] \in EventIds
    BY DEF PositiveMatches, EventIds
  <2> QED
    BY <1>1, <2>1, <2>2, <2>3, FirstTimestampIs, ReachesRange
<1>3. ASSUME NEW m \in PositiveMatches(input)
      PROVE  UnitOfTime(FirstTimestamp(m)) \in Unit
  <2>1. UnitsNumber \in Nat \ {0} /\ Interval \in Nat \ {0}
    BY ParallelAssumption
  <2>2. FirstTimestamp(m) \in Nat /\ input[1].ts \in Nat
    BY <1>1, FirstTimestampIs, InputEvents DEF EventIds
  <2>3. UnitOfTime(FirstTimestamp(m)) \in 0..(UnitsNumber - 1)
    BY <2>1, <2>2 DEF UnitOfTime
  <2> QED
    BY <2>3 DEF Unit
<1>4. ASSUME NEW m \in Demanded(input)
      PROVE  \E u \in CommonUnits(m) : Keeps(u, m)
  <2>1. m \in PositiveMatches(input)
    BY DEF Demanded
  <2> QED
    BY <1>2, <1>3, <2>1 DEF CommonUnits, Keeps
<1>5. ASSUME NEW m \in PositiveMatches(input), NEW n \in Negative, NEW e \in EventIds,
             PreventedBy(input, n, m, e)
      PROVE  UnitOfTime(FirstTimestamp(m)) \in Classifier(e)
  <2> DEFINE f == [k \in Positive \cup {n} |-> IF k = n THEN e ELSE m[k]]
  <2>1. n \notin Positive
    BY NegationAssumption
  <2>2. PICK p \in Positive : Index[p] < Index[n]
    BY DEF NegationsFollow
  <2>3. /\ DOMAIN f = Positive \cup {n}
        /\ f[n] = e
        /\ \A k \in Positive : f[k] = m[k]
    BY <2>1
  <2>4. Operator = "SEQ"
    BY TermsAssumption, NegationAssumption DEF Unbounded
  <2>5. input[m[p]].ts <= input[e].ts
    <3>1. ValidFor(input, f, {a \in Condition : n \in a.on /\ a.on # {n}})
      BY <1>5 DEF PreventedBy, Invalidates
    <3> HIDE DEF f
    <3>2. input[f[p]].ts <= input[f[n]].ts
      BY <2>2, <2>3, <2>4, <3>1 DEF ValidFor
    <3> QED
      BY <2>3, <3>2
  <2>6. \A k \in Positive : input[e].ts - input[m[k]].ts <= Window
    <3>1. ValidFor(input, f, {a \in Condition : n \in a.on /\ a.on # {n}})
      BY <1>5 DEF PreventedBy, Invalidates
    <3> HIDE DEF f
    <3>2. \A k \in Positive : input[f[n]].ts - input[f[k]].ts <= Window
      BY <2>3, <3>1 DEF ValidFor
    <3> QED
      BY <2>3, <3>2
  <2>7. FirstTimestamp(m) \in Nat /\ FirstTimestamp(m) <= input[m[p]].ts
    BY <1>1, FirstTimestampIs
  <2>8. input[e].ts \in Nat /\ input[m[p]].ts \in Nat
    BY <1>1, InputEvents DEF PositiveMatches, EventIds
  <2>9. FirstTimestamp(m) <= input[e].ts
    BY <2>5, <2>7, <2>8
  <2>10. input[e].ts - FirstTimestamp(m) <= Window
    BY <1>1, <2>6, FirstTimestampIs
  <2> QED
    BY <1>1, <2>7, <2>9, <2>10, ReachesRange
<1> QED
  BY <1>4, <1>5 DEF SplitAgrees, Keeps

\* One key for all: a unit gets all events with it.
LEMMA GroupByKeyAgrees ==
    ASSUME Init, algorithm = "GROUP_BY_KEY", OneKey(input)
    PROVE  SplitAgrees
<1>1. input \in Inputs
  BY DEF Init
<1>2. PICK l \in Positive : TRUE
  BY NegationAssumption
<1>3. ASSUME NEW m \in PositiveMatches(input)
      PROVE  /\ input[m[l]].val % UnitsNumber \in CommonUnits(m)
             /\ \A u \in CommonUnits(m) : u = input[m[l]].val % UnitsNumber
  <2>1. m[l] \in EventIds /\ UnitsNumber \in Nat \ {0}
    BY ParallelAssumption DEF PositiveMatches, EventIds
  <2>2. input[m[l]].val % UnitsNumber \in Unit
    BY <1>1, <2>1, InputEvents DEF Unit
  <2>3. \A k \in Positive : input[m[k]].val = input[m[l]].val
    BY DEF OneKey
  <2> QED
    BY <2>2, <2>3 DEF CommonUnits, Classifier
<1>4. ASSUME NEW m \in PositiveMatches(input), NEW n \in Negative, NEW e \in EventIds,
             PreventedBy(input, n, m, e)
      PROVE  input[e].val = input[m[l]].val
  BY <1>4 DEF OneKey, EventIds
<1> QED
  BY <1>3, <1>4 DEF SplitAgrees, Keeps, Classifier, Demanded

-----------------------------------------------------------------------------
(* The faces of the cube                                                   *)

\* A step in a dimension passes whole multiples of each dimension after it.
LEMMA StrideMultiple ==
    ASSUME Shape # <<>>, NEW i \in 1..Len(Shape), NEW k \in 1..Len(Shape), k < i
    PROVE  \E q \in Nat : Stride(k) = q * (Shape[i] * Stride(i))
<1>1. PICK n : /\ n = Len(Shape) /\ n \in Nat \ {0}
               /\ \A j \in 1..n : Shape[j] \in Nat \ {0} /\ Stride(j) \in Nat \ {0}
               /\ \A j \in 1..(n - 1) : Stride(j) = Shape[j + 1] * Stride(j + 1)
  BY Strides
<1>2. PICK m \in Nat \ {0} : m = i - 1 /\ k \in 1..m /\ m \in 1..(n - 1) /\ m + 1 = i
  <2>1. i - 1 \in Nat \ {0} /\ k \in 1..(i - 1) /\ i - 1 \in 1..(n - 1) /\ (i - 1) + 1 = i
    BY <1>1
  <2> QED
    BY <2>1
<1>3. PICK w \in Nat : w = Shape[i] * Stride(i)
  <2>1. Shape[i] \in Nat /\ Stride(i) \in Nat
    BY <1>1
  <2>2. \A a, b \in Nat : a * b \in Nat
    OBVIOUS
  <2> QED
    BY <2>1, <2>2
<1>4. PICK S : S = {j \in 1..m : \E q \in Nat : Stride(j) = q * w}
  OBVIOUS
<1>5. m \in S
  <2>1. Stride(m) = w
    BY <1>1, <1>2, <1>3
  <2>2. w = 1 * w /\ m \in 1..m /\ 1 \in Nat
    BY <1>2
  <2> QED
    BY <1>4, <2>1, <2>2
<1>6. ASSUME NEW j \in 1..(m - 1), j + 1 \in S
      PROVE  j \in S
  <2>1. PICK q \in Nat : Stride(j + 1) = q * w
    BY <1>4, <1>6
  <2>2. j \in 1..(n - 1) /\ j + 1 \in 1..n /\ j \in 1..m
    BY <1>1, <1>2
  <2>3. Stride(j) = Shape[j + 1] * (q * w) /\ Shape[j + 1] \in Nat
    BY <1>1, <2>1, <2>2
  <2>4. PICK a \in Nat : a = Shape[j + 1]
    BY <2>3
  <2>5. a * (q * w) = (a * q) * w /\ a * q \in Nat
    <3>1. q \in Nat /\ w \in Nat /\ a \in Nat
      BY <1>3, <2>1, <2>4
    <3>2. \A x, y, z \in Nat : x * (y * z) = (x * y) * z /\ x * y \in Nat
      OBVIOUS
    <3> QED
      BY <3>1, <3>2
  <2>6. Stride(j) = (a * q) * w
    BY <2>3, <2>4, <2>5
  <2> QED
    BY <1>4, <2>2, <2>5, <2>6
<1>7. 1..m \subseteq S
  BY <1>2, <1>5, <1>6, Downward
<1> QED
  BY <1>2, <1>3, <1>4, <1>7

\* One more dimension before dimension k + 1: the unit of row x with the given
\* coordinates after it.
LEMMA RowUnit ==
    ASSUME Shape # <<>>, NEW k \in 1..(Len(Shape) - 1), NEW x \in 0..(Shape[k] - 1),
           NEW v \in 0..(Stride(k) - 1), NEW u, u = Stride(k) * x + v
    PROVE  /\ u \in 0..(Stride(k) * Shape[k] - 1)
           /\ Coordinate(u, k) = x
           /\ \A i \in (k + 1)..Len(Shape) : Coordinate(u, i) = Coordinate(v, i)
<1>1. PICK n : /\ n = Len(Shape) /\ n \in Nat \ {0}
               /\ \A j \in 1..n : Shape[j] \in Nat \ {0} /\ Stride(j) \in Nat \ {0}
  BY Strides
<1>2. PICK t \in Nat \ {0}, s \in Nat \ {0} : t = Stride(k) /\ s = Shape[k]
  <2>1. k \in 1..n
    BY <1>1
  <2> QED
    BY <1>1, <2>1
<1>3. x \in Nat /\ v \in Nat /\ x <= s - 1 /\ v < t /\ u = t * x + v
  BY <1>2
<1>4. t * x <= t * (s - 1) /\ t * (s - 1) = t * s - t /\ t * x \in Nat /\ t * s \in Nat
  <2>1. t * x <= t * (s - 1)
    BY <1>3, MultipleMonotone
  <2>2. t * (s - 1) = t * s - t /\ t * s \in Nat
    OBVIOUS
  <2>3. t * x \in Nat
    BY <1>3
  <2> QED
    BY <2>1, <2>2, <2>3
<1>5. u \in 0..(t * s - 1)
  <2>1. PICK w \in Nat, z \in Nat : w = t * x /\ z = t * s
    BY <1>4
  <2>2. w <= z - t /\ u = w + v
    BY <1>3, <1>4, <2>1
  <2>3. u \in 0..(z - 1)
    BY ONLY <1>3, <2>1, <2>2, t \in Nat \ {0}
  <2> QED
    BY <2>1, <2>3
<1>6. Coordinate(u, k) = x
  <2>1. u \div t = x
    <3>1. PICK w \in Nat : w = t * x
      BY <1>4
    <3>2. u \in Int /\ w <= u /\ u < w + t
      BY ONLY <1>3, <3>1, t \in Nat \ {0}
    <3>3. u \in Int /\ t * x <= u /\ u < t * x + t
      BY <3>1, <3>2
    <3>4. x \in Int
      BY <1>3
    <3> QED
      BY ONLY <3>3, <3>4, t \in Nat \ {0}, QuotientIs
  <2>2. x % s = x
    BY <1>3
  <2> QED
    BY <1>2, <2>1, <2>2 DEF Coordinate
<1>7. ASSUME NEW i \in (k + 1)..n
      PROVE  Coordinate(u, i) = Coordinate(v, i)
  <2>1. i \in 1..n /\ k \in 1..n /\ k < i
    BY <1>1
  <2>2. PICK r \in Nat \ {0}, c \in Nat \ {0} : r = Stride(i) /\ c = Shape[i]
    BY <1>1, <2>1
  <2>3. PICK q \in Nat : t = q * (c * r)
    BY <1>1, <1>2, <2>1, <2>2, StrideMultiple
  <2>4. PICK a \in Int : t * x = r * (c * a)
    <3>1. q * x \in Int /\ (q * (c * r)) * x = r * (c * (q * x))
      <4>1. \A d, e \in Nat : d * e \in Int
        OBVIOUS
      <4>2. \A d, e, f, g \in Nat : (d * (e * f)) * g = f * (e * (d * g))
        OBVIOUS
      <4>3. q \in Nat /\ x \in Nat /\ c \in Nat /\ r \in Nat
        BY <1>3
      <4> QED
        BY ONLY <4>1, <4>2, <4>3
    <3> QED
      BY <2>3, <3>1
  <2>5. PICK b \in Int : b = c * a
    OBVIOUS
  <2>6. u \div r = b + v \div r
    <3>1. u = r * b + v /\ v \in Int
      BY <1>3, <2>4, <2>5
    <3>2. (r * b + v) \div r = b + v \div r
      BY <3>1, QuotientShifts
    <3> QED
      BY <3>1, <3>2
  <2>7. PICK y \in Int : y = v \div r
    <3>1. v \in Int
      BY <1>3
    <3> QED
      BY <3>1, DivisionBounds
  <2>8. (c * a + y) % c = y % c
    BY RestStays
  <2> QED
    BY <2>2, <2>5, <2>6, <2>7, <2>8 DEF Coordinate
<1> QED
  BY <1>1, <1>2, <1>5, <1>6, <1>7

\* Whatever the coordinates, some unit of the cube has them.
LEMMA UnitAt ==
    ASSUME Shape # <<>>, NEW c, \A d \in DOMAIN Shape : c[d] \in 0..(Shape[d] - 1)
    PROVE  \E u \in 0..(CubeSize - 1) : \A d \in DOMAIN Shape : Coordinate(u, d) = c[d]
<1>1. PICK n : /\ n = Len(Shape) /\ n \in Nat \ {0} /\ DOMAIN Shape = 1..n
               /\ \A j \in 1..n : Shape[j] \in Nat \ {0} /\ Stride(j) \in Nat \ {0}
               /\ Stride(n) = 1
               /\ \A j \in 1..(n - 1) : Stride(j) = Shape[j + 1] * Stride(j + 1)
  BY Strides
<1> DEFINE Has(u, k) == \A d \in k..n : Coordinate(u, d) = c[d]
<1>2. PICK S : S = {k \in 1..n : \E u \in 0..(Stride(k) * Shape[k] - 1) : Has(u, k)}
  OBVIOUS
<1>3. n \in S
  <2>1. n \in 1..n /\ c[n] \in 0..(Shape[n] - 1) /\ Shape[n] \in Nat \ {0}
    BY <1>1
  <2>2. Stride(n) * Shape[n] = Shape[n]
    BY <1>1, <2>1
  <2>3. PICK x \in Nat : x = c[n] /\ x < Shape[n]
    BY <2>1
  <2>4. x \div 1 = x /\ x % Shape[n] = x
    BY <2>1, <2>3
  <2>5. Coordinate(c[n], n) = c[n]
    BY <1>1, <2>3, <2>4 DEF Coordinate
  <2>6. \A d \in n..n : d = n
    BY <1>1
  <2>7. Has(c[n], n)
    BY <2>5, <2>6
  <2> HIDE DEF Has
  <2> QED
    BY <1>2, <2>1, <2>2, <2>7
<1>4. ASSUME NEW k \in 1..(n - 1), k + 1 \in S
      PROVE  k \in S
  <2>1. PICK v \in 0..(Stride(k + 1) * Shape[k + 1] - 1) : Has(v, k + 1)
    BY <1>2, <1>4
  <2>2. k \in 1..n /\ k + 1 \in 1..n /\ k \in 1..(Len(Shape) - 1)
    BY <1>1
  <2>3. Stride(k) = Stride(k + 1) * Shape[k + 1]
    <3>1. Stride(k + 1) \in Nat /\ Shape[k + 1] \in Nat
      BY <1>1, <2>2
    <3>2. \A a, b \in Nat : a * b = b * a
      OBVIOUS
    <3> QED
      BY <1>1, <3>1, <3>2
  <2>4. v \in 0..(Stride(k) - 1) /\ c[k] \in 0..(Shape[k] - 1)
    BY <1>1, <2>2, <2>3
  <2>5. PICK x, u : x = c[k] /\ u = Stride(k) * x + v
    OBVIOUS
  <2>6. /\ u \in 0..(Stride(k) * Shape[k] - 1)
        /\ Coordinate(u, k) = c[k]
        /\ \A i \in (k + 1)..n : Coordinate(u, i) = Coordinate(v, i)
    <3>1. x \in 0..(Shape[k] - 1)
      BY <2>4, <2>5
    <3>2. /\ u \in 0..(Stride(k) * Shape[k] - 1)
          /\ Coordinate(u, k) = x
          /\ \A i \in (k + 1)..Len(Shape) : Coordinate(u, i) = Coordinate(v, i)
      <4>1. u = Stride(k) * x + v
        BY <2>5
      <4>2. k \in 1..(Len(Shape) - 1) /\ v \in 0..(Stride(k) - 1)
        BY <2>2, <2>4
      <4> QED
        BY ONLY Shape # <<>>, <3>1, <4>1, <4>2, RowUnit
    <3> QED
      BY <1>1, <2>5, <3>2
  <2>7. \A d \in k..n : d = k \/ d \in (k + 1)..n
    BY <2>2
  <2>8. Has(u, k)
    BY <2>1, <2>6, <2>7
  <2> HIDE DEF Has
  <2> QED
    BY <1>2, <2>2, <2>6, <2>8
<1>5. 1..n \subseteq S
  <2> HIDE DEF Has
  <2> QED
    BY <1>1, <1>3, <1>4, Downward
<1>6. 1 \in S
  BY <1>1, <1>5
<1>7. PICK u \in 0..(Stride(1) * Shape[1] - 1) : Has(u, 1)
  BY <1>2, <1>6
<1> QED
  BY <1>1, <1>7 DEF CubeSize

\* No negated type is split over the cube: its events go to every unit.
NegationsEverywhere == \A n \in Negative : TypeOf[n] \notin DOMAIN Dimensions

\* The faces of a cube agree with every pattern whose negated events go to every
\* unit: the types have dimensions of their own, so that one unit lies on a face
\* of each event of a match, and the least of such units keeps it.
LEMMA CubeAgrees ==
    ASSUME Init, algorithm = "HYPER_CUBE", NegationsEverywhere
    PROVE  SplitAgrees
<1>1. input \in Inputs /\ "HYPER_CUBE" \in Algorithms
  BY DEF Init
<1>2. Shape # <<>> /\ Unit = 0..(CubeSize - 1) /\ CubeSize \in Nat
  BY <1>1, ParallelAssumption, CubeHasUnits DEF Unit
<1>3. \A d \in DOMAIN Shape : Shape[d] \in Nat \ {0}
  BY <1>2, Strides
<1>4. /\ \A t \in DOMAIN Dimensions : Dimensions[t] # {} /\ Dimensions[t] \subseteq DOMAIN Shape
      /\ \A t, v \in DOMAIN Dimensions :
            t # v => Dimensions[t] \cap Dimensions[v] = {}
  BY ParallelAssumption
<1>5. \A k, l \in Positive : TypeOf[k] = TypeOf[l] => k = l
  BY <1>1, TermsAssumption, NegationAssumption DEF IsInjective, Name
<1>6. ASSUME NEW m \in PositiveMatches(input)
      PROVE  CommonUnits(m) # {}
  <2> DEFINE Split == {l \in Positive : TypeOf[l] \in DOMAIN Dimensions}
             dim(l) == CHOOSE d : d \in Dimensions[TypeOf[l]]
             on(d) == CHOOSE l \in Split : dim(l) = d
             val(l) == input[m[l]].val
  <2>1. /\ \A l \in Positive : m[l] \in EventIds /\ input[m[l]].type = TypeOf[l]
        /\ \A l \in Positive : val(l) \in Int
    BY <1>1, InputEvents DEF PositiveMatches, EventIds
  <2>2. \A l \in Split : dim(l) \in Dimensions[TypeOf[l]] /\ dim(l) \in DOMAIN Shape
    BY <1>4
  <2>3. \A k, l \in Split : dim(k) = dim(l) => k = l
    <3> HIDE DEF dim
    <3> QED
      BY <1>4, <1>5, <2>2
  <2>4. \A l \in Split : on(dim(l)) = l
    <3> SUFFICES ASSUME NEW l \in Split PROVE on(dim(l)) = l
      OBVIOUS
    <3>1. PICK d : d = dim(l)
      OBVIOUS
    <3>2. on(d) \in Split /\ dim(on(d)) = d
      <4> HIDE DEF dim, Split
      <4> QED
        BY <3>1
    <3> HIDE DEF dim, Split, on
    <3> QED
      BY <2>3, <3>1, <3>2
  <2>5. PICK c : c = [d \in DOMAIN Shape |->
                        IF \E l \in Split : dim(l) = d THEN val(on(d)) % Shape[d] ELSE 0]
    OBVIOUS
  <2>6. \A l \in Split : c[dim(l)] = val(l) % Shape[dim(l)]
    <3> HIDE DEF dim, Split, on, val
    <3> QED
      BY <2>2, <2>4, <2>5
  <2>7. ASSUME NEW d \in DOMAIN Shape
        PROVE  c[d] \in 0..(Shape[d] - 1)
    <3>1. CASE \E l \in Split : dim(l) = d
      <4>1. PICK l \in Split : dim(l) = d
        BY <3>1
      <4>2. val(l) \in Int /\ Shape[d] \in Nat \ {0}
        BY <1>3, <2>1
      <4>3. val(l) % Shape[d] \in 0..(Shape[d] - 1)
        <5> HIDE DEF val
        <5> QED
          BY <4>2, RestIs
      <4>4. c[d] = val(l) % Shape[d]
        <5> HIDE DEF dim, Split, val
        <5> QED
          BY <2>6, <4>1
      <4> QED
        BY <4>3, <4>4
    <3>2. CASE ~ \E l \in Split : dim(l) = d
      <4>1. c[d] = 0
        <5> HIDE DEF dim, Split, val
        <5> QED
          BY <2>5, <3>2
      <4> QED
        BY <1>3, <4>1
    <3> QED
      BY <3>1, <3>2
  <2>8. PICK u \in 0..(CubeSize - 1) : \A d \in DOMAIN Shape : Coordinate(u, d) = c[d]
    BY <1>2, <2>7, UnitAt
  <2>9. ASSUME NEW l \in Positive
        PROVE  u \in Classifier(m[l])
    <3>1. CASE l \in Split
      <4>1. /\ dim(l) \in Dimensions[input[m[l]].type] /\ dim(l) \in DOMAIN Shape
            /\ input[m[l]].type \in DOMAIN Dimensions
        BY <2>1, <2>2, <3>1
      <4>2. Coordinate(u, dim(l)) = input[m[l]].val % Shape[dim(l)]
        <5> HIDE DEF dim, Split
        <5> QED
          BY <2>6, <2>8, <3>1, <4>1
      <4> HIDE DEF dim
      <4> QED
        BY <1>2, <4>1, <4>2 DEF Classifier
    <3>2. CASE l \notin Split
      <4>1. input[m[l]].type \notin DOMAIN Dimensions
        BY <2>1, <3>2
      <4> QED
        BY <1>2, <4>1 DEF Classifier
    <3> QED
      BY <3>1, <3>2
  <2> QED
    BY <1>2, <2>9 DEF CommonUnits
<1>7. ASSUME NEW m \in Demanded(input)
      PROVE  \E u \in CommonUnits(m) : Keeps(u, m)
  <2>1. CommonUnits(m) # {} /\ CommonUnits(m) \subseteq Nat
    BY <1>2, <1>6 DEF Demanded, CommonUnits
  <2>2. PICK u \in CommonUnits(m) : \A v \in CommonUnits(m) : ~ (<<v, u>> \in OpToRel(<, Nat))
    BY <2>1, NatLessThanWellFounded, WFMin
  <2>3. \A v \in CommonUnits(m) : ~ (v < u)
    BY <2>1, <2>2 DEF OpToRel
  <2>4. \A v \in CommonUnits(m) : v \in Nat /\ u \in Nat
    BY <2>1
  <2>5. \A v \in CommonUnits(m) : u <= v
    BY <2>3, <2>4
  <2> QED
    BY <2>5 DEF Keeps
<1>8. ASSUME NEW n \in Negative, NEW m, NEW e \in EventIds, PreventedBy(input, n, m, e)
      PROVE  Classifier(e) = Unit
  <2>1. input[e].type = TypeOf[n]
    BY <1>8 DEF PreventedBy, AcceptedBy
  <2>2. input[e].type \notin DOMAIN Dimensions
    BY <2>1 DEF NegationsEverywhere
  <2> QED
    BY <2>2 DEF Classifier
<1> QED
  BY <1>7, <1>8 DEF SplitAgrees, CommonUnits

-----------------------------------------------------------------------------
(* The threads together implement one evaluation                           *)

\* What a unit keeps is demanded: every event that prevents it is older than the
\* last event of the match, so the unit has already received it.
LEMMA KeptByInvariant == IInv /\ SplitAgrees => KeptMatchesDemanded
<1> SUFFICES ASSUME IInv, SplitAgrees, NEW u \in Unit, NEW m \in found[u], Keeps(u, m),
                    NEW n \in Negative, NEW e \in EventIds, PreventedBy(input, n, m, e)
             PROVE  FALSE
  BY DEF KeptMatchesDemanded, Demanded, Prevented, EventIds, IInv, UnitInv, FoundInv, HeldBy
<1> DEFINE k == received[u][Len(received[u])]
<1>1. /\ HeldBy(u, m) /\ received[u] # <<>> /\ k \in Range(m)
      /\ e \notin Range(received[u])
      /\ ShareInv(u) /\ MainInv /\ ShapeInv
  BY DEF IInv, UnitInv, FoundInv
<1>2. received[u] \in Seq(EventIds) /\ queue[u] \in Seq(EventIds \cup {Closed})
  BY <1>1 DEF ShapeInv
<1>3. /\ DOMAIN received[u] = 1..Len(received[u])
      /\ Len(received[u]) \in DOMAIN received[u]
      /\ \A i \in DOMAIN received[u] : i \in Int /\ received[u][i] \in EventIds
  <2>1. Len(received[u]) \in Nat \ {0}
    BY <1>1, <1>2, EmptySeq
  <2> QED
    BY <1>2, <2>1
<1>4. \A d \in Range(received[u]) : d \in Int /\ d <= k
  <2>1. ASSUME NEW i \in DOMAIN received[u]
        PROVE  received[u][i] \in Int /\ received[u][i] <= k
    <3>1. i = Len(received[u]) \/ i < Len(received[u])
      BY <1>3
    <3>2. received[u][i] \in Int /\ k \in Int
      BY <1>3 DEF EventIds
    <3> QED
      BY <1>1, <1>3, <3>1, <3>2 DEF ShareInv
  <2> QED
    BY <2>1 DEF Range
<1>5. Completed(m) = k
  <2>1. k \in Range(m) /\ \A d \in Range(m) : d \in Int /\ d <= k
    BY <1>1, <1>4 DEF HeldBy
  <2> HIDE DEF k
  <2> QED
    BY <2>1, CompletedIs
<1>6. e < k
  BY <1>5, TermsAssumption DEF PreventedBy
<1>7. u \in Classifier(e)
  <2>1. u \in CommonUnits(m) /\ m \in PositiveMatches(input)
    BY <1>1, HoldersAreCommon DEF HeldBy
  <2> QED
    BY <2>1 DEF SplitAgrees
<1>8. k \in Given(u)
  BY <1>1, <1>3 DEF ShareInv, Range
<1>9. e \in Given(u)
  <2>1. k < next /\ e < k /\ e \in Int /\ k \in Int /\ next \in Int
    BY <1>1, <1>6, <1>8 DEF Given, Share, EventIds, MainInv
  <2>2. e < next /\ e # next - 1
    BY ONLY <2>1
  <2> QED
    BY <1>7, <2>2 DEF Given, Share
<1>10. e \in Range(queue[u]) /\ e # Closed
  BY <1>1, <1>9 DEF ShareInv
<1>11. k < e
  BY <1>1, <1>3, <1>10 DEF ShareInv, Range
<1>12. k \in Int /\ e \in Int
  BY <1>8 DEF Given, Share, EventIds
<1> QED
  BY ONLY <1>6, <1>11, <1>12

\* With a split that agrees the output gets demanded matches only.
AgreedInv == SplitAgrees /\ Range(output) \subseteq Demanded(input)

LEMMA AgreementStays ==
    ASSUME input' = input, algorithm' = algorithm, SplitAgrees
    PROVE  SplitAgrees'
<1>1. \A m : CommonUnits(m)' = CommonUnits(m)
  BY Frame DEF CommonUnits
<1> QED
  BY <1>1, Frame DEF SplitAgrees

LEMMA NextAgreed == IInv /\ AgreedInv /\ [Next]_vars => AgreedInv'
<1> SUFFICES ASSUME IInv, AgreedInv, [Next]_vars PROVE AgreedInv'
  OBVIOUS
<1>1. UNCHANGED <<input, algorithm>>
  BY DEF Next, Main, Work, Classify, HandOut, CloseUnit, JoinUnit, CloseOutput, Evaluate,
         Skip, Acquire, Deliver, Stop, vars
<1>2. SplitAgrees'
  BY <1>1, AgreementStays DEF AgreedInv
<1>3. CASE output' = output
  BY <1>1, <1>2, <1>3 DEF AgreedInv
<1>4. ASSUME NEW u \in Unit, Deliver(u)
      PROVE  AgreedInv'
  <2>1. PICK m \in found[u] : Keeps(u, m) /\ output' = Append(output, m)
    BY <1>4 DEF Deliver
  <2>2. m \in Demanded(input)
    BY <2>1, KeptByInvariant DEF AgreedInv, KeptMatchesDemanded
  <2>3. Range(output)' = Range(output) \cup {m}
    BY <2>1, RangeAppend DEF IInv, OutputInv
  <2> QED
    BY <1>1, <1>2, <2>2, <2>3 DEF AgreedInv
<1>5. output' = output \/ \E u \in Unit : Deliver(u)
  BY DEF Next, Main, Work, Classify, HandOut, CloseUnit, JoinUnit, CloseOutput, Evaluate,
         Skip, Acquire, Stop, vars
<1> QED
  BY <1>3, <1>4, <1>5

\* When the output is closed, or may be, every unit has evaluated its whole share.
LEMMA AllStopped ==
    ASSUME IInv, joined = Cardinality(Unit), NEW u \in Unit
    PROVE  found[u] = {} /\ Range(received[u]) = Share(u)
<1>1. MainInv /\ ShareInv(u)
  BY DEF IInv, UnitInv
<1>2. u < joined
  BY <1>1, UnitNumbers DEF MainInv
<1>3. status[u] = "stopped"
  BY <1>1, <1>2 DEF MainInv
<1>4. found[u] = {} /\ queue[u] = <<>> /\ AllHandedOut
  BY <1>1, <1>3 DEF ShareInv
<1>5. Range(queue[u]) = {}
  BY <1>4 DEF Range
<1>6. Given(u) = Share(u)
  BY <1>1, <1>4, InputEvents DEF Given, Share, AllHandedOut, EventIds, MainInv
<1> QED
  BY <1>1, <1>4, <1>5, <1>6 DEF ShareInv

LEMMA ClosedIsComplete ==
    ASSUME IInv, AgreedInv, joined = Cardinality(Unit)
    PROVE  Range(output) = Demanded(input)
<1> SUFFICES ASSUME NEW m \in Demanded(input) PROVE m \in Range(output)
  BY DEF AgreedInv
<1>1. PICK u \in CommonUnits(m) : Keeps(u, m)
  BY DEF AgreedInv, SplitAgrees
<1>2. m \in PositiveMatches(input) /\ u \in Unit
  BY DEF Demanded, CommonUnits
<1>3. Range(m) \subseteq Share(u)
  <2>1. m \in [Positive -> EventIds]
    BY <1>2 DEF PositiveMatches, EventIds
  <2> QED
    BY <2>1 DEF Range, Share, CommonUnits
<1>4. HeldBy(u, m) /\ found[u] = {}
  BY <1>2, <1>3, AllStopped DEF HeldBy
<1> QED
  BY <1>1, <1>2, <1>4 DEF IInv, UnitInv, LossInv

\* The abstract specification demands the same matches.
LEMMA SameDemand ==
    /\ \A f : Result!Range(f) = Range(f)
    /\ \A s : Result!Demanded(s) = Demanded(s)
<1>1. \A f : Result!Range(f) = Range(f)
  BY DEF Result!Range, Range
<1>2. Result!Negative = Negative
  BY <1>1 DEF Result!Negative, Negative
<1>3. \A n : Result!Unbounded(n) <=> Unbounded(n)
  BY DEF Result!Unbounded, Unbounded
<1>4. \A s, m, a : Result!Satisfies(s, m, a) <=> Satisfies(s, m, a)
  BY DEF Result!Satisfies, Satisfies
<1>5. \A m : Result!IsInjective(m) <=> IsInjective(m)
  BY DEF Result!IsInjective, IsInjective
<1>6. \A s, m, atoms : Result!ValidFor(s, m, atoms) <=> ValidFor(s, m, atoms)
  BY <1>4, <1>5 DEF Result!ValidFor, ValidFor
<1>7. \A s : Result!PositiveMatches(s) = PositiveMatches(s)
  BY <1>6 DEF Result!PositiveMatches, PositiveMatches
<1>8. \A s, n, e : Result!AcceptedBy(s, n, e) <=> AcceptedBy(s, n, e)
  BY <1>4 DEF Result!AcceptedBy, AcceptedBy
<1>9. \A s, n, m, e : Result!Invalidates(s, n, m, e) <=> Invalidates(s, n, m, e)
  BY <1>6 DEF Result!Invalidates, Invalidates
<1>10. \A m : Result!Completed(m) = Completed(m)
  BY <1>1 DEF Result!Completed, Completed
<1>11. \A s, n, m, e : Result!PreventedBy(s, n, m, e) <=> PreventedBy(s, n, m, e)
  BY <1>3, <1>8, <1>9, <1>10 DEF Result!PreventedBy, PreventedBy
<1>12. \A s, m : Result!Prevented(s, m) <=> Prevented(s, m)
  BY <1>2, <1>11 DEF Result!Prevented, Prevented
<1> QED
  BY <1>1, <1>7, <1>12 DEF Result!Demanded, Demanded

\* Every step of the threads is a step of the single evaluation, or none.
LEMMA StepRefines ==
    IInv /\ AgreedInv /\ [Next]_vars => [Result!ResultNext]_(Result!resultVars)
<1> SUFFICES ASSUME IInv, AgreedInv, [Next]_vars
             PROVE  [Result!ResultNext]_(Result!resultVars)
  OBVIOUS
<1>1. CASE CloseOutput
  <2>1. Range(output) = Demanded(input)
    BY <1>1, ClosedIsComplete DEF CloseOutput
  <2>2. Result!CloseResults
    BY <1>1, <2>1, SameDemand DEF CloseOutput, Result!CloseResults
  <2> QED
    BY <2>2 DEF Result!ResultNext
<1>2. ASSUME NEW u \in Unit, Deliver(u)
      PROVE  Result!ResultNext
  <2>1. PICK m \in found[u] : Keeps(u, m) /\ output' = Append(output, m)
    BY <1>2 DEF Deliver
  <2>2. ~ outputClosed
    BY <2>1, AllStopped DEF IInv, MainInv
  <2>3. m \in Demanded(input) /\ m \notin Range(output)
    BY <2>1, KeptByInvariant, FoundIsNew DEF AgreedInv, KeptMatchesDemanded
  <2>4. m \in Range(output')
    BY <2>1, RangeAppend DEF IInv, OutputInv
  <2>5. Result!Deliver(m)
    BY <1>2, <2>1, <2>2, <2>3, SameDemand DEF Deliver, Result!Deliver
  <2> QED
    BY <2>4, <2>5, SameDemand DEF Result!ResultNext
<1>3. CASE UNCHANGED <<input, output, outputClosed>>
  BY <1>3 DEF Result!resultVars
<1>4. \/ CloseOutput
      \/ \E u \in Unit : Deliver(u)
      \/ UNCHANGED <<input, output, outputClosed>>
  BY DEF Next, Main, Work, Classify, HandOut, CloseUnit, JoinUnit, Evaluate, Skip, Acquire,
         Stop, vars
<1> QED
  BY <1>1, <1>2, <1>3, <1>4

\* If the split agrees with the pattern and the input, the threads together
\* implement one evaluation of the whole input: the output gets exactly the
\* demanded matches, each once, and is closed after the last (eval, FilterStream).
THEOREM SplitImplementsResult == Spec /\ SplitAgrees => RefinesResult
<1>1. Init /\ SplitAgrees => AgreedInv
  <2> SUFFICES ASSUME Init, SplitAgrees PROVE AgreedInv
    OBVIOUS
  <2>1. Range(output) = {}
    BY DEF Init, Range
  <2> QED
    BY <2>1 DEF AgreedInv
<1>2. Init => Result!ResultInit
  BY DEF Init, Result!ResultInit
<1> QED
  BY <1>1, <1>2, InitInv, NextInv, NextAgreed, StepRefines, PTL
     DEF Spec, RefinesResult, Result!ResultSpec

\* The same split makes no unit miss a negative event: whatever passes a filter is
\* demanded of the whole input.
THEOREM SplitKeepsDemanded == Spec /\ SplitAgrees => []KeptMatchesDemanded
<1>1. Init /\ SplitAgrees => AgreedInv
  <2> SUFFICES ASSUME Init, SplitAgrees PROVE AgreedInv
    OBVIOUS
  <2>1. Range(output) = {}
    BY DEF Init, Range
  <2> QED
    BY <2>1 DEF AgreedInv
<1>2. IInv /\ AgreedInv => KeptMatchesDemanded
  BY KeptByInvariant DEF AgreedInv
<1> QED
  BY <1>1, <1>2, InitInv, NextInv, NextAgreed, PTL DEF Spec

\* RIP implements one evaluation for every pattern whose negated events follow
\* a positive one, every window, interval and number of units: the overlap of
\* one window is enough (_classifier, _create_skip_item, __get_unit_number).
THEOREM RIPImplementsResult ==
    Spec /\ algorithm = "RIP" /\ NegationsFollow => RefinesResult
<1>1. Init /\ algorithm = "RIP" /\ NegationsFollow => SplitAgrees
  BY RIPAgrees
<1>2. Spec => Init
  BY DEF Spec
<1> QED
  BY <1>1, <1>2, SplitImplementsResult, PTL

\* Splitting by key implements one evaluation whenever the condition gives all
\* events of a match, and those that prevent it, one key.
THEOREM GroupByKeyImplementsResult ==
    Spec /\ algorithm = "GROUP_BY_KEY" /\ OneKey(input) => RefinesResult
<1>1. Init /\ algorithm = "GROUP_BY_KEY" /\ OneKey(input) => SplitAgrees
  BY GroupByKeyAgrees
<1>2. Spec => Init
  BY DEF Spec
<1> QED
  BY <1>1, <1>2, SplitImplementsResult, PTL

\* A cube implements one evaluation, whatever its sizes and the values of the
\* events, if the negated events go to every unit (HyperCube: _classifier,
\* _create_skip_item).
THEOREM HyperCubeImplementsResult ==
    Spec /\ algorithm = "HYPER_CUBE" /\ NegationsEverywhere => RefinesResult
<1>1. Init /\ algorithm = "HYPER_CUBE" /\ NegationsEverywhere => SplitAgrees
  BY CubeAgrees
<1>2. Spec => Init
  BY DEF Spec
<1> QED
  BY <1>1, <1>2, SplitImplementsResult, PTL

=============================================================================
