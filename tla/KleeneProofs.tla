---------------------------- MODULE KleeneProofs ----------------------------
(***************************************************************************)
(* Proofs about KleeneTree, for every pattern, window and stream: between  *)
(* two events exactly the matches of the pattern have been reported except *)
(* the ones whose partner follows the closure at once, and each once.      *)
(*                                                                         *)
(* The invariant says the same of every state: a match of the stream has   *)
(* been reported unless it still waits for a step of the newest event      *)
(* (Pending).  It needs what the storages hold: every event and every      *)
(* closure that can still be part of a match, however lazily the others    *)
(* are removed.  The lemmas translate what the code computes on ordered    *)
(* lists of events to what the pattern says of sets: the place of an event *)
(* in the list is the number of events before it (InOrderFacts), the first *)
(* and the last timestamp bound all others (ClosureFacts).                 *)
(***************************************************************************)
EXTENDS KleeneProperties, SequenceTheorems, FiniteSetTheorems,
        WellFoundedInduction, TLAPS

\* The members of an aggregated event, in the order of their numbers, and the
\* aggregated event of a set that was built when its last member arrived.
InOrder(s) ==
    [i \in 1..Cardinality(s) |-> CHOOSE e \in s : Cardinality({d \in s : d < e}) = i - 1]

Closure(s) == [events |-> InOrder(s), id |-> Max(s) + 1]

\* The newest event is about to be handled: by the closure as a whole or, for
\* set s, in a later step.
Awaited(s) == phase = "closure" /\ Newest \in s /\ (sets = {} \/ s \in sets)

Pending(m) == Awaited(m.closure) \/ (phase = "join" /\ m.partner = {Newest})

\* Nothing at time t can be too far away from what is live.
InReach(t) == t >= Ts(Newest) - Window

StreamInv ==
    /\ setup \in Setup
    /\ stream \in Seq([type : {"B", "C"}, val : setup.values, ts : Nat])
    /\ \A d, e \in 1..Newest : d <= e => Ts(d) <= Ts(e)

PhaseInv ==
    /\ phase \in {"idle", "closure", "join"}
    /\ phase = "closure" => Newest \in OfType("B")
    /\ phase = "join" => Newest \in OfType("C") /\ Joined
    /\ sets # {} => phase = "closure"

\* Every event that can still be a member is stored.
MembersInv ==
    /\ members \subseteq OfType("B")
    /\ \A e \in OfType("B") : InReach(Ts(e)) =>
            e \in members \/ (phase = "closure" /\ sets = {} /\ e = Newest)

SetsInv ==
    \A s \in sets : s \subseteq OfType("B") /\ Newest \in s /\ WithinLimits(Cardinality(s))

\* Only closures are stored, and every one that can still be joined.
ClosuresInv ==
    /\ \A a \in closures : \E s \in Fitting : a = Closure(s)
    /\ \A s \in Fitting : (\A e \in s : InReach(Ts(e))) =>
            Closure(s) \in closures \/ Awaited(s)

PartnersInv ==
    /\ \A p \in partners : \E c \in OfType("C") : p = Primitive(c)
    /\ Joined => \A c \in OfType("C") : InReach(Ts(c)) =>
            Primitive(c) \in partners \/ (phase = "join" /\ c = Newest)

MatchesInv ==
    /\ BagToSet(matches) = {m \in Expected : ~ Adjacent(m) /\ ~ Pending(m)}
    /\ ReportedOnce

\* The inductive invariant.
IInv ==
    /\ StreamInv /\ PhaseInv /\ MembersInv /\ SetsInv
    /\ ClosuresInv /\ PartnersInv /\ MatchesInv

-----------------------------------------------------------------------------
(* Ranks                                                                   *)

\* The ranks of a finite set of numbers are the places from 0 on, in order.

LEMMA RankFacts ==
    ASSUME NEW s \in SUBSET Nat, IsFiniteSet(s)
    PROVE  /\ Cardinality(s) \in Nat
           /\ \A e \in s : Rank(s, e) \in 0..(Cardinality(s) - 1)
           /\ \A d, e \in s : d < e => Rank(s, d) < Rank(s, e)
           /\ \A d, e \in s : Rank(s, d) = Rank(s, e) => d = e
           /\ \A i \in 0..(Cardinality(s) - 1) : \E e \in s : Rank(s, e) = i
<1> DEFINE Below(e) == {d \in s : d < e}
<1>1. Cardinality(s) \in Nat
  BY FS_CardinalityType
<1>2. ASSUME NEW e \in s
      PROVE  /\ IsFiniteSet(Below(e)) /\ Rank(s, e) = Cardinality(Below(e))
             /\ Rank(s, e) \in Nat /\ Rank(s, e) < Cardinality(s)
  <2>1. Below(e) \subseteq s /\ Below(e) # s
    OBVIOUS
  <2> HIDE DEF Below
  <2>2. IsFiniteSet(Below(e)) /\ Cardinality(Below(e)) <= Cardinality(s)
    BY <2>1, FS_Subset
  <2>3. Cardinality(Below(e)) # Cardinality(s)
    BY <2>1, FS_Subset
  <2>4. Cardinality(Below(e)) \in Nat
    BY <2>2, FS_CardinalityType
  <2>5. Rank(s, e) = Cardinality(Below(e))
    BY DEF Rank, Below
  <2> QED
    BY <1>1, <2>2, <2>3, <2>4, <2>5
<1>3. ASSUME NEW d \in s, NEW e \in s, d < e
      PROVE  Rank(s, d) < Rank(s, e)
  <2>1. Below(d) \subseteq Below(e) /\ d \in Below(e) /\ d \notin Below(d)
    <3>1. \A x \in s : x \in Nat
      OBVIOUS
    <3>2. \A x, y, z \in Nat : x < y /\ y < z => x < z
      OBVIOUS
    <3>3. \A x \in s : x < d => x < e
      BY <1>3, <3>1, <3>2
    <3>4. ~ d < d
      BY <3>1
    <3> QED
      BY <1>3, <3>3, <3>4 DEF Below
  <2>2. IsFiniteSet(Below(e))
    BY <1>2
  <2> HIDE DEF Below
  <2>3. Cardinality(Below(d)) <= Cardinality(Below(e))
    BY <2>1, <2>2, FS_Subset
  <2>4. Cardinality(Below(d)) # Cardinality(Below(e))
    BY <2>1, <2>2, FS_Subset
  <2>5. /\ Rank(s, d) = Cardinality(Below(d)) /\ Rank(s, d) \in Nat
        /\ Rank(s, e) = Cardinality(Below(e)) /\ Rank(s, e) \in Nat
    BY <1>2
  <2> QED
    BY <2>3, <2>4, <2>5
<1>6. \A e \in s : Rank(s, e) \in 0..(Cardinality(s) - 1)
  <2>1. \A c, r \in Nat : r < c => r \in 0..(c - 1)
    OBVIOUS
  <2>2. ASSUME NEW e \in s
        PROVE  Rank(s, e) \in Nat /\ Rank(s, e) < Cardinality(s)
    BY <1>2
  <2> QED
    BY <1>1, <2>1, <2>2
<1>7. \A d, e \in s : d < e => Rank(s, d) < Rank(s, e)
  BY <1>3
<1> HIDE DEF Below
<1>4. ASSUME NEW d \in s, NEW e \in s, Rank(s, d) = Rank(s, e)
      PROVE  d = e
  <2>1. Rank(s, d) \in Nat /\ Rank(s, e) \in Nat
    BY <1>2
  <2>2. ~ d < e /\ ~ e < d
    BY <1>4, <1>7, <2>1
  <2>3. d \in Nat /\ e \in Nat
    OBVIOUS
  <2>4. \A x, y \in Nat : ~ x < y /\ ~ y < x => x = y
    OBVIOUS
  <2> QED
    BY <2>2, <2>3, <2>4
<1>5. ASSUME NEW i \in 0..(Cardinality(s) - 1)
      PROVE  \E e \in s : Rank(s, e) = i
  <2> DEFINE f == [e \in s |-> Rank(s, e)]
             T == 0..(Cardinality(s) - 1)
  <2>1. f \in [s -> T]
    BY <1>6
  <2>2. \A d, e \in s : f[d] = f[e] => d = e
    BY <1>4
  <2>3. f \in Injection(s, T)
    BY <2>1, <2>2 DEF Injection, IsInjective
  <2>4. IsFiniteSet(T) /\ Cardinality(T) = Cardinality(s)
    <3>1. 0 \in Int /\ Cardinality(s) - 1 \in Int
      BY <1>1
    <3> QED
      BY <1>1, <3>1, FS_Interval
  <2> HIDE DEF f, T
  <2>5. f \in Surjection(s, T)
    BY <2>3, <2>4, FS_Injection
  <2>6. PICK e \in s : f[e] = i
    BY <2>5 DEF Surjection, T
  <2> QED
    BY <2>6 DEF f
<1> QED
  BY <1>1, <1>4, <1>5, <1>6, <1>7

\* An event is at the place of its rank.
LEMMA InOrderFacts ==
    ASSUME NEW s \in SUBSET Nat, IsFiniteSet(s)
    PROVE  /\ Len(InOrder(s)) = Cardinality(s) /\ Cardinality(s) \in Nat
           /\ DOMAIN InOrder(s) = 1..Cardinality(s)
           /\ \A i \in 1..Cardinality(s) : InOrder(s)[i] \in s /\ Rank(s, InOrder(s)[i]) = i - 1
           /\ \A e \in s : Rank(s, e) + 1 \in 1..Cardinality(s) /\ InOrder(s)[Rank(s, e) + 1] = e
           /\ ToSet(InOrder(s)) = s
<1>1. Cardinality(s) \in Nat
  BY RankFacts
<1>2. DOMAIN InOrder(s) = 1..Cardinality(s) /\ Len(InOrder(s)) = Cardinality(s)
  BY <1>1 DEF InOrder
<1>3. ASSUME NEW i \in 1..Cardinality(s)
      PROVE  InOrder(s)[i] \in s /\ Rank(s, InOrder(s)[i]) = i - 1
  <2>1. i - 1 \in 0..(Cardinality(s) - 1)
    BY <1>1
  <2>2. \E e \in s : Rank(s, e) = i - 1
    BY <2>1, RankFacts
  <2>3. InOrder(s)[i] = CHOOSE e \in s : Rank(s, e) = i - 1
    BY DEF InOrder, Rank
  <2> QED
    BY <2>2, <2>3
<1>4. ASSUME NEW e \in s
      PROVE  Rank(s, e) + 1 \in 1..Cardinality(s) /\ InOrder(s)[Rank(s, e) + 1] = e
  <2>1. Rank(s, e) \in 0..(Cardinality(s) - 1)
    BY RankFacts
  <2>2. \A c \in Nat : \A r \in 0..(c - 1) : r + 1 \in 1..c /\ r + 1 - 1 = r
    OBVIOUS
  <2>3. /\ Rank(s, e) + 1 \in 1..Cardinality(s)
        /\ \E i \in 1..Cardinality(s) : i = Rank(s, e) + 1 /\ i - 1 = Rank(s, e)
    BY ONLY <1>1, <2>1, <2>2
  <2>4. InOrder(s)[Rank(s, e) + 1] \in s /\ Rank(s, InOrder(s)[Rank(s, e) + 1]) = Rank(s, e)
    <3>1. PICK i \in 1..Cardinality(s) : i = Rank(s, e) + 1 /\ i - 1 = Rank(s, e)
      BY ONLY <2>3
    <3>2. InOrder(s)[i] \in s /\ Rank(s, InOrder(s)[i]) = i - 1
      BY <1>3
    <3> QED
      BY <3>1, <3>2
  <2>5. \A a, b \in s : Rank(s, a) = Rank(s, b) => a = b
    BY RankFacts
  <2> QED
    BY <2>3, <2>4, <2>5
<1>5. ToSet(InOrder(s)) = s
  BY <1>2, <1>3, <1>4 DEF ToSet
<1> QED
  BY <1>1, <1>2, <1>3, <1>4, <1>5

\* A finite set of numbers has a greatest one.
LEMMA MaxFacts ==
    ASSUME NEW s \in SUBSET Nat, IsFiniteSet(s), s # {}
    PROVE  Max(s) \in s /\ \A e \in s : e <= Max(s)
<1>1. Cardinality(s) \in Nat \ {0}
  BY FS_EmptySet, RankFacts
<1>2. Cardinality(s) - 1 \in 0..(Cardinality(s) - 1)
  BY <1>1
<1>3. PICK m \in s : Rank(s, m) = Cardinality(s) - 1
  BY <1>2, RankFacts
<1>4. ASSUME NEW e \in s
      PROVE  e <= m
  <2>1. ~ m < e
    BY <1>1, <1>3, RankFacts
  <2> QED
    BY <2>1
<1>5. \A e \in s : m >= e
  BY <1>4
<1> QED
  BY <1>5 DEF Max

-----------------------------------------------------------------------------
(* Lists of events and sets of events                                      *)

\* What is read from the stream.
LEMMA StreamFacts ==
    ASSUME StreamInv
    PROVE  /\ Newest \in Nat /\ DOMAIN stream = 1..Newest
           /\ \A e \in 1..Newest : Ts(e) \in Nat /\ stream[e].type \in {"B", "C"}
           /\ \A s \in SUBSET (1..Newest) : s \in SUBSET Nat /\ IsFiniteSet(s)
           /\ \A t : OfType(t) \subseteq 1..Newest
<1> DEFINE Event == [type : {"B", "C"}, val : setup.values, ts : Nat]
<1>1. Newest \in Nat /\ DOMAIN stream = 1..Newest /\ \A e \in 1..Newest : stream[e] \in Event
  <2>1. stream \in Seq(Event)
    BY DEF StreamInv
  <2> HIDE DEF Event
  <2> QED
    BY ONLY <2>1 DEF Newest
<1>2. \A e \in 1..Newest : stream[e] \in [type : {"B", "C"}, val : setup.values, ts : Nat]
  BY <1>1
<1> HIDE DEF Event
<1>3. \A e \in 1..Newest : Ts(e) \in Nat /\ stream[e].type \in {"B", "C"}
  BY <1>2 DEF Ts
<1>4. ASSUME NEW s \in SUBSET (1..Newest)
      PROVE  s \in SUBSET Nat /\ IsFiniteSet(s)
  <2>1. IsFiniteSet(1..Newest)
    <3>1. 1 \in Int /\ Newest \in Int
      BY <1>1
    <3> QED
      BY ONLY <3>1, FS_Interval
  <2>2. IsFiniteSet(s)
    BY ONLY <2>1, s \in SUBSET (1..Newest), FS_Subset
  <2>3. 1..Newest \subseteq Nat
    BY <1>1
  <2> QED
    BY <2>2, <2>3
<1>5. \A t : OfType(t) \subseteq 1..Newest
  BY DEF OfType
<1> QED
  BY <1>1, <1>3, <1>4, <1>5

\* A condition evaluated on the list of the members says what is demanded of
\* the set.
LEMMA ConditionOnSet ==
    ASSUME StreamInv, NEW s \in SUBSET (1..Newest), NEW c \in setup.conditions
    PROVE  EvalKC(c, InOrder(s)) <=> Demanded(c, s)
<1> DEFINE L == InOrder(s)
           n == Cardinality(s)
<1>1. s \in SUBSET Nat /\ IsFiniteSet(s)
  BY StreamFacts
<1>2. /\ Len(L) = n /\ n \in Nat
      /\ \A i \in 1..n : L[i] \in s /\ Rank(s, L[i]) = i - 1
      /\ \A e \in s : Rank(s, e) + 1 \in 1..n /\ L[Rank(s, e) + 1] = e
  BY <1>1, InOrderFacts
<1>3. \A e \in s : Rank(s, e) \in 0..(n - 1)
  BY <1>1, RankFacts
<1>4. \/ c.kind = "index" /\ c.first \in Int /\ c.second \in Int
      \/ c.kind = "offset" /\ c.offset \in Int
      \/ c.kind = "value" /\ c.index \in Int
  BY SetupAssumption DEF StreamInv
<1> HIDE DEF L, n
\* An item of the list and the member of its rank.
<1>5. ASSUME NEW i \in Int, ValidIndex(i, L)
      PROVE  /\ i \in 0..(n - 1) /\ L[i + 1] \in s /\ Rank(s, L[i + 1]) = i
             /\ Item(L, i) = stream[L[i + 1]].val
  <2>1. i \in 0..(n - 1) /\ i + 1 \in 1..n /\ (i + 1) - 1 = i
    BY <1>2, <1>5 DEF ValidIndex
  <2>2. ASSUME NEW k \in 1..n, k - 1 = i
        PROVE  L[k] \in s /\ Rank(s, L[k]) = i
    BY <1>2, <2>2
  <2>3. L[i + 1] \in s /\ Rank(s, L[i + 1]) = i
    BY <2>1, <2>2
  <2> QED
    BY <2>1, <2>3 DEF Item
<1>6. ASSUME NEW e \in s
      PROVE  /\ ValidIndex(Rank(s, e), L) /\ Rank(s, e) \in Int
             /\ Rank(s, e) \in 0..(n - 1)
             /\ Item(L, Rank(s, e)) = stream[e].val
  <2>1. Rank(s, e) \in 0..(n - 1) /\ L[Rank(s, e) + 1] = e
    BY <1>2, <1>3
  <2> QED
    BY <1>2, <2>1 DEF ValidIndex, Item
<1>7. CASE c.kind = "index" /\ c.first \in Int /\ c.second \in Int
  <2>1. ASSUME EvalByIndex(c, L)
        PROVE  Demanded(c, s)
    <3>1. /\ L[c.first + 1] \in s /\ Rank(s, L[c.first + 1]) = c.first
          /\ L[c.second + 1] \in s /\ Rank(s, L[c.second + 1]) = c.second
          /\ <<stream[L[c.first + 1]].val, stream[L[c.second + 1]].val>> \in c.relation
      BY <1>5, <1>7, <2>1 DEF EvalByIndex
    <3> QED
      BY <1>7, <3>1 DEF Demanded
  <2>2. ASSUME Demanded(c, s)
        PROVE  EvalByIndex(c, L)
    <3>1. PICK d \in s, e \in s : /\ Rank(s, d) = c.first /\ Rank(s, e) = c.second
                                  /\ <<stream[d].val, stream[e].val>> \in c.relation
      BY <1>7, <2>2 DEF Demanded
    <3> QED
      BY <1>6, <3>1 DEF EvalByIndex
  <2> QED
    BY <1>7, <2>1, <2>2 DEF EvalKC, L
<1>8. CASE c.kind = "offset" /\ c.offset \in Int
  <2>1. ASSUME EvalByOffset(c, L)
        PROVE  Demanded(c, s)
    <3>1. n > c.offset
      BY <1>2, <1>8, <2>1 DEF EvalByOffset
    <3>2. ASSUME NEW d \in s, NEW e \in s, Rank(s, e) - Rank(s, d) = c.offset
          PROVE  <<stream[d].val, stream[e].val>> \in c.relation
      <4>1. Rank(s, d) \in 0..(Len(L) - 1) /\ Rank(s, d) + c.offset = Rank(s, e)
        BY <1>2, <1>6, <1>8, <3>2
      <4>2. <<Item(L, Rank(s, d)), Item(L, Rank(s, d) + c.offset)>> \in c.relation
        BY <1>6, <2>1, <4>1 DEF EvalByOffset
      <4> QED
        BY <1>6, <4>1, <4>2
    <3> QED
      BY <1>8, <3>1, <3>2 DEF Demanded, n
  <2>2. ASSUME Demanded(c, s)
        PROVE  EvalByOffset(c, L)
    <3>1. /\ n > c.offset
          /\ \A d, e \in s : Rank(s, e) - Rank(s, d) = c.offset =>
                <<stream[d].val, stream[e].val>> \in c.relation
      BY <1>8, <2>2 DEF Demanded, n
    <3>2. ASSUME NEW i \in 0..(Len(L) - 1), ValidIndex(i + c.offset, L)
          PROVE  <<Item(L, i), Item(L, i + c.offset)>> \in c.relation
      <4>1. i \in Int /\ i + c.offset \in Int /\ ValidIndex(i, L)
        BY <1>2, <1>8 DEF ValidIndex
      <4> DEFINE d == L[i + 1]
                 e == L[i + c.offset + 1]
      <4>2. /\ d \in s /\ Rank(s, d) = i /\ Item(L, i) = stream[d].val
            /\ e \in s /\ Rank(s, e) = i + c.offset /\ Item(L, i + c.offset) = stream[e].val
        BY <1>5, <3>2, <4>1
      <4> HIDE DEF d, e
      <4>3. Rank(s, e) - Rank(s, d) = c.offset
        BY <1>8, <4>1, <4>2
      <4> QED
        BY <3>1, <4>2, <4>3
    <3>3. c.offset < Len(L)
      BY <1>2, <1>8, <3>1
    <3> QED
      BY <3>2, <3>3 DEF EvalByOffset
  <2> QED
    BY <1>8, <2>1, <2>2 DEF EvalKC, L
<1>9. CASE c.kind = "value" /\ c.index \in Int
  <2>1. CASE c.index = NoIndex
    <3>1. ASSUME EvalValue(c, L)
          PROVE  \A d \in s : <<stream[d].val, c.value>> \in c.relation
      BY <1>2, <1>6, <2>1, <3>1 DEF EvalValue
    <3>2. ASSUME \A d \in s : <<stream[d].val, c.value>> \in c.relation
          PROVE  EvalValue(c, L)
      <4>1. ASSUME NEW i \in 0..(Len(L) - 1)
            PROVE  <<Item(L, i), c.value>> \in c.relation
        <5>1. i \in Int /\ ValidIndex(i, L)
          BY <1>2 DEF ValidIndex
        <5> QED
          BY <1>5, <3>2, <5>1
      <4> QED
        BY <2>1, <4>1 DEF EvalValue
    <3> QED
      BY <1>9, <2>1, <3>1, <3>2 DEF EvalKC, Demanded, L
  <2>2. CASE c.index # NoIndex
    <3>1. ASSUME EvalValue(c, L)
          PROVE  \E d \in s : Rank(s, d) = c.index /\ <<stream[d].val, c.value>> \in c.relation
      <4>1. ValidIndex(c.index, L) /\ <<Item(L, c.index), c.value>> \in c.relation
        BY <2>2, <3>1 DEF EvalValue
      <4> QED
        BY <1>5, <1>9, <4>1
    <3>2. ASSUME NEW d \in s, Rank(s, d) = c.index, <<stream[d].val, c.value>> \in c.relation
          PROVE  EvalValue(c, L)
      BY <1>6, <2>2, <3>2 DEF EvalValue
    <3> QED
      BY <1>9, <2>2, <3>1, <3>2 DEF EvalKC, Demanded, L
  <2> QED
    BY <2>1, <2>2
<1> QED
  BY <1>4, <1>7, <1>8, <1>9

\* The first and the last timestamp of an aggregated event bound those of its
\* members; the last one is that of the member with the greatest number.
LEMMA ClosureFacts ==
    ASSUME StreamInv, NEW s \in SUBSET (1..Newest), s # {}
    PROVE  /\ Max(s) \in s /\ \A e \in s : e <= Max(s)
           /\ \E e \in s : FirstOf(Closure(s)) = Ts(e)
           /\ \A e \in s : FirstOf(Closure(s)) <= Ts(e)
           /\ LastOf(Closure(s)) = Ts(Max(s))
           /\ \A e \in s : Ts(e) <= LastOf(Closure(s))
           /\ FirstOf(Closure(s)) \in Nat /\ LastOf(Closure(s)) \in Nat
           /\ ToSet(Closure(s).events) = s
<1> DEFINE L == InOrder(s)
           n == Cardinality(s)
<1>1. s \in SUBSET Nat /\ IsFiniteSet(s)
  BY StreamFacts
<1>2. Max(s) \in s /\ \A e \in s : e <= Max(s)
  BY <1>1, MaxFacts
<1>3. n \in Nat \ {0}
  BY <1>1, FS_EmptySet, RankFacts
<1>4. /\ Len(L) = n
      /\ \A i \in 1..n : L[i] \in s /\ Rank(s, L[i]) = i - 1
      /\ ToSet(L) = s
  BY <1>1, InOrderFacts
<1>5. /\ \A e \in s : Rank(s, e) \in 0..(n - 1)
      /\ \A d, e \in s : d < e => Rank(s, d) < Rank(s, e)
  BY <1>1, RankFacts
<1> HIDE DEF L, n
<1>6. \A d, e \in s : d <= e => Ts(d) <= Ts(e) /\ Ts(d) \in Nat
  BY StreamFacts DEF StreamInv
<1>7. Closure(s).events = L
  BY DEF Closure, L
<1>8. L[1] \in s /\ Rank(s, L[1]) = 0 /\ L[n] \in s /\ Rank(s, L[n]) = n - 1
  BY <1>3, <1>4
<1>9. ASSUME NEW e \in s
      PROVE  L[1] <= e /\ e <= L[n]
  <2>1. ~ e < L[1]
    <3>1. e < L[1] => Rank(s, e) < Rank(s, L[1])
      BY <1>5, <1>8
    <3>2. Rank(s, e) \in 0..(n - 1)
      BY <1>5
    <3> QED
      BY <1>3, <1>8, <3>1, <3>2
  <2>2. ~ L[n] < e
    <3>1. L[n] < e => Rank(s, L[n]) < Rank(s, e)
      BY <1>5, <1>8
    <3>2. Rank(s, e) \in 0..(n - 1)
      BY <1>5
    <3> QED
      BY <1>3, <1>8, <3>1, <3>2
  <2>3. e \in Nat /\ L[1] \in Nat /\ L[n] \in Nat
    BY <1>1, <1>8
  <2> QED
    BY <2>1, <2>2, <2>3
<1>10. L[n] = Max(s)
  <2>1. L[n] <= Max(s) /\ Max(s) <= L[n] /\ L[n] \in Nat /\ Max(s) \in Nat
    BY <1>1, <1>2, <1>8, <1>9
  <2> QED
    BY <2>1
<1>11. FirstOf(Closure(s)) = Ts(L[1]) /\ LastOf(Closure(s)) = Ts(L[n])
  BY <1>4, <1>7 DEF FirstOf, LastOf
<1> QED
  BY <1>2, <1>4, <1>6, <1>7, <1>8, <1>9, <1>10, <1>11

\* The window of a set is checked on its first and last event.
LEMMA WindowOfClosure ==
    ASSUME StreamInv, NEW s \in SUBSET (1..Newest), s # {}
    PROVE  FitsWindow(s) <=> LastOf(Closure(s)) - FirstOf(Closure(s)) <= Window
<1> DEFINE first == FirstOf(Closure(s))
           last == LastOf(Closure(s))
<1>1. /\ Max(s) \in s
      /\ \E e \in s : first = Ts(e)
      /\ \A e \in s : first <= Ts(e)
      /\ last = Ts(Max(s))
      /\ \A e \in s : Ts(e) <= last
      /\ first \in Nat /\ last \in Nat
  BY ClosureFacts
<1>2. \A e \in s : Ts(e) \in Nat
  BY StreamFacts
<1> HIDE DEF first, last
<1>3. ASSUME FitsWindow(s)
      PROVE  last - first <= Window
  BY <1>1, <1>3 DEF FitsWindow
<1>4. ASSUME last - first <= Window, NEW d \in s, NEW e \in s
      PROVE  Ts(d) - Ts(e) <= Window
  <2>1. Ts(d) <= last /\ first <= Ts(e) /\ Ts(d) \in Nat /\ Ts(e) \in Nat
    BY <1>1, <1>2
  <2> QED
    BY <1>1, <1>4, <2>1, BoundAssumption
<1> QED
  BY <1>3, <1>4 DEF FitsWindow, first, last

\* The closure node accepts the closures of the pattern.
LEMMA FittingAccepted ==
    ASSUME StreamInv, NEW s
    PROVE  s \in Fitting <=> /\ s \subseteq OfType("B") /\ s # {}
                             /\ WithinLimits(Cardinality(s)) /\ ValidClosure(Closure(s))
<1>1. SUFFICES ASSUME s \subseteq OfType("B")
      PROVE  s \in Fitting <=>
                s # {} /\ WithinLimits(Cardinality(s)) /\ ValidClosure(Closure(s))
  BY DEF Fitting
<1>2. s \in SUBSET (1..Newest)
  BY <1>1, StreamFacts
<1>3. s \in Fitting => s # {}
  <2>1. Cardinality({}) = 0
    BY FS_EmptySet
  <2>2. setup.min \in Nat \ {0}
    BY SetupAssumption DEF StreamInv
  <2>3. ~ Cardinality({}) >= setup.min
    BY <2>1, <2>2
  <2> QED
    BY <2>3 DEF Fitting
<1>4. ASSUME s # {}
      PROVE  ValidClosure(Closure(s)) <=>
                FitsWindow(s) /\ \A c \in setup.conditions : Demanded(c, s)
  <2>1. FitsWindow(s) <=> LastOf(Closure(s)) - FirstOf(Closure(s)) <= Window
    BY <1>2, <1>4, WindowOfClosure
  <2>2. \A c \in setup.conditions : EvalKC(c, Closure(s).events) <=> Demanded(c, s)
    BY <1>2, ConditionOnSet DEF Closure
  <2> QED
    BY <2>1, <2>2 DEF ValidClosure
<1> QED
  BY <1>1, <1>3, <1>4 DEF Fitting, WithinLimits

\* The join of a closure and an event c is the one the pattern demands, except
\* when c is the event after the last member.
LEMMA JoinAccepted ==
    ASSUME StreamInv, NEW s \in SUBSET (1..Newest), s # {}, FitsWindow(s),
           NEW c \in 1..Newest
    PROVE  ValidJoin(Closure(s), Primitive(c)) <=>
                /\ FitsWindow(s \cup {c})
                /\ setup.operator = "SEQ" => InSequence(s, c)
                /\ c # Max(s) + 1
<1> DEFINE first == FirstOf(Closure(s))
           last == LastOf(Closure(s))
           t == Ts(c)
<1>1. /\ Max(s) \in s
      /\ \E e \in s : first = Ts(e)
      /\ \A e \in s : first <= Ts(e)
      /\ last = Ts(Max(s))
      /\ \A e \in s : Ts(e) <= last
      /\ first \in Nat /\ last \in Nat
  BY ClosureFacts
<1>2. \A e \in s : Ts(e) \in Nat
  BY StreamFacts
<1>3. t \in Nat /\ Window \in Nat
  BY StreamFacts, BoundAssumption
<1>4. last - first <= Window
  BY WindowOfClosure
<1>5. /\ FirstOf(Primitive(c)) = t /\ LastOf(Primitive(c)) = t
      /\ Primitive(c).id = c /\ Closure(s).id = Max(s) + 1
  BY DEF FirstOf, LastOf, Primitive, Closure
<1>6. setup.partner \in {"first", "last"}
  BY SetupAssumption DEF StreamInv
<1> HIDE DEF first, last, t
<1>7. FitsWindow(s \cup {c}) <=> last - t <= Window /\ t - first <= Window
  <2>1. ASSUME FitsWindow(s \cup {c})
        PROVE  last - t <= Window /\ t - first <= Window
    BY <1>1, <2>1 DEF FitsWindow, t
  <2>2. ASSUME last - t <= Window, t - first <= Window,
               NEW d \in s \cup {c}, NEW e \in s \cup {c}
        PROVE  Ts(d) - Ts(e) <= Window
    <3>1. CASE d \in s /\ e \in s
      BY <3>1 DEF FitsWindow
    <3>2. CASE d \in s /\ e = c
      <4>1. Ts(d) <= last /\ Ts(d) \in Nat /\ Ts(e) = t
        BY <1>1, <1>2, <3>2 DEF t
      <4> QED
        BY <1>1, <1>3, <2>2, <4>1
    <3>3. CASE d = c /\ e \in s
      <4>1. first <= Ts(e) /\ Ts(e) \in Nat /\ Ts(d) = t
        BY <1>1, <1>2, <3>3 DEF t
      <4> QED
        BY <1>1, <1>3, <2>2, <4>1
    <3>4. CASE d = c /\ e = c
      BY <1>3, <3>4 DEF t
    <3> QED
      BY <3>1, <3>2, <3>3, <3>4
  <2> QED
    BY <2>1, <2>2 DEF FitsWindow
<1>8. InSequence(s, c) <=> IF setup.partner = "first" THEN t <= first /\ t <= last
                                                      ELSE first <= t /\ last <= t
  <2>1. CASE setup.partner = "first"
    <3>1. ASSUME InSequence(s, c)
          PROVE  t <= first /\ t <= last
      BY <1>1, <2>1, <3>1 DEF InSequence, t
    <3>2. ASSUME t <= first, NEW e \in s
          PROVE  t <= Ts(e)
      BY <1>1, <1>2, <1>3, <3>2
    <3> QED
      BY <2>1, <3>1, <3>2 DEF InSequence, t
  <2>2. CASE setup.partner # "first"
    <3>1. ASSUME InSequence(s, c)
          PROVE  first <= t /\ last <= t
      BY <1>1, <2>2, <3>1 DEF InSequence, t
    <3>2. ASSUME last <= t, NEW e \in s
          PROVE  Ts(e) <= t
      BY <1>1, <1>2, <1>3, <3>2
    <3> QED
      BY <2>2, <3>1, <3>2 DEF InSequence, t
  <2> QED
    BY <2>1, <2>2
<1>9. (IF last > t THEN last - t <= Window ELSE t - first <= Window)
        <=> last - t <= Window /\ t - first <= Window
  BY <1>1, <1>3, <1>4
<1> QED
  BY <1>4, <1>5, <1>7, <1>8, <1>9 DEF ValidJoin, first, last

-----------------------------------------------------------------------------
(* What is stored, built and found                                         *)

\* A cleanup removes nothing within the window of time t.
LEMMA LiveFacts ==
    ASSUME NEW as, NEW access, NEW t
    PROVE  /\ LiveMembers(as, access, t) \subseteq as
           /\ \A e \in as : Ts(e) >= t - Window => e \in LiveMembers(as, access, t)
           /\ Live(as, access, t) \subseteq as
           /\ \A a \in as : FirstOf(a) >= t - Window => a \in Live(as, access, t)
BY DEF LiveMembers, Live

\* The sets that are built: all within the limits that contain the last member.
LEMMA PowersetFacts ==
    ASSUME NEW ms \in SUBSET Nat, IsFiniteSet(ms), NEW max \in ms, \A e \in ms : e <= max
    PROVE  \A r : r \in Powerset(ms) <=>
                r \subseteq ms /\ max \in r /\ WithinLimits(Cardinality(r))
<1>1. Max(ms) = max
  <2>1. Max(ms) \in ms /\ \A e \in ms : e <= Max(ms)
    BY MaxFacts
  <2>2. Max(ms) \in Nat /\ max \in Nat /\ Max(ms) <= max /\ max <= Max(ms)
    BY <2>1
  <2> QED
    BY <2>2
<1>2. ASSUME NEW q \in SUBSET (ms \ {max})
      PROVE  Cardinality(q \cup {max}) = Cardinality(q) + 1
  <2>1. IsFiniteSet(q) /\ max \notin q
    BY FS_Subset
  <2> QED
    BY <2>1, FS_AddElement
<1>3. ASSUME NEW r \in Powerset(ms)
      PROVE  r \subseteq ms /\ max \in r /\ WithinLimits(Cardinality(r))
  BY <1>1, <1>2, <1>3 DEF Powerset
<1>4. ASSUME NEW r, r \subseteq ms, max \in r, WithinLimits(Cardinality(r))
      PROVE  r \in Powerset(ms)
  <2> DEFINE q == r \ {max}
  <2>1. q \in SUBSET (ms \ {max}) /\ r = q \cup {max}
    BY <1>4
  <2> HIDE DEF q
  <2>2. WithinLimits(Cardinality(q) + 1)
    BY <1>2, <1>4, <2>1
  <2> QED
    BY <1>1, <2>1, <2>2 DEF Powerset
<1> QED
  BY <1>3, <1>4

\* Matches that were not found before are added once each.
LEMMA FoundFacts ==
    ASSUME ReportedOnce, NEW ms, ms \cap BagToSet(matches) = {}
    PROVE  /\ BagToSet(Found(ms)) = BagToSet(matches) \cup ms
           /\ \A m \in BagToSet(Found(ms)) : Found(ms)[m] = 1
BY DEF ReportedOnce, BagToSet, Found, SetToBag, (+)

\* The matches of a pattern with and without a second event.
LEMMA ExpectedFacts ==
    ASSUME NEW m
    PROVE  /\ ~ Joined => (m \in Expected <=>
                \E s \in Fitting : m = [closure |-> s, partner |-> {}])
           /\ Joined => (m \in Expected <=>
                \E s \in Fitting, c \in OfType("C") :
                    /\ m = [closure |-> s, partner |-> {c}]
                    /\ FitsWindow(s \cup {c})
                    /\ setup.operator = "SEQ" => InSequence(s, c))
           /\ m \in Expected => m.closure \in Fitting
<1>1. ASSUME Joined, NEW s \in Fitting, NEW c \in OfType("C"),
             FitsWindow(s \cup {c}), setup.operator = "SEQ" => InSequence(s, c),
             m = [closure |-> s, partner |-> {c}]
      PROVE  m \in Expected
  <2> DEFINE p == <<s, c>>
  <2>1. p \in Fitting \X OfType("C") /\ p[1] = s /\ p[2] = c
    OBVIOUS
  <2> HIDE DEF p
  <2> QED
    BY <1>1, <2>1 DEF Expected
<1>2. ASSUME Joined, m \in Expected
      PROVE  \E s \in Fitting, c \in OfType("C") :
                    /\ m = [closure |-> s, partner |-> {c}]
                    /\ FitsWindow(s \cup {c})
                    /\ setup.operator = "SEQ" => InSequence(s, c)
  BY <1>2 DEF Expected
<1>3. ASSUME ~ Joined
      PROVE  m \in Expected <=> \E s \in Fitting : m = [closure |-> s, partner |-> {}]
  BY <1>3 DEF Expected
<1>4. ASSUME m \in Expected
      PROVE  m.closure \in Fitting
  <2>1. CASE Joined
    <3>1. PICK s \in Fitting, c \in OfType("C") : m = [closure |-> s, partner |-> {c}]
      BY <1>2, <1>4, <2>1
    <3> QED
      BY <3>1
  <2>2. CASE ~ Joined
    <3>1. PICK s \in Fitting : m = [closure |-> s, partner |-> {}]
      BY <1>3, <1>4, <2>2
    <3> QED
      BY <3>1
  <2> QED
    BY <2>1, <2>2
<1>5. ASSUME Joined
      PROVE  m \in Expected <=>
                \E s \in Fitting, c \in OfType("C") :
                    /\ m = [closure |-> s, partner |-> {c}]
                    /\ FitsWindow(s \cup {c})
                    /\ setup.operator = "SEQ" => InSequence(s, c)
  BY <1>1, <1>2, <1>5
<1> QED
  BY <1>3, <1>4, <1>5

-----------------------------------------------------------------------------
(* Steps that leave the stream alone                                       *)

\* The meaning of the pattern depends on nothing but the stream.
LEMMA SameStream ==
    ASSUME UNCHANGED <<setup, stream>>
    PROVE  /\ Newest' = Newest /\ Joined' = Joined
           /\ Fitting' = Fitting /\ Expected' = Expected
           /\ \A t : OfType(t)' = OfType(t)
           /\ \A e : Ts(e)' = Ts(e)
           /\ \A n : WithinLimits(n)' = WithinLimits(n)
           /\ \A t : InReach(t)' = InReach(t)
           /\ StreamInv => StreamInv'
BY DEF Newest, Joined, Fitting, Expected, OfType, Ts, WithinLimits, InReach, FitsWindow,
       Demanded, InSequence, StreamInv

\* Steps that end with what can still be joined in the storages.
LEMMA ReachOfClosure ==
    ASSUME StreamInv, NEW s \in SUBSET (1..Newest), Newest \in s, FitsWindow(s)
    PROVE  \A e \in s : InReach(Ts(e))
<1>1. \A e \in s : Ts(e) \in Nat /\ Ts(Newest) \in Nat
  BY StreamFacts
<1>2. \A e \in s : Ts(Newest) - Ts(e) <= Window
  BY DEF FitsWindow
<1> QED
  BY <1>1, <1>2, BoundAssumption DEF InReach

LEMMA HandleMemberKeeps ==
    ASSUME IInv, HandleMember
    PROVE  IInv'
<1> DEFINE t == Ts(Newest)
           added == LiveMembers(members, memberAccess, t) \cup {Newest}
           access == CleanAccess(memberAccess) + 1
           live == LiveMembers(added, access, t)
<1>1. /\ phase = "closure" /\ sets = {}
      /\ members' = live /\ sets' = Powerset(live)
      /\ phase' = IF sets' = {} THEN "idle" ELSE phase
      /\ UNCHANGED <<setup, stream, closures, partners, matches>>
  BY DEF HandleMember
<1>2. /\ Newest' = Newest /\ Joined' = Joined
      /\ Fitting' = Fitting /\ Expected' = Expected
      /\ \A type : OfType(type)' = OfType(type)
      /\ \A e : Ts(e)' = Ts(e)
      /\ \A n : WithinLimits(n)' = WithinLimits(n)
      /\ \A x : InReach(x)' = InReach(x)
      /\ StreamInv /\ StreamInv'
  BY <1>1, SameStream DEF IInv
<1>3. Newest \in OfType("B") /\ OfType("B") \subseteq 1..Newest /\ Newest \in 1..Newest
  BY <1>1, StreamFacts DEF IInv, PhaseInv
<1>4. Ts(Newest) >= t - Window
  BY <1>2, <1>3, StreamFacts, BoundAssumption
<1>5. /\ live \subseteq OfType("B") /\ Newest \in live
      /\ \A e \in OfType("B") : InReach(Ts(e)) => e \in live
  <2>1. added \subseteq OfType("B") /\ Newest \in added
    BY <1>3, LiveFacts DEF IInv, MembersInv
  <2>2. \A e \in OfType("B") : InReach(Ts(e)) => e \in added
    <3>1. \A e \in OfType("B") : InReach(Ts(e)) => e \in members \/ e = Newest
      BY DEF IInv, MembersInv
    <3> QED
      BY <3>1, LiveFacts DEF InReach
  <2> HIDE DEF added, access
  <2> QED
    BY <1>4, <2>1, <2>2, LiveFacts DEF InReach
<1> HIDE DEF t, added, access, live
<1>6. \A r : r \in sets' <=> r \subseteq live /\ Newest \in r /\ WithinLimits(Cardinality(r))
  <2>1. live \in SUBSET (1..Newest)
    BY <1>3, <1>5
  <2>2. live \in SUBSET Nat /\ IsFiniteSet(live)
    BY <1>2, <2>1, StreamFacts
  <2>3. \A e \in live : e <= Newest
    BY <2>1
  <2> QED
    BY <1>1, <1>5, <2>2, <2>3, PowersetFacts
\* The closures of the newest event still wait, as members of sets.
<1>7. ASSUME NEW s \in Fitting
      PROVE  Awaited(s)' <=> Awaited(s)
  <2>1. /\ s \subseteq OfType("B") /\ s \in SUBSET (1..Newest) /\ FitsWindow(s)
        /\ WithinLimits(Cardinality(s))
    BY <1>3 DEF Fitting, WithinLimits
  <2>2. ASSUME Newest \in s
        PROVE  s \in sets'
    <3>1. \A e \in s : InReach(Ts(e))
      BY <1>2, <2>1, <2>2, ReachOfClosure
    <3> QED
      BY <1>5, <1>6, <2>1, <2>2, <3>1
  <2> QED
    BY <1>1, <1>2, <2>2 DEF Awaited
<1>8. PhaseInv'
  BY <1>1, <1>2 DEF IInv, PhaseInv
<1>9. MembersInv'
  BY <1>1, <1>2, <1>5 DEF MembersInv
<1>10. SetsInv'
  BY <1>2, <1>5, <1>6 DEF SetsInv
<1>11. ClosuresInv'
  BY <1>1, <1>2, <1>7 DEF IInv, ClosuresInv
<1>12. PartnersInv'
  BY <1>1, <1>2 DEF IInv, PartnersInv, Primitive
<1>13. MatchesInv'
  <2>1. \A m \in Expected : Pending(m)' <=> Pending(m)
    <3>1. phase # "join" /\ phase' # "join"
      BY <1>1
    <3>2. \A m \in Expected : m.closure \in Fitting
      BY ExpectedFacts
    <3> QED
      BY <1>7, <3>1, <3>2 DEF Pending
  <2> QED
    BY <1>1, <1>2, <2>1 DEF IInv, MatchesInv, ReportedOnce, Adjacent
<1> QED
  BY <1>2, <1>8, <1>9, <1>10, <1>11, <1>12, <1>13 DEF IInv

\* A closure of the newest event is joined with everything the pattern demands.
LEMMA PropagateSetFinds ==
    ASSUME IInv, NEW s \in sets, s \in Fitting,
           NEW ms,
           \/ ~ Joined /\ ms = {Match(Closure(s), {})}
           \/ Joined /\ ms = {Match(Closure(s), ToSet(c.events)) :
                c \in {d \in Live(partners, partnerAccess, LastOf(Closure(s))) :
                            ValidJoin(Closure(s), d)}}
    PROVE  ms = {m \in Expected : ~ Adjacent(m) /\ m.closure = s}
<1>1. /\ s \subseteq OfType("B") /\ s \in SUBSET (1..Newest) /\ FitsWindow(s)
      /\ Newest \in s /\ StreamInv /\ s # {}
  BY FittingAccepted DEF IInv, SetsInv, Fitting, OfType
<1>2. Max(s) = Newest /\ LastOf(Closure(s)) = Ts(Newest) /\ ToSet(Closure(s).events) = s
  <2>1. /\ Max(s) \in s /\ Newest <= Max(s) /\ LastOf(Closure(s)) = Ts(Max(s))
        /\ ToSet(Closure(s).events) = s
    BY <1>1, ClosureFacts
  <2>2. Max(s) \in 1..Newest /\ Newest \in Nat
    BY <1>1, <2>1
  <2>3. Max(s) = Newest
    BY <2>1, <2>2
  <2> QED
    BY <2>1, <2>3
<1>3. \A cs : Match(Closure(s), cs) = [closure |-> s, partner |-> cs]
  BY <1>2 DEF Match
<1>4. CASE ~ Joined
  <2>1. ms = {[closure |-> s, partner |-> {}]}
    BY <1>3, <1>4
  <2>2. \A m \in Expected : \E r \in Fitting : m = [closure |-> r, partner |-> {}]
    BY <1>4, ExpectedFacts
  <2>3. [closure |-> s, partner |-> {}] \in Expected
    BY <1>4, ExpectedFacts
  <2>4. \A m \in Expected : ~ Adjacent(m)
    BY <2>2 DEF Adjacent
  <2> QED
    BY <2>1, <2>2, <2>3, <2>4
<1>5. CASE Joined
  <2> DEFINE live == Live(partners, partnerAccess, LastOf(Closure(s)))
  <2>1. /\ live \subseteq partners
        /\ \A p \in partners : FirstOf(p) >= Ts(Newest) - Window => p \in live
    BY <1>2, LiveFacts
  <2>2. phase = "closure"
    BY DEF IInv, PhaseInv
  <2>3. ASSUME NEW c \in OfType("C")
        PROVE  /\ ValidJoin(Closure(s), Primitive(c)) <=>
                    /\ FitsWindow(s \cup {c})
                    /\ setup.operator = "SEQ" => InSequence(s, c)
                    /\ c # Newest + 1
               /\ FitsWindow(s \cup {c}) => Primitive(c) \in live
               /\ ToSet(Primitive(c).events) = {c} /\ c # Newest + 1
    <3>1. c \in 1..Newest /\ Newest \in Nat
      BY <1>1, StreamFacts
    <3>2. ToSet(Primitive(c).events) = {c}
      BY DEF Primitive, ToSet
    <3>3. ASSUME FitsWindow(s \cup {c})
          PROVE  Primitive(c) \in live
      <4>1. Ts(Newest) - Ts(c) <= Window
        BY <1>1, <3>3 DEF FitsWindow
      <4>2. Ts(c) >= Ts(Newest) - Window
        BY <1>1, <3>1, <4>1, StreamFacts, BoundAssumption
      <4>3. Primitive(c) \in partners
        BY <1>5, <2>2, <4>2 DEF IInv, PartnersInv, InReach
      <4>4. FirstOf(Primitive(c)) = Ts(c)
        BY DEF FirstOf, Primitive
      <4> QED
        BY <2>1, <4>2, <4>3, <4>4
    <3>4. c # Newest + 1
      BY <3>1
    <3>5. ValidJoin(Closure(s), Primitive(c)) <=>
                /\ FitsWindow(s \cup {c})
                /\ setup.operator = "SEQ" => InSequence(s, c)
                /\ c # Max(s) + 1
      BY <1>1, <3>1, JoinAccepted
    <3> QED
      BY <1>2, <3>2, <3>3, <3>4, <3>5
  <2>4. \A p \in live : \E c \in OfType("C") : p = Primitive(c)
    BY <2>1 DEF IInv, PartnersInv
  <2>5. ms = {Match(Closure(s), ToSet(c.events)) : c \in {d \in live : ValidJoin(Closure(s), d)}}
    BY <1>5
  <2> HIDE DEF live
  <2>6. ASSUME NEW m \in ms
        PROVE  m \in Expected /\ ~ Adjacent(m) /\ m.closure = s
    <3>1. PICK p \in live : ValidJoin(Closure(s), p) /\ m = Match(Closure(s), ToSet(p.events))
      BY <2>5
    <3>2. PICK c \in OfType("C") : p = Primitive(c)
      BY <2>4
    <3>3. m = [closure |-> s, partner |-> {c}]
      BY <1>3, <2>3, <3>1, <3>2
    <3>4. m.closure = s /\ m.partner = {c}
      BY <3>3
    <3>5. m \in Expected
      BY <1>5, <2>3, <3>1, <3>2, <3>3, ExpectedFacts
    <3>6. ~ Adjacent(m)
      BY <1>2, <2>3, <3>4 DEF Adjacent
    <3> QED
      BY <3>4, <3>5, <3>6
  <2>7. ASSUME NEW m \in Expected, m.closure = s
        PROVE  m \in ms
    <3>1. PICK r \in Fitting, c \in OfType("C") :
            /\ m = [closure |-> r, partner |-> {c}]
            /\ FitsWindow(r \cup {c})
            /\ setup.operator = "SEQ" => InSequence(r, c)
      BY <1>5, ExpectedFacts
    <3>2. r = s
      BY <2>7, <3>1
    <3>3. Primitive(c) \in live /\ ValidJoin(Closure(s), Primitive(c))
      BY <2>3, <3>1, <3>2
    <3>4. m = Match(Closure(s), ToSet(Primitive(c).events))
      BY <1>3, <2>3, <3>1, <3>2
    <3> QED
      BY <2>5, <3>3, <3>4
  <2> QED
    BY <2>6, <2>7
<1> QED
  BY <1>4, <1>5

LEMMA PropagateSetKeeps ==
    ASSUME IInv, PropagateSet
    PROVE  IInv'
<1>1. phase = "closure" /\ UNCHANGED <<setup, stream, members>>
  BY DEF PropagateSet
<1>2. PICK s \in sets :
        LET a == Aggregate(s)
            live == Live(partners, partnerAccess, LastOf(a))
        IN  /\ sets' = sets \ {s}
            /\ phase' = IF sets' = {} THEN "idle" ELSE phase
            /\ IF ~ ValidClosure(a)
               THEN UNCHANGED <<closures, closureAccess, partners, partnerAccess,
                                matches>>
               ELSE /\ closures' = closures \cup {a}
                    /\ closureAccess' = closureAccess + 1
                    /\ IF ~ Joined
                       THEN /\ matches' = Found({Match(a, {})})
                            /\ UNCHANGED <<partners, partnerAccess>>
                       ELSE /\ partners' = live
                            /\ partnerAccess' = CleanAccess(partnerAccess)
                            /\ matches' = Found({Match(a, ToSet(c.events)) :
                                        c \in {d \in live : ValidJoin(a, d)}})
  BY DEF PropagateSet
<1>3. /\ Newest' = Newest /\ Joined' = Joined
      /\ Fitting' = Fitting /\ Expected' = Expected
      /\ \A type : OfType(type)' = OfType(type)
      /\ \A e : Ts(e)' = Ts(e)
      /\ \A n : WithinLimits(n)' = WithinLimits(n)
      /\ \A x : InReach(x)' = InReach(x)
      /\ StreamInv /\ StreamInv'
  BY <1>1, SameStream DEF IInv
<1>4. /\ s \subseteq OfType("B") /\ s \in SUBSET (1..Newest) /\ s # {} /\ Newest \in s
      /\ WithinLimits(Cardinality(s))
  BY <1>3, StreamFacts DEF IInv, SetsInv
<1>5. Aggregate(s) = Closure(s) /\ LastOf(Closure(s)) = Ts(Newest)
  <2>1. Max(s) \in s /\ Newest <= Max(s) /\ LastOf(Closure(s)) = Ts(Max(s))
    BY <1>3, <1>4, ClosureFacts
  <2>2. Max(s) \in 1..Newest /\ Newest \in Nat
    BY <1>3, <1>4, <2>1, StreamFacts
  <2>3. Max(s) = Newest
    BY <2>1, <2>2
  <2> QED
    BY <2>1, <2>3 DEF Aggregate, Closure, InOrder
<1>6. s \in Fitting <=> ValidClosure(Closure(s))
  BY <1>3, <1>4, FittingAccepted
<1>7. ASSUME NEW r
      PROVE  Awaited(r)' <=> Awaited(r) /\ r # s
  BY <1>1, <1>2, <1>3 DEF Awaited
<1>8. \A m \in Expected : Pending(m)' <=> Pending(m) /\ m.closure # s
  <2>1. phase' # "join"
    BY <1>1, <1>2
  <2> QED
    BY <1>1, <1>7, <2>1 DEF Pending
<1>9. PhaseInv'
  BY <1>1, <1>2, <1>3 DEF IInv, PhaseInv
<1>10. MembersInv'
  BY <1>1, <1>2, <1>3 DEF IInv, MembersInv
<1>11. SetsInv'
  BY <1>2, <1>3 DEF IInv, SetsInv
<1>12. CASE s \notin Fitting
  <2>1. UNCHANGED <<closures, partners, matches>>
    BY <1>2, <1>5, <1>6, <1>12
  <2>2. ClosuresInv'
    BY <1>3, <1>7, <1>12, <2>1 DEF IInv, ClosuresInv
  <2>3. PartnersInv'
    BY <1>1, <1>3, <2>1 DEF IInv, PartnersInv, Primitive
  <2>4. MatchesInv'
    <3>1. \A m \in Expected : m.closure # s
      BY <1>12, ExpectedFacts
    <3> QED
      BY <1>3, <1>8, <2>1, <3>1 DEF IInv, MatchesInv, ReportedOnce, Adjacent
  <2> QED
    BY <1>3, <1>9, <1>10, <1>11, <2>2, <2>3, <2>4 DEF IInv
<1>13. CASE s \in Fitting
  <2> DEFINE live == Live(partners, partnerAccess, LastOf(Closure(s)))
             ms == IF ~ Joined THEN {Match(Closure(s), {})}
                   ELSE {Match(Closure(s), ToSet(c.events)) :
                            c \in {d \in live : ValidJoin(Closure(s), d)}}
  <2>1. /\ closures' = closures \cup {Closure(s)}
        /\ partners' = IF Joined THEN live ELSE partners
        /\ matches' = Found(ms)
    BY <1>2, <1>5, <1>6, <1>13
  <2>2. ms = {m \in Expected : ~ Adjacent(m) /\ m.closure = s}
    BY <1>13, PropagateSetFinds
  <2>3. /\ live \subseteq partners
        /\ \A p \in partners : FirstOf(p) >= Ts(Newest) - Window => p \in live
    BY <1>5, LiveFacts
  <2> HIDE DEF live, ms
  <2>4. ClosuresInv'
    BY <1>3, <1>7, <1>13, <2>1 DEF IInv, ClosuresInv
  <2>5. PartnersInv'
    <3>1. \A c : FirstOf(Primitive(c)) = Ts(c)
      BY DEF FirstOf, Primitive
    <3>2. partners' \subseteq partners
      BY <2>1, <2>3
    <3>3. \A p \in partners' : \E c \in OfType("C") : p = Primitive(c)
      BY <3>2 DEF IInv, PartnersInv
    <3>4. ASSUME Joined, NEW c \in OfType("C"), InReach(Ts(c))
          PROVE  Primitive(c) \in partners'
      <4>1. Primitive(c) \in partners
        BY <1>1, <3>4 DEF IInv, PartnersInv
      <4> QED
        BY <2>1, <2>3, <3>1, <3>4, <4>1 DEF InReach
    <3> QED
      BY <1>3, <3>3, <3>4 DEF PartnersInv, Primitive
  <2>6. MatchesInv'
    <3>1. ms \cap BagToSet(matches) = {}
      <4>1. Awaited(s)
        BY <1>1, <1>4 DEF Awaited
      <4> QED
        BY <2>2, <4>1 DEF IInv, MatchesInv, Pending
    <3>2. /\ BagToSet(Found(ms)) = BagToSet(matches) \cup ms
          /\ \A m \in BagToSet(Found(ms)) : Found(ms)[m] = 1
      BY <3>1, FoundFacts DEF IInv, MatchesInv
    <3>3. ReportedOnce'
      BY <2>1, <3>2 DEF ReportedOnce, BagToSet
    <3>4. BagToSet(matches') = BagToSet(matches) \cup ms
      BY <2>1, <3>2
    <3>5. \A m : Adjacent(m)' <=> Adjacent(m)
      BY DEF Adjacent
    <3>6. \A m \in Expected : m.closure = s => Pending(m)
      BY <1>1, <1>4 DEF Pending, Awaited
    <3>7. BagToSet(matches') = {m \in Expected : ~ Adjacent(m) /\ ~ Pending(m)'}
      BY <1>8, <2>2, <3>4, <3>6 DEF IInv, MatchesInv
    <3> QED
      BY <1>3, <3>3, <3>5, <3>7 DEF MatchesInv, BagToSet
  <2> QED
    BY <1>3, <1>9, <1>10, <1>11, <2>4, <2>5, <2>6 DEF IInv
<1> QED
  BY <1>12, <1>13

\* An event is joined with every closure the pattern demands but the one that
\* ends right before it.
LEMMA HandlePartnerFinds ==
    ASSUME IInv, phase = "join"
    PROVE  {Match(a, {Newest}) :
                a \in {b \in Live(closures, closureAccess, Ts(Newest)) :
                            ValidJoin(b, Primitive(Newest))}}
           = {m \in Expected : ~ Adjacent(m) /\ m.partner = {Newest}}
<1> DEFINE live == Live(closures, closureAccess, Ts(Newest))
           ms == {Match(a, {Newest}) : a \in {b \in live : ValidJoin(b, Primitive(Newest))}}
<1>1. Newest \in OfType("C") /\ Newest \in 1..Newest /\ Joined /\ StreamInv
  BY DEF IInv, PhaseInv, OfType
<1>2. /\ live \subseteq closures
      /\ \A a \in closures : FirstOf(a) >= Ts(Newest) - Window => a \in live
  BY LiveFacts
<1>3. ASSUME NEW s \in Fitting
      PROVE  /\ s \in SUBSET (1..Newest) /\ s # {} /\ FitsWindow(s)
             /\ ToSet(Closure(s).events) = s
             /\ ValidJoin(Closure(s), Primitive(Newest)) <=>
                    /\ FitsWindow(s \cup {Newest})
                    /\ setup.operator = "SEQ" => InSequence(s, Newest)
                    /\ Newest # Max(s) + 1
             /\ FitsWindow(s \cup {Newest}) => Closure(s) \in live
  <2>1. s \in SUBSET (1..Newest) /\ s # {} /\ FitsWindow(s)
    BY <1>1, FittingAccepted DEF Fitting, OfType
  <2>2. /\ ToSet(Closure(s).events) = s
        /\ \E e \in s : FirstOf(Closure(s)) = Ts(e)
    BY <1>1, <2>1, ClosureFacts
  <2>3. ValidJoin(Closure(s), Primitive(Newest)) <=>
                    /\ FitsWindow(s \cup {Newest})
                    /\ setup.operator = "SEQ" => InSequence(s, Newest)
                    /\ Newest # Max(s) + 1
    BY <1>1, <2>1, JoinAccepted
  <2>4. ASSUME FitsWindow(s \cup {Newest})
        PROVE  Closure(s) \in live
    <3>1. \A e \in s : InReach(Ts(e))
      <4>1. s \cup {Newest} \in SUBSET (1..Newest)
        BY <1>1, <2>1
      <4> QED
        BY <1>1, <2>4, <4>1, ReachOfClosure
    <3>2. ~ Awaited(s)
      BY DEF Awaited
    <3>3. Closure(s) \in closures
      BY <3>1, <3>2 DEF IInv, ClosuresInv
    <3> QED
      BY <1>2, <2>2, <3>1, <3>3 DEF InReach
  <2> QED
    BY <2>1, <2>2, <2>3, <2>4
<1> HIDE DEF live
<1>4. ASSUME NEW m \in ms
      PROVE  m \in Expected /\ ~ Adjacent(m) /\ m.partner = {Newest}
  <2>1. PICK a \in live : ValidJoin(a, Primitive(Newest)) /\ m = Match(a, {Newest})
    OBVIOUS
  <2>2. PICK s \in Fitting : a = Closure(s)
    BY <1>2 DEF IInv, ClosuresInv
  <2>3. m = [closure |-> s, partner |-> {Newest}]
    BY <1>3, <2>1, <2>2 DEF Match
  <2>4. m.closure = s /\ m.partner = {Newest}
    BY <2>3
  <2>5. m \in Expected
    BY <1>1, <1>3, <2>1, <2>2, <2>3, ExpectedFacts
  <2>6. ~ Adjacent(m)
    BY <1>3, <2>1, <2>2, <2>4 DEF Adjacent
  <2> QED
    BY <2>4, <2>5, <2>6
<1>5. ASSUME NEW m \in Expected, ~ Adjacent(m), m.partner = {Newest}
      PROVE  m \in ms
  <2>1. PICK s \in Fitting, c \in OfType("C") :
            /\ m = [closure |-> s, partner |-> {c}]
            /\ FitsWindow(s \cup {c})
            /\ setup.operator = "SEQ" => InSequence(s, c)
    BY <1>1, ExpectedFacts
  <2>2. m.closure = s /\ m.partner = {c}
    BY <2>1
  <2>3. c = Newest
    BY <1>5, <2>2
  <2>4. Newest # Max(s) + 1
    BY <1>5, <2>2 DEF Adjacent
  <2>5. Closure(s) \in live /\ ValidJoin(Closure(s), Primitive(Newest))
    BY <1>3, <2>1, <2>3, <2>4
  <2>6. m = Match(Closure(s), {Newest})
    BY <1>3, <2>1, <2>3 DEF Match
  <2> QED
    BY <2>5, <2>6
<1> QED
  BY <1>4, <1>5 DEF live

LEMMA HandlePartnerKeeps ==
    ASSUME IInv, HandlePartner
    PROVE  IInv'
<1> DEFINE live == Live(closures, closureAccess, Ts(Newest))
           kept == Live(partners, partnerAccess, Ts(Newest))
           ms == {Match(a, {Newest}) : a \in {b \in live : ValidJoin(b, Primitive(Newest))}}
<1>1. /\ phase = "join" /\ phase' = "idle"
      /\ partners' = kept \cup {Primitive(Newest)}
      /\ closures' = live
      /\ matches' = Found(ms)
      /\ UNCHANGED <<setup, stream, members, sets>>
  BY DEF HandlePartner
<1>2. ms = {m \in Expected : ~ Adjacent(m) /\ m.partner = {Newest}}
  BY <1>1, HandlePartnerFinds
<1>3. /\ Newest' = Newest /\ Joined' = Joined
      /\ Fitting' = Fitting /\ Expected' = Expected
      /\ \A type : OfType(type)' = OfType(type)
      /\ \A e : Ts(e)' = Ts(e)
      /\ \A n : WithinLimits(n)' = WithinLimits(n)
      /\ \A x : InReach(x)' = InReach(x)
      /\ StreamInv /\ StreamInv'
  BY <1>1, SameStream DEF IInv
<1>4. Newest \in OfType("C") /\ Newest \in 1..Newest /\ sets = {}
  BY <1>1, StreamFacts DEF IInv, PhaseInv, OfType
<1>5. \A s : ~ Awaited(s) /\ ~ Awaited(s)'
  BY <1>1 DEF Awaited
<1>6. /\ live \subseteq closures
      /\ \A a \in closures : FirstOf(a) >= Ts(Newest) - Window => a \in live
      /\ kept \subseteq partners
      /\ \A p \in partners : FirstOf(p) >= Ts(Newest) - Window => p \in kept
  BY LiveFacts
<1> HIDE DEF live, kept, ms
<1>7. PhaseInv'
  BY <1>1, <1>4 DEF PhaseInv
<1>8. MembersInv'
  BY <1>1, <1>3 DEF IInv, MembersInv
<1>9. SetsInv'
  BY <1>1, <1>4 DEF SetsInv
<1>10. ClosuresInv'
  <2>1. \A a \in live : \E s \in Fitting : a = Closure(s)
    BY <1>6 DEF IInv, ClosuresInv
  <2>2. ASSUME NEW s \in Fitting, \A e \in s : InReach(Ts(e))
        PROVE  Closure(s) \in live
    <3>1. Closure(s) \in closures
      BY <1>5, <2>2 DEF IInv, ClosuresInv
    <3>2. \E e \in s : FirstOf(Closure(s)) = Ts(e)
      <4>1. s \in SUBSET (1..Newest) /\ s # {}
        BY <1>3, FittingAccepted DEF Fitting, OfType
      <4> QED
        BY <1>3, <4>1, ClosureFacts
    <3> QED
      BY <1>6, <2>2, <3>1, <3>2 DEF InReach
  <2> QED
    BY <1>1, <1>3, <2>1, <2>2 DEF ClosuresInv
<1>11. PartnersInv'
  <2>1. \A c : FirstOf(Primitive(c)) = Ts(c)
    BY DEF FirstOf, Primitive
  <2>2. \A p \in partners' : \E c \in OfType("C") : p = Primitive(c)
    BY <1>1, <1>4, <1>6 DEF IInv, PartnersInv
  <2>3. ASSUME Joined, NEW c \in OfType("C"), InReach(Ts(c))
        PROVE  Primitive(c) \in partners'
    <3>1. Primitive(c) \in partners \/ c = Newest
      BY <2>3 DEF IInv, PartnersInv
    <3> QED
      BY <1>1, <1>6, <2>1, <2>3, <3>1 DEF InReach
  <2> QED
    BY <1>3, <2>2, <2>3 DEF PartnersInv, Primitive
<1>12. MatchesInv'
  <2>1. ms \cap BagToSet(matches) = {}
    BY <1>1, <1>2 DEF IInv, MatchesInv, Pending
  <2>2. /\ BagToSet(Found(ms)) = BagToSet(matches) \cup ms
        /\ \A m \in BagToSet(Found(ms)) : Found(ms)[m] = 1
    BY <2>1, FoundFacts DEF IInv, MatchesInv
  <2>3. ReportedOnce'
    BY <1>1, <2>2 DEF ReportedOnce, BagToSet
  <2>4. BagToSet(matches') = BagToSet(matches) \cup ms
    BY <1>1, <2>2
  <2>5. \A m : Pending(m) <=> m.partner = {Newest}
    BY <1>1, <1>5 DEF Pending
  <2>6. \A m : ~ Pending(m)'
    BY <1>1, <1>5 DEF Pending
  <2>7. \A m : Adjacent(m)' <=> Adjacent(m)
    BY DEF Adjacent
  <2>8. BagToSet(matches') = {m \in Expected : ~ Adjacent(m) /\ ~ Pending(m)'}
    BY <1>2, <2>4, <2>5, <2>6 DEF IInv, MatchesInv
  <2> QED
    BY <1>3, <2>3, <2>7, <2>8 DEF MatchesInv, BagToSet
<1> QED
  BY <1>3, <1>7, <1>8, <1>9, <1>10, <1>11, <1>12 DEF IInv

-----------------------------------------------------------------------------
(* The next event                                                          *)

\* What the events read so far mean stays the same; the event that is read
\* has the greatest timestamp.
LEMMA StreamGrows ==
    ASSUME StreamInv, ReadEvent
    PROVE  /\ StreamInv' /\ Newest' = Newest + 1 /\ Newest \in Nat /\ Joined' = Joined
           /\ \A e \in 1..Newest : stream'[e] = stream[e] /\ Ts(e)' = Ts(e)
           /\ \A e \in 1..Newest : Ts(e) \in Nat /\ Ts(e) <= Ts(Newest) /\ Ts(Newest) <= Ts(Newest)'
           /\ Ts(Newest)' \in Nat
           /\ \A t : OfType(t)' \cap (1..Newest) = OfType(t)
           /\ Newest' \in OfType("B")' => phase' = "closure"
           /\ Newest' \in OfType("C")' /\ Joined => phase' = "join"
           /\ phase' = "closure" => Newest' \in OfType("B")'
           /\ phase' = "join" => Newest' \in OfType("C")' /\ Joined
           /\ phase' \in {"idle", "closure", "join"}
<1> DEFINE Event == [type : {"B", "C"}, val : setup.values, ts : Nat]
<1>1. PICK type \in {"B", "C"}, gap \in 0..MaxGap, val \in setup.values :
        /\ stream' = Append(stream, [type |-> type, val |-> val,
                ts |-> IF stream = <<>> THEN 0 ELSE Ts(Newest) + gap])
        /\ phase' = CASE type = "B" -> "closure"
                      [] type = "C" /\ Joined -> "join"
                      [] OTHER -> "idle"
  BY DEF ReadEvent
<1> DEFINE ts == IF stream = <<>> THEN 0 ELSE Ts(Newest) + gap
           new == [type |-> type, val |-> val, ts |-> ts]
<1>2. Newest \in Nat /\ \A e \in 1..Newest : Ts(e) \in Nat
  BY StreamFacts
<1>3. stream \in Seq(Event) /\ setup' = setup
  BY DEF StreamInv, ReadEvent
<1>4. gap \in Nat
  BY <1>1, BoundAssumption
<1>5. stream # <<>> => Newest \in 1..Newest
  <2>1. stream # <<>> => Len(stream) # 0 /\ Len(stream) \in Nat
    BY ONLY <1>3
  <2> QED
    BY <2>1 DEF Newest
<1>6. /\ ts \in Nat
      /\ \A e \in 1..Newest : Ts(e) <= Ts(Newest) /\ Ts(Newest) \in Nat /\ Ts(Newest) <= ts
  <2>1. CASE stream = <<>>
    <3>1. 1..Newest = {}
      BY <2>1 DEF Newest
    <3> QED
      BY <2>1, <3>1
  <2>2. CASE stream # <<>>
    <3>1. Newest \in 1..Newest /\ Ts(Newest) \in Nat /\ ts = Ts(Newest) + gap
      BY <1>2, <1>5, <2>2
    <3>2. \A e \in 1..Newest : Ts(e) <= Ts(Newest)
      BY <3>1 DEF StreamInv
    <3> QED
      BY <1>4, <3>1, <3>2
  <2> QED
    BY <2>1, <2>2
<1> HIDE DEF ts
<1>7. new \in Event /\ stream' = Append(stream, new)
  BY <1>1, <1>6 DEF ts
<1>8. new.type = type /\ new.ts = ts
  OBVIOUS
<1> HIDE DEF new, Event
<1>9. /\ stream' \in Seq(Event) /\ Len(stream') = Len(stream) + 1
      /\ \A e \in 1..Len(stream) : stream'[e] = stream[e]
      /\ stream'[Len(stream) + 1] = new
  BY ONLY <1>3, <1>7
<1>10. Newest' = Newest + 1 /\ stream'[Newest + 1] = new
  BY <1>9 DEF Newest
<1>11. \A e \in 1..Newest : stream'[e] = stream[e] /\ Ts(e)' = Ts(e)
  BY <1>9 DEF Newest, Ts
<1>12. Ts(Newest)' = ts /\ \A e : e = Newest + 1 => Ts(e)' = ts
  BY <1>8, <1>10 DEF Ts
<1>13. \A e \in 1..(Newest + 1) : e \in 1..Newest \/ e = Newest + 1
  BY <1>2
<1>14. \A t : OfType(t)' \cap (1..Newest) = OfType(t)
  BY <1>2, <1>10, <1>11 DEF OfType
<1>15. \A t : Newest' \in OfType(t)' <=> t = type
  BY <1>2, <1>8, <1>10 DEF OfType
<1>16. StreamInv'
  <2>1. stream' \in Seq([type : {"B", "C"}, val : setup'.values, ts : Nat])
    BY <1>3, <1>9 DEF Event
  <2>2. ASSUME NEW d \in 1..(Newest + 1), NEW e \in 1..(Newest + 1), d <= e
        PROVE  Ts(d)' <= Ts(e)'
    <3>1. CASE e \in 1..Newest
      <4>1. d \in 1..Newest
        BY <1>2, <2>2, <3>1
      <4> QED
        BY <1>11, <2>2, <3>1, <4>1 DEF StreamInv
    <3>2. CASE e = Newest + 1 /\ d \in 1..Newest
      <4>1. Ts(e)' = ts /\ Ts(d)' = Ts(d)
        BY <1>11, <1>12, <3>2
      <4> QED
        BY <1>2, <1>6, <3>2, <4>1
    <3>3. CASE e = Newest + 1 /\ d = Newest + 1
      BY <1>6, <1>12, <3>3
    <3> QED
      BY <1>13, <3>1, <3>2, <3>3
  <2> QED
    BY <1>3, <1>10, <2>1, <2>2 DEF StreamInv
<1>17. Joined' = Joined
  BY <1>3 DEF Joined
<1>18. /\ phase' = "closure" <=> type = "B"
       /\ phase' = "join" <=> type = "C" /\ Joined
       /\ phase' \in {"idle", "closure", "join"}
  BY <1>1
<1> QED
  BY <1>2, <1>6, <1>10, <1>11, <1>12, <1>14, <1>15, <1>16, <1>17, <1>18

\* The closures and matches of the old events are what they were.
LEMMA OldEventsKept ==
    ASSUME StreamInv, ReadEvent
    PROVE  /\ \A s \in SUBSET (1..Newest) : FitsWindow(s)' <=> FitsWindow(s)
           /\ \A s \in SUBSET (1..Newest) : s \in Fitting' <=> s \in Fitting
           /\ \A s \in SUBSET (1..Newest), c \in 1..Newest :
                    InSequence(s, c)' <=> InSequence(s, c)
<1>1. /\ \A e \in 1..Newest : stream'[e] = stream[e] /\ Ts(e)' = Ts(e)
      /\ \A t : OfType(t)' \cap (1..Newest) = OfType(t)
  BY StreamGrows
<1>2. setup' = setup
  BY DEF ReadEvent
<1>3. ASSUME NEW s \in SUBSET (1..Newest)
      PROVE  FitsWindow(s)' <=> FitsWindow(s)
  BY <1>1 DEF FitsWindow
<1>4. ASSUME NEW s \in SUBSET (1..Newest), NEW c
      PROVE  Demanded(c, s)' <=> Demanded(c, s)
  BY <1>1 DEF Demanded
<1>5. ASSUME NEW s \in SUBSET (1..Newest)
      PROVE  s \in Fitting' <=> s \in Fitting
  <2>1. s \subseteq OfType("B")' <=> s \subseteq OfType("B")
    BY <1>1
  <2> QED
    BY <1>2, <1>3, <1>4, <2>1 DEF Fitting
<1>6. ASSUME NEW s \in SUBSET (1..Newest), NEW c \in 1..Newest
      PROVE  InSequence(s, c)' <=> InSequence(s, c)
  BY <1>1, <1>2 DEF InSequence
<1> QED
  BY <1>3, <1>5, <1>6

\* The same of the state after a step.
LEMMA ExpectedNext ==
    (Joined => \A m : m \in Expected <=>
        \E s \in Fitting, c \in OfType("C") :
            /\ m = [closure |-> s, partner |-> {c}]
            /\ FitsWindow(s \cup {c})
            /\ setup.operator = "SEQ" => InSequence(s, c))'
<1>1. Joined => \A m : m \in Expected <=>
        \E s \in Fitting, c \in OfType("C") :
            /\ m = [closure |-> s, partner |-> {c}]
            /\ FitsWindow(s \cup {c})
            /\ setup.operator = "SEQ" => InSequence(s, c)
  BY ExpectedFacts
<1> QED
  BY <1>1, PTL

\* The new matches are those of the new event, which all wait for it.
LEMMA NewMatchesPending ==
    ASSUME IInv, ReadEvent
    PROVE  {m \in Expected' : ~ Pending(m)'} = Expected
<1>1. /\ StreamInv' /\ Newest' = Newest + 1 /\ Newest \in Nat /\ Joined' = Joined
      /\ \A t : OfType(t)' \cap (1..Newest) = OfType(t)
      /\ Newest' \in OfType("B")' => phase' = "closure"
      /\ Newest' \in OfType("C")' /\ Joined => phase' = "join"
      /\ StreamInv
  BY StreamGrows DEF IInv
<1>2. /\ \A s \in SUBSET (1..Newest) : FitsWindow(s)' <=> FitsWindow(s)
      /\ \A s \in SUBSET (1..Newest) : s \in Fitting' <=> s \in Fitting
      /\ \A s \in SUBSET (1..Newest), c \in 1..Newest :
                    InSequence(s, c)' <=> InSequence(s, c)
  BY <1>1, OldEventsKept
<1>3. setup' = setup /\ sets' = {}
  BY DEF ReadEvent, IInv, PhaseInv
<1>4. \A t, e : e \in OfType(t)' => e \in 1..Newest \/ e = Newest'
  <2>1. \A t, e : e \in OfType(t)' => e \in 1..Newest'
    BY DEF OfType
  <2>2. \A e \in 1..(Newest + 1) : e \in 1..Newest \/ e = Newest + 1
    BY <1>1
  <2> QED
    BY <1>1, <2>1, <2>2
<1>5. Newest' \notin 1..Newest
  BY <1>1
<1>6. \A s \in Fitting : s \in SUBSET (1..Newest)
  BY DEF Fitting, OfType
<1>7. ASSUME NEW s \in Fitting', ~ Awaited(s)'
      PROVE  s \in Fitting
  <2>1. s \subseteq OfType("B")'
    BY <1>7 DEF Fitting
  <2>2. Newest' \notin s
    BY <1>1, <1>3, <1>7, <2>1 DEF Awaited
  <2>3. s \in SUBSET (1..Newest)
    BY <1>4, <2>1, <2>2
  <2> QED
    BY <1>2, <2>3
<1>8. \A s \in SUBSET (1..Newest) : ~ Awaited(s)'
  BY <1>5 DEF Awaited
<1>9. CASE ~ Joined
  <2>1. \A m : m \in Expected <=> \E s \in Fitting : m = [closure |-> s, partner |-> {}]
    BY <1>9 DEF Expected
  <2>2. \A m : m \in Expected' <=> \E s \in Fitting' : m = [closure |-> s, partner |-> {}]
    BY <1>1, <1>9 DEF Expected
  <2>3. ASSUME NEW s
        PROVE  Pending([closure |-> s, partner |-> {}])' <=> Awaited(s)'
    BY DEF Pending
  <2>4. ASSUME NEW m \in Expected
        PROVE  m \in Expected' /\ ~ Pending(m)'
    <3>1. PICK s \in Fitting : m = [closure |-> s, partner |-> {}]
      BY <2>1
    <3> QED
      BY <1>2, <1>6, <1>8, <2>2, <2>3, <3>1
  <2>5. ASSUME NEW m \in Expected', ~ Pending(m)'
        PROVE  m \in Expected
    <3>1. PICK s \in Fitting' : m = [closure |-> s, partner |-> {}]
      BY <2>2
    <3> QED
      BY <1>7, <2>1, <2>3, <2>5, <3>1
  <2> QED
    BY <2>4, <2>5
<1>10. CASE Joined
  <2>1. \A m : m \in Expected <=>
                \E s \in Fitting, c \in OfType("C") :
                    /\ m = [closure |-> s, partner |-> {c}]
                    /\ FitsWindow(s \cup {c})
                    /\ setup.operator = "SEQ" => InSequence(s, c)
    BY <1>10, ExpectedFacts
  <2>2. \A m : m \in Expected' <=>
                \E s \in Fitting', c \in OfType("C")' :
                    /\ m = [closure |-> s, partner |-> {c}]
                    /\ FitsWindow(s \cup {c})'
                    /\ setup.operator = "SEQ" => InSequence(s, c)'
    <3>1. Joined'
      BY <1>1, <1>10
    <3> QED
      BY <1>3, <3>1, ExpectedNext
  <2>3. ASSUME NEW s, NEW c
        PROVE  Pending([closure |-> s, partner |-> {c}])' <=>
                    Awaited(s)' \/ (phase' = "join" /\ c = Newest')
    <3> DEFINE m == [closure |-> s, partner |-> {c}]
    <3>1. m.closure = s /\ m.partner = {c}
      OBVIOUS
    <3> HIDE DEF m
    <3>2. Pending(m)' <=> Awaited(s)' \/ (phase' = "join" /\ {c} = {Newest'})
      BY <3>1 DEF Pending
    <3>3. {c} = {Newest'} <=> c = Newest'
      OBVIOUS
    <3> QED
      BY <3>2, <3>3 DEF m
  <2>4. ASSUME NEW m \in Expected
        PROVE  m \in Expected' /\ ~ Pending(m)'
    <3>1. PICK s \in Fitting, c \in OfType("C") :
                    /\ m = [closure |-> s, partner |-> {c}]
                    /\ FitsWindow(s \cup {c})
                    /\ setup.operator = "SEQ" => InSequence(s, c)
      BY <2>1
    <3>2. /\ s \in SUBSET (1..Newest) /\ c \in 1..Newest /\ c \in OfType("C")'
          /\ s \in Fitting' /\ c # Newest'
      <4>1. s \in SUBSET (1..Newest) /\ s \in Fitting'
        BY <1>2, <1>6
      <4>2. c \in 1..Newest
        BY DEF OfType
      <4> QED
        BY <1>1, <1>5, <4>1, <4>2
    <3>3. FitsWindow(s \cup {c})' /\ (setup.operator = "SEQ" => InSequence(s, c)')
      <4>1. s \cup {c} \in SUBSET (1..Newest)
        BY <3>2
      <4> QED
        BY <1>2, <3>1, <3>2, <4>1
    <3>4. m \in Expected'
      BY <2>2, <3>1, <3>2, <3>3
    <3>5. ~ Pending(m)'
      BY <1>8, <2>3, <3>1, <3>2
    <3> QED
      BY <3>4, <3>5
  <2>5. ASSUME NEW m \in Expected', ~ Pending(m)'
        PROVE  m \in Expected
    <3>1. PICK s \in Fitting', c \in OfType("C")' :
                    /\ m = [closure |-> s, partner |-> {c}]
                    /\ FitsWindow(s \cup {c})'
                    /\ setup.operator = "SEQ" => InSequence(s, c)'
      BY <2>2
    <3>2. ~ Awaited(s)' /\ ~ (phase' = "join" /\ c = Newest')
      BY <2>3, <2>5, <3>1
    <3>3. s \in Fitting /\ s \in SUBSET (1..Newest)
      BY <1>6, <1>7, <3>2
    <3>4. c \in 1..Newest /\ c \in OfType("C")
      BY <1>1, <1>4, <1>10, <3>2
    <3>5. FitsWindow(s \cup {c}) /\ (setup.operator = "SEQ" => InSequence(s, c))
      <4>1. s \cup {c} \in SUBSET (1..Newest)
        BY <3>3, <3>4
      <4> QED
        BY <1>2, <3>1, <3>3, <3>4, <4>1
    <3> QED
      BY <2>1, <3>1, <3>3, <3>4, <3>5
  <2> QED
    BY <2>4, <2>5
<1> QED
  BY <1>9, <1>10

LEMMA ReadEventKeeps ==
    ASSUME IInv, ReadEvent
    PROVE  IInv'
<1>1. /\ StreamInv' /\ Newest' = Newest + 1 /\ Newest \in Nat /\ Joined' = Joined
      /\ \A e \in 1..Newest : Ts(e)' = Ts(e)
      /\ \A e \in 1..Newest : Ts(e) \in Nat /\ Ts(e) <= Ts(Newest) /\ Ts(Newest) <= Ts(Newest)'
      /\ Ts(Newest)' \in Nat
      /\ \A t : OfType(t)' \cap (1..Newest) = OfType(t)
      /\ Newest' \in OfType("B")' => phase' = "closure"
      /\ Newest' \in OfType("C")' /\ Joined => phase' = "join"
      /\ phase' = "closure" => Newest' \in OfType("B")'
      /\ phase' = "join" => Newest' \in OfType("C")' /\ Joined
      /\ phase' \in {"idle", "closure", "join"}
  BY StreamGrows DEF IInv
<1>2. /\ phase = "idle" /\ sets = {} /\ sets' = {}
      /\ UNCHANGED <<setup, members, closures, partners, matches>>
  BY DEF ReadEvent, IInv, PhaseInv
<1>3. /\ \A s \in SUBSET (1..Newest) : s \in Fitting' <=> s \in Fitting
      /\ \A s \in Fitting : s \in SUBSET (1..Newest)
  BY OldEventsKept DEF IInv, Fitting, OfType
<1>4. \A t, e : e \in OfType(t)' => e \in 1..Newest \/ e = Newest'
  <2>1. \A t, e : e \in OfType(t)' => e \in 1..Newest'
    BY DEF OfType
  <2>2. \A e \in 1..(Newest + 1) : e \in 1..Newest \/ e = Newest + 1
    BY <1>1
  <2> QED
    BY <1>1, <2>1, <2>2
\* What can still be reached could be reached before.
<1>5. \A e \in 1..Newest : InReach(Ts(e))' => InReach(Ts(e))
  <2>1. ASSUME NEW e \in 1..Newest, Ts(e) >= Ts(Newest)' - Window
        PROVE  Ts(e) >= Ts(Newest) - Window
    <3>1. Newest \in 1..Newest
      BY <1>1
    <3>2. /\ Ts(e) \in Nat /\ Ts(Newest) \in Nat /\ Ts(Newest) <= Ts(Newest)'
          /\ Ts(Newest)' \in Nat
      BY <1>1, <3>1
    <3> QED
      BY <2>1, <3>2, BoundAssumption
  <2> QED
    BY <1>1, <2>1 DEF InReach
<1>6. \A s : ~ Awaited(s)
  BY <1>2 DEF Awaited
<1>7. PhaseInv'
  BY <1>1, <1>2 DEF PhaseInv
<1>8. MembersInv'
  <2>1. members' \subseteq OfType("B")'
    BY <1>1, <1>2 DEF IInv, MembersInv
  <2>2. ASSUME NEW e \in OfType("B")', InReach(Ts(e))'
        PROVE  e \in members' \/ (phase' = "closure" /\ sets' = {} /\ e = Newest')
    <3>1. CASE e \in 1..Newest
      <4>1. e \in OfType("B") /\ InReach(Ts(e))
        BY <1>1, <1>5, <2>2, <3>1
      <4> QED
        BY <1>2, <4>1 DEF IInv, MembersInv
    <3>2. CASE e = Newest'
      BY <1>1, <1>2, <3>2
    <3> QED
      BY <1>4, <3>1, <3>2
  <2> QED
    BY <2>1, <2>2 DEF MembersInv
<1>9. SetsInv'
  BY <1>2 DEF SetsInv
<1>10. ClosuresInv'
  <2>1. \A a \in closures' : \E s \in Fitting' : a = Closure(s)
    BY <1>2, <1>3 DEF IInv, ClosuresInv
  <2>2. ASSUME NEW s \in Fitting', (\A e \in s : InReach(Ts(e)))'
        PROVE  Closure(s) \in closures' \/ Awaited(s)'
    <3>1. s \subseteq OfType("B")'
      BY DEF Fitting
    <3>2. CASE Newest' \in s
      BY <1>1, <1>2, <3>1, <3>2 DEF Awaited
    <3>3. CASE Newest' \notin s
      <4>1. s \in SUBSET (1..Newest)
        BY <1>4, <3>1, <3>3
      <4>2. s \in Fitting /\ \A e \in s : InReach(Ts(e))
        BY <1>3, <1>5, <2>2, <4>1
      <4> QED
        BY <1>2, <1>6, <4>2 DEF IInv, ClosuresInv
    <3> QED
      BY <3>2, <3>3
  <2>3. (\A s \in Fitting : (\A e \in s : InReach(Ts(e))) =>
            Closure(s) \in closures \/ Awaited(s))'
    BY <2>2 DEF Closure, InOrder
  <2> QED
    BY <2>1, <2>3 DEF ClosuresInv, Closure, InOrder
<1>11. PartnersInv'
  <2>1. \A p \in partners' : \E c \in OfType("C")' : p = Primitive(c)
    BY <1>1, <1>2 DEF IInv, PartnersInv
  <2>2. ASSUME Joined, NEW c \in OfType("C")', InReach(Ts(c))'
        PROVE  Primitive(c) \in partners' \/ (phase' = "join" /\ c = Newest')
    <3>1. CASE c \in 1..Newest
      <4>1. c \in OfType("C") /\ InReach(Ts(c))
        BY <1>1, <1>5, <2>2, <3>1
      <4> QED
        BY <1>2, <2>2, <4>1 DEF IInv, PartnersInv
    <3>2. CASE c = Newest'
      BY <1>1, <2>2, <3>2
    <3> QED
      BY <1>4, <3>1, <3>2
  <2> QED
    BY <1>1, <2>1, <2>2 DEF PartnersInv, Primitive
<1>12. MatchesInv'
  <2>1. {m \in Expected' : ~ Pending(m)'} = Expected
    BY NewMatchesPending
  <2>2. \A m : ~ Pending(m)
    BY <1>2, <1>6 DEF Pending
  <2>3. \A m : Adjacent(m)' <=> Adjacent(m)
    BY DEF Adjacent
  <2>4. BagToSet(matches) = {m \in Expected : ~ Adjacent(m)}
    BY <2>2 DEF IInv, MatchesInv
  <2>5. BagToSet(matches') = {m \in Expected' : ~ Adjacent(m)' /\ ~ Pending(m)'}
    BY <1>2, <2>1, <2>3, <2>4
  <2>6. ReportedOnce'
    BY <1>2 DEF IInv, MatchesInv, ReportedOnce
  <2> QED
    BY <2>5, <2>6 DEF MatchesInv, BagToSet
<1> QED
  BY <1>1, <1>7, <1>8, <1>9, <1>10, <1>11, <1>12 DEF IInv

-----------------------------------------------------------------------------
(* The theorems                                                            *)

LEMMA InitKeeps == Init => IInv
<1> SUFFICES ASSUME Init
    PROVE  IInv
  OBVIOUS
<1>1. Newest = 0 /\ \A t : OfType(t) = {}
  BY DEF Init, Newest, OfType
<1>2. StreamInv
  <2>1. 1..Newest = {}
    BY <1>1
  <2> QED
    BY <2>1 DEF Init, StreamInv
<1>3. Fitting = {}
  <2>1. \A s \in Fitting : s \subseteq {} /\ s # {}
    BY <1>1, <1>2, FittingAccepted
  <2> QED
    BY <2>1
<1>4. Expected = {}
  BY <1>3, ExpectedFacts
<1>5. PhaseInv /\ MembersInv /\ SetsInv
  BY <1>1 DEF Init, PhaseInv, MembersInv, SetsInv
<1>6. ClosuresInv /\ PartnersInv
  BY <1>1, <1>3 DEF Init, ClosuresInv, PartnersInv
<1>7. MatchesInv
  BY <1>4 DEF Init, MatchesInv, ReportedOnce, BagToSet, EmptyBag, SetToBag
<1> QED
  BY <1>2, <1>5, <1>6, <1>7 DEF IInv

LEMMA StutterKeeps ==
    ASSUME IInv, UNCHANGED vars
    PROVE  IInv'
<1>1. UNCHANGED <<setup, stream>>
  BY DEF vars
<1>2. /\ Newest' = Newest /\ Joined' = Joined
      /\ Fitting' = Fitting /\ Expected' = Expected
      /\ \A type : OfType(type)' = OfType(type)
      /\ \A e : Ts(e)' = Ts(e)
      /\ \A n : WithinLimits(n)' = WithinLimits(n)
      /\ \A x : InReach(x)' = InReach(x)
      /\ StreamInv'
  BY <1>1, SameStream DEF IInv
<1>3. \A s : Awaited(s)' <=> Awaited(s)
  BY <1>2 DEF vars, Awaited
<1>4. \A m : Pending(m)' <=> Pending(m)
  BY <1>2, <1>3 DEF vars, Pending
<1>5. PhaseInv' /\ MembersInv' /\ SetsInv'
  BY <1>2 DEF vars, IInv, PhaseInv, MembersInv, SetsInv
<1>6. ClosuresInv' /\ PartnersInv'
  BY <1>2, <1>3 DEF vars, IInv, ClosuresInv, PartnersInv, Closure, InOrder, Primitive
<1>7. MatchesInv'
  BY <1>2, <1>4 DEF vars, IInv, MatchesInv, ReportedOnce, Adjacent
<1> QED
  BY <1>2, <1>5, <1>6, <1>7 DEF IInv

\* The invariant holds in every reachable state, for every pattern and stream.
THEOREM Invariance == Spec => []IInv
<1>1. Init => IInv
  BY InitKeeps
<1>2. IInv /\ [Next]_vars => IInv'
  BY ReadEventKeeps, HandleMemberKeeps, PropagateSetKeeps, HandlePartnerKeeps,
     StutterKeeps DEF Next
<1> QED
  BY <1>1, <1>2, PTL DEF Spec

\* Every set of events is built once and joined once with each partner, however
\* the events of the closure and the partners are interleaved.
THEOREM EachMatchReportedOnce == Spec => []ReportedOnce
<1>1. IInv => ReportedOnce
  BY DEF IInv, MatchesInv
<1> QED
  BY <1>1, Invariance, PTL

\* Between two events the pattern is fully evaluated: nothing is lost to lazy
\* cleanup, to the size limits or to a condition, and nothing is reported that
\* does not match.  Only a partner right after the closure is missed.
THEOREM AllButAdjacentReported == Spec => []ReportsAllButAdjacent
<1>1. IInv => ReportsAllButAdjacent
  <2>1. ASSUME IInv, phase = "idle"
        PROVE  \A m : ~ Pending(m)
    BY <2>1 DEF Pending, Awaited
  <2> QED
    BY <2>1 DEF IInv, MatchesInv, ReportsAllButAdjacent
<1> QED
  BY <1>1, Invariance, PTL

=============================================================================
