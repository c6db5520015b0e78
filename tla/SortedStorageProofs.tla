------------------------- MODULE SortedStorageProofs -------------------------
(***************************************************************************)
(* Proofs about SortedStorage, for every interval between cleanups, every  *)
(* range of keys and timestamps and every size.                            *)
(*                                                                         *)
(* The binary searches are recursive functions on ranges of indices: each  *)
(* is shown to exist, and to return what the code expects of it, by taking *)
(* a shortest range on which it would not.  What the storage returns or    *)
(* keeps is a part of its buffer, picked by a set of indices; the bag of a *)
(* part that has a match with all its copies is the bag of the buffer      *)
(* restricted to it.  The inductive invariant is the order of the buffer   *)
(* with the types; in a leaf sorted by arrival these say that the key of a *)
(* match is its first timestamp.                                           *)
(***************************************************************************)
EXTENDS SortedStorage, SequenceTheorems, FiniteSetTheorems, WellFoundedInduction,
        TLAPS

-----------------------------------------------------------------------------
(* The search for a key *)

\* What a search for v does with a range, f being what it finds in smaller ones.
IndexIn(s, v, wantFirst, f, range) ==
    LET start == range[1]
        end == range[2]
        mid == (start + end) \div 2
        m == s[mid + 1].key
    IN  IF start > end THEN 0
        ELSE IF start = end
             THEN IF s[start + 1].key > v THEN start - 1
                  ELSE IF s[start + 1].key < v THEN start + 1
                  ELSE start
        ELSE IF m < v /\ v < s[mid + 2].key
             THEN IF wantFirst THEN mid ELSE mid + 1
        ELSE IF m < v \/ (m = v /\ ~ wantFirst)
             THEN f[<<mid + 1, end>>]
        ELSE f[<<start, mid>>]

IsIndexSearch(s, v, wantFirst, f) ==
    f = [range \in Ranges(s) |-> IndexIn(s, v, wantFirst, f, range)]

\* A function on ranges that is the search as far as ranges of k indices.
SearchesUpTo(s, v, wantFirst, f, k) ==
    /\ f = [range \in Ranges(s) |-> f[range]]
    /\ \A start \in 0..Len(s), end \in -1..(Len(s) - 1) :
        end - start < k => f[<<start, end>>] = IndexIn(s, v, wantFirst, f, <<start, end>>)

\* The middle of a range.
LEMMA Middle ==
    ASSUME NEW start \in Int, NEW end \in Int, start <= end
    PROVE  LET mid == (start + end) \div 2
           IN  mid \in Int /\ start <= mid /\ mid <= end /\ (start < end => mid < end)
OBVIOUS

\* The search for ranges of one more index.
LEMMA SearchGrows ==
    ASSUME NEW s, Len(s) \in Nat, NEW v, NEW wantFirst, NEW k \in Nat, NEW g,
           SearchesUpTo(s, v, wantFirst, g, k)
    PROVE  \E f : SearchesUpTo(s, v, wantFirst, f, k + 1)
<1>1. PICK f : f = [range \in Ranges(s) |-> IndexIn(s, v, wantFirst, g, range)]
  OBVIOUS
<1>2. PICK n \in Nat : n = Len(s)
  OBVIOUS
<1>3. \A start \in 0..n, end \in -1..(n - 1) :
        f[<<start, end>>] = IndexIn(s, v, wantFirst, g, <<start, end>>)
  BY <1>1, <1>2 DEF Ranges
<1>4. f = [range \in Ranges(s) |-> f[range]]
  BY <1>1
<1>5. ASSUME NEW start \in 0..n, NEW end \in -1..(n - 1), end - start < k
      PROVE  f[<<start, end>>] = g[<<start, end>>]
  BY <1>2, <1>3, <1>5 DEF SearchesUpTo
<1>6. ASSUME NEW start \in 0..n, NEW end \in -1..(n - 1), end - start < k + 1
      PROVE  f[<<start, end>>] = IndexIn(s, v, wantFirst, f, <<start, end>>)
  <2>1. CASE ~ (start < end)
    <3>1. IndexIn(s, v, wantFirst, g, <<start, end>>) = IndexIn(s, v, wantFirst, f, <<start, end>>)
      BY <2>1 DEF IndexIn
    <3> QED
      BY <1>3, <3>1
  <2>2. CASE start < end
    <3>1. PICK mid \in Int : mid = (start + end) \div 2 /\ start <= mid /\ mid < end
      BY <2>2, Middle
    <3>2. /\ mid + 1 \in 0..n /\ mid \in -1..(n - 1)
          /\ end - (mid + 1) < k /\ mid - start < k
      BY <1>6, <3>1
    <3>3. /\ f[<<mid + 1, end>>] = g[<<mid + 1, end>>]
          /\ f[<<start, mid>>] = g[<<start, mid>>]
      BY <1>5, <3>2
    <3>4. IndexIn(s, v, wantFirst, g, <<start, end>>) = IndexIn(s, v, wantFirst, f, <<start, end>>)
      BY <3>1, <3>3 DEF IndexIn
    <3> QED
      BY <1>3, <3>4
  <2> QED
    BY <2>1, <2>2
<1> QED
  BY <1>2, <1>4, <1>6 DEF SearchesUpTo

\* The search is defined by its recursion: ranges get smaller.
LEMMA SearchExists ==
    ASSUME NEW s, Len(s) \in Nat, NEW v, NEW wantFirst
    PROVE  \E f : IsIndexSearch(s, v, wantFirst, f)
<1>1. PICK n \in Nat : n = Len(s)
  OBVIOUS
<1> DEFINE Solved(k) == \E f : SearchesUpTo(s, v, wantFirst, f, k)
           Unsolved == {k \in Nat : ~ Solved(k)}
<1>2. Solved(0)
  <2>1. PICK f : f = [range \in Ranges(s) |-> 0]
    OBVIOUS
  <2>2. f = [range \in Ranges(s) |-> f[range]]
    BY <2>1
  <2>3. ASSUME NEW start \in 0..n, NEW end \in -1..(n - 1), end - start < 0
        PROVE  f[<<start, end>>] = IndexIn(s, v, wantFirst, f, <<start, end>>)
    <3>1. <<start, end>> \in Ranges(s)
      BY <1>1 DEF Ranges
    <3>2. start > end
      BY <2>3
    <3> QED
      BY <2>1, <3>1, <3>2 DEF IndexIn
  <2> QED
    BY <1>1, <2>2, <2>3 DEF SearchesUpTo
<1>3. \A k \in Nat : Solved(k) => Solved(k + 1)
  BY SearchGrows
<1>4. Unsolved = {}
  <2> SUFFICES ASSUME Unsolved # {} PROVE FALSE
    OBVIOUS
  <2>1. PICK k \in Unsolved : \A j \in Unsolved : ~ (<<j, k>> \in OpToRel(<, Nat))
    BY NatLessThanWellFounded, WFMin
  <2>2. k \in Nat /\ ~ Solved(k) /\ \A j \in Nat : j < k => Solved(j)
    BY <2>1 DEF OpToRel
  <2>3. k # 0
    BY ONLY <1>2, <2>2
  <2>4. PICK j \in Nat : k = j + 1
    <3>1. k - 1 \in Nat /\ k = (k - 1) + 1
      BY <2>2, <2>3
    <3> QED
      BY <3>1
  <2>5. Solved(j)
    BY <2>2, <2>4
  <2> HIDE DEF Solved
  <2> QED
    BY <1>3, <2>2, <2>4, <2>5
<1>5. Solved(n + 1)
  <2>1. n + 1 \in Nat
    OBVIOUS
  <2> HIDE DEF Solved
  <2> QED
    BY <1>4, <2>1
<1>6. PICK f : SearchesUpTo(s, v, wantFirst, f, n + 1)
  BY <1>5
<1>7. ASSUME NEW range \in Ranges(s)
      PROVE  f[range] = IndexIn(s, v, wantFirst, f, range)
  <2>1. PICK start \in 0..n, end \in -1..(n - 1) : range = <<start, end>>
    BY <1>1 DEF Ranges
  <2>2. end - start < n + 1
    OBVIOUS
  <2> QED
    BY <1>1, <1>6, <2>1, <2>2 DEF SearchesUpTo
<1>8. f = [range \in Ranges(s) |-> f[range]]
  BY <1>6 DEF SearchesUpTo
<1> QED
  BY <1>7, <1>8 DEF IsIndexSearch

\* The sequence s of n records has the keys K, which do not decrease.
Keyed(s, n, K) ==
    /\ n \in Nat /\ Len(s) = n /\ K \in [1..n -> Int]
    /\ \A i \in 1..n : s[i].key = K[i]
    /\ \A i, j \in 1..n : i <= j => K[i] <= K[j]

\* What the search for v returns: an index of v, the first or the last one, or
\* a neighbour of the place where v would be, before it in a search for the first
\* index and after it in a search for the last; -1 and n for the ends.
LandsAt(K, n, v, wantFirst, i) ==
    \/ i = -1 /\ \A j \in 1..n : K[j] > v
    \/ i = n /\ \A j \in 1..n : K[j] < v
    \/ /\ i \in 0..(n - 1) /\ K[i + 1] = v
       /\ wantFirst => \A j \in 1..i : K[j] < v
       /\ ~ wantFirst => \A j \in (i + 2)..n : K[j] > v
    \/ /\ i \in 0..(n - 1) /\ wantFirst /\ K[i + 1] < v
       /\ \A j \in (i + 2)..n : K[j] > v
    \/ /\ i \in 0..(n - 1) /\ ~ wantFirst /\ K[i + 1] > v
       /\ \A j \in 1..i : K[j] < v

\* A range the search for v comes to: what is outside of it is known to be smaller
\* or greater, or to be a copy of v the search goes on from.
Spans(K, n, v, wantFirst, start, end) ==
    /\ start \in 0..(n - 1) /\ end \in 0..(n - 1) /\ start <= end
    /\ wantFirst =>
        /\ start = 0 \/ (K[start] < v /\ K[start + 1] <= v)
        /\ end = n - 1 \/ K[end + 1] >= v
    /\ ~ wantFirst =>
        /\ start = 0 \/ (K[start] <= v /\ (K[start] = v \/ K[start + 1] <= v))
        /\ end = n - 1 \/ K[end + 1] > v

\* A range of one index.
LEMMA SearchEnds ==
    ASSUME NEW K, NEW n \in Nat, K \in [1..n -> Int],
           \A i, j \in 1..n : i <= j => K[i] <= K[j],
           NEW v \in Int, NEW wantFirst \in BOOLEAN, NEW start,
           Spans(K, n, v, wantFirst, start, start),
           NEW i, i = IF K[start + 1] > v THEN start - 1
                      ELSE IF K[start + 1] < v THEN start + 1
                      ELSE start
    PROVE  LandsAt(K, n, v, wantFirst, i)
<1>1. start \in 0..(n - 1) /\ start \in Int /\ start + 1 \in 1..n
  BY DEF Spans
<1>2. \A j \in 1..n : K[j] \in Int
  OBVIOUS
<1>3. CASE K[start + 1] > v
  <2>1. i = start - 1
    BY <1>3
  <2>2. CASE start = 0
    <3>1. \A j \in 1..n : K[j] > v
      <4> SUFFICES ASSUME NEW j \in 1..n PROVE K[j] > v
        OBVIOUS
      <4>1. K[1] <= K[j] /\ K[1] > v /\ K[1] \in Int /\ K[j] \in Int
        BY <1>1, <1>3, <2>2
      <4> QED
        BY ONLY <4>1, v \in Int
    <3> QED
      BY <2>1, <2>2, <3>1 DEF LandsAt
  <2>3. CASE start # 0
    <3>1. start \in 1..n /\ i \in 0..(n - 1) /\ i + 1 = start
      BY <1>1, <2>1, <2>3
    <3>2. ~ wantFirst /\ K[start] = v
      <4>1. ~ (K[start + 1] <= v)
        BY <1>1, <1>2, <1>3
      <4> QED
        BY <2>3, <4>1 DEF Spans
    <3>3. \A j \in (i + 2)..n : K[j] > v
      <4> SUFFICES ASSUME NEW j \in (i + 2)..n PROVE K[j] > v
        OBVIOUS
      <4>1. j \in 1..n /\ start + 1 <= j
        BY <1>1, <3>1
      <4>2. K[start + 1] <= K[j] /\ K[start + 1] \in Int /\ K[j] \in Int
        BY <1>1, <4>1
      <4> QED
        BY <1>3, <4>2
    <3> QED
      BY <3>1, <3>2, <3>3 DEF LandsAt
  <2> QED
    BY <2>2, <2>3
<1>4. CASE K[start + 1] < v
  <2>1. i = start + 1
    BY <1>1, <1>2, <1>4
  <2>2. start = n - 1
    <3>1. ~ (K[start + 1] >= v) /\ ~ (K[start + 1] > v)
      BY <1>1, <1>2, <1>4
    <3> QED
      BY <3>1 DEF Spans
  <2>3. i = n
    BY <2>1, <2>2
  <2>4. \A j \in 1..n : K[j] < v
    <3> SUFFICES ASSUME NEW j \in 1..n PROVE K[j] < v
      OBVIOUS
    <3>1. K[j] <= K[n] /\ K[n] < v /\ K[n] \in Int /\ K[j] \in Int
      BY <1>1, <1>4, <2>2
    <3> QED
      BY <3>1
  <2> QED
    BY <2>3, <2>4 DEF LandsAt
<1>5. CASE K[start + 1] = v
  <2>1. i = start
    BY <1>5
  <2>2. ASSUME wantFirst
        PROVE  \A j \in 1..i : K[j] < v
    <3> SUFFICES ASSUME NEW j \in 1..i PROVE K[j] < v
      OBVIOUS
    <3>1. start # 0 /\ start \in 1..n /\ j \in 1..n /\ j <= start
      BY <1>1, <2>1
    <3>2. K[start] < v
      BY <2>2, <3>1 DEF Spans
    <3>3. K[j] <= K[start] /\ K[start] \in Int /\ K[j] \in Int
      BY <3>1
    <3> QED
      BY <3>2, <3>3
  <2>3. ASSUME ~ wantFirst
        PROVE  \A j \in (i + 2)..n : K[j] > v
    <3>1. ~ (K[start + 1] > v)
      BY <1>5
    <3>2. start = n - 1
      BY <2>3, <3>1 DEF Spans
    <3> QED
      BY <2>1, <3>2
  <2> QED
    BY <1>1, <1>5, <2>1, <2>2, <2>3 DEF LandsAt
<1>6. K[start + 1] > v \/ K[start + 1] < v \/ K[start + 1] = v
  BY <1>1, <1>2
<1> QED
  BY <1>3, <1>4, <1>5, <1>6

\* The place of v between two keys.
LEMMA SearchMeets ==
    ASSUME NEW K, NEW n \in Nat, K \in [1..n -> Int],
           \A i, j \in 1..n : i <= j => K[i] <= K[j],
           NEW v \in Int, NEW wantFirst \in BOOLEAN, NEW mid \in 0..(n - 2),
           K[mid + 1] < v, v < K[mid + 2]
    PROVE  LandsAt(K, n, v, wantFirst, IF wantFirst THEN mid ELSE mid + 1)
<1>1. mid + 1 \in 1..n /\ mid + 2 \in 1..n /\ mid \in Int
  OBVIOUS
<1>2. ASSUME NEW j \in 1..n, j <= mid + 1
      PROVE  K[j] < v
  <2>1. K[j] <= K[mid + 1] /\ K[mid + 1] \in Int /\ K[j] \in Int
    BY <1>1, <1>2
  <2> QED
    BY <2>1
<1>3. ASSUME NEW j \in 1..n, mid + 2 <= j
      PROVE  K[j] > v
  <2>1. K[mid + 2] <= K[j] /\ K[mid + 2] \in Int /\ K[j] \in Int
    BY <1>1, <1>3
  <2> QED
    BY <2>1
<1>4. CASE wantFirst
  <2>1. \A j \in (mid + 2)..n : K[j] > v
    BY <1>1, <1>3
  <2> QED
    BY <1>1, <1>4, <2>1 DEF LandsAt
<1>5. CASE ~ wantFirst
  <2>1. \A j \in 1..(mid + 1) : K[j] < v
    BY <1>1, <1>2
  <2>2. PICK i \in 0..(n - 1) : i = mid + 1
    BY <1>1
  <2>3. K[i + 1] > v /\ \A j \in 1..i : K[j] < v
    <3>1. K[mid + 2] > v
      BY <1>1
    <3>2. i + 1 = mid + 2
      BY <2>2
    <3> QED
      BY <2>1, <2>2, <3>1, <3>2
  <2> QED
    BY <1>5, <2>2, <2>3 DEF LandsAt
<1> QED
  BY <1>4, <1>5

\* One step of the search stays in the range that matters.
LEMMA SearchNarrows ==
    ASSUME NEW K, NEW n \in Nat, K \in [1..n -> Int],
           \A i, j \in 1..n : i <= j => K[i] <= K[j],
           NEW v \in Int, NEW wantFirst \in BOOLEAN, NEW start, NEW end, start < end,
           Spans(K, n, v, wantFirst, start, end),
           NEW mid \in Int, start <= mid, mid < end,
           ~ (K[mid + 1] < v /\ v < K[mid + 2])
    PROVE  /\ K[mid + 1] < v \/ (K[mid + 1] = v /\ ~ wantFirst)
                => Spans(K, n, v, wantFirst, mid + 1, end)
           /\ ~ (K[mid + 1] < v \/ (K[mid + 1] = v /\ ~ wantFirst))
                => Spans(K, n, v, wantFirst, start, mid)
<1>1. /\ start \in 0..(n - 1) /\ end \in 0..(n - 1)
      /\ mid \in 0..(n - 2) /\ mid + 1 \in 1..n /\ mid + 2 \in 1..n
      /\ mid + 1 \in 0..(n - 1) /\ mid \in 0..(n - 1) /\ mid + 1 <= end
  BY DEF Spans
<1>2. K[mid + 1] \in Int /\ K[mid + 2] \in Int /\ K[mid + 1] <= K[mid + 2]
  BY <1>1
<1>3. ASSUME K[mid + 1] < v \/ (K[mid + 1] = v /\ ~ wantFirst)
      PROVE  Spans(K, n, v, wantFirst, mid + 1, end)
  <2>1. /\ K[mid + 1] < v => K[mid + 2] <= v
        /\ K[mid + 1] <= v
    BY <1>2, <1>3
  <2>2. mid + 1 + 1 = mid + 2
    OBVIOUS
  <2> QED
    BY <1>1, <1>3, <2>1, <2>2 DEF Spans
<1>4. ASSUME ~ (K[mid + 1] < v \/ (K[mid + 1] = v /\ ~ wantFirst))
      PROVE  Spans(K, n, v, wantFirst, start, mid)
  <2>1. K[mid + 1] >= v /\ (~ wantFirst => K[mid + 1] > v)
    BY <1>2, <1>4
  <2> QED
    BY <1>1, <2>1 DEF Spans
<1> QED
  BY <1>3, <1>4

\* The search finds the place of v in every range that holds it.
LEMMA SearchLands ==
    ASSUME NEW s, NEW n \in Nat, NEW K, Keyed(s, n, K), NEW v \in Int,
           NEW wantFirst \in BOOLEAN, NEW f, IsIndexSearch(s, v, wantFirst, f),
           NEW start, NEW end, Spans(K, n, v, wantFirst, start, end)
    PROVE  LandsAt(K, n, v, wantFirst, f[<<start, end>>])
<1> DEFINE Lost(k) == \E a, b \in 0..(n - 1) :
                /\ Spans(K, n, v, wantFirst, a, b) /\ b - a = k
                /\ ~ LandsAt(K, n, v, wantFirst, f[<<a, b>>])
           Bad == {k \in Nat : Lost(k)}
<1>1. /\ Len(s) = n /\ K \in [1..n -> Int]
      /\ \A i \in 1..n : s[i].key = K[i]
      /\ \A i, j \in 1..n : i <= j => K[i] <= K[j]
  BY DEF Keyed
<1>2. ASSUME NEW a \in 0..(n - 1), NEW b \in 0..(n - 1)
      PROVE  f[<<a, b>>] = IndexIn(s, v, wantFirst, f, <<a, b>>)
  <2>1. <<a, b>> \in Ranges(s)
    BY <1>1 DEF Ranges
  <2> QED
    BY <2>1 DEF IsIndexSearch
<1>3. ASSUME Bad # {} PROVE FALSE
  <2>1. PICK k \in Bad : \A j \in Bad : ~ (<<j, k>> \in OpToRel(<, Nat))
    BY <1>3, NatLessThanWellFounded, WFMin
  <2>2. k \in Nat /\ Lost(k) /\ \A j \in Nat : j < k => ~ Lost(j)
    BY <2>1 DEF OpToRel
  <2>3. PICK a \in 0..(n - 1), b \in 0..(n - 1) :
            /\ Spans(K, n, v, wantFirst, a, b) /\ b - a = k
            /\ ~ LandsAt(K, n, v, wantFirst, f[<<a, b>>])
    BY <2>2
  <2>4. \A c, d \in 0..(n - 1) :
            Spans(K, n, v, wantFirst, c, d) /\ d - c < k
                => LandsAt(K, n, v, wantFirst, f[<<c, d>>])
    <3> SUFFICES ASSUME NEW c \in 0..(n - 1), NEW d \in 0..(n - 1),
                        Spans(K, n, v, wantFirst, c, d), d - c < k
                 PROVE  LandsAt(K, n, v, wantFirst, f[<<c, d>>])
      OBVIOUS
    <3>1. d - c \in Nat
      BY DEF Spans
    <3>2. ~ Lost(d - c)
      BY <2>2, <3>1
    <3> QED
      BY <3>2
  <2> HIDE DEF Lost, Bad
  <2>5. a <= b
    BY <2>3 DEF Spans
  <2>6. CASE a = b
    <3>1. PICK i : i = IF K[a + 1] > v THEN a - 1 ELSE IF K[a + 1] < v THEN a + 1 ELSE a
      OBVIOUS
    <3>2. f[<<a, b>>] = i
      <4>1. a + 1 \in 1..n /\ ~ (a > b)
        BY <2>6
      <4>2. s[a + 1].key = K[a + 1]
        BY <1>1, <4>1
      <4>3. f[<<a, b>>] = IndexIn(s, v, wantFirst, f, <<a, b>>)
        BY <1>2
      <4> QED
        BY <2>6, <3>1, <4>1, <4>2, <4>3 DEF IndexIn
    <3>3. LandsAt(K, n, v, wantFirst, i)
      BY <1>1, <2>3, <2>6, <3>1, SearchEnds
    <3> QED
      BY <2>3, <3>2, <3>3
  <2>7. CASE a < b
    <3>1. PICK mid \in Int : mid = (a + b) \div 2 /\ a <= mid /\ mid < b
      BY <2>7, Middle
    <3>2. /\ mid \in 0..(n - 2) /\ mid + 1 \in 1..n /\ mid + 2 \in 1..n
          /\ mid \in 0..(n - 1) /\ mid + 1 \in 0..(n - 1)
          /\ b - (mid + 1) < k /\ mid - a < k
      BY <2>3, <3>1
    <3>3. s[mid + 1].key = K[mid + 1] /\ s[mid + 2].key = K[mid + 2]
      BY <1>1, <3>2
    <3>4. f[<<a, b>>] =
            IF K[mid + 1] < v /\ v < K[mid + 2]
            THEN IF wantFirst THEN mid ELSE mid + 1
            ELSE IF K[mid + 1] < v \/ (K[mid + 1] = v /\ ~ wantFirst)
                 THEN f[<<mid + 1, b>>]
            ELSE f[<<a, mid>>]
      BY <1>2, <2>7, <3>1, <3>3 DEF IndexIn
    <3>5. CASE K[mid + 1] < v /\ v < K[mid + 2]
      <4>1. LandsAt(K, n, v, wantFirst, IF wantFirst THEN mid ELSE mid + 1)
        BY <1>1, <3>2, <3>5, SearchMeets
      <4> QED
        BY <2>3, <3>4, <3>5, <4>1
    <3>6. CASE ~ (K[mid + 1] < v /\ v < K[mid + 2])
      <4>1. /\ K[mid + 1] < v \/ (K[mid + 1] = v /\ ~ wantFirst)
                  => Spans(K, n, v, wantFirst, mid + 1, b)
            /\ ~ (K[mid + 1] < v \/ (K[mid + 1] = v /\ ~ wantFirst))
                  => Spans(K, n, v, wantFirst, a, mid)
        BY <1>1, <2>3, <2>7, <3>1, <3>6, SearchNarrows
      <4>2. CASE K[mid + 1] < v \/ (K[mid + 1] = v /\ ~ wantFirst)
        BY <2>3, <2>4, <3>2, <3>4, <3>6, <4>1, <4>2
      <4>3. CASE ~ (K[mid + 1] < v \/ (K[mid + 1] = v /\ ~ wantFirst))
        BY <2>3, <2>4, <3>2, <3>4, <3>6, <4>1, <4>3
      <4> QED
        BY <4>2, <4>3
    <3> QED
      BY <3>5, <3>6
  <2> QED
    BY <2>5, <2>6, <2>7
<1>4. end - start \in Nat /\ start \in 0..(n - 1) /\ end \in 0..(n - 1)
  BY DEF Spans
<1>5. ~ Lost(end - start)
  BY <1>3, <1>4
<1> QED
  BY <1>4, <1>5

\* The index of v in a sequence that is sorted by its keys (get_index).
LEMMA GetIndexLands ==
    ASSUME NEW s, NEW n \in Nat, NEW K, Keyed(s, n, K), n > 0, NEW v \in Int,
           NEW wantFirst \in BOOLEAN
    PROVE  LandsAt(K, n, v, wantFirst, GetIndex(s, v, wantFirst))
<1>1. Len(s) = n
  BY DEF Keyed
<1>2. PICK f : f = CHOOSE h : IsIndexSearch(s, v, wantFirst, h)
  OBVIOUS
<1>3. IsIndexSearch(s, v, wantFirst, f)
  BY <1>1, <1>2, SearchExists
<1>4. GetIndex(s, v, wantFirst) = f[<<0, Len(s) - 1>>]
  BY <1>2 DEF GetIndex, IsIndexSearch, IndexIn
<1>5. Spans(K, n, v, wantFirst, 0, n - 1)
  BY DEF Spans
<1> QED
  BY <1>1, <1>3, <1>4, <1>5, SearchLands

-----------------------------------------------------------------------------
(* Parts of a sequence and their bags                                      *)

\* The sequence u has what s has at the indices of J, in the order of s: g tells
\* where its elements come from.
Picks(u, s, J, g) ==
    /\ g \in [1..Len(u) -> 1..Len(s)]
    /\ \A i, j \in 1..Len(u) : i < j => g[i] < g[j]
    /\ \A i \in 1..Len(u) : u[i] = s[g[i]]
    /\ \A i \in 1..Len(u) : g[i] \in J
    /\ \A j \in J : \E i \in 1..Len(u) : g[i] = j

PartOf(u, s, J) == \E g : Picks(u, s, J, g)

\* The copies of e in s, and those at the indices of J.
CopiesOf(s, e) == Cardinality({i \in DOMAIN s : s[i] = e})

CopiesAt(s, J, e) == Cardinality({j \in J : s[j] = e})

\* The bag of what s has at the indices of J.
BagAt(s, J) == [e \in {s[j] : j \in J} |-> ToBag(s)[e]]

\* A copy of e in the part is a copy of it in the sequence, at an index of J.
LEMMA PartCopies ==
    ASSUME NEW S, NEW s \in Seq(S), NEW u \in Seq(S), NEW J \in SUBSET (1..Len(s)),
           PartOf(u, s, J), NEW e
    PROVE  CopiesOf(u, e) = CopiesAt(s, J, e)
<1>1. PICK g : Picks(u, s, J, g)
  BY DEF PartOf
<1>2. PICK n \in Nat, m \in Nat : n = Len(s) /\ m = Len(u) /\ DOMAIN u = 1..m
  BY LenProperties
<1>3. PICK A : A = {i \in 1..m : u[i] = e}
  OBVIOUS
<1>4. PICK B : B = {j \in J : s[j] = e}
  OBVIOUS
<1>5. IsFiniteSet(A)
  <2>1. IsFiniteSet(1..m)
    BY ONLY m \in Nat, FS_Interval
  <2>2. A \in SUBSET (1..m)
    BY <1>3
  <2> QED
    BY ONLY <2>1, <2>2, FS_Subset
<1>6. PICK h : h = [i \in A |-> g[i]]
  OBVIOUS
<1>7. h \in Bijection(A, B)
  <2>1. \A i \in A : g[i] \in B
    BY <1>1, <1>2, <1>3, <1>4 DEF Picks
  <2>2. h \in [A -> B]
    BY <1>6, <2>1
  <2>3. ASSUME NEW i \in A, NEW j \in A, h[i] = h[j]
        PROVE  i = j
    <3>1. i \in 1..m /\ j \in 1..m /\ g[i] = g[j] /\ g[i] \in 1..n /\ g[j] \in 1..n
      BY <1>1, <1>2, <1>3, <1>6, <2>3 DEF Picks
    <3>2. (i < j => g[i] < g[j]) /\ (j < i => g[j] < g[i])
      BY <1>1, <1>2, <3>1 DEF Picks
    <3>3. m \in Nat /\ n \in Nat
      OBVIOUS
    <3> QED
      BY ONLY <3>1, <3>2, <3>3
  <2>4. \A b \in B : \E i \in A : h[i] = b
    <3> SUFFICES ASSUME NEW b \in B PROVE \E i \in A : h[i] = b
      OBVIOUS
    <3>1. PICK i \in 1..m : g[i] = b
      BY <1>1, <1>2, <1>4 DEF Picks
    <3>2. i \in A
      BY <1>1, <1>2, <1>3, <1>4, <3>1 DEF Picks
    <3> QED
      BY <1>6, <3>1, <3>2
  <2>5. IsInjective(h)
    BY <2>2, <2>3 DEF IsInjective
  <2> QED
    BY <2>2, <2>4, <2>5 DEF Bijection, Injection, Surjection
<1>8. Cardinality(B) = Cardinality(A)
  <2>1. ExistsBijection(A, B)
    BY <1>7 DEF ExistsBijection
  <2> QED
    BY ONLY <1>5, <2>1, FS_Bijection
<1> QED
  BY <1>2, <1>3, <1>4, <1>8 DEF CopiesOf, CopiesAt

\* The bag of the matches of s that are at the indices of J, if a match is there
\* with all its copies.
LEMMA PartBag ==
    ASSUME NEW S, NEW s \in Seq(S), NEW u \in Seq(S), NEW J \in SUBSET (1..Len(s)),
           PartOf(u, s, J), \A i, j \in 1..Len(s) : s[i] = s[j] /\ i \in J => j \in J
    PROVE  ToBag(u) = BagAt(s, J)
<1>1. PICK g : Picks(u, s, J, g)
  BY DEF PartOf
<1>2. DOMAIN s = 1..Len(s) /\ DOMAIN u = 1..Len(u)
  BY LenProperties
<1>3. Range(u) = {s[j] : j \in J}
  <2>1. \A i \in DOMAIN u : \E j \in J : u[i] = s[j]
    BY <1>1, <1>2 DEF Picks
  <2>2. \A j \in J : \E i \in DOMAIN u : u[i] = s[j]
    BY <1>1, <1>2 DEF Picks
  <2> QED
    BY <2>1, <2>2 DEF Range
<1>4. ASSUME NEW e \in {s[j] : j \in J}
      PROVE  Cardinality({i \in DOMAIN u : u[i] = e}) = ToBag(s)[e]
  <2>1. PICK k \in J : e = s[k]
    OBVIOUS
  <2>2. e \in Range(s)
    BY <1>2, <2>1 DEF Range
  <2>3. {j \in J : s[j] = e} = {i \in DOMAIN s : s[i] = e}
    BY <1>2, <2>1
  <2>4. CopiesOf(u, e) = CopiesAt(s, J, e)
    BY PartCopies
  <2> QED
    BY <2>2, <2>3, <2>4 DEF ToBag, CopiesOf, CopiesAt
<1> QED
  BY <1>3, <1>4 DEF ToBag, BagAt

\* The bag of any part has no more copies than the sequence.
LEMMA PartBelow ==
    ASSUME NEW S, NEW s \in Seq(S), NEW u \in Seq(S), NEW J \in SUBSET (1..Len(s)),
           PartOf(u, s, J)
    PROVE  ToBag(u) \sqsubseteq ToBag(s)
<1>1. PICK g : Picks(u, s, J, g)
  BY DEF PartOf
<1>2. DOMAIN s = 1..Len(s) /\ DOMAIN u = 1..Len(u) /\ Len(s) \in Nat
  BY LenProperties
<1>3. DOMAIN ToBag(u) = Range(u) /\ DOMAIN ToBag(s) = Range(s)
  BY DEF ToBag
<1>4. Range(u) \subseteq Range(s)
  BY <1>1, <1>2 DEF Picks, Range
<1>5. ASSUME NEW e \in Range(u)
      PROVE  ToBag(u)[e] <= ToBag(s)[e]
  <2>1. PICK A, B : A = {j \in J : s[j] = e} /\ B = {i \in DOMAIN s : s[i] = e}
    OBVIOUS
  <2>2. A \in SUBSET B /\ B \in SUBSET (1..Len(s))
    BY <1>2, <2>1
  <2>3. IsFiniteSet(B)
    <3>1. IsFiniteSet(1..Len(s))
      BY ONLY <1>2, FS_Interval
    <3> QED
      BY ONLY <2>2, <3>1, FS_Subset
  <2>4. Cardinality(A) <= Cardinality(B)
    BY ONLY <2>2, <2>3, FS_Subset
  <2>5. ToBag(u)[e] = Cardinality(A)
    <3>1. CopiesOf(u, e) = CopiesAt(s, J, e)
      BY PartCopies
    <3> QED
      BY <2>1, <3>1 DEF ToBag, CopiesOf, CopiesAt
  <2>6. ToBag(s)[e] = Cardinality(B)
    BY <1>4, <2>1 DEF ToBag
  <2> QED
    BY <2>4, <2>5, <2>6
<1> QED
  BY <1>3, <1>4, <1>5 DEF \sqsubseteq

\* A slice is a part.
LEMMA SlicePart ==
    ASSUME NEW S, NEW s \in Seq(S), NEW a \in Int, NEW b \in Int, 1 <= a, b <= Len(s)
    PROVE  SubSeq(s, a, b) \in Seq(S) /\ PartOf(SubSeq(s, a, b), s, a..b)
<1>1. PICK n \in Nat : n = Len(s)
  BY LenProperties
<1>2. \A i \in a..b : s[i] \in S
  BY <1>1, ElementOfSeq
<1>3. PICK u : u = SubSeq(s, a, b)
  OBVIOUS
<1>4. /\ u \in Seq(S)
      /\ Len(u) = IF a <= b THEN b - a + 1 ELSE 0
      /\ \A i \in 1..(b - a + 1) : u[i] = s[a + i - 1]
  BY <1>2, <1>3, SubSeqProperties
<1>5. PICK m \in Nat : m = Len(u) /\ 1..m = 1..(b - a + 1)
  <2>1. CASE a <= b
    <3>1. b - a + 1 \in Nat /\ Len(u) = b - a + 1
      BY <1>4, <2>1
    <3> QED
      BY <3>1
  <2>2. CASE ~ (a <= b)
    <3>1. Len(u) = 0 /\ 1..0 = 1..(b - a + 1)
      BY <1>4, <2>2
    <3> QED
      BY <3>1
  <2> QED
    BY <2>1, <2>2
<1>6. PICK g : g = [i \in 1..m |-> a + i - 1]
  OBVIOUS
<1>7. \A i \in 1..m : g[i] = a + i - 1 /\ a + i - 1 \in a..b /\ a + i - 1 \in 1..n
                      /\ u[i] = s[a + i - 1]
  BY <1>1, <1>4, <1>5, <1>6
<1>8. g \in [1..m -> 1..n]
  BY <1>6, <1>7
<1>9. \A i, j \in 1..m : i < j => g[i] < g[j]
  BY <1>6
<1>10. ASSUME NEW j \in a..b
       PROVE  \E i \in 1..m : g[i] = j
  <2>1. j - a + 1 \in 1..m /\ a + (j - a + 1) - 1 = j
    BY <1>5
  <2> QED
    BY <1>7, <2>1
<1>11. Picks(u, s, a..b, g)
  BY <1>1, <1>5, <1>7, <1>8, <1>9, <1>10 DEF Picks
<1> QED
  BY <1>3, <1>4, <1>11 DEF PartOf

\* One slice after another.
LEMMA SlicesPart ==
    ASSUME NEW S, NEW s \in Seq(S), NEW u \in Seq(S), NEW w \in Seq(S),
           NEW A, NEW B, PartOf(u, s, A), PartOf(w, s, B),
           \A i \in A : \A j \in B : i < j
    PROVE  u \o w \in Seq(S) /\ PartOf(u \o w, s, A \cup B)
<1>1. PICK g, h : Picks(u, s, A, g) /\ Picks(w, s, B, h)
  BY DEF PartOf
<1>2. PICK n \in Nat, m \in Nat, k \in Nat : n = Len(s) /\ m = Len(u) /\ k = Len(w)
  BY LenProperties
<1>3. PICK t : t = u \o w
  OBVIOUS
<1>4. /\ t \in Seq(S) /\ Len(t) = m + k
      /\ \A i \in 1..(m + k) : t[i] = IF i <= m THEN u[i] ELSE w[i - m]
  BY <1>2, <1>3, ConcatProperties
<1>5. PICK f : f = [i \in 1..(m + k) |-> IF i <= m THEN g[i] ELSE h[i - m]]
  OBVIOUS
<1>6. /\ g \in [1..m -> 1..n] /\ h \in [1..k -> 1..n]
      /\ \A i, j \in 1..m : i < j => g[i] < g[j]
      /\ \A i, j \in 1..k : i < j => h[i] < h[j]
      /\ \A i \in 1..m : u[i] = s[g[i]] /\ g[i] \in A
      /\ \A i \in 1..k : w[i] = s[h[i]] /\ h[i] \in B
  BY <1>1, <1>2 DEF Picks
<1>7. ASSUME NEW i \in 1..(m + k)
      PROVE  \/ i \in 1..m /\ f[i] = g[i] /\ t[i] = u[i]
             \/ /\ i - m \in 1..k /\ ~ (i <= m)
                /\ f[i] = h[i - m] /\ t[i] = w[i - m]
  <2>1. CASE i <= m
    BY <1>4, <1>5, <2>1
  <2>2. CASE ~ (i <= m)
    BY <1>4, <1>5, <2>2
  <2> QED
    BY <2>1, <2>2
<1>8. \A i \in 1..(m + k) : f[i] \in 1..n /\ t[i] = s[f[i]] /\ f[i] \in A \cup B
  BY <1>6, <1>7
<1>9. ASSUME NEW i \in 1..(m + k), NEW j \in 1..(m + k), i < j
      PROVE  f[i] < f[j]
  <2>1. CASE i <= m /\ j <= m
    BY <1>6, <1>7, <1>9, <2>1
  <2>2. CASE i <= m /\ ~ (j <= m)
    BY <1>6, <1>7, <1>9, <2>2
  <2>3. CASE ~ (i <= m) /\ ~ (j <= m)
    <3>1. i - m < j - m /\ i - m \in 1..k /\ j - m \in 1..k
      BY <1>9, <2>3
    <3> QED
      BY <1>6, <1>7, <2>3, <3>1
  <2> QED
    BY <1>9, <2>1, <2>2, <2>3
<1>10. ASSUME NEW j \in A \cup B
       PROVE  \E i \in 1..(m + k) : f[i] = j
  <2>1. CASE j \in A
    <3>1. PICK i \in 1..m : g[i] = j
      BY <1>1, <1>2, <2>1 DEF Picks
    <3>2. i \in 1..(m + k) /\ i <= m
      OBVIOUS
    <3> QED
      BY <1>5, <3>1, <3>2
  <2>2. CASE j \in B
    <3>1. PICK i \in 1..k : h[i] = j
      BY <1>1, <1>2, <2>2 DEF Picks
    <3>2. i + m \in 1..(m + k) /\ ~ (i + m <= m) /\ (i + m) - m = i
      OBVIOUS
    <3> QED
      BY <1>5, <3>1, <3>2
  <2> QED
    BY <2>1, <2>2
<1>11. f \in [1..(m + k) -> 1..n]
  BY <1>5, <1>8
<1>12. Picks(t, s, A \cup B, f)
  BY <1>2, <1>4, <1>8, <1>9, <1>10, <1>11 DEF Picks
<1> QED
  BY <1>3, <1>4, <1>12 DEF PartOf

-----------------------------------------------------------------------------
(* Selecting from the buffer                                                *)

\* What a selection is up to a match, f being what it is up to those before it.
KeptIn(J, f, n) ==
    IF n = 0 THEN <<>>
    ELSE IF n \in J THEN Append(f[n - 1], buffer[n])
    ELSE f[n - 1]

IsKept(J, f) == f = [n \in 0..Len(buffer) |-> KeptIn(J, f, n)]

KeptUpTo(J, f, k) ==
    /\ f = [n \in 0..Len(buffer) |-> f[n]]
    /\ \A n \in 0..Len(buffer) : n < k => f[n] = KeptIn(J, f, n)

\* The list up to one more match.
LEMMA KeptGrows ==
    ASSUME Len(buffer) \in Nat, NEW J, NEW k \in Nat, NEW g, KeptUpTo(J, g, k)
    PROVE  \E f : KeptUpTo(J, f, k + 1)
<1>1. PICK m \in Nat : m = Len(buffer)
  OBVIOUS
<1>2. PICK f : f = [n \in 0..m |-> KeptIn(J, g, n)]
  OBVIOUS
<1>3. f = [n \in 0..m |-> f[n]]
  BY <1>2
<1>4. ASSUME NEW n \in 0..m, n < k
      PROVE  f[n] = g[n]
  BY <1>1, <1>2, <1>4 DEF KeptUpTo
<1>5. ASSUME NEW n \in 0..m, n < k + 1
      PROVE  f[n] = KeptIn(J, f, n)
  <2>1. CASE n = 0
    BY <1>2, <2>1 DEF KeptIn
  <2>2. CASE n # 0
    <3>1. n - 1 \in 0..m /\ n - 1 < k
      BY <1>5, <2>2
    <3>2. f[n - 1] = g[n - 1]
      BY <1>4, <3>1
    <3> QED
      BY <1>2, <3>2 DEF KeptIn
  <2> QED
    BY <2>1, <2>2
<1> QED
  BY <1>1, <1>3, <1>5 DEF KeptUpTo

\* The list is defined by its recursion.
LEMMA KeptExists ==
    ASSUME Len(buffer) \in Nat, NEW J
    PROVE  \E f : IsKept(J, f)
<1>1. PICK m \in Nat : m = Len(buffer)
  OBVIOUS
<1> DEFINE Solved(k) == \E f : KeptUpTo(J, f, k)
           Unsolved == {k \in Nat : ~ Solved(k)}
<1>2. Solved(0)
  <2>1. PICK f : f = [n \in 0..m |-> <<>>]
    OBVIOUS
  <2>2. f = [n \in 0..m |-> f[n]]
    BY <2>1
  <2> QED
    BY <1>1, <2>2 DEF KeptUpTo
<1>3. \A k \in Nat : Solved(k) => Solved(k + 1)
  BY KeptGrows
<1>4. Unsolved = {}
  <2> SUFFICES ASSUME Unsolved # {} PROVE FALSE
    OBVIOUS
  <2>1. PICK k \in Unsolved : \A j \in Unsolved : ~ (<<j, k>> \in OpToRel(<, Nat))
    BY NatLessThanWellFounded, WFMin
  <2>2. k \in Nat /\ ~ Solved(k) /\ \A j \in Nat : j < k => Solved(j)
    BY <2>1 DEF OpToRel
  <2>3. k # 0
    BY ONLY <1>2, <2>2
  <2>4. PICK j \in Nat : k = j + 1
    <3>1. k - 1 \in Nat /\ k = (k - 1) + 1
      BY <2>2, <2>3
    <3> QED
      BY <3>1
  <2>5. Solved(j)
    BY <2>2, <2>4
  <2> HIDE DEF Solved
  <2> QED
    BY <1>3, <2>2, <2>4, <2>5
<1>5. Solved(m + 1)
  <2>1. m + 1 \in Nat
    OBVIOUS
  <2> HIDE DEF Solved
  <2> QED
    BY <1>4, <2>1
<1>6. PICK f : KeptUpTo(J, f, m + 1)
  BY <1>5
<1>7. \A n \in 0..m : f[n] = KeptIn(J, f, n)
  BY <1>1, <1>6 DEF KeptUpTo
<1>8. f = [n \in 0..m |-> f[n]]
  BY <1>1, <1>6 DEF KeptUpTo
<1> QED
  BY <1>1, <1>7, <1>8 DEF IsKept

\* The indices of J up to k.
UpTo(J, k) == {j \in 1..k : j \in J}

\* A match appended to what was before it.
LEMMA AppendPart ==
    ASSUME NEW S, NEW s \in Seq(S), NEW u \in Seq(S), NEW J, PartOf(u, s, J),
           NEW j \in 1..Len(s), \A i \in J : i < j
    PROVE  Append(u, s[j]) \in Seq(S) /\ PartOf(Append(u, s[j]), s, J \cup {j})
<1>1. PICK n \in Nat, m \in Nat : n = Len(s) /\ m = Len(u)
  BY LenProperties
<1>2. s[j] \in S
  BY ElementOfSeq
<1>3. PICK g : Picks(u, s, J, g)
  BY DEF PartOf
<1>4. /\ g \in [1..m -> 1..n]
      /\ \A i, k \in 1..m : i < k => g[i] < g[k]
      /\ \A i \in 1..m : u[i] = s[g[i]] /\ g[i] \in J
      /\ \A k \in J : \E i \in 1..m : g[i] = k
  BY <1>1, <1>3 DEF Picks
<1>5. PICK w : w = Append(u, s[j])
  OBVIOUS
<1>6. w \in Seq(S) /\ Len(w) = m + 1 /\ w[m + 1] = s[j] /\ \A i \in 1..m : w[i] = u[i]
  BY <1>1, <1>2, <1>5, AppendProperties
<1>7. PICK h : h = [i \in 1..(m + 1) |-> IF i = m + 1 THEN j ELSE g[i]]
  OBVIOUS
<1>8. /\ h[m + 1] = j /\ \A i \in 1..m : h[i] = g[i]
      /\ \A i \in 1..(m + 1) : i = m + 1 \/ i \in 1..m
  BY <1>7
<1>9. h \in [1..(m + 1) -> 1..n]
  BY <1>1, <1>4, <1>7, <1>8
<1>10. ASSUME NEW i \in 1..(m + 1), NEW k \in 1..(m + 1), i < k
       PROVE  h[i] < h[k]
  <2>1. i \in 1..m
    BY <1>10
  <2>2. CASE k = m + 1
    <3>1. g[i] \in J /\ h[i] = g[i]
      BY <1>4, <1>8, <2>1
    <3> QED
      BY <1>8, <2>2, <3>1
  <2>3. CASE k \in 1..m
    BY <1>4, <1>8, <1>10, <2>1, <2>3
  <2> QED
    BY <1>8, <2>2, <2>3
<1>11. \A i \in 1..(m + 1) : w[i] = s[h[i]] /\ h[i] \in J \cup {j}
  BY <1>4, <1>6, <1>8
<1>12. ASSUME NEW k \in J \cup {j}
       PROVE  \E i \in 1..(m + 1) : h[i] = k
  <2>1. CASE k \in J
    <3>1. PICK i \in 1..m : g[i] = k
      BY <1>4, <2>1
    <3>2. i \in 1..(m + 1) /\ h[i] = k
      BY <1>8, <3>1
    <3> QED
      BY <3>2
  <2>2. CASE k = j
    <3>1. m + 1 \in 1..(m + 1)
      OBVIOUS
    <3> QED
      BY <1>8, <2>2, <3>1
  <2> QED
    BY <2>1, <2>2
<1>13. Picks(w, s, J \cup {j}, h)
  BY <1>1, <1>6, <1>9, <1>10, <1>11, <1>12 DEF Picks
<1> QED
  BY <1>5, <1>6, <1>13 DEF PartOf

\* The selection up to a match is the part of the buffer up to there.
LEMMA KeptPart ==
    ASSUME NEW S, buffer \in Seq(S), NEW J, NEW f, IsKept(J, f),
           NEW k \in 0..Len(buffer)
    PROVE  f[k] \in Seq(S) /\ PartOf(f[k], buffer, UpTo(J, k))
<1>1. PICK m \in Nat : m = Len(buffer)
  BY LenProperties
<1>2. \A n \in 0..m : f[n] = KeptIn(J, f, n)
  BY <1>1 DEF IsKept
<1> DEFINE Right(n) == f[n] \in Seq(S) /\ PartOf(f[n], buffer, UpTo(J, n))
           Wrong == {n \in Nat : n \in 0..m /\ ~ Right(n)}
<1>3. Right(0)
  <2>1. f[0] = <<>>
    BY <1>2 DEF KeptIn
  <2>2. UpTo(J, 0) = {} /\ 1..0 = {}
    BY DEF UpTo
  <2>3. SubSeq(buffer, 1, 0) = <<>>
    <3>1. 1 \in Int /\ 0 \in Int /\ 0 < 1
      OBVIOUS
    <3> QED
      BY ONLY <3>1, SubSeqEmpty
  <2>4. SubSeq(buffer, 1, 0) \in Seq(S) /\ PartOf(SubSeq(buffer, 1, 0), buffer, 1..0)
    <3>1. 1 \in Int /\ 0 \in Int /\ 1 <= 1 /\ 0 <= Len(buffer)
      BY <1>1
    <3> QED
      BY ONLY <3>1, buffer \in Seq(S), SlicePart
  <2> QED
    BY <2>1, <2>2, <2>3, <2>4
<1>4. ASSUME NEW n \in 1..m, Right(n - 1)
      PROVE  Right(n)
  <2>1. PICK u : u = f[n - 1]
    OBVIOUS
  <2>2. PICK I : I = UpTo(J, n - 1)
    OBVIOUS
  <2>3. u \in Seq(S) /\ PartOf(u, buffer, I)
    BY <1>4, <2>1, <2>2
  <2>4. f[n] = IF n \in J THEN Append(u, buffer[n]) ELSE u
    <3>1. n \in 0..m /\ n # 0
      OBVIOUS
    <3> QED
      BY <1>2, <2>1, <3>1 DEF KeptIn
  <2>5. \A i : i \in 1..n <=> i \in 1..(n - 1) \/ i = n
    OBVIOUS
  <2> HIDE DEF Right
  <2>6. CASE n \in J
    <3>1. UpTo(J, n) = I \cup {n}
      BY <2>2, <2>5, <2>6 DEF UpTo
    <3>2. \A i \in I : i < n
      BY <2>2 DEF UpTo
    <3>3. /\ Append(u, buffer[n]) \in Seq(S)
          /\ PartOf(Append(u, buffer[n]), buffer, I \cup {n})
      BY <1>1, <2>3, <3>2, AppendPart
    <3> QED
      BY <2>4, <2>6, <3>1, <3>3 DEF Right
  <2>7. CASE ~ (n \in J)
    <3>1. UpTo(J, n) = I
      BY <2>2, <2>5, <2>7 DEF UpTo
    <3> QED
      BY <2>3, <2>4, <2>7, <3>1 DEF Right
  <2> QED
    BY <2>6, <2>7
<1>5. Wrong = {}
  <2> SUFFICES ASSUME Wrong # {} PROVE FALSE
    OBVIOUS
  <2>1. PICK n \in Wrong : \A j \in Wrong : ~ (<<j, n>> \in OpToRel(<, Nat))
    BY NatLessThanWellFounded, WFMin
  <2>2. n \in 0..m /\ ~ Right(n)
    OBVIOUS
  <2>3. \A j \in Nat : j \in 0..m /\ j < n => Right(j)
    BY <2>1 DEF OpToRel
  <2> HIDE DEF Right, Wrong
  <2>4. n # 0
    BY <1>3, <2>2
  <2>5. n \in 1..m /\ n - 1 \in Nat /\ n - 1 \in 0..m /\ n - 1 < n
    BY <2>2, <2>4
  <2>6. Right(n - 1)
    BY <2>3, <2>5
  <2> QED
    BY <1>4, <2>2, <2>5, <2>6
<1>6. Right(k)
  <2>1. k \in Nat /\ k \in 0..m
    BY <1>1
  <2> QED
    BY <1>5, <2>1
<1> QED
  BY <1>6

\* A selection is the part of the buffer it is meant to be.
LEMMA SelectedPart ==
    ASSUME NEW S, buffer \in Seq(S), NEW J \in SUBSET (1..Len(buffer))
    PROVE  Selected(J) \in Seq(S) /\ PartOf(Selected(J), buffer, J)
<1>1. PICK n \in Nat : n = Len(buffer)
  BY LenProperties
<1>2. PICK f : f = CHOOSE h : IsKept(J, h)
  OBVIOUS
<1>3. IsKept(J, f)
  BY <1>1, <1>2, KeptExists
<1>4. Selected(J) = f[n]
  BY <1>1, <1>2 DEF Selected, IsKept, KeptIn
<1>5. n \in 0..Len(buffer)
  BY <1>1
<1>6. f[n] \in Seq(S) /\ PartOf(f[n], buffer, UpTo(J, n))
  BY <1>3, <1>5, KeptPart
<1>7. UpTo(J, n) = J
  BY <1>1 DEF UpTo
<1> QED
  BY <1>4, <1>6, <1>7

\* There is one way to pick the elements at the indices of J in order.
LEMMA PartUnique ==
    ASSUME NEW S, NEW s \in Seq(S), NEW u \in Seq(S), NEW w \in Seq(S), NEW J,
           PartOf(u, s, J), PartOf(w, s, J)
    PROVE  u = w
<1>1. PICK n \in Nat, m \in Nat, k \in Nat : n = Len(s) /\ m = Len(u) /\ k = Len(w)
  BY LenProperties
<1>2. PICK g, h : Picks(u, s, J, g) /\ Picks(w, s, J, h)
  BY DEF PartOf
<1>3. /\ \A i \in 1..m : g[i] \in 1..n /\ g[i] \in J /\ u[i] = s[g[i]]
      /\ \A i \in 1..k : h[i] \in 1..n /\ h[i] \in J /\ w[i] = s[h[i]]
      /\ \A i, j \in 1..m : i < j => g[i] < g[j]
      /\ \A i, j \in 1..k : i < j => h[i] < h[j]
      /\ \A j \in J : \E i \in 1..m : g[i] = j
      /\ \A j \in J : \E i \in 1..k : h[i] = j
  BY <1>1, <1>2 DEF Picks
<1>4. \A i \in 1..m : i \in 1..k => g[i] = h[i]
  <2> DEFINE Differ == {i \in Nat : i \in 1..m /\ i \in 1..k /\ g[i] # h[i]}
  <2>1. ASSUME Differ # {} PROVE FALSE
    <3>1. PICK i \in Differ : \A j \in Differ : ~ (<<j, i>> \in OpToRel(<, Nat))
      BY <2>1, NatLessThanWellFounded, WFMin
    <3>2. /\ i \in 1..m /\ i \in 1..k /\ g[i] # h[i]
          /\ \A j \in Nat : j \in 1..m /\ j \in 1..k /\ j < i => g[j] = h[j]
      BY <3>1 DEF OpToRel
    <3> HIDE DEF Differ
    <3>3. g[i] \in Int /\ h[i] \in Int
      BY <1>3, <3>2
    <3>4. CASE g[i] < h[i]
      <4>1. PICK l \in 1..k : h[l] = g[i]
        BY <1>3, <3>2
      <4>2. CASE l < i
        <5>1. l \in 1..m /\ l \in Nat
          BY <3>2, <4>2
        <5>2. g[l] = h[l] /\ g[l] < g[i] /\ g[l] \in Int
          BY <1>3, <3>2, <4>2, <5>1
        <5> QED
          BY <3>3, <4>1, <5>2
      <4>3. CASE i < l
        <5>1. h[i] < h[l]
          BY <1>3, <3>2, <4>3
        <5> QED
          BY <3>3, <3>4, <4>1, <5>1
      <4>4. CASE l = i
        BY <3>2, <4>1, <4>4
      <4> QED
        BY <3>2, <4>2, <4>3, <4>4
    <3>5. CASE h[i] < g[i]
      <4>1. PICK l \in 1..m : g[l] = h[i]
        BY <1>3, <3>2
      <4>2. CASE l < i
        <5>1. l \in 1..k /\ l \in Nat
          BY <3>2, <4>2
        <5>2. g[l] = h[l] /\ h[l] < h[i] /\ h[l] \in Int
          BY <1>3, <3>2, <4>2, <5>1
        <5> QED
          BY <3>3, <4>1, <5>2
      <4>3. CASE i < l
        <5>1. g[i] < g[l]
          BY <1>3, <3>2, <4>3
        <5> QED
          BY <3>3, <3>5, <4>1, <5>1
      <4>4. CASE l = i
        BY <3>2, <4>1, <4>4
      <4> QED
        BY <3>2, <4>2, <4>3, <4>4
    <3> QED
      BY <3>2, <3>3, <3>4, <3>5
  <2> QED
    BY <2>1
<1>5. ~ (m < k)
  <2> SUFFICES ASSUME m < k PROVE FALSE
    OBVIOUS
  <2>1. m + 1 \in 1..k
    OBVIOUS
  <2>2. PICK l \in 1..m : g[l] = h[m + 1]
    BY <1>3, <2>1
  <2>3. l \in 1..k /\ l < m + 1
    OBVIOUS
  <2>4. h[l] = g[l] /\ h[l] < h[m + 1] /\ h[l] \in Int
    BY <1>3, <1>4, <2>1, <2>3
  <2> QED
    BY <2>2, <2>4
<1>6. ~ (k < m)
  <2> SUFFICES ASSUME k < m PROVE FALSE
    OBVIOUS
  <2>1. k + 1 \in 1..m
    OBVIOUS
  <2>2. PICK l \in 1..k : h[l] = g[k + 1]
    BY <1>3, <2>1
  <2>3. l \in 1..m /\ l < k + 1
    OBVIOUS
  <2>4. h[l] = g[l] /\ g[l] < g[k + 1] /\ g[l] \in Int
    BY <1>3, <1>4, <2>1, <2>3
  <2> QED
    BY <2>2, <2>4
<1>7. m = k
  BY <1>5, <1>6
<1>8. \A i \in 1..m : u[i] = w[i]
  BY <1>3, <1>4, <1>7
<1> QED
  BY <1>1, <1>7, <1>8, SeqEqual

-----------------------------------------------------------------------------
(* What the storage returns                                                *)

\* The buffer holds n > 0 records of S, sorted by their keys K.
Stored(S, n, K) == buffer \in Seq(S) /\ Keyed(buffer, n, K) /\ n > 0

\* What is returned is the part of the buffer at the indices of J, or at more.
Exactly(q, S, J) == q \in Seq(S) /\ PartOf(q, buffer, J)

AtLeast(q, S, J) == \E I \in SUBSET (1..Len(buffer)) : J \subseteq I /\ Exactly(q, S, I)

\* The first index tells the smaller keys.
LEMMA FirstTells ==
    ASSUME NEW S, NEW n, NEW K, Stored(S, n, K), NEW v \in Int,
           NEW i, i = FirstIndex(v)
    PROVE  \/ i = -1 /\ ~ Present(i, v) /\ \A j \in 1..n : K[j] > v
           \/ i = n /\ ~ Present(i, v) /\ \A j \in 1..n : K[j] < v
           \/ /\ i \in 0..(n - 1) /\ Present(i, v) /\ K[i + 1] = v
              /\ \A j \in 1..n : K[j] < v <=> j <= i
           \/ /\ i \in 0..(n - 1) /\ ~ Present(i, v)
              /\ \A j \in 1..n : K[j] # v
              /\ \A j \in 1..n : K[j] < v <=> j <= i + 1
<1>1. /\ n \in Nat /\ Len(buffer) = n /\ K \in [1..n -> Int] /\ n > 0
      /\ \A j \in 1..n : buffer[j].key = K[j]
      /\ \A j, k \in 1..n : j <= k => K[j] <= K[k]
  BY DEF Stored, Keyed
<1>2. LandsAt(K, n, v, TRUE, i)
  <2>1. PICK w \in BOOLEAN : w = TRUE
    OBVIOUS
  <2>2. Keyed(buffer, n, K) /\ n \in Nat /\ n > 0
    BY <1>1 DEF Stored
  <2>3. LandsAt(K, n, v, w, GetIndex(buffer, v, w))
    BY <2>2, GetIndexLands
  <2> QED
    BY <2>1, <2>3 DEF FirstIndex
<1>3. Present(i, v) <=> i \in 0..(n - 1) /\ K[i + 1] = v
  BY <1>1 DEF Present
<1>4. CASE i = -1 /\ \A j \in 1..n : K[j] > v
  BY <1>3, <1>4
<1>5. CASE i = n /\ \A j \in 1..n : K[j] < v
  BY <1>1, <1>3, <1>5
<1>6. CASE i \in 0..(n - 1) /\ K[i + 1] = v /\ \A j \in 1..i : K[j] < v
  <2>1. ASSUME NEW j \in 1..n, ~ (j <= i)
        PROVE  ~ (K[j] < v)
    <3>1. i + 1 \in 1..n /\ i + 1 <= j
      BY <1>1, <1>6, <2>1
    <3>2. K[i + 1] <= K[j] /\ K[j] \in Int
      BY <1>1, <3>1
    <3> QED
      BY <1>6, <3>2
  <2>2. \A j \in 1..n : j <= i => K[j] < v
    BY <1>1, <1>6
  <2> QED
    BY <1>3, <1>6, <2>1, <2>2
<1>7. CASE i \in 0..(n - 1) /\ K[i + 1] < v /\ \A j \in (i + 2)..n : K[j] > v
  <2>1. ASSUME NEW j \in 1..n, j <= i + 1
        PROVE  K[j] < v
    <3>1. i + 1 \in 1..n
      BY <1>1, <1>7
    <3>2. K[j] <= K[i + 1] /\ K[j] \in Int /\ K[i + 1] \in Int
      BY <1>1, <2>1, <3>1
    <3> QED
      BY <1>7, <3>2
  <2>2. ASSUME NEW j \in 1..n, ~ (j <= i + 1)
        PROVE  K[j] > v
    BY <1>1, <1>7, <2>2
  <2>3. \A j \in 1..n : K[j] \in Int
    BY <1>1
  <2>4. ~ Present(i, v)
    <3>1. i + 1 \in 1..n
      BY <1>1, <1>7
    <3> QED
      BY <1>3, <1>7, <2>3, <3>1
  <2>5. \A j \in 1..n : K[j] # v
    BY <2>1, <2>2, <2>3
  <2>6. \A j \in 1..n : K[j] < v <=> j <= i + 1
    <3> SUFFICES ASSUME NEW j \in 1..n PROVE K[j] < v <=> j <= i + 1
      OBVIOUS
    <3>1. CASE j <= i + 1
      BY <2>1, <3>1
    <3>2. CASE ~ (j <= i + 1)
      BY <2>2, <2>3, <3>2
    <3> QED
      BY <3>1, <3>2
  <2> QED
    BY <1>7, <2>4, <2>5, <2>6
<1> QED
  BY <1>2, <1>4, <1>5, <1>6, <1>7 DEF LandsAt

\* The last index tells the greater keys.
LEMMA LastTells ==
    ASSUME NEW S, NEW n, NEW K, Stored(S, n, K), NEW v \in Int,
           NEW i, i = LastIndex(v)
    PROVE  \/ i = -1 /\ ~ Present(i, v) /\ \A j \in 1..n : K[j] > v
           \/ i = n /\ ~ Present(i, v) /\ \A j \in 1..n : K[j] < v
           \/ /\ i \in 0..(n - 1) /\ Present(i, v) /\ K[i + 1] = v
              /\ \A j \in 1..n : K[j] > v <=> j >= i + 2
           \/ /\ i \in 0..(n - 1) /\ ~ Present(i, v)
              /\ \A j \in 1..n : K[j] # v
              /\ \A j \in 1..n : K[j] > v <=> j >= i + 1
<1>1. /\ n \in Nat /\ Len(buffer) = n /\ K \in [1..n -> Int] /\ n > 0
      /\ \A j \in 1..n : buffer[j].key = K[j]
      /\ \A j, k \in 1..n : j <= k => K[j] <= K[k]
  BY DEF Stored, Keyed
<1>2. LandsAt(K, n, v, FALSE, i)
  <2>1. PICK w \in BOOLEAN : w = FALSE
    OBVIOUS
  <2>2. Keyed(buffer, n, K) /\ n \in Nat /\ n > 0
    BY <1>1 DEF Stored
  <2>3. LandsAt(K, n, v, w, GetIndex(buffer, v, w))
    BY <2>2, GetIndexLands
  <2> QED
    BY <2>1, <2>3 DEF LastIndex
<1>3. Present(i, v) <=> i \in 0..(n - 1) /\ K[i + 1] = v
  BY <1>1 DEF Present
<1>4. CASE i = -1 /\ \A j \in 1..n : K[j] > v
  BY <1>3, <1>4
<1>5. CASE i = n /\ \A j \in 1..n : K[j] < v
  BY <1>1, <1>3, <1>5
<1>6. CASE i \in 0..(n - 1) /\ K[i + 1] = v /\ \A j \in (i + 2)..n : K[j] > v
  <2>1. ASSUME NEW j \in 1..n, ~ (j >= i + 2)
        PROVE  ~ (K[j] > v)
    <3>1. i + 1 \in 1..n /\ j <= i + 1
      BY <1>1, <1>6, <2>1
    <3>2. K[j] <= K[i + 1] /\ K[j] \in Int
      BY <1>1, <3>1
    <3> QED
      BY <1>6, <3>2
  <2>2. \A j \in 1..n : j >= i + 2 => K[j] > v
    BY <1>1, <1>6
  <2> QED
    BY <1>3, <1>6, <2>1, <2>2
<1>7. CASE i \in 0..(n - 1) /\ K[i + 1] > v /\ \A j \in 1..i : K[j] < v
  <2>1. ASSUME NEW j \in 1..n, j >= i + 1
        PROVE  K[j] > v
    <3>1. i + 1 \in 1..n
      BY <1>1, <1>7
    <3>2. K[i + 1] <= K[j] /\ K[j] \in Int /\ K[i + 1] \in Int
      BY <1>1, <2>1, <3>1
    <3> QED
      BY <1>7, <3>2
  <2>2. ASSUME NEW j \in 1..n, ~ (j >= i + 1)
        PROVE  K[j] < v
    BY <1>1, <1>7, <2>2
  <2>3. \A j \in 1..n : K[j] \in Int
    BY <1>1
  <2>4. ~ Present(i, v)
    <3>1. i + 1 \in 1..n
      BY <1>1, <1>7
    <3> QED
      BY <1>3, <1>7, <2>3, <3>1
  <2>5. \A j \in 1..n : K[j] # v
    BY <2>1, <2>2, <2>3
  <2>6. \A j \in 1..n : K[j] > v <=> j >= i + 1
    <3> SUFFICES ASSUME NEW j \in 1..n PROVE K[j] > v <=> j >= i + 1
      OBVIOUS
    <3>1. CASE j >= i + 1
      BY <2>1, <3>1
    <3>2. CASE ~ (j >= i + 1)
      BY <2>2, <2>3, <3>2
    <3> QED
      BY <3>1, <3>2
  <2> QED
    BY <1>7, <2>4, <2>5, <2>6
<1> QED
  BY <1>2, <1>4, <1>5, <1>6, <1>7 DEF LandsAt

\* The slices of the buffer.
LEMMA Slices ==
    ASSUME NEW S, NEW n, NEW K, Stored(S, n, K)
    PROVE  /\ Exactly(<<>>, S, {})
           /\ Exactly(buffer, S, 1..n)
           /\ \A i \in 0..n : Exactly(Suffix(i), S, (i + 1)..n)
           /\ \A i \in 0..n : Exactly(Prefix(i), S, 1..i)
           /\ \A i, j \in 0..(n - 1) : Exactly(SubSeq(buffer, i + 1, j + 1), S, (i + 1)..(j + 1))
<1>1. buffer \in Seq(S) /\ n \in Nat /\ Len(buffer) = n
  BY DEF Stored, Keyed
<1>2. ASSUME NEW a \in Int, NEW b \in Int, 1 <= a, b <= n
      PROVE  Exactly(SubSeq(buffer, a, b), S, a..b)
  BY <1>1, <1>2, SlicePart DEF Exactly
<1>3. Exactly(<<>>, S, {})
  <2>1. SubSeq(buffer, 1, 0) = <<>>
    <3>1. 1 \in Int /\ 0 \in Int /\ 0 < 1
      OBVIOUS
    <3> QED
      BY ONLY <3>1, SubSeqEmpty
  <2>2. 1..0 = {}
    OBVIOUS
  <2>3. Exactly(SubSeq(buffer, 1, 0), S, 1..0)
    BY <1>1, <1>2
  <2> QED
    BY <2>1, <2>2, <2>3
<1>4. Exactly(buffer, S, 1..n)
  <2>1. PICK g : g = [i \in 1..n |-> i]
    OBVIOUS
  <2>2. Picks(buffer, buffer, 1..n, g)
    BY <1>1, <2>1 DEF Picks
  <2> QED
    BY <1>1, <2>2 DEF Exactly, PartOf
<1>5. \A i \in 0..n : Exactly(Suffix(i), S, (i + 1)..n)
  BY <1>1, <1>2 DEF Suffix
<1>6. \A i \in 0..n : Exactly(Prefix(i), S, 1..i)
  BY <1>1, <1>2 DEF Prefix
<1>7. \A i, j \in 0..(n - 1) : Exactly(SubSeq(buffer, i + 1, j + 1), S, (i + 1)..(j + 1))
  BY <1>1, <1>2
<1> QED
  BY <1>3, <1>4, <1>5, <1>6, <1>7

\* The indices of the keys that are in a relation with v.
Where(op, K, n, v) == {j \in 1..n : Compare(op, K[j], v)}

\* The equal keys lie between the first and the last index.
LEMMA EqualReads ==
    ASSUME NEW S, NEW n, NEW K, Stored(S, n, K), NEW v \in Int
    PROVE  /\ Exactly(GetEqual(v), S, Where("=", K, n, v))
           /\ Exactly(GetUnequal(v), S, Where("#", K, n, v))
<1> SUFFICES /\ Exactly(GetEqual(v), S, {j \in 1..n : K[j] = v})
             /\ Exactly(GetUnequal(v), S, {j \in 1..n : K[j] # v})
  <2>1. /\ Where("=", K, n, v) = {j \in 1..n : K[j] = v}
        /\ Where("#", K, n, v) = {j \in 1..n : K[j] # v}
    BY DEF Where, Compare
  <2> QED
    BY <2>1
<1>1. /\ n \in Nat /\ Len(buffer) = n /\ K \in [1..n -> Int] /\ n > 0
      /\ \A j \in 1..n : K[j] \in Int
  BY DEF Stored, Keyed
<1>2. PICK f, l : f = FirstIndex(v) /\ l = LastIndex(v)
  OBVIOUS
<1>3. CASE ~ Present(f, v)
  <2>1. \A j \in 1..n : K[j] # v
    <3>1. \/ \A j \in 1..n : K[j] > v
          \/ \A j \in 1..n : K[j] < v
          \/ \A j \in 1..n : K[j] # v
      BY <1>2, <1>3, FirstTells
    <3> QED
      BY <1>1, <3>1
  <2>2. {j \in 1..n : K[j] = v} = {} /\ {j \in 1..n : K[j] # v} = 1..n
    BY <2>1
  <2>3. GetEqual(v) = <<>> /\ GetUnequal(v) = buffer
    BY <1>2, <1>3 DEF GetEqual, GetUnequal
  <2> QED
    BY <2>2, <2>3, Slices
<1>4. CASE Present(f, v)
  <2>1. f \in 0..(n - 1) /\ K[f + 1] = v /\ \A j \in 1..n : K[j] < v <=> j <= f
    BY <1>1, <1>2, <1>4, FirstTells
  <2>2. f + 1 \in 1..n
    BY <1>1, <2>1
  <2>3. ~ (K[f + 1] > v) /\ ~ (K[f + 1] < v) /\ ~ (K[f + 1] # v)
    BY <1>1, <2>1
  <2>4. l \in 0..(n - 1) /\ \A j \in 1..n : K[j] > v <=> j >= l + 2
    BY <1>2, <2>2, <2>3, LastTells
  <2>5. \A j \in 1..n : K[j] = v <=> j \in (f + 1)..(l + 1)
    <3> SUFFICES ASSUME NEW j \in 1..n PROVE K[j] = v <=> j \in (f + 1)..(l + 1)
      OBVIOUS
    <3>1. /\ K[j] \in Int /\ (K[j] < v <=> j <= f) /\ (K[j] > v <=> j >= l + 2)
          /\ f \in Int /\ l \in Int /\ j \in Int /\ v \in Int
      BY <1>1, <2>1, <2>4
    <3> QED
      BY ONLY <3>1
  <2>6. {j \in 1..n : K[j] = v} = (f + 1)..(l + 1)
    <3>1. (f + 1)..(l + 1) \subseteq 1..n
      BY <1>1, <2>1, <2>4
    <3> QED
      BY <2>5, <3>1
  <2>7. Exactly(GetEqual(v), S, {j \in 1..n : K[j] = v})
    <3>1. GetEqual(v) = SubSeq(buffer, f + 1, l + 1)
      BY <1>2, <1>4 DEF GetEqual
    <3>2. Exactly(SubSeq(buffer, f + 1, l + 1), S, (f + 1)..(l + 1))
      BY <2>1, <2>4, Slices
    <3> QED
      BY <2>6, <3>1, <3>2
  <2>8. {j \in 1..n : K[j] # v} = (1..f) \cup ((l + 2)..n)
    <3>1. (1..f) \cup ((l + 2)..n) \subseteq 1..n
      BY <1>1, <2>1, <2>4
    <3>2. ASSUME NEW j \in 1..n
          PROVE  K[j] # v <=> j \in (1..f) \cup ((l + 2)..n)
      <4>1. j \in Int /\ f \in Int /\ l \in Int /\ 1 <= j /\ j <= n /\ n \in Int
        BY <1>1, <2>1, <2>4
      <4>2. j \in (f + 1)..(l + 1) <=> ~ (j \in (1..f) \cup ((l + 2)..n))
        BY ONLY <4>1
      <4> QED
        BY <2>5, <4>2
    <3> QED
      BY <3>1, <3>2
  <2>9. Exactly(GetUnequal(v), S, {j \in 1..n : K[j] # v})
    <3>1. GetUnequal(v) = Prefix(f) \o Suffix(l + 1)
      BY <1>2, <1>4 DEF GetUnequal
    <3>2. Exactly(Prefix(f), S, 1..f)
      BY <1>1, <2>1, Slices
    <3>3. Exactly(Suffix(l + 1), S, (l + 2)..n)
      <4>1. l + 1 \in 0..n /\ (l + 1) + 1 = l + 2
        BY <1>1, <2>4
      <4>2. Exactly(Suffix(l + 1), S, ((l + 1) + 1)..n)
        BY <4>1, Slices
      <4> QED
        BY <4>1, <4>2
    <3>4. \A i \in 1..f : \A j \in (l + 2)..n : i < j
      <4>1. f < l + 2
        <5>1. f + 1 \in (f + 1)..(l + 1)
          BY <2>1, <2>2, <2>5
        <5> QED
          BY <2>1, <2>4, <5>1
      <4> QED
        BY <1>1, <2>1, <2>4, <4>1
    <3>5. buffer \in Seq(S)
      BY DEF Stored
    <3>6. /\ Prefix(f) \o Suffix(l + 1) \in Seq(S)
          /\ PartOf(Prefix(f) \o Suffix(l + 1), buffer, (1..f) \cup ((l + 2)..n))
      BY <3>2, <3>3, <3>4, <3>5, SlicesPart DEF Exactly
    <3> QED
      BY <2>8, <3>1, <3>6 DEF Exactly
  <2> QED
    BY <2>7, <2>9
<1> QED
  BY <1>3, <1>4

\* The greater keys are a suffix.
LEMMA GreaterReads ==
    ASSUME NEW S, NEW n, NEW K, Stored(S, n, K), NEW v \in Int
    PROVE  /\ Exactly(GetGreater(v, FALSE), S, Where(">", K, n, v))
           /\ AtLeast(GetGreater(v, TRUE), S, Where(">=", K, n, v))
<1> SUFFICES /\ Exactly(GetGreater(v, FALSE), S, {j \in 1..n : K[j] > v})
             /\ AtLeast(GetGreater(v, TRUE), S, {j \in 1..n : K[j] >= v})
  <2>1. /\ Where(">", K, n, v) = {j \in 1..n : K[j] > v}
        /\ Where(">=", K, n, v) = {j \in 1..n : K[j] >= v}
    BY DEF Where, Compare
  <2> QED
    BY <2>1
<1>1. /\ n \in Nat /\ Len(buffer) = n /\ K \in [1..n -> Int] /\ n > 0
      /\ \A j \in 1..n : K[j] \in Int
  BY DEF Stored, Keyed
<1>2. Exactly(GetGreater(v, FALSE), S, {j \in 1..n : K[j] > v})
  <2>1. PICK i : i = LastIndex(v)
    OBVIOUS
  <2>2. GetGreater(v, FALSE) = IF i = n THEN <<>>
                               ELSE IF i = -1 THEN buffer
                               ELSE IF ~ Present(i, v) THEN Suffix(i)
                               ELSE Suffix(i + 1)
    BY <1>1, <2>1 DEF GetGreater
  <2>3. CASE i = -1 /\ \A j \in 1..n : K[j] > v
    <3>1. {j \in 1..n : K[j] > v} = 1..n
      BY <2>3
    <3>2. GetGreater(v, FALSE) = buffer
      <4>1. i # n /\ i = -1
        BY <1>1, <2>3
      <4> QED
        BY <2>2, <4>1
    <3>3. Exactly(buffer, S, 1..n)
      BY Slices
    <3> QED
      BY <3>1, <3>2, <3>3
  <2>4. CASE i = n /\ \A j \in 1..n : K[j] < v
    <3>1. {j \in 1..n : K[j] > v} = {}
      BY <1>1, <2>4
    <3> QED
      BY <1>1, <2>2, <2>4, <3>1, Slices
  <2>5. CASE /\ i \in 0..(n - 1) /\ Present(i, v)
             /\ \A j \in 1..n : K[j] > v <=> j >= i + 2
    <3>1. i + 1 \in 0..n /\ i # n /\ i # -1
      BY <1>1, <2>5
    <3>2. {j \in 1..n : K[j] > v} = ((i + 1) + 1)..n
      <4>1. \A j \in 1..n : K[j] > v <=> j \in ((i + 1) + 1)..n
        BY <1>1, <2>5
      <4>2. ((i + 1) + 1)..n \subseteq 1..n
        BY <1>1, <2>5
      <4> QED
        BY <4>1, <4>2
    <3>3. Exactly(Suffix(i + 1), S, ((i + 1) + 1)..n)
      BY <3>1, Slices
    <3> QED
      BY <2>2, <2>5, <3>1, <3>2, <3>3
  <2>6. CASE /\ i \in 0..(n - 1) /\ ~ Present(i, v)
             /\ \A j \in 1..n : K[j] > v <=> j >= i + 1
    <3>1. i \in 0..n /\ i # n /\ i # -1
      BY <1>1, <2>6
    <3>2. {j \in 1..n : K[j] > v} = (i + 1)..n
      <4>1. \A j \in 1..n : K[j] > v <=> j \in (i + 1)..n
        BY <1>1, <2>6
      <4>2. (i + 1)..n \subseteq 1..n
        BY <1>1, <2>6
      <4> QED
        BY <4>1, <4>2
    <3>3. Exactly(Suffix(i), S, (i + 1)..n)
      BY <3>1, Slices
    <3> QED
      BY <2>2, <2>6, <3>1, <3>2, <3>3
  <2> QED
    BY <2>1, <2>3, <2>4, <2>5, <2>6, LastTells
<1>3. AtLeast(GetGreater(v, TRUE), S, {j \in 1..n : K[j] >= v})
  <2>1. PICK i : i = FirstIndex(v)
    OBVIOUS
  <2>2. GetGreater(v, TRUE) = IF i = n THEN <<>>
                              ELSE IF i = -1 THEN buffer
                              ELSE Suffix(i)
    BY <1>1, <2>1 DEF GetGreater
  <2>3. CASE i = -1
    <3>1. Exactly(GetGreater(v, TRUE), S, 1..n)
      <4>1. GetGreater(v, TRUE) = buffer
        <5>1. i # n /\ i = -1
          BY <1>1, <2>3
        <5> QED
          BY <2>2, <5>1
      <4>2. Exactly(buffer, S, 1..n)
        BY Slices
      <4> QED
        BY <4>1, <4>2
    <3> QED
      BY <1>1, <3>1 DEF AtLeast
  <2>4. CASE i = n /\ \A j \in 1..n : K[j] < v
    <3>1. {j \in 1..n : K[j] >= v} = {}
      BY <1>1, <2>4
    <3>2. Exactly(GetGreater(v, TRUE), S, {})
      BY <1>1, <2>2, <2>4, Slices
    <3> QED
      BY <3>1, <3>2 DEF AtLeast
  <2>5. CASE i \in 0..(n - 1) /\ \A j \in 1..n : j <= i => K[j] < v
    <3>1. Exactly(Suffix(i), S, (i + 1)..n) /\ i # n /\ i # -1
      BY <1>1, <2>5, Slices
    <3>2. {j \in 1..n : K[j] >= v} \subseteq (i + 1)..n
      <4> SUFFICES ASSUME NEW j \in 1..n, K[j] >= v PROVE j \in (i + 1)..n
        OBVIOUS
      <4>1. ~ (j <= i)
        BY <1>1, <2>5
      <4> QED
        BY <1>1, <2>5, <4>1
    <3>3. (i + 1)..n \in SUBSET (1..Len(buffer))
      BY <1>1, <2>5
    <3> QED
      BY <2>2, <3>1, <3>2, <3>3 DEF AtLeast
  <2>6. \/ i = -1
        \/ i = n /\ \A j \in 1..n : K[j] < v
        \/ i \in 0..(n - 1) /\ \A j \in 1..n : j <= i => K[j] < v
    <3>1. CASE i \in 0..(n - 1) /\ \A j \in 1..n : K[j] < v <=> j <= i + 1
      <4>1. \A j \in 1..n : j <= i => j <= i + 1
        BY <3>1
      <4> QED
        BY <3>1, <4>1
    <3>2. CASE ~ (i \in 0..(n - 1) /\ \A j \in 1..n : K[j] < v <=> j <= i + 1)
      BY <2>1, <3>2, FirstTells
    <3> QED
      BY <3>1, <3>2
  <2> QED
    BY <2>3, <2>4, <2>5, <2>6
<1> QED
  BY <1>2, <1>3

\* The smaller keys are a prefix.
LEMMA SmallerReads ==
    ASSUME NEW S, NEW n, NEW K, Stored(S, n, K), NEW v \in Int
    PROVE  /\ Exactly(GetSmaller(v, FALSE), S, Where("<", K, n, v))
           /\ AtLeast(GetSmaller(v, TRUE), S, Where("<=", K, n, v))
<1> SUFFICES /\ Exactly(GetSmaller(v, FALSE), S, {j \in 1..n : K[j] < v})
             /\ AtLeast(GetSmaller(v, TRUE), S, {j \in 1..n : K[j] <= v})
  <2>1. /\ Where("<", K, n, v) = {j \in 1..n : K[j] < v}
        /\ Where("<=", K, n, v) = {j \in 1..n : K[j] <= v}
    BY DEF Where, Compare
  <2> QED
    BY <2>1
<1>1. /\ n \in Nat /\ Len(buffer) = n /\ K \in [1..n -> Int] /\ n > 0
      /\ \A j \in 1..n : K[j] \in Int
  BY DEF Stored, Keyed
<1>2. Exactly(GetSmaller(v, FALSE), S, {j \in 1..n : K[j] < v})
  <2>1. PICK i : i = FirstIndex(v)
    OBVIOUS
  <2>2. GetSmaller(v, FALSE) = IF i = n THEN buffer
                               ELSE IF i = -1 THEN <<>>
                               ELSE IF ~ Present(i, v) THEN Prefix(i + 1)
                               ELSE Prefix(i)
    BY <1>1, <2>1 DEF GetSmaller
  <2>3. CASE i = -1 /\ \A j \in 1..n : K[j] > v
    <3>1. {j \in 1..n : K[j] < v} = {}
      BY <1>1, <2>3
    <3>2. GetSmaller(v, FALSE) = <<>>
      <4>1. i # n /\ i = -1
        BY <1>1, <2>3
      <4> QED
        BY <2>2, <4>1
    <3>3. Exactly(<<>>, S, {})
      BY Slices
    <3> QED
      BY <3>1, <3>2, <3>3
  <2>4. CASE i = n /\ \A j \in 1..n : K[j] < v
    <3>1. {j \in 1..n : K[j] < v} = 1..n
      BY <2>4
    <3> QED
      BY <1>1, <2>2, <2>4, <3>1, Slices
  <2>5. CASE /\ i \in 0..(n - 1) /\ Present(i, v)
             /\ \A j \in 1..n : K[j] < v <=> j <= i
    <3>1. i \in 0..n /\ i # n /\ i # -1
      BY <1>1, <2>5
    <3>2. {j \in 1..n : K[j] < v} = 1..i
      <4>1. \A j \in 1..n : K[j] < v <=> j \in 1..i
        BY <1>1, <2>5
      <4>2. 1..i \subseteq 1..n
        BY <1>1, <2>5
      <4> QED
        BY <4>1, <4>2
    <3>3. Exactly(Prefix(i), S, 1..i)
      BY <3>1, Slices
    <3> QED
      BY <2>2, <2>5, <3>1, <3>2, <3>3
  <2>6. CASE /\ i \in 0..(n - 1) /\ ~ Present(i, v)
             /\ \A j \in 1..n : K[j] < v <=> j <= i + 1
    <3>1. i + 1 \in 0..n /\ i # n /\ i # -1
      BY <1>1, <2>6
    <3>2. {j \in 1..n : K[j] < v} = 1..(i + 1)
      <4>1. \A j \in 1..n : K[j] < v <=> j \in 1..(i + 1)
        BY <1>1, <2>6
      <4>2. 1..(i + 1) \subseteq 1..n
        BY <1>1, <2>6
      <4> QED
        BY <4>1, <4>2
    <3>3. Exactly(Prefix(i + 1), S, 1..(i + 1))
      BY <3>1, Slices
    <3> QED
      BY <2>2, <2>6, <3>1, <3>2, <3>3
  <2> QED
    BY <2>1, <2>3, <2>4, <2>5, <2>6, FirstTells
<1>3. AtLeast(GetSmaller(v, TRUE), S, {j \in 1..n : K[j] <= v})
  <2>1. PICK i : i = LastIndex(v)
    OBVIOUS
  <2>2. GetSmaller(v, TRUE) = IF i = n THEN buffer
                              ELSE IF i = -1 THEN <<>>
                              ELSE Prefix(i + 1)
    BY <1>1, <2>1 DEF GetSmaller
  <2>3. CASE i = n
    <3>1. Exactly(GetSmaller(v, TRUE), S, 1..n)
      BY <1>1, <2>2, <2>3, Slices
    <3> QED
      BY <1>1, <3>1 DEF AtLeast
  <2>4. CASE i = -1 /\ \A j \in 1..n : K[j] > v
    <3>1. {j \in 1..n : K[j] <= v} = {}
      BY <1>1, <2>4
    <3>2. Exactly(GetSmaller(v, TRUE), S, {})
      <4>1. GetSmaller(v, TRUE) = <<>>
        <5>1. i # n /\ i = -1
          BY <1>1, <2>4
        <5> QED
          BY <2>2, <5>1
      <4>2. Exactly(<<>>, S, {})
        BY Slices
      <4> QED
        BY <4>1, <4>2
    <3> QED
      BY <3>1, <3>2 DEF AtLeast
  <2>5. CASE i \in 0..(n - 1) /\ \A j \in 1..n : j >= i + 2 => K[j] > v
    <3>1. i + 1 \in 0..n /\ i # n /\ i # -1
      BY <1>1, <2>5
    <3>2. Exactly(Prefix(i + 1), S, 1..(i + 1))
      BY <3>1, Slices
    <3>3. {j \in 1..n : K[j] <= v} \subseteq 1..(i + 1)
      <4> SUFFICES ASSUME NEW j \in 1..n, K[j] <= v PROVE j \in 1..(i + 1)
        OBVIOUS
      <4>1. ~ (j >= i + 2)
        BY <1>1, <2>5
      <4> QED
        BY <1>1, <2>5, <4>1
    <3>4. 1..(i + 1) \in SUBSET (1..Len(buffer))
      BY <1>1, <2>5
    <3> QED
      BY <2>2, <3>1, <3>2, <3>3, <3>4 DEF AtLeast
  <2>6. \/ i = n
        \/ i = -1 /\ \A j \in 1..n : K[j] > v
        \/ i \in 0..(n - 1) /\ \A j \in 1..n : j >= i + 2 => K[j] > v
    <3>1. CASE i \in 0..(n - 1) /\ \A j \in 1..n : K[j] > v <=> j >= i + 1
      <4>1. \A j \in 1..n : j >= i + 2 => j >= i + 1
        BY <3>1
      <4> QED
        BY <3>1, <4>1
    <3>2. CASE ~ (i \in 0..(n - 1) /\ \A j \in 1..n : K[j] > v <=> j >= i + 1)
      BY <2>1, <3>2, LastTells
    <3> QED
      BY <3>1, <3>2
  <2> QED
    BY <2>3, <2>4, <2>5, <2>6
<1> QED
  BY <1>2, <1>3

\* The function chosen for a relation returns what is related to v: exactly, or
\* with a neighbour when the relation holds of equal keys too.
LEMMA GetParts ==
    ASSUME NEW S, NEW n, NEW K, Stored(S, n, K), NEW v \in Int, NEW op \in Relop,
           NEW side \in {"left", "right"},
           NEW J, J = {j \in 1..n : Related(op, side, K[j], v)}
    PROVE  /\ AtLeast(Get(op, side, v), S, J)
           /\ op \in {"=", "#", ">", "<"} => Exactly(Get(op, side, v), S, J)
<1>1. /\ n \in Nat /\ Len(buffer) = n /\ K \in [1..n -> Int] /\ n > 0
      /\ \A j \in 1..n : K[j] \in Int
  BY DEF Stored, Keyed
<1>2. buffer # <<>>
  BY <1>1
<1>3. Get(op, side, v) = GetBy(op, side, v)
  BY <1>2 DEF Get
<1>4. ASSUME NEW q, Exactly(q, S, J)
      PROVE  AtLeast(q, S, J)
  BY <1>1, <1>4 DEF AtLeast
<1>5. CASE op = "="
  <2>1. GetBy(op, side, v) = GetEqual(v)
    BY <1>5 DEF GetBy
  <2>2. J = Where("=", K, n, v)
    BY <1>1, <1>5 DEF Related, Compare, Where
  <2>3. Exactly(GetEqual(v), S, J)
    BY <2>2, EqualReads
  <2> QED
    BY <1>3, <1>4, <2>1, <2>3
<1>6. CASE op = "#"
  <2>1. GetBy(op, side, v) = GetUnequal(v)
    BY <1>6 DEF GetBy
  <2>2. J = Where("#", K, n, v)
    BY <1>1, <1>6 DEF Related, Compare, Where
  <2>3. Exactly(GetUnequal(v), S, J)
    BY <2>2, EqualReads
  <2> QED
    BY <1>3, <1>4, <2>1, <2>3
<1>7. CASE (op = ">" /\ side = "left") \/ (op = "<" /\ side = "right")
  <2>1. GetBy(op, side, v) = GetGreater(v, FALSE)
    BY <1>7 DEF GetBy
  <2>2. J = Where(">", K, n, v)
    BY <1>1, <1>7 DEF Related, Compare, Where
  <2>3. Exactly(GetGreater(v, FALSE), S, J)
    BY <2>2, GreaterReads
  <2> QED
    BY <1>3, <1>4, <2>1, <2>3
<1>8. CASE (op = "<" /\ side = "left") \/ (op = ">" /\ side = "right")
  <2>1. GetBy(op, side, v) = GetSmaller(v, FALSE)
    BY <1>8 DEF GetBy
  <2>2. J = Where("<", K, n, v)
    BY <1>1, <1>8 DEF Related, Compare, Where
  <2>3. Exactly(GetSmaller(v, FALSE), S, J)
    BY <2>2, SmallerReads
  <2> QED
    BY <1>3, <1>4, <2>1, <2>3
<1>9. CASE (op = ">=" /\ side = "left") \/ (op = "<=" /\ side = "right")
  <2>1. GetBy(op, side, v) = GetGreater(v, TRUE)
    BY <1>9 DEF GetBy
  <2>2. J = Where(">=", K, n, v)
    BY <1>1, <1>9 DEF Related, Compare, Where
  <2>3. AtLeast(GetGreater(v, TRUE), S, J)
    BY <2>2, GreaterReads
  <2>4. ~ (op \in {"=", "#", ">", "<"})
    BY <1>9
  <2> QED
    BY <1>3, <2>1, <2>3, <2>4
<1>10. CASE (op = "<=" /\ side = "left") \/ (op = ">=" /\ side = "right")
  <2>1. GetBy(op, side, v) = GetSmaller(v, TRUE)
    BY <1>10 DEF GetBy
  <2>2. J = Where("<=", K, n, v)
    BY <1>1, <1>10 DEF Related, Compare, Where
  <2>3. AtLeast(GetSmaller(v, TRUE), S, J)
    BY <2>2, SmallerReads
  <2>4. ~ (op \in {"=", "#", ">", "<"})
    BY <1>10
  <2> QED
    BY <1>3, <2>1, <2>3, <2>4
<1>11. op \in {"=", "#", ">", ">=", "<", "<="} /\ side \in {"left", "right"}
  BY DEF Relop
<1>12. \/ op = "=" \/ op = "#"
       \/ (op = ">" /\ side = "left") \/ (op = "<" /\ side = "right")
       \/ (op = "<" /\ side = "left") \/ (op = ">" /\ side = "right")
       \/ (op = ">=" /\ side = "left") \/ (op = "<=" /\ side = "right")
       \/ (op = "<=" /\ side = "left") \/ (op = ">=" /\ side = "right")
  BY ONLY <1>11
<1> QED
  BY <1>5, <1>6, <1>7, <1>8, <1>9, <1>10, <1>12

\* The bag of the buffer: a match and the number of its copies.
LEMMA BufferBag ==
    ASSUME NEW S, NEW s \in Seq(S)
    PROVE  /\ DOMAIN ToBag(s) = Range(s)
           /\ \A e \in Range(s) : ToBag(s)[e] = CopiesOf(s, e)
           /\ \A e : CopiesOf(s, e) \in Nat
           /\ \A e : e \in Range(s) <=> \E i \in 1..Len(s) : s[i] = e
<1>1. DOMAIN s = 1..Len(s) /\ Len(s) \in Nat
  BY LenProperties
<1>2. DOMAIN ToBag(s) = Range(s) /\ \A e \in Range(s) : ToBag(s)[e] = CopiesOf(s, e)
  BY DEF ToBag, CopiesOf
<1>3. ASSUME NEW e
      PROVE  CopiesOf(s, e) \in Nat
  <2>1. PICK A : A = {i \in DOMAIN s : s[i] = e}
    OBVIOUS
  <2>2. A \in SUBSET (1..Len(s))
    BY <1>1, <2>1
  <2>3. IsFiniteSet(1..Len(s))
    BY ONLY <1>1, FS_Interval
  <2>4. IsFiniteSet(A)
    BY ONLY <2>2, <2>3, FS_Subset
  <2>5. Cardinality(A) \in Nat
    BY ONLY <2>4, FS_CardinalityType
  <2> QED
    BY <2>1, <2>5 DEF CopiesOf
<1>4. \A e : e \in Range(s) <=> \E i \in 1..Len(s) : s[i] = e
  BY <1>1 DEF Range
<1> QED
  BY <1>2, <1>3, <1>4

\* The types of the storage.
TypeInv ==
    /\ byArrival \in BOOLEAN /\ count \in Nat
    /\ buffer \in Seq(Entry)
    /\ byArrival => \A i \in 1..Len(buffer) : buffer[i].key = buffer[i].first

\* The buffer holds matches of S, sorted by their keys.
KeySorted(S) ==
    /\ buffer \in Seq(S)
    /\ \A x \in S : x.key \in Int
    /\ \A i, j \in 1..Len(buffer) : i < j => buffer[i].key <= buffer[j].key

LEMMA SortedByKey ==
    ASSUME TypeInv, Sorted
    PROVE  KeySorted(Entry)
<1>1. buffer \in Seq(Entry)
  BY DEF TypeInv
<1>2. \A x \in Entry : x.key \in Int
  BY StorageAssumption DEF Entry, Key
<1>3. DOMAIN buffer = 1..Len(buffer)
  BY <1>1, LenProperties
<1> QED
  BY <1>1, <1>2, <1>3 DEF KeySorted, Sorted

\* The keys of a sorted buffer do not decrease.
LEMMA SortedStored ==
    ASSUME NEW S, KeySorted(S), buffer # <<>>
    PROVE  Stored(S, Len(buffer), [i \in 1..Len(buffer) |-> buffer[i].key])
<1>1. PICK n \in Nat : n = Len(buffer) /\ DOMAIN buffer = 1..n /\ n > 0
  <2>1. buffer \in Seq(S)
    BY DEF KeySorted
  <2>2. Len(buffer) \in Nat /\ DOMAIN buffer = 1..Len(buffer)
    BY <2>1, LenProperties
  <2>3. Len(buffer) # 0
    BY <2>1, EmptySeq
  <2>4. PICK n : n = Len(buffer)
    OBVIOUS
  <2>5. n \in Nat /\ n > 0 /\ DOMAIN buffer = 1..n
    BY <2>2, <2>3, <2>4
  <2> QED
    BY <2>4, <2>5
<1>2. PICK K : K = [i \in 1..n |-> buffer[i].key]
  OBVIOUS
<1>3. \A i \in 1..n : buffer[i] \in S
  BY <1>1, ElementOfSeq DEF KeySorted
<1>4. \A i \in 1..n : buffer[i].key \in Int
  BY <1>3 DEF KeySorted
<1>5. K \in [1..n -> Int] /\ \A i \in 1..n : K[i] = buffer[i].key
  BY <1>2, <1>4
<1>6. ASSUME NEW i \in 1..n, NEW j \in 1..n, i <= j
      PROVE  K[i] <= K[j]
  <2>1. K[i] \in Int /\ K[j] \in Int
    BY <1>5
  <2>2. i < j => K[i] <= K[j]
    BY <1>1, <1>5 DEF KeySorted
  <2>3. i = j \/ i < j
    BY <1>6
  <2> QED
    BY <2>1, <2>2, <2>3
<1> QED
  BY <1>1, <1>2, <1>5, <1>6 DEF Stored, Keyed, KeySorted

\* What a read of a sorted buffer returns.
LEMMA SortedReads ==
    ASSUME NEW S, KeySorted(S), NEW v \in Int, NEW op \in Relop,
           NEW side \in {"left", "right"},
           NEW J, J = {j \in 1..Len(buffer) : Related(op, side, buffer[j].key, v)}
    PROVE  /\ AtLeast(Get(op, side, v), S, J)
           /\ op \in {"=", "#", ">", "<"} => Exactly(Get(op, side, v), S, J)
<1>1. buffer \in Seq(S)
  BY DEF KeySorted
<1>2. PICK n \in Nat : n = Len(buffer) /\ DOMAIN buffer = 1..n
  BY <1>1, LenProperties
<1>3. PICK q : q = Get(op, side, v)
  OBVIOUS
<1>4. CASE buffer = <<>>
  <2>1. q = SubSeq(buffer, 1, 0)
    <3>1. SubSeq(buffer, 1, 0) = <<>>
      <4>1. 1 \in Int /\ 0 \in Int /\ 0 < 1
        OBVIOUS
      <4> QED
        BY ONLY <4>1, SubSeqEmpty
    <3> QED
      BY <1>3, <1>4, <3>1 DEF Get
  <2>2. J = 1..0
    <3>1. n = 0
      BY <1>2, <1>4
    <3> QED
      BY <1>2, <3>1
  <2>3. 1 \in Int /\ 0 \in Int /\ 1 <= 1 /\ 0 <= Len(buffer)
    BY <1>2
  <2>4. Exactly(q, S, J)
    BY <1>1, <2>1, <2>2, <2>3, SlicePart DEF Exactly
  <2>5. J \in SUBSET (1..Len(buffer))
    OBVIOUS
  <2> QED
    BY <1>3, <2>4, <2>5 DEF AtLeast
<1>5. CASE buffer # <<>>
  <2>1. PICK K : K = [i \in 1..n |-> buffer[i].key]
    OBVIOUS
  <2>2. Stored(S, n, K)
    BY <1>2, <1>5, <2>1, SortedStored
  <2>3. J = {j \in 1..n : Related(op, side, K[j], v)}
    BY <1>2, <2>1
  <2> QED
    BY <2>2, <2>3, GetParts
<1> QED
  BY <1>4, <1>5

\* Whatever the relation accepts is returned, and what is returned is stored.
LEMMA ReadsRelated ==
    ASSUME NEW S, KeySorted(S), NEW v \in Int, NEW op \in Relop,
           NEW side \in {"left", "right"}
    PROVE  /\ \A j \in 1..Len(buffer) : Related(op, side, buffer[j].key, v) =>
                buffer[j] \in ToSet(Get(op, side, v))
           /\ ToSet(Get(op, side, v)) \subseteq ToSet(buffer)
<1>1. PICK J : J = {j \in 1..Len(buffer) : Related(op, side, buffer[j].key, v)}
  OBVIOUS
<1>2. PICK q : q = Get(op, side, v)
  OBVIOUS
<1>3. AtLeast(q, S, J)
  BY <1>1, <1>2, SortedReads
<1>4. PICK I \in SUBSET (1..Len(buffer)) : J \subseteq I /\ q \in Seq(S) /\ PartOf(q, buffer, I)
  BY <1>3 DEF AtLeast, Exactly
<1>5. PICK g : Picks(q, buffer, I, g)
  BY <1>4 DEF PartOf
<1>6. DOMAIN q = 1..Len(q) /\ DOMAIN buffer = 1..Len(buffer)
  BY <1>4, LenProperties DEF KeySorted
<1>7. \A j \in J : buffer[j] \in ToSet(q)
  <2> SUFFICES ASSUME NEW j \in J PROVE buffer[j] \in ToSet(q)
    OBVIOUS
  <2>1. PICK i \in 1..Len(q) : g[i] = j
    BY <1>4, <1>5 DEF Picks
  <2>2. q[i] = buffer[j]
    BY <1>5, <2>1 DEF Picks
  <2> QED
    BY <1>6, <2>2 DEF ToSet
<1>8. ToSet(q) \subseteq ToSet(buffer)
  <2> SUFFICES ASSUME NEW i \in 1..Len(q) PROVE q[i] \in ToSet(buffer)
    BY <1>6 DEF ToSet
  <2>1. q[i] = buffer[g[i]] /\ g[i] \in 1..Len(buffer)
    BY <1>5 DEF Picks
  <2> QED
    BY <1>6, <2>1 DEF ToSet
<1> QED
  BY <1>1, <1>2, <1>7, <1>8

\* Reading a sorted buffer returns every related match, and with the strict
\* relations no other.
LEMMA ReadsRight ==
    ASSUME TypeInv, Sorted, NEW v \in Int, NEW op \in Relop,
           NEW side \in {"left", "right"}
    PROVE  /\ ToBag(Wanted(op, side, v)) \sqsubseteq ToBag(Get(op, side, v))
           /\ ToBag(Get(op, side, v)) \sqsubseteq ToBag(buffer)
           /\ op \in {"=", "#", ">", "<"} => Get(op, side, v) = Wanted(op, side, v)
<1>1. buffer \in Seq(Entry)
  BY DEF TypeInv
<1>2. PICK n \in Nat : n = Len(buffer) /\ DOMAIN buffer = 1..n
  BY <1>1, LenProperties
<1>3. PICK J : J = {j \in 1..n : Related(op, side, buffer[j].key, v)}
  OBVIOUS
<1>4. PICK q, w : q = Get(op, side, v) /\ w = Wanted(op, side, v)
  OBVIOUS
<1>5. J \in SUBSET (1..Len(buffer))
  BY <1>2, <1>3
<1>6. w \in Seq(Entry) /\ PartOf(w, buffer, J)
  <2>1. w = Selected(J)
    BY <1>2, <1>3, <1>4 DEF Wanted
  <2> QED
    BY <1>1, <1>5, <2>1, SelectedPart
<1>7. AtLeast(q, Entry, J) /\ (op \in {"=", "#", ">", "<"} => Exactly(q, Entry, J))
  <2>1. KeySorted(Entry)
    BY SortedByKey
  <2> QED
    BY <1>2, <1>3, <1>4, <2>1, SortedReads
<1>8. PICK I \in SUBSET (1..n) : J \subseteq I /\ q \in Seq(Entry) /\ PartOf(q, buffer, I)
  BY <1>2, <1>7 DEF AtLeast, Exactly
<1>9. ToBag(q) \sqsubseteq ToBag(buffer)
  BY <1>1, <1>2, <1>8, PartBelow
<1>10. ToBag(w) \sqsubseteq ToBag(q)
  <2>1. /\ DOMAIN ToBag(w) = Range(w) /\ DOMAIN ToBag(q) = Range(q)
        /\ \A e \in Range(w) : ToBag(w)[e] = CopiesOf(w, e)
        /\ \A e \in Range(q) : ToBag(q)[e] = CopiesOf(q, e)
        /\ \A e : CopiesOf(w, e) \in Nat /\ CopiesOf(q, e) \in Nat
    BY <1>6, <1>8, BufferBag
  <2>2. ASSUME NEW e \in Range(w)
        PROVE  e \in Range(q) /\ CopiesOf(w, e) <= CopiesOf(q, e)
    <3>1. \A x : x \in Range(w) <=> \E i \in 1..Len(w) : w[i] = x
      BY <1>6, BufferBag
    <3>2. \A x : x \in Range(q) <=> \E i \in 1..Len(q) : q[i] = x
      BY <1>8, BufferBag
    <3>3. PICK j \in J : buffer[j] = e
      <4>1. PICK g : Picks(w, buffer, J, g)
        BY <1>6 DEF PartOf
      <4>2. PICK k \in 1..Len(w) : w[k] = e
        BY <3>1
      <4> QED
        BY <4>1, <4>2 DEF Picks
    <3>4. e \in Range(q)
      <4>1. PICK g : Picks(q, buffer, I, g)
        BY <1>8 DEF PartOf
      <4>2. j \in I
        BY <1>8
      <4>3. PICK k \in 1..Len(q) : q[k] = buffer[j]
        BY <4>1, <4>2 DEF Picks
      <4> QED
        BY <3>2, <3>3, <4>3
    <3>5. CopiesOf(w, e) = CopiesAt(buffer, J, e)
      BY <1>1, <1>5, <1>6, PartCopies
    <3>6. CopiesOf(q, e) = CopiesAt(buffer, I, e)
      BY <1>1, <1>2, <1>8, PartCopies
    <3>7. {i \in J : buffer[i] = e} = {i \in I : buffer[i] = e}
      <4>1. \A i \in I : buffer[i] = e => i \in J
        BY <1>3, <3>3
      <4> QED
        BY <1>8, <4>1
    <3>8. CopiesOf(w, e) = CopiesOf(q, e)
      BY <3>5, <3>6, <3>7 DEF CopiesAt
    <3> QED
      BY <2>1, <3>4, <3>8
  <2> QED
    BY <2>1, <2>2 DEF \sqsubseteq
<1>11. ASSUME Exactly(q, Entry, J)
       PROVE  q = w
  BY <1>1, <1>6, <1>11, PartUnique DEF Exactly
<1> QED
  BY <1>4, <1>7, <1>9, <1>10, <1>11

-----------------------------------------------------------------------------
(* Adding a match                                                          *)

\* The sequence u is s with e put after its first p elements.
Inserted(u, s, p, e) ==
    /\ Len(u) = Len(s) + 1
    /\ \A i \in 1..p : u[i] = s[i]
    /\ u[p + 1] = e
    /\ \A i \in (p + 1)..Len(s) : u[i + 1] = s[i]

\* Appending and inserting put the new match in, and leave the others alone.
LEMMA InsertPuts ==
    ASSUME NEW S, NEW s \in Seq(S), NEW e \in S, NEW p \in 0..Len(s)
    PROVE  /\ Append(s, e) \in Seq(S) /\ Inserted(Append(s, e), s, Len(s), e)
           /\ InsertAt(s, p + 1, e) \in Seq(S)
           /\ Inserted(InsertAt(s, p + 1, e), s, p, e)
<1>1. PICK n \in Nat : n = Len(s)
  BY LenProperties
<1>2. Append(s, e) \in Seq(S) /\ Inserted(Append(s, e), s, Len(s), e)
  <2>1. /\ Append(s, e) \in Seq(S) /\ Len(Append(s, e)) = n + 1
        /\ \A i \in 1..n : Append(s, e)[i] = s[i]
        /\ Append(s, e)[n + 1] = e
    BY <1>1, AppendProperties
  <2>2. (n + 1)..n = {}
    OBVIOUS
  <2> QED
    BY <1>1, <2>1, <2>2 DEF Inserted
<1>3. PICK a, b, c : a = SubSeq(s, 1, p) /\ b = <<e>> /\ c = SubSeq(s, p + 1, n)
  OBVIOUS
<1>4. p \in Nat /\ p <= n
  BY <1>1
<1>5. \A i \in 1..n : s[i] \in S
  BY <1>1, ElementOfSeq
<1>6. a \in Seq(S) /\ Len(a) = p /\ \A i \in 1..p : a[i] = s[i]
  <2>1. \A i \in 1..p : s[i] \in S
    BY <1>4, <1>5
  <2>2. /\ a \in Seq(S) /\ Len(a) = IF 1 <= p THEN p - 1 + 1 ELSE 0
        /\ \A i \in 1..(p - 1 + 1) : a[i] = s[1 + i - 1]
    BY <1>3, <1>4, <2>1, SubSeqProperties
  <2>3. p - 1 + 1 = p /\ \A i \in 1..p : 1 + i - 1 = i
    BY <1>4
  <2> QED
    BY <1>4, <2>2, <2>3
<1>7. /\ c \in Seq(S) /\ Len(c) = n - p
      /\ \A i \in 1..(n - p) : c[i] = s[p + i]
  <2>1. \A i \in (p + 1)..n : s[i] \in S
    BY <1>4, <1>5
  <2>2. /\ c \in Seq(S) /\ Len(c) = IF p + 1 <= n THEN n - (p + 1) + 1 ELSE 0
        /\ \A i \in 1..(n - (p + 1) + 1) : c[i] = s[(p + 1) + i - 1]
    BY <1>3, <1>4, <2>1, SubSeqProperties
  <2>3. n - (p + 1) + 1 = n - p /\ \A i \in 1..(n - p) : (p + 1) + i - 1 = p + i
    BY <1>4
  <2> QED
    BY <1>4, <2>2, <2>3
<1>8. b \in Seq(S) /\ Len(b) = 1 /\ b[1] = e
  BY <1>3
<1>9. PICK d : d = a \o b
  OBVIOUS
<1>10. /\ d \in Seq(S) /\ Len(d) = p + 1
       /\ \A i \in 1..(p + 1) : d[i] = IF i <= p THEN a[i] ELSE b[i - p]
  BY <1>4, <1>6, <1>8, <1>9, ConcatProperties
<1>11. PICK u : u = d \o c
  OBVIOUS
<1>12. /\ u \in Seq(S) /\ Len(u) = (p + 1) + (n - p)
       /\ \A i \in 1..((p + 1) + (n - p)) :
            u[i] = IF i <= p + 1 THEN d[i] ELSE c[i - (p + 1)]
  <2>1. /\ u \in Seq(S) /\ Len(u) = Len(d) + Len(c)
        /\ \A i \in 1..(Len(d) + Len(c)) :
             u[i] = IF i <= Len(d) THEN d[i] ELSE c[i - Len(d)]
    BY <1>7, <1>10, <1>11, ConcatProperties
  <2> QED
    BY <1>7, <1>10, <2>1
<1>13. (p + 1) + (n - p) = n + 1
  BY <1>4
<1>14. InsertAt(s, p + 1, e) = u
  <2>1. SubSeq(s, 1, (p + 1) - 1) = a
    <3>1. (p + 1) - 1 = p
      BY <1>4
    <3> QED
      BY <1>3, <3>1
  <2> QED
    BY <1>1, <1>3, <1>9, <1>11, <2>1 DEF InsertAt
<1>15. \A i \in 1..p : u[i] = s[i]
  <2> SUFFICES ASSUME NEW i \in 1..p PROVE u[i] = s[i]
    OBVIOUS
  <2>1. i <= p /\ i <= p + 1 /\ i \in 1..(p + 1) /\ i \in 1..(n + 1)
    BY <1>4
  <2> QED
    BY <1>6, <1>10, <1>12, <1>13, <2>1
<1>16. u[p + 1] = e
  <2>1. /\ p + 1 <= p + 1 /\ ~ (p + 1 <= p) /\ (p + 1) - p = 1
        /\ p + 1 \in 1..(p + 1) /\ p + 1 \in 1..(n + 1)
    BY <1>4
  <2> QED
    BY <1>8, <1>10, <1>12, <1>13, <2>1
<1>17. \A i \in (p + 1)..n : u[i + 1] = s[i]
  <2> SUFFICES ASSUME NEW i \in (p + 1)..n PROVE u[i + 1] = s[i]
    OBVIOUS
  <2>1. /\ ~ (i + 1 <= p + 1) /\ (i + 1) - (p + 1) = i - p
        /\ i + 1 \in 1..(n + 1) /\ i - p \in 1..(n - p) /\ p + (i - p) = i
    BY <1>4
  <2> QED
    BY <1>7, <1>12, <1>13, <2>1
<1> QED
  BY <1>1, <1>2, <1>12, <1>13, <1>14, <1>15, <1>16, <1>17 DEF Inserted

\* One copy more of the new match, and no fewer of any other.
LEMMA InsertedCopies ==
    ASSUME NEW S, NEW s \in Seq(S), NEW u \in Seq(S), NEW e, NEW p \in 0..Len(s),
           Inserted(u, s, p, e), NEW x
    PROVE  CopiesOf(u, x) = IF x = e THEN CopiesOf(s, x) + 1 ELSE CopiesOf(s, x)
<1>1. PICK n \in Nat : n = Len(s) /\ DOMAIN s = 1..n
  BY LenProperties
<1>2. DOMAIN u = 1..(n + 1)
  BY <1>1, LenProperties DEF Inserted
<1>3. /\ \A i \in 1..p : u[i] = s[i]
      /\ u[p + 1] = e
      /\ \A i \in (p + 1)..n : u[i + 1] = s[i]
      /\ p \in Nat /\ p <= n
  BY <1>1 DEF Inserted
<1>4. PICK A : A = {i \in 1..n : s[i] = x}
  OBVIOUS
<1>5. PICK B : B = {i \in 1..(n + 1) : u[i] = x} \ {p + 1}
  OBVIOUS
<1>6. IsFiniteSet(A)
  <2>1. IsFiniteSet(1..n)
    BY ONLY n \in Nat, FS_Interval
  <2>2. A \in SUBSET (1..n)
    BY <1>4
  <2> QED
    BY ONLY <2>1, <2>2, FS_Subset
<1>7. PICK h : h = [i \in A |-> IF i <= p THEN i ELSE i + 1]
  OBVIOUS
<1>8. h \in Bijection(A, B)
  <2>1. ASSUME NEW i \in A
        PROVE  h[i] \in B
    <3>1. i \in 1..n /\ s[i] = x
      BY <1>4
    <3>2. CASE i <= p
      <4>1. h[i] = i /\ i \in 1..p /\ i \in 1..(n + 1) /\ i # p + 1
        BY <1>3, <1>7, <3>1, <3>2
      <4> QED
        BY <1>3, <1>5, <3>1, <4>1
    <3>3. CASE ~ (i <= p)
      <4>1. h[i] = i + 1 /\ i \in (p + 1)..n /\ i + 1 \in 1..(n + 1) /\ i + 1 # p + 1
        BY <1>3, <1>7, <3>1, <3>3
      <4> QED
        BY <1>3, <1>5, <3>1, <4>1
    <3> QED
      BY <3>2, <3>3
  <2>2. h \in [A -> B]
    BY <1>7, <2>1
  <2>3. ASSUME NEW i \in A, NEW j \in A, h[i] = h[j]
        PROVE  i = j
    <3>1. i \in Nat /\ j \in Nat /\ p \in Nat
      BY <1>3, <1>4
    <3>2. h[i] = (IF i <= p THEN i ELSE i + 1) /\ h[j] = (IF j <= p THEN j ELSE j + 1)
      BY <1>7
    <3> QED
      <4>1. CASE i <= p /\ j <= p
        BY <2>3, <3>2, <4>1
      <4>2. CASE i <= p /\ ~ (j <= p)
        <5>1. i = j + 1
          BY <2>3, <3>2, <4>2
        <5> QED
          BY <3>1, <4>2, <5>1
      <4>3. CASE ~ (i <= p) /\ j <= p
        <5>1. i + 1 = j
          BY <2>3, <3>2, <4>3
        <5> QED
          BY <3>1, <4>3, <5>1
      <4>4. CASE ~ (i <= p) /\ ~ (j <= p)
        <5>1. i + 1 = j + 1
          BY <2>3, <3>2, <4>4
        <5> QED
          BY <3>1, <5>1
      <4> QED
        BY <4>1, <4>2, <4>3, <4>4
  <2>4. ASSUME NEW b \in B
        PROVE  \E i \in A : h[i] = b
    <3>1. b \in 1..(n + 1) /\ u[b] = x /\ b # p + 1
      BY <1>5
    <3>2. CASE b <= p
      <4>1. b \in 1..p /\ b \in 1..n
        BY <1>3, <3>1, <3>2
      <4>2. b \in A
        BY <1>3, <1>4, <3>1, <4>1
      <4> QED
        BY <1>7, <3>2, <4>2
    <3>3. CASE ~ (b <= p)
      <4>1. PICK i \in Nat : i = b - 1 /\ i + 1 = b /\ i \in (p + 1)..n /\ i \in 1..n /\ ~ (i <= p)
        <5>1. b - 1 \in Nat /\ (b - 1) + 1 = b /\ b - 1 \in (p + 1)..n /\ b - 1 \in 1..n /\ ~ (b - 1 <= p)
          BY <1>3, <3>1, <3>3
        <5> QED
          BY <5>1
      <4>2. i \in A
        BY <1>3, <1>4, <3>1, <4>1
      <4> QED
        BY <1>7, <4>1, <4>2
    <3> QED
      BY <3>2, <3>3
  <2>5. IsInjective(h)
    BY <2>2, <2>3 DEF IsInjective
  <2> QED
    BY <2>2, <2>4, <2>5 DEF Bijection, Injection, Surjection
<1>9. IsFiniteSet(B) /\ Cardinality(B) = Cardinality(A)
  <2>1. ExistsBijection(A, B)
    BY <1>8 DEF ExistsBijection
  <2> QED
    BY ONLY <1>6, <2>1, FS_Bijection
<1>10. p + 1 \in 1..(n + 1)
  BY <1>3
<1>11. CASE x = e
  <2>1. {i \in 1..(n + 1) : u[i] = x} = B \cup {p + 1} /\ ~ (p + 1 \in B)
    BY <1>3, <1>5, <1>10, <1>11
  <2>2. Cardinality(B \cup {p + 1}) = Cardinality(B) + 1
    BY ONLY <1>9, <2>1, FS_AddElement
  <2> QED
    BY <1>1, <1>2, <1>4, <1>9, <1>11, <2>1, <2>2 DEF CopiesOf
<1>12. CASE x # e
  <2>1. {i \in 1..(n + 1) : u[i] = x} = B
    BY <1>3, <1>5, <1>12
  <2> QED
    BY <1>1, <1>2, <1>4, <1>9, <1>12, <2>1 DEF CopiesOf
<1> QED
  BY <1>11, <1>12

\* Its bag.
LEMMA InsertedBag ==
    ASSUME NEW S, NEW s \in Seq(S), NEW u \in Seq(S), NEW e, NEW p \in 0..Len(s),
           Inserted(u, s, p, e)
    PROVE  ToBag(u) = ToBag(s) (+) SetToBag({e})
<1>1. PICK n \in Nat : n = Len(s) /\ n + 1 = Len(u) /\ p \in Nat /\ p <= n
  BY LenProperties DEF Inserted
<1>2. Range(u) = Range(s) \cup {e}
  <2>1. ASSUME NEW i \in 1..(n + 1)
        PROVE  u[i] \in Range(s) \cup {e}
    <3>1. CASE i <= p
      <4>1. i \in 1..p /\ i \in 1..n
        BY <1>1, <3>1
      <4>2. u[i] = s[i]
        BY <4>1 DEF Inserted
      <4> QED
        BY <1>1, <4>1, <4>2, BufferBag
    <3>2. CASE i = p + 1
      BY <3>2 DEF Inserted
    <3>3. CASE ~ (i <= p) /\ i # p + 1
      <4>1. PICK j \in 1..n : j + 1 = i /\ j \in (p + 1)..n
        <5>1. i - 1 \in 1..n /\ (i - 1) + 1 = i /\ i - 1 \in (p + 1)..n
          BY <1>1, <3>3
        <5> QED
          BY <5>1
      <4>2. u[i] = s[j]
        BY <1>1, <4>1 DEF Inserted
      <4> QED
        BY <1>1, <4>1, <4>2, BufferBag
    <3> QED
      BY <3>1, <3>2, <3>3
  <2>2. ASSUME NEW i \in 1..n
        PROVE  \E j \in 1..(n + 1) : u[j] = s[i]
    <3>1. CASE i <= p
      <4>1. i \in 1..p /\ i \in 1..(n + 1)
        BY <1>1, <3>1
      <4>2. u[i] = s[i]
        BY <4>1 DEF Inserted
      <4> QED
        BY <4>1, <4>2
    <3>2. CASE ~ (i <= p)
      <4>1. i \in (p + 1)..n /\ i + 1 \in 1..(n + 1)
        BY <1>1, <3>2
      <4>2. u[i + 1] = s[i]
        BY <1>1, <4>1 DEF Inserted
      <4> QED
        BY <4>1, <4>2
    <3> QED
      BY <3>1, <3>2
  <2>3. p + 1 \in 1..(n + 1) /\ u[p + 1] = e
    BY <1>1 DEF Inserted
  <2>4. /\ \A y : y \in Range(s) <=> \E i \in 1..n : s[i] = y
        /\ \A y : y \in Range(u) <=> \E i \in 1..(n + 1) : u[i] = y
    BY <1>1, BufferBag
  <2> QED
    BY <2>1, <2>2, <2>3, <2>4
<1>3. /\ DOMAIN ToBag(s) = Range(s) /\ DOMAIN ToBag(u) = Range(u)
      /\ \A x \in Range(s) : ToBag(s)[x] = CopiesOf(s, x)
      /\ \A x \in Range(u) : ToBag(u)[x] = CopiesOf(u, x)
      /\ \A x : CopiesOf(s, x) \in Nat
  BY BufferBag
<1>4. ASSUME NEW x, ~ (x \in Range(s))
      PROVE  CopiesOf(s, x) = 0
  <2>1. {i \in DOMAIN s : s[i] = x} = {}
    BY <1>4 DEF Range
  <2> QED
    BY <2>1, FS_EmptySet DEF CopiesOf
<1>5. DOMAIN SetToBag({e}) = {e} /\ SetToBag({e})[e] = 1
  BY DEF SetToBag
<1>6. PICK C : C = ToBag(s) (+) SetToBag({e})
  OBVIOUS
<1>7. /\ C = [x \in Range(s) \cup {e} |->
                (IF x \in Range(s) THEN ToBag(s)[x] ELSE 0)
                + (IF x \in {e} THEN SetToBag({e})[x] ELSE 0)]
  BY <1>3, <1>5, <1>6 DEF (+)
<1>8. ASSUME NEW x \in Range(u)
      PROVE  ToBag(u)[x] = C[x]
  <2>1. ToBag(u)[x] = IF x = e THEN CopiesOf(s, x) + 1 ELSE CopiesOf(s, x)
    BY <1>3, InsertedCopies
  <2>2. (IF x \in Range(s) THEN ToBag(s)[x] ELSE 0) = CopiesOf(s, x)
    BY <1>3, <1>4
  <2>3. (IF x \in {e} THEN SetToBag({e})[x] ELSE 0) = IF x = e THEN 1 ELSE 0
    BY <1>5
  <2>4. C[x] = CopiesOf(s, x) + IF x = e THEN 1 ELSE 0
    BY <1>2, <1>7, <2>2, <2>3
  <2>5. CopiesOf(s, x) \in Nat
    BY <1>3
  <2> QED
    BY <2>1, <2>4, <2>5
<1>9. ToBag(u) = [x \in Range(u) |-> ToBag(u)[x]] /\ C = [x \in Range(u) |-> C[x]]
  BY <1>2, <1>7 DEF ToBag
<1>10. ToBag(u) = C
  BY <1>8, <1>9
<1> QED
  BY <1>6, <1>10

\* The keys before the place of a new match are not greater than its key, and
\* those after it are not smaller.
LEMMA PlaceFits ==
    ASSUME NEW S, KeySorted(S), NEW e \in S
    PROVE  /\ Place(e) \in 0..Len(buffer)
           /\ \A j \in 1..Len(buffer) : j <= Place(e) => buffer[j].key <= e.key
           /\ \A j \in 1..Len(buffer) : ~ (j <= Place(e)) => e.key <= buffer[j].key
<1>1. e.key \in Int
  BY DEF KeySorted
<1>2. CASE buffer = <<>>
  <2>1. LastIndex(e.key) = 0
    <3>1. PICK f : f = CHOOSE h : IsIndexSearch(<<>>, e.key, FALSE, h)
      OBVIOUS
    <3>2. Len(<<>>) = 0
      OBVIOUS
    <3>3. IsIndexSearch(<<>>, e.key, FALSE, f)
      BY <3>1, <3>2, SearchExists
    <3>4. LastIndex(e.key) = f[<<0, 0 - 1>>]
      BY <1>2, <3>1, <3>2 DEF LastIndex, GetIndex, IsIndexSearch, IndexIn
    <3>5. <<0, -1>> \in Ranges(<<>>) /\ 0 - 1 = -1
      BY <3>2 DEF Ranges
    <3>6. f[<<0, -1>>] = IndexIn(<<>>, e.key, FALSE, f, <<0, -1>>)
      BY <3>3, <3>5 DEF IsIndexSearch
    <3>7. 0 > -1
      OBVIOUS
    <3>8. IndexIn(<<>>, e.key, FALSE, f, <<0, -1>>) = 0
      BY <3>7 DEF IndexIn
    <3> QED
      BY <3>4, <3>5, <3>6, <3>8
  <2>2. Place(e) = 0 /\ Len(buffer) = 0
    BY <1>2, <2>1 DEF Place
  <2> QED
    BY <2>2
<1>3. CASE buffer # <<>>
  <2>1. PICK n : n = Len(buffer)
    OBVIOUS
  <2>2. PICK K : K = [i \in 1..n |-> buffer[i].key]
    OBVIOUS
  <2>3. Stored(S, n, K)
    BY <1>3, <2>1, <2>2, SortedStored
  <2>4. /\ n \in Nat /\ n > 0 /\ \A j \in 1..n : K[j] \in Int /\ K[j] = buffer[j].key
        /\ \A i, j \in 1..n : i <= j => K[i] <= K[j]
    BY <2>3 DEF Stored, Keyed
  <2>5. PICK i, v : i = LastIndex(v) /\ v = e.key
    OBVIOUS
  <2>6. v \in Int
    BY <1>1, <2>5
  <2>7. PICK p : p = Place(e)
    OBVIOUS
  <2>8. p = IF i = -1 THEN 0 ELSE i
    BY <2>5, <2>7 DEF Place
  <2>9. /\ p \in 0..n
        /\ \A j \in 1..n : j <= p => K[j] <= v
        /\ \A j \in 1..n : ~ (j <= p) => v <= K[j]
    <3>1. CASE i = -1 /\ \A j \in 1..n : K[j] > v
      <4>1. p = 0
        BY <2>8, <3>1
      <4>2. \A j \in 1..n : v <= K[j]
        BY <2>4, <2>6, <3>1
      <4> QED
        BY <2>4, <4>1, <4>2
    <3>2. CASE i = n /\ \A j \in 1..n : K[j] < v
      <4>1. p = n
        <5>1. i # -1
          BY <2>4, <3>2
        <5> QED
          BY <2>8, <3>2, <5>1
      <4>2. \A j \in 1..n : K[j] <= v
        BY <2>4, <2>6, <3>2
      <4> QED
        BY <2>4, <4>1, <4>2
    <3>3. CASE i \in 0..(n - 1) /\ K[i + 1] = v
      <4>1. p = i /\ p \in 0..n /\ p + 1 \in 1..n
        <5>1. i # -1
          BY <2>4, <3>3
        <5> QED
          BY <2>4, <2>8, <3>3, <5>1
      <4>2. ASSUME NEW j \in 1..n
            PROVE  (j <= p => K[j] <= v) /\ (~ (j <= p) => v <= K[j])
        <5>1. j <= p => j <= p + 1
          BY <4>1
        <5>2. ~ (j <= p) => p + 1 <= j
          BY <4>1
        <5> QED
          BY <2>4, <3>3, <4>1, <5>1, <5>2
      <4> QED
        BY <4>1, <4>2
    <3>4. CASE i \in 0..(n - 1) /\ \A j \in 1..n : K[j] > v <=> j >= i + 1
      <4>1. p = i /\ p \in 0..n
        <5>1. i # -1
          BY <2>4, <3>4
        <5> QED
          BY <2>4, <2>8, <3>4, <5>1
      <4>2. ASSUME NEW j \in 1..n
            PROVE  (j <= p => K[j] <= v) /\ (~ (j <= p) => v <= K[j])
        <5>1. j <= p <=> ~ (j >= i + 1)
          BY <4>1
        <5>2. K[j] \in Int
          BY <2>4
        <5> QED
          BY <2>6, <3>4, <5>1, <5>2
      <4> QED
        BY <4>1, <4>2
    <3>5. \/ i = -1 /\ \A j \in 1..n : K[j] > v
          \/ i = n /\ \A j \in 1..n : K[j] < v
          \/ i \in 0..(n - 1) /\ K[i + 1] = v
          \/ i \in 0..(n - 1) /\ \A j \in 1..n : K[j] > v <=> j >= i + 1
      BY <2>3, <2>5, <2>6, LastTells
    <3> QED
      BY <3>1, <3>2, <3>3, <3>4, <3>5
  <2> QED
    BY <2>1, <2>4, <2>5, <2>7, <2>9
<1> QED
  BY <1>2, <1>3

-----------------------------------------------------------------------------
(* Cleaning up                                                             *)

\* What a search for the first match that does not begin before t does with a
\* range, f being what it finds in smaller ones.
CountIn(s, t, f, range) ==
    LET start == range[1]
        end == range[2]
        mid == (start + end) \div 2
        before == IF mid = 0 THEN s[Len(s)] ELSE s[mid]
    IN  IF start > end THEN NotFound
        ELSE IF before.first < t /\ t <= s[mid + 1].first THEN mid
        ELSE IF t > s[mid + 1].first THEN f[<<mid + 1, end>>]
        ELSE f[<<start, mid - 1>>]

IsCount(s, t, f) == f = [range \in Ranges(s) |-> CountIn(s, t, f, range)]

CountsUpTo(s, t, f, k) ==
    /\ f = [range \in Ranges(s) |-> f[range]]
    /\ \A start \in 0..Len(s), end \in -1..(Len(s) - 1) :
        end - start < k - 1 => f[<<start, end>>] = CountIn(s, t, f, <<start, end>>)

\* The search for ranges of one more index.
LEMMA CountGrows ==
    ASSUME NEW s, Len(s) \in Nat, NEW t, NEW k \in Nat, NEW g, CountsUpTo(s, t, g, k)
    PROVE  \E f : CountsUpTo(s, t, f, k + 1)
<1>1. PICK f : f = [range \in Ranges(s) |-> CountIn(s, t, g, range)]
  OBVIOUS
<1>2. PICK n \in Nat : n = Len(s)
  OBVIOUS
<1>3. \A start \in 0..n, end \in -1..(n - 1) :
        f[<<start, end>>] = CountIn(s, t, g, <<start, end>>)
  BY <1>1, <1>2 DEF Ranges
<1>4. f = [range \in Ranges(s) |-> f[range]]
  BY <1>1
<1>5. ASSUME NEW start \in 0..n, NEW end \in -1..(n - 1), end - start < k - 1
      PROVE  f[<<start, end>>] = g[<<start, end>>]
  BY <1>2, <1>3, <1>5 DEF CountsUpTo
<1>6. ASSUME NEW start \in 0..n, NEW end \in -1..(n - 1), end - start < (k + 1) - 1
      PROVE  f[<<start, end>>] = CountIn(s, t, f, <<start, end>>)
  <2>1. CASE start > end
    <3>1. CountIn(s, t, g, <<start, end>>) = CountIn(s, t, f, <<start, end>>)
      BY <2>1 DEF CountIn
    <3> QED
      BY <1>3, <3>1
  <2>2. CASE ~ (start > end)
    <3>1. PICK mid \in Int : mid = (start + end) \div 2 /\ start <= mid /\ mid <= end
      <4>1. start <= end
        BY <2>2
      <4> QED
        BY <4>1, Middle
    <3>2. /\ mid + 1 \in 0..n /\ mid - 1 \in -1..(n - 1)
          /\ end - (mid + 1) < k - 1 /\ (mid - 1) - start < k - 1
      BY <1>6, <3>1
    <3>3. /\ f[<<mid + 1, end>>] = g[<<mid + 1, end>>]
          /\ f[<<start, mid - 1>>] = g[<<start, mid - 1>>]
      BY <1>5, <3>2
    <3>4. CountIn(s, t, g, <<start, end>>) = CountIn(s, t, f, <<start, end>>)
      BY <3>1, <3>3 DEF CountIn
    <3> QED
      BY <1>3, <3>4
  <2> QED
    BY <2>1, <2>2
<1> QED
  BY <1>2, <1>4, <1>6 DEF CountsUpTo

\* The search by timestamp is defined by its recursion.
LEMMA CountExists ==
    ASSUME NEW s, Len(s) \in Nat, NEW t
    PROVE  \E f : IsCount(s, t, f)
<1>1. PICK n \in Nat : n = Len(s)
  OBVIOUS
<1> DEFINE Solved(k) == \E f : CountsUpTo(s, t, f, k)
           Unsolved == {k \in Nat : ~ Solved(k)}
<1>2. Solved(0)
  <2>1. PICK f : f = [range \in Ranges(s) |-> NotFound]
    OBVIOUS
  <2>2. f = [range \in Ranges(s) |-> f[range]]
    BY <2>1
  <2>3. ASSUME NEW start \in 0..n, NEW end \in -1..(n - 1), end - start < 0 - 1
        PROVE  f[<<start, end>>] = CountIn(s, t, f, <<start, end>>)
    <3>1. <<start, end>> \in Ranges(s)
      BY <1>1 DEF Ranges
    <3>2. start > end
      BY <2>3
    <3> QED
      BY <2>1, <3>1, <3>2 DEF CountIn
  <2> QED
    BY <1>1, <2>2, <2>3 DEF CountsUpTo
<1>3. \A k \in Nat : Solved(k) => Solved(k + 1)
  BY CountGrows
<1>4. Unsolved = {}
  <2> SUFFICES ASSUME Unsolved # {} PROVE FALSE
    OBVIOUS
  <2>1. PICK k \in Unsolved : \A j \in Unsolved : ~ (<<j, k>> \in OpToRel(<, Nat))
    BY NatLessThanWellFounded, WFMin
  <2>2. k \in Nat /\ ~ Solved(k) /\ \A j \in Nat : j < k => Solved(j)
    BY <2>1 DEF OpToRel
  <2>3. k # 0
    BY ONLY <1>2, <2>2
  <2>4. PICK j \in Nat : k = j + 1
    <3>1. k - 1 \in Nat /\ k = (k - 1) + 1
      BY <2>2, <2>3
    <3> QED
      BY <3>1
  <2>5. Solved(j)
    BY <2>2, <2>4
  <2> HIDE DEF Solved
  <2> QED
    BY <1>3, <2>2, <2>4, <2>5
<1>5. Solved(n + 2)
  <2>1. n + 2 \in Nat
    OBVIOUS
  <2> HIDE DEF Solved
  <2> QED
    BY <1>4, <2>1
<1>6. PICK f : CountsUpTo(s, t, f, n + 2)
  BY <1>5
<1>7. ASSUME NEW range \in Ranges(s)
      PROVE  f[range] = CountIn(s, t, f, range)
  <2>1. PICK start \in 0..n, end \in -1..(n - 1) : range = <<start, end>>
    BY <1>1 DEF Ranges
  <2>2. end - start < (n + 2) - 1
    OBVIOUS
  <2> QED
    BY <1>1, <1>6, <2>1, <2>2 DEF CountsUpTo
<1>8. f = [range \in Ranges(s) |-> f[range]]
  BY <1>6 DEF CountsUpTo
<1> QED
  BY <1>7, <1>8 DEF IsCount

\* The n matches of s begin at the times F, which do not decrease.
Timed(s, n, F) ==
    /\ n \in Nat /\ Len(s) = n /\ F \in [1..n -> Int]
    /\ \A i \in 1..n : s[i].first = F[i]
    /\ \A i, j \in 1..n : i <= j => F[i] <= F[j]

\* When p matches begin before t, the search finds p in every range that has it.
LEMMA CountLands ==
    ASSUME NEW s, NEW n \in Nat, NEW F, Timed(s, n, F), NEW t \in Int,
           NEW p \in 1..(n - 1), F[p] < t, t <= F[p + 1],
           NEW f, IsCount(s, t, f),
           NEW start \in 0..(n - 1), NEW end \in 0..(n - 1), start <= p, p <= end
    PROVE  f[<<start, end>>] = p
<1> DEFINE Lost(k) == \E a, b \in 0..(n - 1) :
                a <= p /\ p <= b /\ b - a = k /\ f[<<a, b>>] # p
           Bad == {k \in Nat : Lost(k)}
<1>1. /\ Len(s) = n /\ F \in [1..n -> Int]
      /\ \A i \in 1..n : s[i].first = F[i]
      /\ \A i, j \in 1..n : i <= j => F[i] <= F[j]
      /\ p \in 1..n /\ p + 1 \in 1..n /\ n > 0 /\ n \in 1..n /\ 1 \in 1..n
  BY DEF Timed
<1>2. ASSUME NEW a \in 0..(n - 1), NEW b \in 0..(n - 1)
      PROVE  f[<<a, b>>] = CountIn(s, t, f, <<a, b>>)
  <2>1. <<a, b>> \in Ranges(s)
    BY <1>1 DEF Ranges
  <2> QED
    BY <2>1 DEF IsCount
<1>3. ASSUME NEW j \in 1..n
      PROVE  (j <= p => F[j] < t) /\ (~ (j <= p) => t <= F[j])
  <2>1. F[j] \in Int /\ F[p] \in Int /\ F[p + 1] \in Int
    BY <1>1
  <2>2. CASE j <= p
    <3>1. F[j] <= F[p]
      BY <1>1, <2>2
    <3> QED
      BY <2>1, <2>2, <3>1
  <2>3. CASE ~ (j <= p)
    <3>1. p + 1 <= j
      BY <2>3
    <3>2. F[p + 1] <= F[j]
      BY <1>1, <3>1
    <3> QED
      BY <2>1, <2>3, <3>2
  <2> QED
    BY <2>2, <2>3
<1>4. ASSUME Bad # {} PROVE FALSE
  <2>1. PICK k \in Bad : \A j \in Bad : ~ (<<j, k>> \in OpToRel(<, Nat))
    BY <1>4, NatLessThanWellFounded, WFMin
  <2>2. k \in Nat /\ Lost(k) /\ \A j \in Nat : j < k => ~ Lost(j)
    BY <2>1 DEF OpToRel
  <2>3. PICK a \in 0..(n - 1), b \in 0..(n - 1) :
            a <= p /\ p <= b /\ b - a = k /\ f[<<a, b>>] # p
    BY <2>2
  <2>4. ASSUME NEW c \in 0..(n - 1), NEW d \in 0..(n - 1), c <= p, p <= d, d - c < k
        PROVE  f[<<c, d>>] = p
    <3>1. d - c \in Nat
      BY <2>4
    <3>2. ~ Lost(d - c)
      BY <2>2, <2>4, <3>1
    <3> QED
      BY <2>4, <3>2
  <2> HIDE DEF Lost, Bad
  <2>5. PICK mid \in Int : mid = (a + b) \div 2 /\ a <= mid /\ mid <= b
    <3>1. a <= b
      BY <2>3
    <3> QED
      BY <3>1, Middle
  <2>6. mid \in 0..(n - 1) /\ mid + 1 \in 1..n
    BY <2>5
  <2>7. PICK x : x = IF mid = 0 THEN F[n] ELSE F[mid]
    OBVIOUS
  <2>8. (IF mid = 0 THEN s[Len(s)] ELSE s[mid]).first = x
    <3>1. CASE mid = 0
      BY <1>1, <2>7, <3>1
    <3>2. CASE mid # 0
      <4>1. mid \in 1..n
        BY <2>6, <3>2
      <4> QED
        BY <1>1, <2>7, <3>2, <4>1
    <3> QED
      BY <3>1, <3>2
  <2>9. s[mid + 1].first = F[mid + 1]
    BY <1>1, <2>6
  <2>10. f[<<a, b>>] = IF x < t /\ t <= F[mid + 1] THEN mid
                       ELSE IF t > F[mid + 1] THEN f[<<mid + 1, b>>]
                       ELSE f[<<a, mid - 1>>]
    <3>1. ~ (a > b)
      BY <2>5
    <3> QED
      BY <1>2, <2>5, <2>8, <2>9, <3>1 DEF CountIn
  <2>11. F[mid + 1] \in Int /\ F[n] \in Int
    BY <1>1, <2>6
  <2>12. ~ (n <= p)
    OBVIOUS
  <2>13. CASE mid < p
    <3>1. mid + 1 <= p /\ mid + 1 \in 0..(n - 1) /\ b - (mid + 1) < k
      BY <2>3, <2>5, <2>6, <2>13
    <3>2. F[mid + 1] < t
      BY <1>3, <2>6, <3>1
    <3>3. f[<<a, b>>] = f[<<mid + 1, b>>]
      BY <2>10, <2>11, <3>2
    <3>4. f[<<mid + 1, b>>] = p
      BY <2>3, <2>4, <3>1
    <3> QED
      BY <2>3, <3>3, <3>4
  <2>14. CASE mid = p
    <3>1. mid # 0 /\ x = F[p]
      BY <2>7, <2>14
    <3>2. x < t /\ t <= F[mid + 1]
      BY <2>14, <3>1
    <3> QED
      BY <2>3, <2>10, <2>14, <3>2
  <2>15. CASE mid > p
    <3>1. /\ mid # 0 /\ x = F[mid] /\ mid \in 1..n /\ ~ (mid <= p) /\ ~ (mid + 1 <= p)
          /\ p <= mid - 1 /\ mid - 1 \in 0..(n - 1) /\ (mid - 1) - a < k
      BY <2>3, <2>5, <2>6, <2>7, <2>15
    <3>2. t <= F[mid] /\ t <= F[mid + 1] /\ F[mid] \in Int
      BY <1>1, <1>3, <2>6, <3>1
    <3>3. f[<<a, b>>] = f[<<a, mid - 1>>]
      <4>1. ~ (x < t) /\ ~ (t > F[mid + 1])
        BY <2>11, <3>1, <3>2
      <4> QED
        BY <2>10, <4>1
    <3>4. f[<<a, mid - 1>>] = p
      BY <2>3, <2>4, <3>1
    <3> QED
      BY <2>3, <3>3, <3>4
  <2> QED
    BY <2>5, <2>13, <2>14, <2>15
<1>5. end - start \in Nat
  OBVIOUS
<1>6. ~ Lost(end - start)
  BY <1>4, <1>5
<1> QED
  BY <1>6

\* How many matches begin before t, in a sequence sorted by first timestamp
\* (find_partial_match_by_timestamp); the search never ends without an answer.
LEMMA CountBeforeCounts ==
    ASSUME NEW s, NEW n, NEW F, Timed(s, n, F), s = <<>> <=> n = 0, NEW t \in Int
    PROVE  /\ CountBefore(s, t) \in 0..n
           /\ \A j \in 1..n : F[j] < t <=> j <= CountBefore(s, t)
<1>1. /\ n \in Nat /\ Len(s) = n /\ F \in [1..n -> Int]
      /\ \A i \in 1..n : s[i].first = F[i] /\ F[i] \in Int
      /\ \A i, j \in 1..n : i <= j => F[i] <= F[j]
  BY DEF Timed
<1>2. PICK f : f = CHOOSE h : IsCount(s, t, h)
  OBVIOUS
<1>3. IsCount(s, t, f)
  BY <1>1, <1>2, CountExists
<1>4. PICK c : c = CountBefore(s, t)
  OBVIOUS
<1>5. c = IF s = <<>> \/ s[1].first >= t THEN 0
          ELSE IF s[Len(s)].first < t THEN Len(s)
          ELSE f[<<0, Len(s) - 1>>]
  BY <1>2, <1>4 DEF CountBefore, IsCount, CountIn
<1>6. CASE n = 0
  BY <1>4, <1>5, <1>6
<1>7. CASE n > 0 /\ F[1] >= t
  <2>1. c = 0
    BY <1>1, <1>5, <1>7
  <2>2. \A j \in 1..n : ~ (F[j] < t)
    <3> SUFFICES ASSUME NEW j \in 1..n PROVE ~ (F[j] < t)
      OBVIOUS
    <3>1. F[1] <= F[j] /\ F[1] \in Int /\ F[j] \in Int
      BY <1>1, <1>7
    <3> QED
      BY <1>7, <3>1
  <2> QED
    BY <1>1, <1>4, <2>1, <2>2
<1>8. CASE n > 0 /\ ~ (F[1] >= t) /\ F[n] < t
  <2>1. c = n
    <3>1. s # <<>> /\ s[1].first = F[1] /\ s[n].first = F[n]
      BY <1>1, <1>8
    <3> QED
      BY <1>1, <1>5, <1>8, <3>1
  <2>2. \A j \in 1..n : F[j] < t
    <3> SUFFICES ASSUME NEW j \in 1..n PROVE F[j] < t
      OBVIOUS
    <3>1. F[j] <= F[n] /\ F[n] \in Int /\ F[j] \in Int
      BY <1>1, <1>8
    <3> QED
      BY <1>8, <3>1
  <2> QED
    BY <1>1, <1>4, <2>1, <2>2
<1>9. CASE n > 0 /\ ~ (F[1] >= t) /\ ~ (F[n] < t)
  <2>1. c = f[<<0, n - 1>>]
    <3>1. s # <<>> /\ s[1].first = F[1] /\ s[n].first = F[n]
      BY <1>1, <1>9
    <3> QED
      BY <1>1, <1>5, <1>9, <3>1
  <2>2. F[1] \in Int /\ F[n] \in Int /\ F[1] < t /\ t <= F[n]
    BY <1>1, <1>9
  <2>3. PICK Late : Late = {q \in Nat : q \in 1..n /\ t <= F[q]}
    OBVIOUS
  <2>4. n \in Late
    BY <1>1, <1>9, <2>2, <2>3
  <2>5. PICK q \in Late : \A j \in Late : ~ (<<j, q>> \in OpToRel(<, Nat))
    BY <2>3, <2>4, NatLessThanWellFounded, WFMin
  <2>6. q \in 1..n /\ t <= F[q] /\ \A j \in 1..n : j < q => ~ (t <= F[j])
    <3>1. q \in Nat /\ \A j \in Nat : j \in Late /\ j < q => FALSE
      BY <2>3, <2>5 DEF OpToRel
    <3>2. \A j \in 1..n : j \in Nat /\ (t <= F[j] => j \in Late)
      BY <2>3
    <3> QED
      BY <2>3, <3>1, <3>2
  <2>7. q # 1
    <3>1. ~ (t <= F[1])
      BY <2>2
    <3> QED
      BY <2>6, <3>1
  <2>8. PICK p \in 1..(n - 1) : p = q - 1 /\ p + 1 = q
    <3>1. q - 1 \in 1..(n - 1) /\ (q - 1) + 1 = q
      BY <1>1, <2>6, <2>7
    <3> QED
      BY <3>1
  <2>9. p \in 1..n /\ p < q /\ F[p] \in Int /\ F[q] \in Int
    BY <1>1, <2>6, <2>8
  <2>10. F[p] < t /\ t <= F[p + 1]
    BY <2>6, <2>8, <2>9
  <2>11. 0 \in 0..(n - 1) /\ n - 1 \in 0..(n - 1) /\ 0 <= p /\ p <= n - 1
    BY <1>1, <1>9
  <2>12. c = p
    <3>1. n \in Nat
      BY <1>1
    <3>2. f[<<0, n - 1>>] = p
      <4>1. PICK a \in 0..(n - 1), b \in 0..(n - 1) : a = 0 /\ b = n - 1 /\ a <= p /\ p <= b
        BY <2>11
      <4>2. f[<<a, b>>] = p
        BY ONLY Timed(s, n, F), t \in Int, p \in 1..(n - 1), <1>3, <2>10, <3>1, <4>1, CountLands
      <4> QED
        BY <4>1, <4>2
    <3> QED
      BY <2>1, <3>2
  <2>13. ASSUME NEW j \in 1..n
         PROVE  F[j] < t <=> j <= p
    <3>1. F[j] \in Int
      BY <1>1
    <3>2. CASE j <= p
      <4>1. F[j] <= F[p]
        BY <1>1, <2>9, <3>2
      <4> QED
        BY <2>9, <2>10, <3>1, <3>2, <4>1
    <3>3. CASE ~ (j <= p)
      <4>1. q <= j
        BY <2>8, <3>3
      <4>2. F[q] <= F[j]
        BY <1>1, <2>6, <4>1
      <4> QED
        BY <2>6, <2>9, <3>1, <3>3, <4>2
    <3> QED
      BY <3>2, <3>3
  <2> QED
    BY <1>1, <1>4, <2>9, <2>12, <2>13
<1>10. n = 0 \/ (n > 0 /\ F[1] >= t) \/ (n > 0 /\ ~ (F[1] >= t) /\ F[n] < t)
        \/ (n > 0 /\ ~ (F[1] >= t) /\ ~ (F[n] < t))
  BY <1>1
<1> QED
  BY <1>6, <1>7, <1>8, <1>9, <1>10

\* The indices of the matches that do not begin before t.
LateAt(t) == {j \in 1..Len(buffer) : buffer[j].first >= t}

\* The matches a cleanup leaves: those that do not begin before the limit,
\* by either way of finding them.
LEMMA LivePart ==
    ASSUME TypeInv, Sorted, NEW t \in Int
    PROVE  /\ Live(t) \in Seq(Entry)
           /\ PartOf(Live(t), buffer, LateAt(t))
<1>1. PICK n \in Nat : n = Len(buffer) /\ DOMAIN buffer = 1..n
  BY LenProperties DEF TypeInv
<1>2. buffer \in Seq(Entry) /\ byArrival \in BOOLEAN
  BY DEF TypeInv
<1>3. \A i \in 1..n : buffer[i] \in Entry
  BY <1>1, <1>2, ElementOfSeq
<1>4. CASE byArrival
  <2>1. PICK F : F = [i \in 1..n |-> buffer[i].first]
    OBVIOUS
  <2>2. \A i \in 1..n : buffer[i].first \in Int
    BY <1>3, StorageAssumption DEF Entry
  <2>3. F \in [1..n -> Int] /\ \A i \in 1..n : F[i] = buffer[i].first
    BY <2>1, <2>2
  <2>4. ASSUME NEW i \in 1..n, NEW j \in 1..n, i <= j
        PROVE  F[i] <= F[j]
    <3>1. F[i] \in Int /\ F[j] \in Int
      BY <2>3
    <3>2. i < j => F[i] <= F[j]
      BY <1>1, <1>4, <2>3 DEF Sorted
    <3>3. i = j \/ i < j
      BY <2>4
    <3> QED
      BY <3>1, <3>2, <3>3
  <2>5. Timed(buffer, n, F)
    BY <1>1, <2>3, <2>4 DEF Timed
  <2>6. buffer = <<>> <=> n = 0
    BY <1>1, <1>2, EmptySeq
  <2>7. PICK c : c = CountBefore(buffer, t)
    OBVIOUS
  <2>8. c \in 0..n /\ \A j \in 1..n : F[j] < t <=> j <= c
    BY <2>5, <2>6, <2>7, CountBeforeCounts
  <2>9. Live(t) = SubSeq(buffer, c + 1, n)
    BY <1>1, <1>4, <2>7 DEF Live, Suffix
  <2>10. /\ SubSeq(buffer, c + 1, n) \in Seq(Entry)
         /\ PartOf(SubSeq(buffer, c + 1, n), buffer, (c + 1)..n)
    <3>1. c + 1 \in Int /\ n \in Int /\ 1 <= c + 1 /\ n <= Len(buffer)
      BY <1>1, <2>8
    <3> QED
      BY <1>2, <3>1, SlicePart
  <2>11. LateAt(t) = (c + 1)..n
    <3>1. ASSUME NEW j \in 1..n
          PROVE  buffer[j].first >= t <=> j \in (c + 1)..n
      <4>1. buffer[j].first = F[j] /\ F[j] \in Int /\ (F[j] < t <=> j <= c)
        BY <2>3, <2>8
      <4>2. j \in (c + 1)..n <=> ~ (j <= c)
        BY <2>8
      <4> QED
        BY <4>1, <4>2
    <3>2. (c + 1)..n \subseteq 1..n
      BY <2>8
    <3> QED
      BY <1>1, <3>1, <3>2 DEF LateAt
  <2> QED
    BY <1>1, <2>9, <2>10, <2>11
<1>5. CASE ~ byArrival
  <2>1. LateAt(t) = {i \in DOMAIN buffer : buffer[i].first >= t}
    BY <1>1 DEF LateAt
  <2>2. Live(t) = Selected(LateAt(t))
    BY <1>5, <2>1 DEF Live, NotBefore
  <2>3. LateAt(t) \in SUBSET (1..Len(buffer))
    BY DEF LateAt
  <2> QED
    BY <1>2, <2>2, <2>3, SelectedPart
<1> QED
  BY <1>2, <1>4, <1>5

-----------------------------------------------------------------------------
(* The steps of the storage                                                *)

\* The values W are the sorted values V with x put in its place.
FitsIn(V, W, n, p, x) ==
    /\ V \in [1..n -> Int] /\ W \in [1..(n + 1) -> Int] /\ x \in Int
    /\ \A i \in 1..p : W[i] = V[i]
    /\ W[p + 1] = x
    /\ \A i \in (p + 1)..n : W[i + 1] = V[i]
    /\ \A i, j \in 1..n : i < j => V[i] <= V[j]
    /\ \A j \in 1..n : j <= p => V[j] <= x
    /\ \A j \in 1..n : ~ (j <= p) => x <= V[j]

\* A value put in its place leaves the values sorted.
LEMMA InsertSorts ==
    ASSUME NEW n \in Nat, NEW p \in 0..n, NEW x, NEW V, NEW W, FitsIn(V, W, n, p, x)
    PROVE  \A i, j \in 1..(n + 1) : i < j => W[i] <= W[j]
<1> USE DEF FitsIn
<1> SUFFICES ASSUME NEW i \in 1..(n + 1), NEW j \in 1..(n + 1), i < j
             PROVE  W[i] <= W[j]
  OBVIOUS
<1>1. ASSUME NEW k \in 1..(n + 1), k # p + 1
      PROVE  \E l \in 1..n : /\ W[k] = V[l] /\ V[l] \in Int
                             /\ l = IF k <= p THEN k ELSE k - 1
  <2>1. CASE k <= p
    <3>1. k \in 1..p /\ k \in 1..n
      BY <2>1
    <3> QED
      BY <2>1, <3>1
  <2>2. CASE ~ (k <= p)
    <3>1. k - 1 \in (p + 1)..n /\ k - 1 \in 1..n /\ (k - 1) + 1 = k
      BY <1>1, <2>2
    <3>2. W[k] = V[k - 1]
      BY <3>1
    <3> QED
      BY <2>2, <3>1, <3>2
  <2> QED
    BY <2>1, <2>2
<1>2. CASE i = p + 1
  <2>1. j # p + 1 /\ ~ (j <= p)
    BY <1>2
  <2>2. PICK l \in 1..n : W[j] = V[l] /\ l = j - 1
    BY <1>1, <2>1
  <2>3. ~ (l <= p)
    BY <1>2, <2>2
  <2> QED
    BY <1>2, <2>2, <2>3
<1>3. CASE j = p + 1
  <2>1. i # p + 1 /\ i <= p
    BY <1>3
  <2>2. PICK l \in 1..n : W[i] = V[l] /\ l = i
    BY <1>1, <2>1
  <2>3. l <= p
    BY <2>1, <2>2
  <2> QED
    BY <1>3, <2>2, <2>3
<1>4. CASE i # p + 1 /\ j # p + 1
  <2>1. PICK k \in 1..n : W[i] = V[k] /\ k = IF i <= p THEN i ELSE i - 1
    BY <1>1, <1>4
  <2>2. PICK l \in 1..n : W[j] = V[l] /\ l = IF j <= p THEN j ELSE j - 1
    BY <1>1, <1>4
  <2>3. k < l
    BY <1>4, <2>1, <2>2
  <2> QED
    BY <2>1, <2>2, <2>3
<1> QED
  BY <1>2, <1>3, <1>4

\* The keys stay sorted when a match is put where they do not get out of order.
LEMMA InsertKeepsOrder ==
    ASSUME NEW S, KeySorted(S), NEW e \in S, NEW p \in 0..Len(buffer), NEW u \in Seq(S),
           Inserted(u, buffer, p, e),
           \A j \in 1..Len(buffer) : j <= p => buffer[j].key <= e.key,
           \A j \in 1..Len(buffer) : ~ (j <= p) => e.key <= buffer[j].key
    PROVE  \A i, j \in 1..Len(u) : i < j => u[i].key <= u[j].key
<1>1. buffer \in Seq(S) /\ \A x \in S : x.key \in Int
  BY DEF KeySorted
<1>2. PICK n \in Nat : n = Len(buffer) /\ DOMAIN buffer = 1..n
  BY <1>1, LenProperties
<1>3. Len(u) = n + 1 /\ DOMAIN u = 1..(n + 1)
  BY <1>2, LenProperties DEF Inserted
<1>4. /\ \A i \in 1..p : u[i] = buffer[i]
      /\ u[p + 1] = e
      /\ \A i \in (p + 1)..n : u[i + 1] = buffer[i]
  BY <1>2 DEF Inserted
<1>5. \A i \in 1..n : buffer[i].key \in Int
  <2>1. \A i \in 1..n : buffer[i] \in S
    BY <1>1, <1>2, ElementOfSeq
  <2> QED
    BY <1>1, <2>1
<1>6. \A i \in 1..(n + 1) : u[i].key \in Int
  <2>1. \A i \in 1..(n + 1) : u[i] \in S
    BY <1>3, ElementOfSeq
  <2> QED
    BY <1>1, <2>1
<1>7. p \in 0..n /\ e.key \in Int
  BY <1>1, <1>2
<1>8. \A i, j \in 1..n : i < j => buffer[i].key <= buffer[j].key
  BY <1>2 DEF KeySorted
<1>9. PICK V : V = [i \in 1..n |-> buffer[i].key]
  OBVIOUS
<1>10. PICK W : W = [i \in 1..(n + 1) |-> u[i].key]
  OBVIOUS
<1>11. V \in [1..n -> Int] /\ W \in [1..(n + 1) -> Int]
  BY <1>5, <1>6, <1>9, <1>10
<1>12. \A i \in 1..p : W[i] = V[i]
  <2>1. \A i \in 1..p : i \in 1..n /\ i \in 1..(n + 1)
    BY <1>7
  <2> QED
    BY <1>4, <1>9, <1>10, <2>1
<1>13. W[p + 1] = e.key
  <2>1. p + 1 \in 1..(n + 1)
    BY <1>7
  <2> QED
    BY <1>4, <1>10, <2>1
<1>14. \A i \in (p + 1)..n : W[i + 1] = V[i]
  <2>1. \A i \in (p + 1)..n : i \in 1..n /\ i + 1 \in 1..(n + 1)
    BY <1>7
  <2> QED
    BY <1>4, <1>9, <1>10, <2>1
<1>15. \A i, j \in 1..n : i < j => V[i] <= V[j]
  BY <1>8, <1>9
<1>16. /\ \A j \in 1..n : j <= p => V[j] <= e.key
       /\ \A j \in 1..n : ~ (j <= p) => e.key <= V[j]
  BY <1>2, <1>9
<1>17. \A i, j \in 1..(n + 1) : i < j => W[i] <= W[j]
  <2>1. FitsIn(V, W, n, p, e.key)
    BY <1>7, <1>11, <1>12, <1>13, <1>14, <1>15, <1>16 DEF FitsIn
  <2> QED
    BY <1>7, <2>1, InsertSorts
<1> QED
  BY <1>3, <1>10, <1>17

\* A match put in its place keeps the keys sorted, and the other matches.
LEMMA PutInPlace ==
    ASSUME NEW S, KeySorted(S), NEW e \in S, NEW u, u = InsertAt(buffer, Place(e) + 1, e)
    PROVE  /\ u \in Seq(S) /\ Len(u) = Len(buffer) + 1
           /\ \A i, j \in 1..Len(u) : i < j => u[i].key <= u[j].key
           /\ ToSet(u) = ToSet(buffer) \cup {e}
<1>1. buffer \in Seq(S)
  BY DEF KeySorted
<1>2. PICK n \in Nat : n = Len(buffer) /\ DOMAIN buffer = 1..n
  BY <1>1, LenProperties
<1>3. PICK p : p = Place(e)
  OBVIOUS
<1>4. /\ p \in 0..Len(buffer)
      /\ \A j \in 1..Len(buffer) : j <= p => buffer[j].key <= e.key
      /\ \A j \in 1..Len(buffer) : ~ (j <= p) => e.key <= buffer[j].key
  BY <1>3, PlaceFits
<1>5. u \in Seq(S) /\ Inserted(u, buffer, p, e)
  BY <1>1, <1>3, <1>4, InsertPuts
<1>6. \A i, j \in 1..Len(u) : i < j => u[i].key <= u[j].key
  BY <1>4, <1>5, InsertKeepsOrder
<1>7. Len(u) = n + 1 /\ DOMAIN u = 1..(n + 1) /\ p \in 0..n
  BY <1>2, <1>4, <1>5, LenProperties DEF Inserted
<1>8. /\ \A i \in 1..p : u[i] = buffer[i]
      /\ u[p + 1] = e
      /\ \A i \in (p + 1)..n : u[i + 1] = buffer[i]
  BY <1>2, <1>5 DEF Inserted
<1>9. ToSet(u) = {u[i] : i \in 1..(n + 1)} /\ ToSet(buffer) = {buffer[i] : i \in 1..n}
  BY <1>2, <1>7 DEF ToSet
<1>10. \A i \in 1..(n + 1) : u[i] = e \/ \E j \in 1..n : u[i] = buffer[j]
  <2> SUFFICES ASSUME NEW i \in 1..(n + 1), i # p + 1
               PROVE  \E j \in 1..n : u[i] = buffer[j]
    BY <1>8
  <2>1. CASE i <= p
    <3>1. i \in 1..p /\ i \in 1..n
      BY <1>7, <2>1
    <3> QED
      BY <1>8, <3>1
  <2>2. CASE ~ (i <= p)
    <3>1. i - 1 \in (p + 1)..n /\ i - 1 \in 1..n /\ (i - 1) + 1 = i
      BY <1>7, <2>2
    <3>2. u[i] = buffer[i - 1]
      BY <1>8, <3>1
    <3> QED
      BY <3>1, <3>2
  <2> QED
    BY <2>1, <2>2
<1>11. \A j \in 1..n : \E i \in 1..(n + 1) : u[i] = buffer[j]
  <2> SUFFICES ASSUME NEW j \in 1..n PROVE \E i \in 1..(n + 1) : u[i] = buffer[j]
    OBVIOUS
  <2>1. CASE j <= p
    <3>1. j \in 1..p /\ j \in 1..(n + 1)
      BY <1>7, <2>1
    <3> QED
      BY <1>8, <3>1
  <2>2. CASE ~ (j <= p)
    <3>1. j \in (p + 1)..n /\ j + 1 \in 1..(n + 1)
      BY <1>7, <2>2
    <3> QED
      BY <1>8, <3>1
  <2> QED
    BY <2>1, <2>2
<1>12. p + 1 \in 1..(n + 1)
  BY <1>7
<1>13. \A x : x \in ToSet(u) <=> x \in ToSet(buffer) \cup {e}
  BY <1>8, <1>9, <1>10, <1>11, <1>12
<1> QED
  BY <1>2, <1>5, <1>6, <1>7, <1>13

\* Adding a match keeps the types and the order, and adds one copy of it.
LEMMA AddKeeps ==
    ASSUME TypeInv, Sorted, NEW e \in Entry, Add(e)
    PROVE  /\ TypeInv' /\ Sorted'
           /\ ToBag(buffer') = ToBag(buffer) (+) SetToBag({e})
<1>1. /\ buffer \in Seq(Entry) /\ byArrival \in BOOLEAN /\ count \in Nat
      /\ byArrival => \A i \in 1..Len(buffer) : buffer[i].key = buffer[i].first
  BY DEF TypeInv
<1>2. PICK n \in Nat : n = Len(buffer) /\ DOMAIN buffer = 1..n
  BY <1>1, LenProperties
<1>3. PICK u : u = buffer'
  OBVIOUS
<1>4. byArrival' = byArrival /\ count' = count + 1
  BY DEF Add
<1>5. e.key \in Int /\ e.first \in Int
  BY StorageAssumption DEF Entry, Key
<1>6. \A i \in 1..n : buffer[i].key \in Int /\ buffer[i].first \in Int
  <2>1. \A i \in 1..n : buffer[i] \in Entry
    BY <1>1, <1>2, ElementOfSeq
  <2> QED
    BY <2>1, StorageAssumption DEF Entry, Key
<1>7. /\ \A i, j \in 1..n : i < j => buffer[i].key <= buffer[j].key
      /\ byArrival => \A i, j \in 1..n : i < j => buffer[i].first <= buffer[j].first
  BY <1>2 DEF Sorted
\* The place p of the new match in the new buffer u.
<1>8. PICK p \in 0..n :
        /\ u \in Seq(Entry) /\ Inserted(u, buffer, p, e)
        /\ \A j \in 1..n : j <= p => buffer[j].key <= e.key
        /\ \A j \in 1..n : ~ (j <= p) => e.key <= buffer[j].key
        /\ byArrival => /\ e.key = e.first /\ p = n
                        /\ \A j \in 1..n : buffer[j].first <= e.first
  <2>1. CASE byArrival
    <3>1. u = Append(buffer, e) /\ InArrivalOrder(e)
      BY <1>3, <2>1 DEF Add
    <3>2. n \in 0..Len(buffer)
      BY <1>2
    <3>3. u \in Seq(Entry) /\ Inserted(u, buffer, n, e)
      BY <1>1, <1>2, <3>1, <3>2, InsertPuts
    <3>4. ASSUME NEW j \in 1..n
          PROVE  buffer[j].first <= e.first
      <4>1. Len(buffer) # 0
        BY <1>2
      <4>2. buffer # <<>>
        BY <1>2, <4>1
      <4>3. buffer[n].first <= e.first
        BY <1>2, <3>1, <4>2 DEF InArrivalOrder, Last
      <4>4. n \in 1..n /\ (j = n \/ j < n)
        OBVIOUS
      <4>5. j = n \/ buffer[j].first <= buffer[n].first
        BY <1>7, <2>1, <4>4
      <4> QED
        BY <1>5, <1>6, <4>3, <4>4, <4>5
    <3>5. e.key = e.first
      BY <3>1 DEF InArrivalOrder
    <3>6. \A j \in 1..n : j <= n /\ buffer[j].key = buffer[j].first
      BY <1>1, <1>2, <2>1
    <3>7. n \in 0..n
      OBVIOUS
    <3> QED
      BY <3>3, <3>4, <3>5, <3>6, <3>7
  <2>2. CASE ~ byArrival
    <3>1. PICK p : p = Place(e)
      OBVIOUS
    <3>2. /\ p \in 0..n
          /\ \A j \in 1..n : j <= p => buffer[j].key <= e.key
          /\ \A j \in 1..n : ~ (j <= p) => e.key <= buffer[j].key
      <4>1. KeySorted(Entry)
        BY SortedByKey
      <4> QED
        BY <1>2, <3>1, <4>1, PlaceFits
    <3>3. u = InsertAt(buffer, p + 1, e)
      BY <1>3, <2>2, <3>1 DEF Add
    <3>4. u \in Seq(Entry) /\ Inserted(u, buffer, p, e)
      BY <1>1, <1>2, <3>2, <3>3, InsertPuts
    <3> QED
      BY <2>2, <3>2, <3>4
  <2> QED
    BY <1>1, <2>1, <2>2
<1>9. Len(u) = n + 1 /\ DOMAIN u = 1..(n + 1)
  BY <1>2, <1>8, LenProperties DEF Inserted
<1>10. /\ \A i \in 1..p : u[i] = buffer[i]
       /\ u[p + 1] = e
       /\ \A i \in (p + 1)..n : u[i + 1] = buffer[i]
  BY <1>2, <1>8 DEF Inserted
<1>11. \A i, j \in 1..(n + 1) : i < j => u[i].key <= u[j].key
  <2>1. KeySorted(Entry)
    BY SortedByKey
  <2> QED
    BY <1>2, <1>8, <1>9, <2>1, InsertKeepsOrder
<1>12. ASSUME byArrival
       PROVE  /\ \A i, j \in 1..(n + 1) : i < j => u[i].first <= u[j].first
              /\ \A i \in 1..(n + 1) : u[i].key = u[i].first
  <2>1. \A i \in 1..(n + 1) : i = n + 1 \/ i \in 1..n
    OBVIOUS
  <2>2. p = n /\ u[n + 1] = e /\ e.key = e.first /\ \A i \in 1..n : u[i] = buffer[i]
    BY <1>8, <1>10, <1>12
  <2>3. \A i \in 1..(n + 1) : u[i].key = u[i].first
    BY <1>1, <1>2, <1>12, <2>1, <2>2
  <2> QED
    BY <1>11, <2>3
<1>13. Sorted'
  BY <1>3, <1>4, <1>9, <1>11, <1>12 DEF Sorted
<1>14. TypeInv'
  BY <1>1, <1>3, <1>4, <1>8, <1>9, <1>12 DEF TypeInv
<1>15. ToBag(u) = ToBag(buffer) (+) SetToBag({e})
  BY <1>1, <1>2, <1>8, InsertedBag
<1> QED
  BY <1>3, <1>13, <1>14, <1>15

\* A cleanup keeps the types and the order, and removes the matches that begin
\* before its limit, with all their copies.
LEMMA CleanKeeps ==
    ASSUME TypeInv, Sorted, NEW t \in Stamp, TryClean(t)
    PROVE  /\ TypeInv' /\ Sorted'
           /\ ToBag(buffer') =
                [e \in {x \in DOMAIN ToBag(buffer) : x.first >= t} |-> ToBag(buffer)[e]]
<1>1. /\ buffer \in Seq(Entry) /\ byArrival \in BOOLEAN /\ count \in Nat
      /\ byArrival => \A i \in 1..Len(buffer) : buffer[i].key = buffer[i].first
  BY DEF TypeInv
<1>2. PICK n \in Nat : n = Len(buffer) /\ DOMAIN buffer = 1..n
  BY <1>1, LenProperties
<1>3. PICK u : u = buffer'
  OBVIOUS
<1>4. byArrival' = byArrival /\ count' = 0 /\ u = Live(t)
  BY <1>3 DEF TryClean
<1>5. t \in Int
  BY StorageAssumption DEF Stamp
<1>6. PICK J : J = LateAt(t)
  OBVIOUS
<1>7. u \in Seq(Entry) /\ PartOf(u, buffer, J) /\ J \in SUBSET (1..n)
  BY <1>2, <1>4, <1>5, <1>6, LivePart DEF LateAt
<1>8. PICK g : Picks(u, buffer, J, g)
  BY <1>7 DEF PartOf
<1>9. PICK m \in Nat : m = Len(u) /\ DOMAIN u = 1..m
  BY <1>7, LenProperties
<1>10. /\ \A i \in 1..m : g[i] \in 1..n /\ u[i] = buffer[g[i]]
       /\ \A i, j \in 1..m : i < j => g[i] < g[j]
  BY <1>2, <1>8, <1>9 DEF Picks
<1>11. Sorted'
  <2>1. \A i, j \in 1..n : i < j => /\ buffer[i].key <= buffer[j].key
                                    /\ byArrival => buffer[i].first <= buffer[j].first
    BY <1>2 DEF Sorted
  <2>2. \A i, j \in 1..m : i < j => /\ u[i].key <= u[j].key
                                    /\ byArrival => u[i].first <= u[j].first
    BY <1>10, <2>1
  <2> QED
    BY <1>3, <1>4, <1>9, <2>2 DEF Sorted
<1>12. TypeInv'
  <2>1. byArrival => \A i \in 1..m : u[i].key = u[i].first
    BY <1>1, <1>2, <1>10
  <2> QED
    BY <1>1, <1>3, <1>4, <1>7, <1>9, <2>1 DEF TypeInv
<1>13. ToBag(u) = BagAt(buffer, J)
  <2>1. \A i, j \in 1..Len(buffer) : buffer[i] = buffer[j] /\ i \in J => j \in J
    BY <1>2, <1>6 DEF LateAt
  <2> QED
    BY <1>1, <1>2, <1>7, <2>1, PartBag
<1>14. {buffer[j] : j \in J} = {x \in DOMAIN ToBag(buffer) : x.first >= t}
  <2>1. /\ DOMAIN ToBag(buffer) = Range(buffer)
        /\ \A x : x \in Range(buffer) <=> \E i \in 1..n : buffer[i] = x
    BY <1>1, <1>2, BufferBag
  <2>2. \A j : j \in J <=> j \in 1..n /\ buffer[j].first >= t
    BY <1>2, <1>6 DEF LateAt
  <2> QED
    BY <2>1, <2>2
<1> QED
  BY <1>3, <1>11, <1>12, <1>13, <1>14 DEF BagAt

\* The inductive invariant: every step keeps the types and the order.
LEMMA StorageInv == Spec => [](TypeInv /\ Sorted)
<1>1. Init => TypeInv /\ Sorted
  <2> SUFFICES ASSUME Init PROVE TypeInv /\ Sorted
    OBVIOUS
  <2>1. byArrival \in BOOLEAN /\ buffer = <<>> /\ count = 0
    BY DEF Init
  <2>2. buffer \in Seq(Entry) /\ Len(buffer) = 0 /\ DOMAIN buffer = {}
    <3>1. <<>> \in Seq(Entry) /\ Len(<<>>) = 0
      BY EmptySeq
    <3>2. DOMAIN <<>> = 1..0
      BY <3>1, LenProperties
    <3> QED
      BY <2>1, <3>1, <3>2
  <2>3. TypeInv
    BY <2>1, <2>2 DEF TypeInv
  <2>4. Sorted
    BY <2>2 DEF Sorted
  <2> QED
    BY <2>3, <2>4
<1>2. TypeInv /\ Sorted /\ [Next]_vars => (TypeInv /\ Sorted)'
  <2> SUFFICES ASSUME TypeInv, Sorted, [Next]_vars PROVE (TypeInv /\ Sorted)'
    OBVIOUS
  <2>1. CASE \E e \in Entry : Add(e)
    BY <2>1, AddKeeps
  <2>2. CASE \E t \in Stamp : TryClean(t)
    BY <2>2, CleanKeeps
  <2>3. CASE UNCHANGED vars
    BY <2>3 DEF vars, TypeInv, Sorted
  <2> QED
    BY <2>1, <2>2, <2>3 DEF Next
<1> QED
  BY <1>1, <1>2, PTL DEF Spec

\* The buffer stays in the order the binary searches and the cleanup take it to
\* have (PatternMatchStorage.py: add, try_clean_expired_partial_matches).
THEOREM StaysSorted == Spec => []Sorted
<1> QED
  BY StorageInv, PTL

\* A read through Get misses no stored match its relation accepts, and repeats
\* none, wherever get_index lands (the get functions of
\* SortedPatternMatchStorage).
THEOREM NoRelatedMatchMissed == Spec => []GetCovers
<1>1. TypeInv /\ Sorted => GetCovers
  <2> SUFFICES ASSUME TypeInv, Sorted, NEW op \in Relop, NEW side \in {"left", "right"},
                      NEW v \in -1..(MaxKey + 1)
               PROVE  /\ ToBag(Wanted(op, side, v)) \sqsubseteq ToBag(Get(op, side, v))
                      /\ ToBag(Get(op, side, v)) \sqsubseteq ToBag(buffer)
    BY DEF GetCovers
  <2>1. v \in Int
    BY StorageAssumption
  <2> QED
    BY <2>1, ReadsRight
<1> QED
  BY <1>1, StorageInv, PTL

\* With a strict relation, an equality or an inequality, Get returns nothing else
\* either, and what it returns is in the order of the buffer.
THEOREM StrictReadsExact == Spec => []GetExact
<1>1. TypeInv /\ Sorted => GetExact
  <2> SUFFICES ASSUME TypeInv, Sorted, NEW op \in {"=", "#", ">", "<"},
                      NEW side \in {"left", "right"}, NEW v \in -1..(MaxKey + 1)
               PROVE  Get(op, side, v) = Wanted(op, side, v)
    BY DEF GetExact
  <2>1. v \in Int /\ op \in Relop
    BY StorageAssumption DEF Relop
  <2> QED
    BY <2>1, ReadsRight
<1> QED
  BY <1>1, StorageInv, PTL

\* The sorted storage implements the bag the tree takes it for: an addition puts
\* one copy in, a cleanup takes out the expired matches and no others.
THEOREM StorageImplementsBag == Spec => RefinesMatchStore
<1>1. Init => Store!StoreInit
  <2> SUFFICES ASSUME Init PROVE Store!StoreInit
    OBVIOUS
  <2>1. buffer = <<>> /\ count = 0
    BY DEF Init
  <2>2. Range(buffer) = {}
    <3>1. <<>> \in Seq(Entry) /\ Len(<<>>) = 0
      BY EmptySeq
    <3>2. DOMAIN <<>> = 1..0
      BY <3>1, LenProperties
    <3> QED
      BY <2>1, <3>2 DEF Range
  <2>3. ToBag(buffer) = [x \in {} |-> Cardinality({i \in DOMAIN buffer : buffer[i] = x})]
    BY <2>2 DEF ToBag
  <2>4. EmptyBag = [x \in {} |-> 1]
    BY DEF EmptyBag, SetToBag
  <2>5. ToBag(buffer) = EmptyBag
    BY <2>3, <2>4
  <2> QED
    BY <2>1, <2>5 DEF Store!StoreInit, Store!EmptyBag, Store!SetToBag, EmptyBag, SetToBag
<1>2. TypeInv /\ Sorted /\ [Next]_vars => [Store!StoreNext]_(Store!storeVars)
  <2> SUFFICES ASSUME TypeInv, Sorted, [Next]_vars
               PROVE  [Store!StoreNext]_(Store!storeVars)
    OBVIOUS
  <2>1. ASSUME NEW e \in Entry, Add(e)
        PROVE  Store!StoreNext
    <3>1. ToBag(buffer') = ToBag(buffer) (+) SetToBag({e})
      BY <2>1, AddKeeps
    <3>2. count' = count + 1
      BY <2>1 DEF Add
    <3>3. ToBag(buffer)' = ToBag(buffer')
      OBVIOUS
    <3>4. Store!Put(e)
      BY <3>1, <3>2, <3>3 DEF Store!Put, Store!SetToBag, SetToBag, (+), Store!(+)
    <3> QED
      BY <3>4 DEF Store!StoreNext
  <2>2. ASSUME NEW t \in Stamp, TryClean(t)
        PROVE  Store!StoreNext
    <3>1. ToBag(buffer') =
            [e \in {x \in DOMAIN ToBag(buffer) : x.first >= t} |-> ToBag(buffer)[e]]
      BY <2>2, CleanKeeps
    <3>2. count >= CleanUpInterval /\ count' = 0
      BY <2>2 DEF TryClean
    <3>3. ToBag(buffer)' = ToBag(buffer')
      OBVIOUS
    <3>4. Store!Expire(t)
      BY <3>1, <3>2, <3>3 DEF Store!Expire
    <3> QED
      BY <3>4 DEF Store!StoreNext
  <2>3. CASE UNCHANGED vars
    BY <2>3 DEF vars, Store!storeVars
  <2> QED
    BY <2>1, <2>2, <2>3 DEF Next
<1> QED
  BY <1>1, <1>2, StorageInv, PTL DEF Spec, RefinesMatchStore, Store!StoreSpec
=============================================================================
