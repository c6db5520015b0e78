--------------------------- MODULE SortedJoinProofs ---------------------------
(***************************************************************************)
(* Proofs about SortedJoin, for all names, priorities, conditions, values   *)
(* and sizes.  The facts about the two storages are those of               *)
(* SortedStorageProofs, instantiated for each side.                        *)
(***************************************************************************)
EXTENDS SortedJoin, SequenceTheorems, WellFoundedInduction, TLAPS

LP == INSTANCE SortedStorageProofs WITH buffer <- left, count <- 0, byArrival <- FALSE,
        CleanUpInterval <- 1, MaxKey <- 0, MaxTime <- 0

RP == INSTANCE SortedStorageProofs WITH buffer <- right, count <- 0, byArrival <- FALSE,
        CleanUpInterval <- 1, MaxKey <- 0, MaxTime <- 0

\* The instances the facts are about are those of the model.
LEMMA SameReads ==
    ASSUME NEW op, NEW side, NEW v
    PROVE  LP!Get(op, side, v) = L!Get(op, side, v) /\ RP!Get(op, side, v) = R!Get(op, side, v)
BY DEF LP!Get, L!Get, RP!Get, R!Get, LP!GetBy, L!GetBy, RP!GetBy, R!GetBy,
       LP!GetEqual, L!GetEqual, RP!GetEqual, R!GetEqual,
       LP!GetUnequal, L!GetUnequal, RP!GetUnequal, R!GetUnequal,
       LP!GetGreater, L!GetGreater, RP!GetGreater, R!GetGreater,
       LP!GetSmaller, L!GetSmaller, RP!GetSmaller, R!GetSmaller,
       LP!Present, L!Present, RP!Present, R!Present,
       LP!Prefix, L!Prefix, RP!Prefix, R!Prefix, LP!Suffix, L!Suffix, RP!Suffix, R!Suffix,
       LP!FirstIndex, L!FirstIndex, RP!FirstIndex, R!FirstIndex,
       LP!LastIndex, L!LastIndex, RP!LastIndex, R!LastIndex,
       LP!GetIndex, L!GetIndex, RP!GetIndex, R!GetIndex,
       LP!Ranges, L!Ranges, RP!Ranges, R!Ranges

LEMMA SamePlaces ==
    ASSUME NEW e
    PROVE  LP!Place(e) = L!Place(e) /\ RP!Place(e) = R!Place(e)
BY DEF LP!Place, L!Place, LP!LastIndex, L!LastIndex, LP!GetIndex, L!GetIndex,
       LP!Ranges, L!Ranges, RP!Place, R!Place, RP!LastIndex, R!LastIndex, RP!GetIndex,
       R!GetIndex, RP!Ranges, R!Ranges

\* A read of a storage returns every match that is related to the given key.
LEMMA LeftReads ==
    ASSUME NEW S, LP!KeySorted(S), NEW v \in Int, NEW op \in Relop,
           NEW side \in {"left", "right"}, NEW j \in 1..Len(left),
           LP!Related(op, side, left[j].key, v)
    PROVE  left[j] \in ToSet(L!Get(op, side, v))
<1>1. MaxSize \in Nat /\ op \in LP!Relop
  BY JoinAssumption DEF Relop, LP!Relop
<1>2. PICK q : q = LP!Get(op, side, v)
  OBVIOUS
<1>3. left[j] \in LP!ToSet(q)
  BY <1>1, <1>2, LP!ReadsRelated
<1> QED
  BY <1>2, <1>3, SameReads DEF ToSet, LP!ToSet

LEMMA RightReads ==
    ASSUME NEW S, RP!KeySorted(S), NEW v \in Int, NEW op \in Relop,
           NEW side \in {"left", "right"}, NEW j \in 1..Len(right),
           RP!Related(op, side, right[j].key, v)
    PROVE  right[j] \in ToSet(R!Get(op, side, v))
<1>1. MaxSize \in Nat /\ op \in RP!Relop
  BY JoinAssumption DEF Relop, RP!Relop
<1>2. PICK q : q = RP!Get(op, side, v)
  OBVIOUS
<1>3. right[j] \in RP!ToSet(q)
  BY <1>1, <1>2, RP!ReadsRelated
<1> QED
  BY <1>2, <1>3, SameReads DEF ToSet, RP!ToSet

\* An insertion keeps a storage sorted and adds one match.
LEMMA LeftPuts ==
    ASSUME NEW S, LP!KeySorted(S), NEW e \in S, NEW u, u = InsertAt(left, L!Place(e) + 1, e)
    PROVE  /\ u \in Seq(S)
           /\ \A i, j \in 1..Len(u) : i < j => u[i].key <= u[j].key
           /\ ToSet(u) = ToSet(left) \cup {e}
<1>1. MaxSize \in Nat
  BY JoinAssumption
<1>2. u = LP!InsertAt(left, LP!Place(e) + 1, e)
  BY SamePlaces DEF InsertAt, LP!InsertAt
<1>3. /\ u \in Seq(S)
      /\ \A i, j \in 1..Len(u) : i < j => u[i].key <= u[j].key
      /\ LP!ToSet(u) = LP!ToSet(left) \cup {e}
  BY <1>1, <1>2, LP!PutInPlace
<1> QED
  BY <1>3 DEF ToSet, LP!ToSet

LEMMA RightPuts ==
    ASSUME NEW S, RP!KeySorted(S), NEW e \in S, NEW u, u = InsertAt(right, R!Place(e) + 1, e)
    PROVE  /\ u \in Seq(S)
           /\ \A i, j \in 1..Len(u) : i < j => u[i].key <= u[j].key
           /\ ToSet(u) = ToSet(right) \cup {e}
<1>1. MaxSize \in Nat
  BY JoinAssumption
<1>2. u = RP!InsertAt(right, RP!Place(e) + 1, e)
  BY SamePlaces DEF InsertAt, RP!InsertAt
<1>3. /\ u \in Seq(S)
      /\ \A i, j \in 1..Len(u) : i < j => u[i].key <= u[j].key
      /\ RP!ToSet(u) = RP!ToSet(right) \cup {e}
  BY <1>1, <1>2, RP!PutInPlace
<1> QED
  BY <1>3 DEF ToSet, RP!ToSet

-----------------------------------------------------------------------------
(* The sorting keys *)

\* The index i of the atoms is the first of the highest rank up to k.
Highest(rank, i, k) ==
    \A j \in 1..k : rank[i] > rank[j] \/ (rank[i] = rank[j] /\ i <= j)

\* Among n atoms one is the first of the highest rank.
LEMMA HighestExists ==
    ASSUME NEW n \in Nat, NEW rank \in [1..n -> Nat], n > 0
    PROVE  \E i \in 1..n : Highest(rank, i, n)
<1> DEFINE Found(k) == \E i \in 1..k : Highest(rank, i, k)
           Bad == {k \in Nat : k > 0 /\ k <= n /\ ~ Found(k)}
<1>1. Bad = {}
  <2> SUFFICES ASSUME Bad # {} PROVE FALSE
    OBVIOUS
  <2>1. PICK k \in Bad : \A j \in Bad : ~ (<<j, k>> \in OpToRel(<, Nat))
    BY NatLessThanWellFounded, WFMin
  <2>2. /\ k \in Nat /\ k > 0 /\ k <= n /\ ~ Found(k)
        /\ \A j \in Nat : j < k /\ j > 0 => Found(j)
    <3>1. k \in Nat /\ k > 0 /\ k <= n /\ ~ Found(k)
      OBVIOUS
    <3>2. \A j \in Nat : j < k /\ j > 0 => j <= n
      BY <3>1
    <3> HIDE DEF Found
    <3> QED
      BY <2>1, <3>1, <3>2 DEF OpToRel
  <2>3. \A j \in 1..k : j \in 1..n /\ rank[j] \in Nat
    BY <2>2
  <2>4. CASE k = 1
    <3>1. Highest(rank, 1, 1)
      BY <2>3, <2>4 DEF Highest
    <3> QED
      BY <2>2, <2>4, <3>1
  <2>5. CASE k # 1
    <3>1. PICK m \in Nat : k = m + 1 /\ m > 0
      <4>1. k - 1 \in Nat /\ k = (k - 1) + 1 /\ k - 1 > 0
        BY <2>2, <2>5
      <4> QED
        BY <4>1
    <3>2. PICK i \in 1..m : Highest(rank, i, m)
      BY <2>2, <3>1
    <3>3. \A j \in 1..m : rank[i] > rank[j] \/ (rank[i] = rank[j] /\ i <= j)
      BY <3>2 DEF Highest
    <3>4. i \in 1..k /\ k \in 1..k /\ i <= k /\ \A j \in 1..k : j \in 1..m \/ j = k
      BY <3>1
    <3>5. rank[i] \in Nat /\ rank[k] \in Nat
      BY <2>3, <3>4
    <3>6. CASE rank[i] >= rank[k]
      <4>1. rank[i] > rank[k] \/ (rank[i] = rank[k] /\ i <= k)
        BY <3>4, <3>5, <3>6
      <4>2. \A j \in 1..k : rank[i] > rank[j] \/ (rank[i] = rank[j] /\ i <= j)
        BY <3>3, <3>4, <4>1
      <4> QED
        BY <2>2, <3>4, <4>2 DEF Highest
    <3>7. CASE ~ (rank[i] >= rank[k])
      <4>1. ASSUME NEW j \in 1..k
            PROVE  rank[k] > rank[j] \/ (rank[k] = rank[j] /\ k <= j)
        <5>1. CASE j = k
          BY <3>5, <5>1
        <5>2. CASE j \in 1..m
          <6>1. rank[j] \in Nat
            BY <2>3
          <6>2. rank[i] > rank[j] \/ rank[i] = rank[j]
            BY <3>3, <5>2
          <6> QED
            BY ONLY <3>5, <3>7, <6>1, <6>2
        <5> QED
          BY <3>4, <5>1, <5>2
      <4> QED
        BY <2>2, <3>4, <4>1 DEF Highest
    <3> QED
      BY <3>6, <3>7
  <2> QED
    BY <2>4, <2>5
<1>2. Found(n)
  <2> HIDE DEF Found
  <2> QED
    BY <1>1
<1> QED
  BY <1>2

\* The key of a side is taken from an atom of the node's condition.
LEMMA SortAtomThere ==
    ASSUME NEW cs, condition \in Conditions, cs = condition.atoms, NEW names \in {LeftName, RightName}
    PROVE  \E i \in DOMAIN cs : cs[i] = SortAtom(names) /\ cs[i] \in Atom
<1>1. cs \in Seq(Atom) /\ cs # <<>>
  BY JoinAssumption DEF IsCondition
<1>2. PICK n : n = Len(cs)
  OBVIOUS
<1>3. n \in Nat /\ DOMAIN cs = 1..n /\ n > 0
  <2>1. Len(cs) \in Nat /\ DOMAIN cs = 1..Len(cs)
    BY <1>1, LenProperties
  <2>2. Len(cs) # 0
    BY <1>1, EmptySeq
  <2> QED
    BY <1>2, <2>1, <2>2
<1>4. \A i \in 1..n : cs[i] \in Atom
  BY <1>1, <1>3, ElementOfSeq
<1>5. PICK rank : rank = [i \in 1..n |-> Priority[Term(cs[i], names)]]
  OBVIOUS
<1>6. rank \in [1..n -> Nat]
  <2>1. \A c \in Atom : Term(c, names) \in LeftName \cup RightName
    BY DEF Atom, Term
  <2>2. \A i \in 1..n : Priority[Term(cs[i], names)] \in Nat
    BY <1>4, <2>1, JoinAssumption
  <2> QED
    BY <1>5, <2>2
<1>7. PICK i \in 1..n : Highest(rank, i, n)
  BY <1>3, <1>6, HighestExists
<1> DEFINE First(k) == \A j \in DOMAIN condition.atoms :
              \/ Priority[Term(condition.atoms[k], names)] > Priority[Term(condition.atoms[j], names)]
              \/ /\ Priority[Term(condition.atoms[k], names)] = Priority[Term(condition.atoms[j], names)]
                 /\ k <= j
<1>8. i \in DOMAIN condition.atoms /\ First(i)
  BY <1>3, <1>5, <1>7 DEF Highest
<1>9. PICK k : k = CHOOSE l \in DOMAIN condition.atoms : First(l)
  OBVIOUS
<1>10. k \in DOMAIN condition.atoms
  <2> HIDE DEF First
  <2> QED
    BY <1>8, <1>9
<1>11. SortAtom(names) = condition.atoms[k]
  BY <1>9 DEF SortAtom
<1> QED
  BY <1>3, <1>4, <1>10, <1>11

-----------------------------------------------------------------------------
(* The invariant *)

\* The matches a side may store.
Stored(names) == [key : Val, pm : [names -> Val]]

StorageInv ==
    /\ condition \in Conditions
    /\ LP!KeySorted(Stored(LeftName)) /\ RP!KeySorted(Stored(RightName))
    /\ \A l \in ToSet(left) : l.key = KeyOf(l.pm, LeftName)
    /\ \A r \in ToSet(right) : r.key = KeyOf(r.pm, RightName)

JoinInv == StorageInv /\ LostOnlyByKeys

\* A new match is stored under the value of its sorting term.
LEMMA NewStored ==
    ASSUME condition \in Conditions, NEW names \in {LeftName, RightName},
           NEW x \in [names -> Val]
    PROVE  KeyOf(x, names) \in Val /\ [key |-> KeyOf(x, names), pm |-> x] \in Stored(names)
<1>1. PICK c \in Atom : c = SortAtom(names)
  BY SortAtomThere
<1>2. Term(c, names) \in names
  BY <1>1 DEF Term, Atom
<1>3. KeyOf(x, names) \in Val
  BY <1>1, <1>2 DEF KeyOf
<1> QED
  BY <1>3 DEF Stored

\* A pair whose keys fit the atom of the storage that is read is in the slice that
\* the new match of the pair reads.
LEMMA RelatedToNewLeft ==
    ASSUME condition \in Conditions, NEW x, NEW y, NEW c, c = SortAtom(RightName),
           KeysFit(c, x, y)
    PROVE  /\ c.op \in Relop
           /\ RP!Related(c.op, Side(c, RightName), KeyOf(y, RightName), KeyOf(x, LeftName))
<1>1. c \in Atom
  BY SortAtomThere
<1>2. LeftName \cap RightName = {}
  BY JoinAssumption
<1>3. CASE c \in [left : LeftName, op : Relop, right : RightName]
  BY <1>2, <1>3 DEF KeysFit, Side, RP!Related, RP!Compare, L!Compare
<1>4. CASE c \in [left : RightName, op : Relop, right : LeftName]
  BY <1>2, <1>4 DEF KeysFit, Side, RP!Related, RP!Compare, L!Compare
<1> QED
  BY <1>1, <1>3, <1>4 DEF Atom

LEMMA RelatedToNewRight ==
    ASSUME condition \in Conditions, NEW x, NEW y, NEW c, c = SortAtom(LeftName),
           KeysFit(c, x, y)
    PROVE  /\ c.op \in Relop
           /\ LP!Related(c.op, Side(c, LeftName), KeyOf(x, LeftName), KeyOf(y, RightName))
<1>1. c \in Atom
  BY SortAtomThere
<1>2. LeftName \cap RightName = {}
  BY JoinAssumption
<1>3. CASE c \in [left : LeftName, op : Relop, right : RightName]
  BY <1>2, <1>3 DEF KeysFit, Side, LP!Related, LP!Compare, L!Compare
<1>4. CASE c \in [left : RightName, op : Relop, right : LeftName]
  BY <1>2, <1>4 DEF KeysFit, Side, LP!Related, LP!Compare, L!Compare
<1> QED
  BY <1>1, <1>3, <1>4 DEF Atom

\* Under the atom both sides are sorted by, the keys of a pair are the values the
\* atom compares.
LEMMA HoldsIsKeysFit ==
    ASSUME condition \in Conditions, NEW x, NEW y, NEW c,
           c = SortAtom(LeftName), c = SortAtom(RightName)
    PROVE  Holds(c, x, y) <=> KeysFit(c, x, y)
<1>1. c \in Atom
  BY SortAtomThere
<1>2. KeyOf(x, LeftName) = x[Term(c, LeftName)] /\ KeyOf(y, RightName) = y[Term(c, RightName)]
  BY DEF KeyOf
<1>3. LeftName \cap RightName = {}
  BY JoinAssumption
<1>4. CASE c \in [left : LeftName, op : Relop, right : RightName]
  BY <1>2, <1>3, <1>4 DEF Holds, KeysFit, Term
<1>5. CASE c \in [left : RightName, op : Relop, right : LeftName]
  BY <1>2, <1>3, <1>5 DEF Holds, KeysFit, Term
<1> QED
  BY <1>1, <1>4, <1>5 DEF Atom

-----------------------------------------------------------------------------
(* The steps *)

\* A new match of the left side is stored in its place, and joined with every
\* match of the right side it satisfies the condition with, if their keys fit.
LEMMA NewLeftKeeps ==
    ASSUME JoinInv, NEW x \in [LeftName -> Val], NewLeft(x)
    PROVE  JoinInv'
<1> DEFINE e == [key |-> KeyOf(x, LeftName), pm |-> x]
           c == SortAtom(RightName)
           found == R!Get(c.op, Side(c, RightName), e.key)
<1>1. /\ condition' = condition /\ right' = right
      /\ left' = InsertAt(left, L!Place(e) + 1, e)
      /\ joined' = joined \cup
            {<<x, f.pm>> : f \in {g \in ToSet(found) : Satisfied(x, g.pm)}}
  BY DEF NewLeft
<1>2. /\ condition \in Conditions
      /\ LP!KeySorted(Stored(LeftName)) /\ RP!KeySorted(Stored(RightName))
      /\ \A l \in ToSet(left) : l.key = KeyOf(l.pm, LeftName)
      /\ \A r \in ToSet(right) : r.key = KeyOf(r.pm, RightName)
  BY DEF JoinInv, StorageInv
<1>3. e \in Stored(LeftName) /\ KeyOf(x, LeftName) \in Val
  BY <1>2, NewStored
<1>4. PICK u : u = left'
  OBVIOUS
<1>5. /\ u \in Seq(Stored(LeftName))
      /\ \A i, j \in 1..Len(u) : i < j => u[i].key <= u[j].key
      /\ ToSet(u) = ToSet(left) \cup {e}
  <2>1. u = InsertAt(left, L!Place(e) + 1, e)
    BY <1>1, <1>4
  <2> HIDE DEF e
  <2> QED
    BY <1>2, <1>3, <2>1, LeftPuts
<1>6. \A names, pm : KeyOf(pm, names)' = KeyOf(pm, names)
  BY <1>1 DEF KeyOf, SortAtom
<1>7. StorageInv'
  <2>1. LP!KeySorted(Stored(LeftName))'
    BY <1>2, <1>4, <1>5 DEF LP!KeySorted, Stored
  <2>2. RP!KeySorted(Stored(RightName))'
    BY <1>1, <1>2 DEF RP!KeySorted, Stored
  <2>3. \A l \in ToSet(u) : l.key = KeyOf(l.pm, LeftName)
    BY <1>2, <1>5
  <2> QED
    BY <1>1, <1>2, <1>4, <1>6, <2>1, <2>2, <2>3 DEF StorageInv
<1>8. ASSUME NEW r \in ToSet(right), Satisfied(x, r.pm), KeysFit(c, x, r.pm)
      PROVE  <<x, r.pm>> \in joined'
  <2>1. PICK j \in 1..Len(right) : r = right[j] /\ r \in Stored(RightName)
    <3>1. right \in Seq(Stored(RightName)) /\ DOMAIN right = 1..Len(right)
      BY <1>2, LenProperties DEF RP!KeySorted
    <3> QED
      BY <3>1, ElementOfSeq DEF ToSet
  <2>2. r.key = KeyOf(r.pm, RightName)
    BY <1>2
  <2>3. /\ c.op \in Relop
        /\ RP!Related(c.op, Side(c, RightName), r.key, KeyOf(x, LeftName))
    BY <1>2, <1>8, <2>2, RelatedToNewLeft
  <2>4. KeyOf(x, LeftName) \in Int /\ Side(c, RightName) \in {"left", "right"}
    <3>1. \A k \in Val : k \in Int
      BY JoinAssumption
    <3>2. Side(c, RightName) \in {"left", "right"}
      BY DEF Side
    <3> QED
      BY <1>3, <3>1, <3>2
  <2>5. r \in ToSet(found)
    <3> HIDE DEF c
    <3> QED
      BY <1>2, <2>1, <2>3, <2>4, RightReads
  <2> QED
    BY <1>1, <1>8, <2>5
<1>9. LostOnlyByKeys'
  <2>1. \A l, r : Satisfied(l, r)' = Satisfied(l, r)
    BY <1>1 DEF Satisfied
  <2>2. \A d, l, r : KeysFit(d, l, r)' = KeysFit(d, l, r)
    BY <1>6 DEF KeysFit
  <2>3. \A names : SortAtom(names)' = SortAtom(names)
    BY <1>1 DEF SortAtom
  <2> QED
    BY <1>1, <1>4, <1>5, <1>8, <2>1, <2>2, <2>3 DEF LostOnlyByKeys, JoinInv
<1> QED
  BY <1>7, <1>9 DEF JoinInv

\* The same for a new match of the right side.
LEMMA NewRightKeeps ==
    ASSUME JoinInv, NEW y \in [RightName -> Val], NewRight(y)
    PROVE  JoinInv'
<1> DEFINE e == [key |-> KeyOf(y, RightName), pm |-> y]
           c == SortAtom(LeftName)
           found == L!Get(c.op, Side(c, LeftName), e.key)
<1>1. /\ condition' = condition /\ left' = left
      /\ right' = InsertAt(right, R!Place(e) + 1, e)
      /\ joined' = joined \cup
            {<<f.pm, y>> : f \in {g \in ToSet(found) : Satisfied(g.pm, y)}}
  BY DEF NewRight
<1>2. /\ condition \in Conditions
      /\ LP!KeySorted(Stored(LeftName)) /\ RP!KeySorted(Stored(RightName))
      /\ \A l \in ToSet(left) : l.key = KeyOf(l.pm, LeftName)
      /\ \A r \in ToSet(right) : r.key = KeyOf(r.pm, RightName)
  BY DEF JoinInv, StorageInv
<1>3. e \in Stored(RightName) /\ KeyOf(y, RightName) \in Val
  BY <1>2, NewStored
<1>4. PICK u : u = right'
  OBVIOUS
<1>5. /\ u \in Seq(Stored(RightName))
      /\ \A i, j \in 1..Len(u) : i < j => u[i].key <= u[j].key
      /\ ToSet(u) = ToSet(right) \cup {e}
  <2>1. u = InsertAt(right, R!Place(e) + 1, e)
    BY <1>1, <1>4
  <2> HIDE DEF e
  <2> QED
    BY <1>2, <1>3, <2>1, RightPuts
<1>6. \A names, pm : KeyOf(pm, names)' = KeyOf(pm, names)
  BY <1>1 DEF KeyOf, SortAtom
<1>7. StorageInv'
  <2>1. RP!KeySorted(Stored(RightName))'
    BY <1>2, <1>4, <1>5 DEF RP!KeySorted, Stored
  <2>2. LP!KeySorted(Stored(LeftName))'
    BY <1>1, <1>2 DEF LP!KeySorted, Stored
  <2>3. \A r \in ToSet(u) : r.key = KeyOf(r.pm, RightName)
    BY <1>2, <1>5
  <2> QED
    BY <1>1, <1>2, <1>4, <1>6, <2>1, <2>2, <2>3 DEF StorageInv
<1>8. ASSUME NEW l \in ToSet(left), Satisfied(l.pm, y), KeysFit(c, l.pm, y)
      PROVE  <<l.pm, y>> \in joined'
  <2>1. PICK j \in 1..Len(left) : l = left[j] /\ l \in Stored(LeftName)
    <3>1. left \in Seq(Stored(LeftName)) /\ DOMAIN left = 1..Len(left)
      BY <1>2, LenProperties DEF LP!KeySorted
    <3> QED
      BY <3>1, ElementOfSeq DEF ToSet
  <2>2. l.key = KeyOf(l.pm, LeftName)
    BY <1>2
  <2>3. /\ c.op \in Relop
        /\ LP!Related(c.op, Side(c, LeftName), l.key, KeyOf(y, RightName))
    BY <1>2, <1>8, <2>2, RelatedToNewRight
  <2>4. KeyOf(y, RightName) \in Int /\ Side(c, LeftName) \in {"left", "right"}
    <3>1. \A k \in Val : k \in Int
      BY JoinAssumption
    <3>2. Side(c, LeftName) \in {"left", "right"}
      BY DEF Side
    <3> QED
      BY <1>3, <3>1, <3>2
  <2>5. l \in ToSet(found)
    <3> HIDE DEF c
    <3> QED
      BY <1>2, <2>1, <2>3, <2>4, LeftReads
  <2> QED
    BY <1>1, <1>8, <2>5
<1>9. LostOnlyByKeys'
  <2>1. \A l, r : Satisfied(l, r)' = Satisfied(l, r)
    BY <1>1 DEF Satisfied
  <2>2. \A d, l, r : KeysFit(d, l, r)' = KeysFit(d, l, r)
    BY <1>6 DEF KeysFit
  <2>3. \A names : SortAtom(names)' = SortAtom(names)
    BY <1>1 DEF SortAtom
  <2> QED
    BY <1>1, <1>4, <1>5, <1>8, <2>1, <2>2, <2>3 DEF LostOnlyByKeys, JoinInv
<1> QED
  BY <1>7, <1>9 DEF JoinInv

LEMMA JoinInvariant == Spec => []JoinInv
<1>1. Init => JoinInv
  <2> SUFFICES ASSUME Init PROVE JoinInv
    OBVIOUS
  <2>1. condition \in Conditions /\ left = <<>> /\ right = <<>>
    BY DEF Init
  <2>2. ToSet(<<>>) = {} /\ Len(<<>>) = 0
    BY DEF ToSet
  <2>3. \A names : <<>> \in Seq(Stored(names))
    BY EmptySeq
  <2>4. ASSUME NEW names, NEW x \in Stored(names)
        PROVE  x.key \in Int
    <3>1. x.key \in Val
      BY DEF Stored
    <3>2. \A k \in Val : k \in Int
      BY JoinAssumption
    <3> QED
      BY <3>1, <3>2
  <2>5. LP!KeySorted(Stored(LeftName)) /\ RP!KeySorted(Stored(RightName))
    BY <2>1, <2>2, <2>3, <2>4 DEF LP!KeySorted, RP!KeySorted
  <2> QED
    BY <2>1, <2>2, <2>5 DEF JoinInv, StorageInv, LostOnlyByKeys
<1>2. JoinInv /\ [Next]_vars => JoinInv'
  <2> SUFFICES ASSUME JoinInv, [Next]_vars PROVE JoinInv'
    OBVIOUS
  <2>1. CASE \E x \in [LeftName -> Val] : NewLeft(x)
    BY <2>1, NewLeftKeeps
  <2>2. CASE \E y \in [RightName -> Val] : NewRight(y)
    BY <2>2, NewRightKeeps
  <2>3. CASE UNCHANGED vars
    <3>1. condition' = condition /\ left' = left /\ right' = right /\ joined' = joined
      BY <2>3 DEF vars
    <3>2. \A names, pm : KeyOf(pm, names)' = KeyOf(pm, names)
      BY <3>1 DEF KeyOf, SortAtom
    <3>3. \A l, r : Satisfied(l, r)' = Satisfied(l, r)
      BY <3>1 DEF Satisfied
    <3>4. /\ \A names : SortAtom(names)' = SortAtom(names)
          /\ \A c, l, r : KeysFit(c, l, r)' = KeysFit(c, l, r)
      BY <3>1, <3>2 DEF SortAtom, KeysFit
    <3>5. StorageInv'
      BY <3>1, <3>2 DEF JoinInv, StorageInv, LP!KeySorted, RP!KeySorted, Stored
    <3>6. LostOnlyByKeys'
      BY <3>1, <3>3, <3>4 DEF JoinInv, LostOnlyByKeys
    <3> QED
      BY <3>5, <3>6 DEF JoinInv
  <2> QED
    BY <2>1, <2>2, <2>3 DEF Next
<1> QED
  BY <1>1, <1>2, PTL DEF Spec

\* Whatever the condition of the node and however its atoms combine, a pair that
\* satisfies it is lost to the reads by key only if its keys fail an atom one of the
\* sides is sorted by (BinaryNode.handle_new_partial_match with the keys of
\* _get_condition_based_sorting_keys).
THEOREM JoinsAllWhoseKeysFit == Spec => []LostOnlyByKeys
<1>1. JoinInv => LostOnlyByKeys
  BY DEF JoinInv
<1> QED
  BY <1>1, JoinInvariant, PTL

\* A node both of whose sides are sorted by one conjunct of its condition loses no
\* pair: the conjunct holds of every pair that satisfies the condition, and it is
\* what the slices are cut by.
THEOREM JoinsAllWhenSortedByConjunct == Spec => []CompleteWhenSortedByConjunct
<1>1. JoinInv => CompleteWhenSortedByConjunct
  <2> SUFFICES ASSUME JoinInv, SortAtom(LeftName) = SortAtom(RightName),
                      Required(SortAtom(LeftName)),
                      NEW l \in ToSet(left), NEW r \in ToSet(right), Satisfied(l.pm, r.pm)
               PROVE  <<l.pm, r.pm>> \in joined
    BY DEF CompleteWhenSortedByConjunct, JoinComplete
  <2>1. PICK c : c = SortAtom(LeftName)
    OBVIOUS
  <2>2. PICK i \in DOMAIN condition.atoms : condition.atoms[i] = c /\ {i} \in condition.clauses
    BY <2>1 DEF Required
  <2>3. Holds(c, l.pm, r.pm)
    BY <2>2 DEF Satisfied
  <2>4. KeysFit(c, l.pm, r.pm)
    BY <2>1, <2>3, HoldsIsKeysFit DEF JoinInv, StorageInv
  <2> QED
    BY <2>1, <2>4 DEF JoinInv, LostOnlyByKeys
<1> QED
  BY <1>1, JoinInvariant, PTL
===============================================================================
