---------------------------- MODULE SortedStorage ----------------------------
(***************************************************************************)
(* SortedPatternMatchStorage (tree/PatternMatchStorage.py) with the binary *)
(* searches of misc/Utils.py it is built on.  A stored match is a record   *)
(* of its sorting key and of its first timestamp.  Python lists count from *)
(* 0: an index i of the code is the position i + 1 here.                   *)
(***************************************************************************)
EXTENDS Integers, Sequences, SequencesExt

CONSTANTS
    CleanUpInterval,    \* additions between two cleanups
    MaxKey,             \* bound: the largest sorting key
    MaxTime,            \* bound: the largest timestamp
    MaxSize             \* bound: matches stored at once

ASSUME StorageAssumption ==
    /\ CleanUpInterval \in Nat \ {0}
    /\ MaxKey \in Nat /\ MaxTime \in Nat /\ MaxSize \in Nat

Key == 0..MaxKey

Entry == [key : Key, first : 0..MaxTime]

Stamp == 0..(MaxTime + 1)

Relop == {"=", "#", ">", ">=", "<", "<="}

VARIABLES
    byArrival,  \* sorted_by_arrival_order: a leaf sorted by timestamp
    buffer,     \* _partial_matches
    count       \* _access_count, up to the interval

vars == <<byArrival, buffer, count>>

-----------------------------------------------------------------------------
(* The binary searches *)

\* The ranges of indices, start to end, that a search may come to.
Ranges(s) == (0..Len(s)) \X (-1..(Len(s) - 1))

\* get_index: the first or last index of v among the keys of s.  When v is not
\* there the result is a neighbour of its place, -1 or Len(s) included.
GetIndex(s, v, wantFirst) ==
    LET search[range \in Ranges(s)] ==
            LET start == range[1]
                end == range[2]
                mid == (start + end) \div 2
                m == s[mid + 1].key
            IN  IF start > end THEN 0
                ELSE IF start = end
                     THEN IF s[start + 1].key > v THEN start - 1
                          ELSE IF s[start + 1].key < v THEN start + 1
                          ELSE start
                ELSE IF m < v /\ v < s[mid + 2].key
                     THEN IF wantFirst THEN mid ELSE mid + 1
                ELSE IF m < v \/ (m = v /\ ~ wantFirst)
                     THEN search[<<mid + 1, end>>]
                ELSE search[<<start, mid>>]
    IN  search[<<0, Len(s) - 1>>]

FirstIndex(v) == GetIndex(buffer, v, TRUE)

LastIndex(v) == GetIndex(buffer, v, FALSE)

\* The exception at the end of the search by timestamp.
NotFound == -1

\* find_partial_match_by_timestamp: the matches that begin before t, counted by
\* a search that takes the list to be sorted by first timestamp.  The match
\* before the first is, in Python, the last one.
CountBefore(s, t) ==
    LET search[range \in Ranges(s)] ==
            LET start == range[1]
                end == range[2]
                mid == (start + end) \div 2
                before == IF mid = 0 THEN s[Len(s)] ELSE s[mid]
            IN  IF start > end THEN NotFound
                ELSE IF before.first < t /\ t <= s[mid + 1].first THEN mid
                ELSE IF t > s[mid + 1].first THEN search[<<mid + 1, end>>]
                ELSE search[<<start, mid - 1>>]
    IN  IF s = <<>> \/ s[1].first >= t THEN 0
        ELSE IF s[Len(s)].first < t THEN Len(s)
        ELSE search[<<0, Len(s) - 1>>]

-----------------------------------------------------------------------------
(* Reading: the list slices of the get functions *)

\* buffer[i:] and buffer[:i], and the key at index i
Suffix(i) == SubSeq(buffer, i + 1, Len(buffer))

Prefix(i) == SubSeq(buffer, 1, i)

Present(i, v) == i \in 0..(Len(buffer) - 1) /\ buffer[i + 1].key = v

GetEqual(v) ==
    IF ~ Present(FirstIndex(v), v) THEN <<>>
    ELSE SubSeq(buffer, FirstIndex(v) + 1, LastIndex(v) + 1)

GetUnequal(v) ==
    IF ~ Present(FirstIndex(v), v) THEN buffer
    ELSE Prefix(FirstIndex(v)) \o Suffix(LastIndex(v) + 1)

\* Fault: an equal key is skipped although none is there.
GetGreaterSkipping(v, orEqual) ==
    LET i == IF orEqual THEN FirstIndex(v) ELSE LastIndex(v)
    IN  IF i = -1 THEN buffer
        ELSE IF orEqual THEN Suffix(i) ELSE Suffix(i + 1)

\* An absent key is met by its neighbour, which stays in the result.
GetGreater(v, orEqual) ==
    LET i == IF orEqual THEN FirstIndex(v) ELSE LastIndex(v)
    IN  IF i = Len(buffer) THEN <<>>
        ELSE IF i = -1 THEN buffer
        ELSE IF ~ Present(i, v) \/ orEqual THEN Suffix(i)
        ELSE Suffix(i + 1)

\* Fault: the neighbour of an absent key is left out.
GetSmallerShort(v, orEqual) ==
    LET i == IF orEqual THEN LastIndex(v) ELSE FirstIndex(v)
    IN  IF i = Len(buffer) THEN buffer
        ELSE IF i = -1 THEN <<>>
        ELSE IF Present(i, v) /\ orEqual THEN Prefix(i + 1)
        ELSE Prefix(i)

GetSmaller(v, orEqual) ==
    LET i == IF orEqual THEN LastIndex(v) ELSE FirstIndex(v)
    IN  IF i = Len(buffer) THEN buffer
        ELSE IF i = -1 THEN <<>>
        ELSE IF ~ Present(i, v) \/ orEqual THEN Prefix(i + 1)
        ELSE Prefix(i)

\* The function __generate_get_function chooses: the stored match is on the
\* given side of the relation, v on the other.
GetBy(op, side, v) ==
    CASE op = "=" -> GetEqual(v)
      [] op = "#" -> GetUnequal(v)
      [] <<op, side>> \in {<<">", "left">>, <<"<", "right">>} -> GetGreater(v, FALSE)
      [] <<op, side>> \in {<<"<", "left">>, <<">", "right">>} -> GetSmaller(v, FALSE)
      [] <<op, side>> \in {<<">=", "left">>, <<"<=", "right">>} -> GetGreater(v, TRUE)
      [] <<op, side>> \in {<<"<=", "left">>, <<">=", "right">>} -> GetSmaller(v, TRUE)

Get(op, side, v) == IF buffer = <<>> THEN <<>> ELSE GetBy(op, side, v)

-----------------------------------------------------------------------------
(* Writing *)

Init == byArrival \in BOOLEAN /\ buffer = <<>> /\ count = 0

\* Fault: a new match goes after the place the search returns.
PlaceAfter(e) ==
    IF LastIndex(e.key) = Len(buffer) THEN Len(buffer) ELSE LastIndex(e.key) + 1

\* The index a new match is inserted at; -1 stands for the front.
Place(e) == IF LastIndex(e.key) = -1 THEN 0 ELSE LastIndex(e.key)

\* A leaf sorted by arrival is handed its events in order of time.
InArrivalOrder(e) ==
    e.key = e.first /\ (buffer # <<>> => Last(buffer).first <= e.first)

Add(e) ==
    /\ Len(buffer) < MaxSize
    /\ byArrival => InArrivalOrder(e)
    /\ buffer' = IF byArrival THEN Append(buffer, e)
                 ELSE InsertAt(buffer, Place(e) + 1, e)
    /\ count' = count + 1
    /\ UNCHANGED byArrival

\* The matches of the buffer at the positions of J, in their order.
Selected(J) ==
    LET kept[n \in 0..Len(buffer)] ==
            IF n = 0 THEN <<>>
            ELSE IF n \in J THEN Append(kept[n - 1], buffer[n])
            ELSE kept[n - 1]
    IN  kept[Len(buffer)]

NotBefore(t) == Selected({n \in DOMAIN buffer : buffer[n].first >= t})

\* Fault: one match too many is cut off the front.
LiveOffByOne(earliest) ==
    IF byArrival THEN Suffix(CountBefore(buffer, earliest) + 1)
    ELSE NotBefore(earliest)

Live(earliest) ==
    IF byArrival THEN Suffix(CountBefore(buffer, earliest))
    ELSE NotBefore(earliest)

TryClean(earliest) ==
    /\ count >= CleanUpInterval
    /\ buffer' = Live(earliest)
    /\ count' = 0
    /\ UNCHANGED byArrival

Next ==
    \/ \E e \in Entry : Add(e)
    \/ \E earliest \in Stamp : TryClean(earliest)

Spec == Init /\ [][Next]_vars

-----------------------------------------------------------------------------
(* Properties *)

\* The buffer is sorted the way the searches take it to be: by key, and by
\* first timestamp where cleanup searches for one.
Sorted ==
    \A i, j \in DOMAIN buffer :
        i < j => /\ buffer[i].key <= buffer[j].key
                 /\ byArrival => buffer[i].first <= buffer[j].first

Compare(op, a, b) ==
    CASE op = "=" -> a = b
      [] op = "#" -> a # b
      [] op = ">" -> a > b
      [] op = ">=" -> a >= b
      [] op = "<" -> a < b
      [] op = "<=" -> a <= b

Related(op, side, k, v) ==
    IF side = "left" THEN Compare(op, k, v) ELSE Compare(op, v, k)

\* The stored matches that are related to v, in their order.
Wanted(op, side, v) ==
    Selected({n \in DOMAIN buffer : Related(op, side, buffer[n].key, v)})

\* A join that reads its candidates through Get misses no match its sorting
\* condition accepts: nothing related is left out, copies included, and nothing
\* is repeated, wherever the binary search lands for an absent, smallest, largest
\* or repeated key.
GetCovers ==
    \A op \in Relop, side \in {"left", "right"}, v \in -1..(MaxKey + 1) :
        LET got == ToBag(Get(op, side, v))
        IN  ToBag(Wanted(op, side, v)) \sqsubseteq got /\ got \sqsubseteq ToBag(buffer)

\* The strict relations, equality and inequality return nothing else either, and
\* in the order of the buffer.
GetExact ==
    \A op \in {"=", "#", ">", "<"}, side \in {"left", "right"},
       v \in -1..(MaxKey + 1) :
        Get(op, side, v) = Wanted(op, side, v)

Store == INSTANCE MatchStore WITH held <- ToBag(buffer)

\* The storage is the bag the tree takes it for: no match is lost or repeated
\* by an insertion, and a cleanup removes the expired matches and no others.
RefinesMatchStore == Store!StoreSpec
==============================================================================
