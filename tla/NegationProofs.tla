--------------------------- MODULE NegationProofs ---------------------------
(***************************************************************************)
(* Proofs about NegationTree, for every pattern with negated events, every *)
(* window, cleanup interval and stream.                                    *)
(*                                                                         *)
(* The type invariant needs nothing else.  The rest assumes                *)
(* SingleUnbounded: at most one negated event may still come after a       *)
(* match.  With two of them a match that is flushed from the lower node is *)
(* compared with the upper one after the event that prevents it may have   *)
(* been cleaned away, and the properties are false.                        *)
(*                                                                         *)
(* The invariant follows a match from the event that completes it to the   *)
(* output.  It is in one place at a time: still to be found in a slot of   *)
(* the newest event, in one call in progress, pending, or handed out       *)
(* (PlaceInv), and no match that nothing prevents is nowhere (CoverInv).   *)
(* A match that climbs contains the newest event, so what a leaf has       *)
(* cleaned away lies out of its window (NegativesInv), and the nodes below *)
(* have compared it with every negative event (FrameOK).  A pending match  *)
(* can only be prevented by the newest event, as long as its leaf has not  *)
(* seen that (PendingInv); a match handed out by none any more (OutInv).   *)
(***************************************************************************)
EXTENDS NegationProperties, SequenceTheorems, FiniteSetTheorems,
        WellFoundedInduction, TLAPS

-----------------------------------------------------------------------------
(* Sequences and numbers *)

\* Appending adds one element to the range.
LEMMA RangeAppend ==
    ASSUME NEW S, NEW s \in Seq(S), NEW e
    PROVE  Range(Append(s, e)) = Range(s) \cup {e}
<1>1. /\ DOMAIN Append(s, e) = 1..(Len(s) + 1)
      /\ \A i \in 1..Len(s) : Append(s, e)[i] = s[i]
      /\ Append(s, e)[Len(s) + 1] = e
      /\ DOMAIN s = 1..Len(s)
      /\ Len(s) \in Nat
  OBVIOUS
<1> QED
  BY <1>1 DEF Range

\* The tail of a sequence, position by position.
LEMMA TailFacts ==
    ASSUME NEW S, NEW s \in Seq(S), s # <<>>
    PROVE  /\ DOMAIN Tail(s) = 1..(Len(s) - 1)
           /\ Len(Tail(s)) = Len(s) - 1
           /\ \A i \in 1..(Len(s) - 1) : Tail(s)[i] = s[i + 1]
           /\ DOMAIN s = 1..Len(s)
           /\ Len(s) \in Nat \ {0}
           /\ s[1] = Head(s)
OBVIOUS

\* The elements of a sequence are its head and those of its tail.
LEMMA RangeTail ==
    ASSUME NEW S, NEW s \in Seq(S), s # <<>>
    PROVE  Range(s) = {Head(s)} \cup Range(Tail(s))
<1>1. /\ DOMAIN Tail(s) = 1..(Len(s) - 1)
      /\ \A i \in 1..(Len(s) - 1) : Tail(s)[i] = s[i + 1]
      /\ Head(s) = s[1]
      /\ DOMAIN s = 1..Len(s)
      /\ Len(s) \in Nat \ {0}
  BY TailFacts
<1>2. ASSUME NEW x \in Range(s)
      PROVE  x \in {Head(s)} \cup Range(Tail(s))
  <2>1. PICK i \in 1..Len(s) : x = s[i]
    BY <1>1 DEF Range
  <2>2. CASE i = 1
    BY <1>1, <2>1, <2>2
  <2>3. CASE i # 1
    <3>1. i - 1 \in 1..(Len(s) - 1) /\ Tail(s)[i - 1] = x
      BY <1>1, <2>1, <2>3
    <3> QED
      BY <1>1, <3>1 DEF Range
  <2> QED
    BY <2>2, <2>3
<1>3. Head(s) \in Range(s)
  BY <1>1 DEF Range
<1>4. ASSUME NEW x \in Range(Tail(s))
      PROVE  x \in Range(s)
  <2>1. PICK i \in 1..(Len(s) - 1) : x = Tail(s)[i]
    BY <1>1 DEF Range
  <2>2. i + 1 \in 1..Len(s) /\ s[i + 1] = x
    BY <1>1, <2>1
  <2> QED
    BY <1>1, <2>2 DEF Range
<1> QED
  BY <1>2, <1>3, <1>4

\* A non-empty set of natural numbers has a least element.
LEMMA LeastOf ==
    ASSUME NEW T, T \subseteq Nat, T # {}
    PROVE  \E t \in T : \A x \in T : t <= x
<1>1. PICK t \in T : \A x \in T : ~ (<<x, t>> \in OpToRel(<, Nat))
  BY NatLessThanWellFounded, WFMin
<1>2. \A x \in T : ~ (x < t)
  BY <1>1 DEF OpToRel
<1>3. \A x, y \in Nat : ~ (x < y) => y <= x
  OBVIOUS
<1> QED
  BY <1>2, <1>3

-----------------------------------------------------------------------------
(* Matches and negative events *)

\* An atom about a negated event is about no other negated event.
LEMMA AtomNames ==
    ASSUME NEW n \in Negative, NEW a \in Condition, n \in a.on
    PROVE  a.on \subseteq Positive \cup {n}
<1>1. IsFiniteSet(Negative)
  <2>1. Chain \in Seq(Negative)
    BY NegationAssumption
  <2>2. DOMAIN Chain = 1..Len(Chain) /\ Len(Chain) \in Nat
    BY <2>1
  <2>3. IsFiniteSet(1..Len(Chain))
    BY ONLY <2>2, FS_Interval
  <2>4. Chain \in Surjection(1..Len(Chain), Negative)
    BY <2>1, <2>2 DEF Surjection, Negative, Range
  <2> QED
    BY ONLY <2>3, <2>4, FS_Surjection
<1>2. ASSUME NEW x \in a.on \cap Negative, x # n
      PROVE  FALSE
  <2>1. IsFiniteSet({n}) /\ Cardinality({n}) = 1
    BY FS_Singleton
  <2>2. Cardinality({n} \cup {x}) = 2
    <3>1. Cardinality({n} \cup {x}) = Cardinality({n}) + 1
      BY ONLY <1>2, <2>1, FS_AddElement, Zenon
    <3> QED
      BY <2>1, <3>1
  <2>3. {n} \cup {x} \subseteq a.on \cap Negative
    BY <1>2
  <2>4. IsFiniteSet(a.on \cap Negative)
    BY <1>1, FS_Subset
  <2>5. Cardinality({n} \cup {x}) <= Cardinality(a.on \cap Negative)
    BY <2>3, <2>4, FS_Subset
  <2>6. Cardinality(a.on \cap Negative) \in Nat
    BY <2>4, FS_CardinalityType
  <2> QED
    BY <2>2, <2>5, <2>6, ConditionAssumption
<1>3. a.on \subseteq Name
  BY ConditionAssumption
<1> QED
  BY <1>2, <1>3 DEF Name

\* The event that completes a match is the greatest one.
LEMMA CompletedIs ==
    ASSUME NEW m, NEW k \in Range(m), \A d \in Range(m) : d \in Int /\ d <= k
    PROVE  Completed(m) = k
<1> DEFINE Greatest(e) == e \in Range(m) /\ \A d \in Range(m) : d <= e
<1>1. Greatest(k)
  OBVIOUS
<1>2. \A e : Greatest(e) => e = k
  OBVIOUS
<1>3. (CHOOSE e : Greatest(e)) = k
  BY <1>1, <1>2
<1>4. Completed(m) = CHOOSE e : Greatest(e)
  BY DEF Completed
<1> QED
  BY <1>3, <1>4

\* The least and the greatest timestamp of a set of events, as the code takes
\* them from the first and the last element of a sorted list.
LEMMA ExtremesOf ==
    ASSUME NEW S, S # {}, NEW f \in [S -> Nat]
    PROVE  \E k \in S : \A l \in S : f[k] <= f[l]
<1> DEFINE T == {f[l] : l \in S}
<1>1. T \subseteq Nat /\ T # {}
  OBVIOUS
<1>2. PICK t \in T : \A x \in T : t <= x
  <2> HIDE DEF T
  <2> QED
    BY <1>1, LeastOf
<1> QED
  BY <1>2

-----------------------------------------------------------------------------
(* A stream s that grows by the event x *)

\* The checks see only the events of the match.
LEMMA ValidGrows ==
    ASSUME NEW S, NEW s \in Seq(S), NEW x \in S,
           NEW N, NEW f \in [N -> 1..Len(s)],
           NEW atoms, \A a \in atoms : a.on \subseteq N
    PROVE  ValidFor(Append(s, x), f, atoms) <=> ValidFor(s, f, atoms)
<1> DEFINE t == Append(s, x)
<1>1. \A l \in N : t[f[l]] = s[f[l]]
  BY AppendProperties
<1>2. DOMAIN f = N
  OBVIOUS
<1>3. ASSUME NEW a \in atoms
      PROVE  Satisfies(t, f, a) <=> Satisfies(s, f, a)
  <2>1. [l \in a.on |-> t[f[l]].val] = [l \in a.on |-> s[f[l]].val]
    BY <1>1
  <2> HIDE DEF t
  <2> QED
    BY <2>1 DEF Satisfies
<1> HIDE DEF t
<1> QED
  BY <1>1, <1>2, <1>3 DEF ValidFor, t

\* Whether events satisfy the positive part is settled when they are there.
LEMMA PositiveMatchesGrow ==
    ASSUME NEW S, NEW s \in Seq(S), NEW x \in S, NEW m \in [Positive -> 1..Len(s)]
    PROVE  m \in PositiveMatches(Append(s, x)) <=> m \in PositiveMatches(s)
<1> DEFINE t == Append(s, x)
           atoms == {a \in Condition : a.on \subseteq Positive}
<1>1. Len(t) = Len(s) + 1 /\ Len(s) \in Nat
  BY AppendProperties, LenProperties
<1>2. \A l \in Positive : t[m[l]] = s[m[l]]
  BY AppendProperties
<1>3. m \in [Positive -> 1..Len(t)]
  BY <1>1
<1>4. ValidFor(t, m, atoms) <=> ValidFor(s, m, atoms)
  BY ValidGrows
<1> HIDE DEF atoms, t
<1>5. m \in PositiveMatches(t) <=>
        (\A l \in Positive : t[m[l]].type = TypeOf[l]) /\ ValidFor(t, m, atoms)
  BY <1>3 DEF PositiveMatches, atoms
<1>6. m \in PositiveMatches(s) <=>
        (\A l \in Positive : s[m[l]].type = TypeOf[l]) /\ ValidFor(s, m, atoms)
  BY DEF PositiveMatches, atoms
<1> QED
  BY <1>2, <1>4, <1>5, <1>6 DEF t

\* So is what the leaf of a negated event accepts.
LEMMA AcceptedGrows ==
    ASSUME NEW S, NEW s \in Seq(S), NEW x \in S, NEW n, NEW e \in 1..Len(s)
    PROVE  AcceptedBy(Append(s, x), n, e) <=> AcceptedBy(s, n, e)
<1>1. Append(s, x)[e] = s[e]
  BY AppendProperties
<1>2. ASSUME NEW a \in Condition, a.on = {n}
      PROVE  Satisfies(Append(s, x), [k \in {n} |-> e], a)
                <=> Satisfies(s, [k \in {n} |-> e], a)
  BY <1>1, <1>2 DEF Satisfies
<1> QED
  BY <1>1, <1>2 DEF AcceptedBy

\* So is whether an event prevents a match.
LEMMA PreventedGrows ==
    ASSUME NEW S, NEW s \in Seq(S), NEW x \in S, NEW n \in Negative,
           NEW m \in [Positive -> 1..Len(s)], NEW e \in 1..Len(s)
    PROVE  PreventedBy(Append(s, x), n, m, e) <=> PreventedBy(s, n, m, e)
<1> DEFINE f == [k \in Positive \cup {n} |-> IF k = n THEN e ELSE m[k]]
           atoms == {a \in Condition : n \in a.on /\ a.on # {n}}
<1>1. f \in [Positive \cup {n} -> 1..Len(s)]
  OBVIOUS
<1>2. \A a \in atoms : a.on \subseteq Positive \cup {n}
  BY AtomNames
<1>3. ValidFor(Append(s, x), f, atoms) <=> ValidFor(s, f, atoms)
  <2> HIDE DEF f, atoms
  <2> QED
    BY <1>1, <1>2, ValidGrows
<1>4. Invalidates(Append(s, x), n, m, e) <=> Invalidates(s, n, m, e)
  BY <1>3 DEF Invalidates
<1> QED
  BY <1>4, AcceptedGrows DEF PreventedBy

\* An event that invalidates a match is none of its own, and lies within a
\* window of each of them.
LEMMA InvalidatesFacts ==
    ASSUME NEW s, NEW n \in Negative, NEW m \in [Positive -> Nat], NEW e,
           Invalidates(s, n, m, e)
    PROVE  \A l \in Positive : /\ m[l] # e
                               /\ s[e].ts - s[m[l]].ts <= Window
                               /\ s[m[l]].ts - s[e].ts <= Window
<1> DEFINE f == [k \in Positive \cup {n} |-> IF k = n THEN e ELSE m[k]]
<1>1. n \notin Positive
  BY NegationAssumption
<1>2. /\ DOMAIN f = Positive \cup {n}
      /\ f[n] = e
      /\ \A l \in Positive : f[l] = m[l] /\ l # n
  BY <1>1
<1>3. /\ IsInjective(f)
      /\ \A k, l \in DOMAIN f : s[f[k]].ts - s[f[l]].ts <= Window
  BY DEF Invalidates, ValidFor
<1> HIDE DEF f
<1> QED
  BY <1>2, <1>3 DEF IsInjective

\* A match that contains the newest of all events is completed by it.
LEMMA CompletedByNewest ==
    ASSUME NEW k \in Nat, NEW m \in [Positive -> 1..k], k \in Range(m)
    PROVE  Completed(m) = k
<1>1. \A d \in Range(m) : d \in Int /\ d <= k
  BY DEF Range
<1> QED
  BY <1>1, CompletedIs

\* Every match is completed by one of its events.
LEMMA CompletedInRange ==
    ASSUME NEW k \in Nat, NEW m \in [Positive -> 1..k]
    PROVE  Completed(m) \in Range(m) /\ Completed(m) \in 1..k
<1> DEFINE back == [l \in Positive |-> k - m[l]]
<1>1. back \in [Positive -> Nat]
  OBVIOUS
<1>2. PICK p \in Positive : \A l \in Positive : back[p] <= back[l]
  <2> HIDE DEF back
  <2> QED
    BY <1>1, ExtremesOf, NegationAssumption
<1>3. m[p] \in Range(m) /\ \A l \in Positive : m[l] <= m[p]
  BY <1>2 DEF Range
<1>4. \A d \in Range(m) : d \in Int /\ d <= m[p]
  BY <1>3 DEF Range
<1>5. Completed(m) = m[p]
  BY <1>3, <1>4, CompletedIs
<1> QED
  BY <1>3, <1>5

-----------------------------------------------------------------------------
(* Types *)

\* At most one negated event is unbounded.
SingleUnbounded ==
    \A n, k \in Negative : Unbounded(n) /\ Unbounded(k) => n = k

Event == [type : {k.type : k \in Kind}, ts : Nat, val : {k.val : k \in Kind}]

\* The type invariant, with the sequences as such.
TypeInv ==
    /\ TypeOK
    /\ stream \in Seq(Event)
    /\ stack \in Seq(Frame)
    /\ unreported \in Seq(Match)
    /\ matches \in Seq(Match)
    /\ playing # {} => stream # <<>>

-----------------------------------------------------------------------------
(* Where a match can be *)

Carried(f) == IF f.op = "add" THEN f.todo ELSE {f.match}

\* The matches of the calls s.
Carries(s) == UNION {Carried(s[i]) : i \in DOMAIN s}

OncePerCall(s) ==
    \A i, j \in DOMAIN s : i # j => Carried(s[i]) \cap Carried(s[j]) = {}

\* Those a slot of the newest event is still to complete.
Waiting ==
    {m \in PositiveMatches(stream) : \E l \in playing \cap Positive : m[l] = Newest}

\* The pending matches, until the last flush has taken them (they stay in the
\* list of the node).
Kept == IF phase \in {"ending", "closed"} THEN {} ELSE pending

Handed == Range(unreported) \cup Range(matches)

PlaceInv ==
    /\ OncePerCall(stack)
    /\ IsInjective(unreported)
    /\ IsInjective(matches)
    /\ Range(unreported) \cap Range(matches) = {}
    /\ Carries(stack) \cap (Waiting \cup Kept \cup Handed) = {}
    /\ Waiting \cap (Kept \cup Handed) = {}
    /\ Kept \cap Handed = {}

CoverInv == Demanded(stream) \subseteq Waiting \cup Carries(stack) \cup Kept \cup Handed

-----------------------------------------------------------------------------
(* What is known of it there *)

StreamInv ==
    /\ \A i, j \in EventIds : i <= j => stream[i].ts <= stream[j].ts
    /\ phase # "playing" => playing = {}
    /\ phase = "playing" => stream # <<>>

\* The leaf of n has seen event e.
Seen(n, e) == e = Newest => n \notin playing

\* The events in E are negative events of n, and all that are in reach of the
\* newest event.
HasNegatives(n, E) ==
    /\ \A e \in E : AcceptedBy(stream, n, e)
    /\ \A e \in EventIds :
        AcceptedBy(stream, n, e) /\ Seen(n, e) /\ stream[e].ts >= Now - Window => e \in E

NegativesInv == \A n \in Negative : HasNegatives(n, negStore[n])

\* Match m is completed by the newest event and has passed the given level.
Climbing(m, level) ==
    /\ m \in PositiveMatches(stream)
    /\ Newest \in Range(m)
    /\ \A i \in 1..level, e \in EventIds : ~ PreventedBy(stream, Chain[i], m, e)

\* Nothing prevents m, and nothing will.
Final(m) ==
    /\ m \in Demanded(stream)
    /\ \/ FirstUnbounded = 0
       \/ \E l \in Positive : Now - stream[m[l]].ts > Window
       \/ phase \in {"ending", "closed"}

AddOK(f) ==
    \/ /\ phase = "playing"
       /\ f.level < Levels \/ FirstUnbounded = 0
       /\ \A m \in f.todo : Climbing(m, f.level)
    \/ /\ f.level = Levels /\ FirstUnbounded # 0
       /\ \A m \in f.todo : Final(m)

CompareOK(f) ==
    /\ phase = "playing"
    /\ Climbing(f.match, f.level - 1)
    /\ HasNegatives(Chain[f.level], f.todo)

FrameOK(f) == IF f.op = "add" THEN AddOK(f) ELSE CompareOK(f)

CallInv == \A i \in DOMAIN stack : FrameOK(stack[i])

\* Of the events some leaf has seen, none prevents m.
PendingOK(m) ==
    /\ m \in PositiveMatches(stream)
    /\ \A n \in Negative, e \in EventIds : PreventedBy(stream, n, m, e) => ~ Seen(n, e)

PendingInv == \A m \in pending : PendingOK(m)

OutInv == \A m \in Handed : Final(m)

\* The inductive invariant.
IInv ==
    /\ TypeInv
    /\ StreamInv
    /\ NegativesInv
    /\ CallInv
    /\ PendingInv
    /\ OutInv
    /\ PlaceInv
    /\ CoverInv

-----------------------------------------------------------------------------
(* The chain *)

\* The levels of the chain are the negated events.
LEMMA ChainFacts ==
    /\ Levels \in Nat
    /\ DOMAIN Chain = 1..Levels
    /\ \A i \in 1..Levels : Chain[i] \in Negative
    /\ \A n \in Negative : \E i \in 1..Levels : n = Chain[i]
<1>1. Chain \in Seq(Negative)
  BY NegationAssumption
<1>2. Levels \in Nat /\ DOMAIN Chain = 1..Levels
  BY <1>1 DEF Levels
<1>3. \A i \in 1..Levels : Chain[i] \in Negative
  BY <1>1, <1>2
<1>4. \A n \in Negative : \E i \in 1..Levels : n = Chain[i]
  BY <1>2 DEF Negative, Range
<1> QED
  BY <1>2, <1>3, <1>4

\* The deepest unbounded node, if there is one.
LEMMA FirstUnboundedIs ==
    /\ FirstUnbounded \in 0..Levels
    /\ FirstUnbounded = 0 => \A n \in Negative : ~ Unbounded(n)
    /\ FirstUnbounded # 0 => Unbounded(Chain[FirstUnbounded])
<1> DEFINE U == {i \in 1..Levels : Unbounded(Chain[i])}
           Deepest(i) == Unbounded(Chain[i]) /\ \A j \in 1..(i - 1) : ~ Unbounded(Chain[j])
<1>1. CASE U = {}
  <2>1. \A i \in 1..Levels : ~ Unbounded(Chain[i])
    BY <1>1
  <2>2. FirstUnbounded = 0
    BY <2>1, ChainFacts DEF FirstUnbounded
  <2> QED
    BY <2>1, <2>2, ChainFacts
<1>2. CASE U # {}
  <2>1. U \subseteq Nat
    OBVIOUS
  <2>2. PICK i \in U : \A j \in U : i <= j
    <3> HIDE DEF U
    <3> QED
      BY <1>2, <2>1, LeastOf
  <2>3. i \in DOMAIN Chain /\ Deepest(i)
    BY <2>2, ChainFacts
  <2>4. FirstUnbounded = CHOOSE k \in DOMAIN Chain : Deepest(k)
    BY <2>3 DEF FirstUnbounded
  <2>5. FirstUnbounded \in DOMAIN Chain /\ Deepest(FirstUnbounded)
    <3> HIDE DEF Deepest
    <3> QED
      BY <2>3, <2>4
  <2> QED
    BY <2>5, ChainFacts
<1> QED
  BY <1>1, <1>2

\* A single unbounded node is on top.
LEMMA UnboundedOnTop ==
    ASSUME SingleUnbounded
    PROVE  FirstUnbounded \in {0, Levels}
<1> SUFFICES ASSUME FirstUnbounded # 0
             PROVE  FirstUnbounded = Levels
  OBVIOUS
<1>1. /\ FirstUnbounded \in 1..Levels /\ Levels \in 1..Levels
      /\ Unbounded(Chain[FirstUnbounded])
      /\ Chain[FirstUnbounded] \in Negative /\ Chain[Levels] \in Negative
      /\ DOMAIN Chain = 1..Levels
  BY ChainFacts, FirstUnboundedIs
<1>2. CASE FirstUnbounded < Levels
  <2>1. Unbounded(Chain[Levels])
    BY <1>1, <1>2, ChainAssumption
  <2>2. Chain[FirstUnbounded] = Chain[Levels]
    BY <1>1, <2>1 DEF SingleUnbounded
  <2> QED
    BY <1>1, <2>2, NegationAssumption DEF IsInjective
<1> QED
  BY <1>1, <1>2

-----------------------------------------------------------------------------
(* The stack *)

\* A stack of calls is its top on a shorter stack.
LEMMA StackFacts ==
    ASSUME NEW S, stack \in Seq(S), stack # <<>>
    PROVE  /\ Top \in S
           /\ Pop \in Seq(S)
           /\ Len(stack) \in Nat \ {0} /\ DOMAIN stack = 1..Len(stack)
           /\ Len(Pop) = Len(stack) - 1
           /\ \A i \in 1..(Len(stack) - 1) : Pop[i] = stack[i]
<1>1. Len(stack) \in Nat \ {0}
  BY EmptySeq
<1>2. \A i \in 1..Len(stack) : stack[i] \in S
  BY ElementOfSeq
<1>3. Top \in S
  BY <1>1, <1>2 DEF Top
<1>4. PICK k \in Nat : Len(stack) = k + 1
  BY <1>1
<1>5. Pop = SubSeq(stack, 1, k)
  BY <1>4 DEF Pop
<1>6. /\ Pop \in Seq(S)
      /\ Len(Pop) = IF 1 <= k THEN k - 1 + 1 ELSE 0
      /\ \A i \in 1..(k - 1 + 1) : Pop[i] = stack[1 + i - 1]
  <2>1. k \in Int /\ \A i \in 1..k : stack[i] \in S
    BY <1>2, <1>4
  <2> QED
    BY <1>5, <2>1, SubSeqProperties
<1>7. Len(Pop) = k
  BY <1>4, <1>6
<1>8. \A i \in 1..k : Pop[i] = stack[i]
  BY <1>4, <1>6
<1> QED
  BY <1>1, <1>3, <1>4, <1>6, <1>7, <1>8

\* The last call of the stack with fewer matches, and further calls.
LEMMA CallOnFacts ==
    ASSUME NEW S, stack \in Seq(S), stack # <<>>, NEW m,
           [Top EXCEPT !.todo = @ \ {m}] \in S, NEW fs \in Seq(S)
    PROVE  /\ CallOn(m, fs) \in Seq(S)
           /\ CallOn(m, fs) = Pop \o (<<[Top EXCEPT !.todo = @ \ {m}]>> \o fs)
<1> DEFINE f == [Top EXCEPT !.todo = @ \ {m}]
<1>1. Pop \in Seq(S)
  BY StackFacts
<1> HIDE DEF f
<1>2. f \in S
  BY DEF f
<1>3. Append(Pop, f) \in Seq(S)
  BY <1>1, <1>2, AppendProperties
<1>4. Append(Pop, f) = Pop \o <<f>>
  BY <1>1, <1>2, AppendIsConcat
<1>5. <<f>> \in Seq(S)
  BY <1>2
<1>6. (Pop \o <<f>>) \o fs = Pop \o (<<f>> \o fs)
  BY <1>1, <1>5, ConcatAssociative
<1> QED
  BY <1>3, <1>4, <1>6, ConcatProperties DEF CallOn, f

-----------------------------------------------------------------------------
(* The type invariant *)

\* The type invariant holds before the first event.
LEMMA TypeInit == Init => TypeInv
<1> SUFFICES ASSUME Init PROVE TypeInv
  OBVIOUS
<1>1. EventIds = {}
  BY DEF Init, EventIds
<1>2. Range(unreported) = {} /\ Range(matches) = {}
  BY DEF Init, Range
<1> QED
  BY <1>1, <1>2 DEF Init, TypeInv, TypeOK

\* Frames that are pushed.
LEMMA FrameFacts ==
    /\ \A i \in 0..Levels, T \in SUBSET Match :
        AddFrame(i, T) \in Frame /\ AddFrame(i, T).op = "add"
    /\ \A i \in 1..Levels, m \in Match, E \in SUBSET EventIds :
        CompareFrame(i, m, E) \in Frame /\ CompareFrame(i, m, E).op = "compare"
    /\ \A f \in Frame : f.op \in {"add", "compare"}
    /\ \A f \in Frame : f.op = "add" =>
        /\ f.level \in 0..Levels
        /\ f.todo \in SUBSET Match
        /\ \A m : [f EXCEPT !.todo = @ \ {m}] = AddFrame(f.level, f.todo \ {m})
    /\ \A f \in Frame : f.op = "compare" =>
        f.level \in 1..Levels /\ f.match \in Match /\ f.todo \in SUBSET EventIds
BY DEF Frame, AddFrame, CompareFrame

\* The newest event is the last position of the stream.
LEMMA StreamFacts ==
    ASSUME TypeInv
    PROVE  /\ Newest \in Nat
           /\ EventIds = 1..Newest
           /\ \A e \in EventIds : stream[e] \in Event /\ stream[e].ts \in Nat
           /\ stream # <<>> => Newest \in EventIds /\ Now \in Nat
<1>1. stream \in Seq(Event)
  BY DEF TypeInv
<1>2. Len(stream) \in Nat /\ EventIds = 1..Len(stream)
  BY <1>1, LenProperties DEF EventIds
<1>3. \A e \in EventIds : stream[e] \in Event
  BY <1>1, <1>2, ElementOfSeq
<1>4. \A e \in EventIds : stream[e].ts \in Nat
  BY <1>3 DEF Event
<1>5. stream # <<>> => Len(stream) \in EventIds
  BY <1>1, <1>2, EmptySeq
<1> QED
  BY <1>2, <1>3, <1>4, <1>5 DEF Newest, Now

\* Reading an event: what was typed by the shorter stream stays typed.
LEMMA TypeReadEvent ==
    ASSUME TypeInv, ReadEvent
    PROVE  TypeInv'
<1>1. PICK k \in Kind, ts \in NextStamps :
        stream' = Append(stream, [type |-> k.type, ts |-> ts, val |-> k.val])
  BY DEF ReadEvent
<1>2. ts \in Nat
  <2>1. CASE stream = <<>>
    BY <2>1 DEF NextStamps
  <2>2. CASE stream # <<>>
    BY <2>2, StreamFacts, BoundAssumption DEF NextStamps
  <2> QED
    BY <2>1, <2>2
<1> DEFINE x == [type |-> k.type, ts |-> ts, val |-> k.val]
<1>3. x \in Event
  BY <1>2 DEF Event
<1> HIDE DEF x
<1>4. /\ stream' \in Seq(Event)
      /\ Len(stream') = Len(stream) + 1
      /\ Len(stream) \in Nat
  BY <1>1, <1>3, AppendProperties, LenProperties DEF TypeInv, x
<1>5. EventIds' = 1..Len(stream') /\ EventIds \subseteq EventIds'
  BY <1>4 DEF EventIds
<1>6. \A i \in EventIds' : stream'[i] \in Event
  BY <1>4, <1>5, ElementOfSeq
<1>7. Match \subseteq Match'
  BY <1>5 DEF Match
<1>8. /\ negStore \in [Negative -> SUBSET EventIds']
      /\ pending \in SUBSET Match'
      /\ Range(unreported) \subseteq Match'
      /\ Range(matches) \subseteq Match'
      /\ unreported \in Seq(Match')
      /\ matches \in Seq(Match')
  BY <1>5, <1>7 DEF TypeInv, TypeOK
<1>9. stack = <<>> /\ playing' \in SUBSET Name /\ phase' \in {"idle", "playing"}
  BY DEF ReadEvent, TypeInv, TypeOK
<1>10. phase' = "idle" => playing' = {}
  BY DEF ReadEvent
<1>11. /\ UNCHANGED <<stack, negStore, access, pending, unreported, matches>>
       /\ FirstUnbounded' = FirstUnbounded
  BY DEF ReadEvent, FirstUnbounded, Unbounded
<1>12. TypeOK'
  BY <1>6, <1>8, <1>9, <1>10, <1>11 DEF TypeInv, TypeOK, Event
<1>13. stream' # <<>>
  BY <1>1, <1>3, AppendProperties DEF TypeInv, x
<1> QED
  BY <1>4, <1>8, <1>9, <1>11, <1>12, <1>13 DEF TypeInv

\* No other step reads events.
LEMMA SameTypes ==
    ASSUME UNCHANGED stream
    PROVE  EventIds' = EventIds /\ Match' = Match /\ Frame' = Frame
BY DEF EventIds, Match, Frame, Levels

\* What a cleanup leaves, and what it says of the additions.
LEMMA CleaningTypes ==
    ASSUME TypeInv, NEW n \in Negative, NEW last
    PROVE  /\ LiveNegatives(n, last) \in SUBSET negStore[n]
           /\ negStore[n] \in SUBSET EventIds
           /\ AccessAfterCleaning(n) \in Nat
           /\ ExpiredPending(last) \in SUBSET pending
           /\ pending \in SUBSET Match
BY DEF TypeInv, TypeOK, LiveNegatives, AccessAfterCleaning, ExpiredPending

\* A match climbs one level.
LEMMA TypeClimb ==
    ASSUME TypeInv, Climb
    PROVE  TypeInv'
<1>1. /\ stack \in Seq(Frame) /\ stack # <<>>
      /\ Top \in Frame /\ Top.op = "add" /\ Top.level \in 0..Levels /\ Top.level < Levels
  BY StackFacts, FrameFacts DEF TypeInv, Climb
<1> DEFINE i == Top.level + 1
           n == Chain[i]
<1>2. PICK m \in Top.todo :
        LET last == LastTimestamp(m)
            live == LiveNegatives(n, last)
            flushed == IF i = FirstUnbounded THEN ExpiredPending(last) ELSE {}
        IN  /\ negStore' = [negStore EXCEPT ![n] = live]
            /\ access' = [access EXCEPT ![n] = AccessAfterCleaning(n)]
            /\ pending' = pending \ flushed
            /\ stack' = CallOn(m, IF flushed = {}
                    THEN <<CompareFrame(i, m, live)>>
                    ELSE <<CompareFrame(i, m, live), AddFrame(i, flushed)>>)
  BY DEF Climb
<1> DEFINE last == LastTimestamp(m)
           live == LiveNegatives(n, last)
           flushed == IF i = FirstUnbounded THEN ExpiredPending(last) ELSE {}
           f == [Top EXCEPT !.todo = @ \ {m}]
           fs == IF flushed = {} THEN <<CompareFrame(i, m, live)>>
                 ELSE <<CompareFrame(i, m, live), AddFrame(i, flushed)>>
<1>3. i \in 1..Levels /\ n \in Negative /\ m \in Match /\ Top.todo \in SUBSET Match
  BY <1>1, ChainFacts, FrameFacts
<1> HIDE DEF i, n
<1>4. /\ live \in SUBSET EventIds /\ flushed \in SUBSET Match
      /\ AccessAfterCleaning(n) \in Nat
  BY <1>3, CleaningTypes
<1>5. /\ f \in Frame
      /\ CompareFrame(i, m, live) \in Frame
      /\ AddFrame(i, flushed) \in Frame
  <2>1. f = AddFrame(Top.level, Top.todo \ {m}) /\ Top.todo \ {m} \in SUBSET Match
    BY <1>1, <1>3, FrameFacts
  <2> HIDE DEF f, live, flushed
  <2>2. i \in 0..Levels
    BY <1>3
  <2> QED
    BY <1>1, <1>3, <1>4, <2>1, <2>2, FrameFacts
<1>6. fs \in Seq(Frame)
  BY <1>5
<1>7. stack' \in Seq(Frame)
  <2>1. stack' = CallOn(m, fs)
    BY <1>2
  <2> HIDE DEF fs, f
  <2>2. [Top EXCEPT !.todo = @ \ {m}] \in Frame
    BY <1>5 DEF f
  <2> QED
    BY <1>1, <1>6, <2>1, <2>2, CallOnFacts
<1>8. \A j \in DOMAIN stack' : stack'[j] \in Frame
  BY <1>7
<1>9. UNCHANGED <<stream, phase, playing, unreported, matches>>
  BY DEF Climb
<1>10. /\ negStore' \in [Negative -> SUBSET EventIds]
       /\ access' \in [Negative -> Nat]
       /\ pending' \in SUBSET pending
  BY <1>2, <1>4 DEF TypeInv, TypeOK
<1>11. phase \notin {"idle", "closed"} /\ FirstUnbounded' = FirstUnbounded
  BY <1>1 DEF TypeInv, TypeOK, FirstUnbounded, Unbounded
<1>12. TypeOK'
  BY <1>8, <1>9, <1>10, <1>11, SameTypes DEF TypeInv, TypeOK
<1> QED
  BY <1>7, <1>9, <1>12, SameTypes DEF TypeInv

\* A step that leaves the stream alone keeps the types if the stack, the
\* storages and the matches keep theirs.
LEMMA TypesKept ==
    ASSUME TypeInv, UNCHANGED stream,
           phase' \in {"idle", "playing", "ending", "closed"},
           playing' \in SUBSET playing,
           stack' \in Seq(Frame),
           negStore' \in [Negative -> SUBSET EventIds], access' \in [Negative -> Nat],
           pending' \in SUBSET Match, FirstUnbounded = 0 => pending' = {},
           unreported' \in Seq(Match), matches' \in Seq(Match),
           phase' \in {"idle", "closed"} => playing' = {} /\ stack' = <<>>
    PROVE  TypeInv'
<1>1. /\ EventIds' = EventIds /\ Match' = Match /\ Frame' = Frame
      /\ FirstUnbounded' = FirstUnbounded
  BY SameTypes DEF FirstUnbounded, Unbounded
<1>2. \A i \in DOMAIN stack' : stack'[i] \in Frame
  BY ElementOfSeq
<1>3. Range(unreported') \subseteq Match /\ Range(matches') \subseteq Match
  BY ElementOfSeq DEF Range
<1>4. TypeOK'
  BY <1>1, <1>2, <1>3 DEF TypeInv, TypeOK
<1> QED
  BY <1>1, <1>4 DEF TypeInv

\* What a step that starts from the stack finds there.
LEMMA TopFacts ==
    ASSUME TypeInv, stack # <<>>
    PROVE  /\ Top \in Frame
           /\ Pop \in Seq(Frame)
           /\ phase \in {"playing", "ending"}
           /\ Top.op = "add" =>
                /\ Top.level \in 0..Levels
                /\ Top.todo \in SUBSET Match
           /\ Top.op = "compare" =>
                /\ Top.level \in 1..Levels
                /\ Top.match \in Match
                /\ Top.todo \in SUBSET EventIds
<1>1. stack \in Seq(Frame)
  BY DEF TypeInv
<1>2. Top \in Frame /\ Pop \in Seq(Frame)
  BY <1>1, StackFacts
<1>3. phase \in {"playing", "ending"}
  BY DEF TypeInv, TypeOK
<1> QED
  BY <1>2, <1>3, FrameFacts

\* The call goes on with the rest of its matches.
LEMMA ShorterTop ==
    ASSUME TypeInv, stack # <<>>, Top.op = "add", NEW m
    PROVE  /\ [Top EXCEPT !.todo = @ \ {m}] = AddFrame(Top.level, Top.todo \ {m})
           /\ AddFrame(Top.level, Top.todo \ {m}) \in Frame
<1>1. Top \in Frame /\ Top.level \in 0..Levels /\ Top.todo \ {m} \in SUBSET Match
  BY TopFacts
<1> QED
  BY <1>1, FrameFacts

\* A leaf takes the newest event.
LEMMA TypeHandle ==
    ASSUME TypeInv
    PROVE  /\ \A l \in Positive : HandlePositive(l) => TypeInv'
           /\ \A n \in Negative : HandleNegative(n) => TypeInv'
<1>1. ASSUME NEW l \in Positive, HandlePositive(l)
      PROVE  TypeInv'
  <2> DEFINE T == {m \in PositiveMatches(stream) : m[l] = Newest}
  <2>1. T \in SUBSET Match
    BY DEF PositiveMatches, Match, EventIds
  <2>2. 0 \in 0..Levels
    BY ChainFacts
  <2>3. stack' = <<AddFrame(0, T)>>
    BY <1>1 DEF HandlePositive
  <2> HIDE DEF T
  <2>4. stack' \in Seq(Frame)
    BY <2>1, <2>2, <2>3, FrameFacts
  <2>5. phase' = phase /\ phase \notin {"idle", "closed"}
    BY <1>1 DEF HandlePositive, TypeInv, TypeOK
  <2> QED
    BY <1>1, <2>4, <2>5, TypesKept DEF HandlePositive, TypeInv, TypeOK
<1>2. ASSUME NEW n \in Negative, HandleNegative(n)
      PROVE  TypeInv'
  <2>1. phase' = phase /\ phase \notin {"idle", "closed"}
    BY <1>2 DEF HandleNegative, TypeInv, TypeOK
  <2>2. Newest \in EventIds
    <3>1. stream # <<>>
      BY <1>2 DEF HandleNegative, TypeInv
    <3> QED
      BY <3>1, StreamFacts
  <2>3. KeptPending(n) \in SUBSET pending
    BY DEF KeptPending
  <2>4. /\ LiveNegatives(n, Now) \cup {Newest} \in SUBSET EventIds
        /\ LiveNegatives(n, Now) \in SUBSET EventIds
        /\ AccessAfterCleaning(n) \in Nat
        /\ AccessAfterCleaning(n) + 1 \in Nat
    BY <2>2, CleaningTypes
  <2>5. /\ negStore' \in [Negative -> SUBSET EventIds]
        /\ access' \in [Negative -> Nat]
        /\ pending' \in SUBSET pending
    BY <1>2, <2>3, <2>4 DEF HandleNegative, TypeInv, TypeOK
  <2> QED
    BY <1>2, <2>1, <2>5, TypesKept DEF HandleNegative, TypeInv, TypeOK
<1> QED
  BY <1>1, <1>2

\* The calls come to an end.
LEMMA TypeStack ==
    ASSUME TypeInv
    PROVE  /\ ReachOutput => TypeInv'
           /\ FinishAdd => TypeInv'
           /\ DropMatch => TypeInv'
           /\ PassMatch => TypeInv'
<1>1. CASE ReachOutput
  <2>1. stack # <<>> /\ Top.op = "add"
    BY <1>1 DEF ReachOutput
  <2>2. PICK m \in Top.todo :
            unreported' = Append(unreported, m) /\ stack' = CallOn(m, <<>>)
    BY <1>1 DEF ReachOutput
  <2>3. stack' \in Seq(Frame)
    <3>1. [Top EXCEPT !.todo = @ \ {m}] \in Frame
      BY ONLY TypeInv, <2>1, ShorterTop
    <3>2. <<>> \in Seq(Frame) /\ stack \in Seq(Frame)
      BY DEF TypeInv
    <3> QED
      BY <2>1, <2>2, <3>1, <3>2, CallOnFacts
  <2>4. unreported' \in Seq(Match)
    BY <2>1, <2>2, TopFacts, AppendProperties DEF TypeInv
  <2> QED
    BY <1>1, <2>1, <2>3, <2>4, TopFacts, TypesKept DEF ReachOutput, TypeInv, TypeOK
<1>2. CASE FinishAdd
  BY <1>2, TopFacts, TypesKept DEF FinishAdd, TypeInv, TypeOK
<1>3. CASE DropMatch
  BY <1>3, TopFacts, TypesKept DEF DropMatch, TypeInv, TypeOK
<1>4. CASE PassMatch
  <2>1. /\ stack # <<>> /\ Top.level \in 1..Levels /\ Top.match \in Match
        /\ Pop \in Seq(Frame) /\ phase \in {"playing", "ending"}
    BY <1>4, TopFacts DEF PassMatch
  <2>2. stack' \in Seq(Frame) /\ pending' \in SUBSET Match
    <3>1. CASE Top.level = FirstUnbounded
      BY <1>4, <2>1, <3>1 DEF PassMatch, TypeInv, TypeOK
    <3>2. CASE Top.level # FirstUnbounded
      <4>1. AddFrame(Top.level, {Top.match}) \in Frame
        BY <2>1, FrameFacts
      <4>2. /\ stack' = Append(Pop, AddFrame(Top.level, {Top.match}))
            /\ pending' = pending
        BY <1>4, <3>2 DEF PassMatch
      <4>3. stack' \in Seq(Frame)
        BY <2>1, <4>1, <4>2, AppendProperties
      <4> QED
        BY <4>2, <4>3 DEF TypeInv, TypeOK
    <3> QED
      BY <3>1, <3>2
  <2>3. FirstUnbounded = 0 => pending' = {}
    BY <1>4, <2>1 DEF PassMatch, TypeInv, TypeOK
  <2> QED
    BY <1>4, <2>1, <2>2, <2>3, TypesKept DEF PassMatch, TypeInv, TypeOK
<1> QED
  BY <1>1, <1>2, <1>3, <1>4

\* The matches are collected and the stream ends.
LEMMA TypeReport ==
    ASSUME TypeInv
    PROVE  /\ ReportMatch => TypeInv'
           /\ FinishEvent => TypeInv'
           /\ End => TypeInv'
<1>1. CASE ReportMatch
  <2>1. Head(unreported) \in Match /\ Tail(unreported) \in Seq(Match)
    BY <1>1, HeadTailProperties DEF ReportMatch, TypeInv
  <2>2. matches' \in Seq(Match) /\ unreported' \in Seq(Match)
    BY <1>1, <2>1, AppendProperties DEF ReportMatch, TypeInv
  <2> QED
    BY <1>1, <2>2, TypesKept DEF ReportMatch, TypeInv, TypeOK
<1>2. CASE FinishEvent
  BY <1>2, TypesKept DEF FinishEvent, Settled, TypeInv, TypeOK
<1>3. CASE End
  <2>1. stack' \in Seq(Frame)
    <3>1. pending \in SUBSET Match
      BY DEF TypeInv, TypeOK
    <3>2. AddFrame(FirstUnbounded, pending) \in Frame
      BY <3>1, FrameFacts, FirstUnboundedIs
    <3> QED
      BY <1>3, <3>2 DEF End, TypeInv
  <2> QED
    BY <1>3, <2>1, TypesKept DEF End, TypeInv, TypeOK
<1> QED
  BY <1>1, <1>2, <1>3

\* Every step keeps the types.
LEMMA TypeNext == TypeInv /\ [Next]_vars => TypeInv'
<1> SUFFICES ASSUME TypeInv, [Next]_vars
             PROVE  TypeInv'
  OBVIOUS
<1>1. CASE UNCHANGED vars
  BY <1>1, TypesKept DEF vars, TypeInv, TypeOK
<1>2. CASE Next
  BY <1>2, TypeReadEvent, TypeClimb, TypeHandle, TypeStack, TypeReport DEF Next, Step
<1> QED
  BY <1>1, <1>2

\* Every variable keeps its type through climbs, flushes and cleanups; between
\* two events no call is in progress, and without an unbounded node nothing is
\* ever pending.
THEOREM TypeCorrect == Spec => []TypeOK
<1>1. TypeInv => TypeOK
  BY DEF TypeInv
<1> QED
  BY <1>1, TypeInit, TypeNext, PTL DEF Spec

-----------------------------------------------------------------------------
(* Matches in the calls in progress *)

\* What two stacks put together carry.
LEMMA ConcatCalls ==
    ASSUME NEW S, NEW s \in Seq(S), NEW t \in Seq(S)
    PROVE  /\ Carries(s \o t) = Carries(s) \cup Carries(t)
           /\ OncePerCall(s) /\ OncePerCall(t) /\ Carries(s) \cap Carries(t) = {}
                => OncePerCall(s \o t)
<1>1. PICK k \in Nat, j \in Nat : Len(s) = k /\ Len(t) = j
  BY LenProperties
<1>2. /\ DOMAIN s = 1..k /\ DOMAIN t = 1..j
      /\ DOMAIN (s \o t) = 1..(k + j)
      /\ \A i \in 1..k : (s \o t)[i] = s[i]
      /\ \A i \in (k + 1)..(k + j) : (s \o t)[i] = t[i - k] /\ i - k \in 1..j
  BY <1>1
<1>3. \A i \in 1..j : (s \o t)[i + k] = t[i] /\ i + k \in 1..(k + j)
  BY <1>1, <1>2
<1>4. \A i \in 1..(k + j) : i \in 1..k \/ i \in (k + 1)..(k + j)
  BY <1>1
<1>5. Carries(s \o t) = Carries(s) \cup Carries(t)
  <2>1. ASSUME NEW m \in Carries(s \o t)
        PROVE  m \in Carries(s) \cup Carries(t)
    <3>1. PICK i \in 1..(k + j) : m \in Carried((s \o t)[i])
      BY <1>2 DEF Carries
    <3> QED
      BY <1>2, <1>4, <3>1 DEF Carries
  <2>2. Carries(s) \subseteq Carries(s \o t)
    <3>1. \A i \in 1..k : i \in 1..(k + j)
      BY <1>1
    <3> QED
      BY <1>2, <3>1 DEF Carries
  <2>3. Carries(t) \subseteq Carries(s \o t)
    BY <1>2, <1>3 DEF Carries
  <2> QED
    BY <2>1, <2>2, <2>3
<1>6. ASSUME OncePerCall(s), OncePerCall(t), Carries(s) \cap Carries(t) = {},
             NEW i \in 1..(k + j), NEW h \in 1..(k + j), i # h
      PROVE  Carried((s \o t)[i]) \cap Carried((s \o t)[h]) = {}
  <2>1. CASE i \in 1..k /\ h \in 1..k
    BY <1>2, <1>6, <2>1 DEF OncePerCall
  <2>2. CASE i \in (k + 1)..(k + j) /\ h \in (k + 1)..(k + j)
    <3>1. i - k # h - k
      BY <1>6
    <3> QED
      BY <1>2, <1>6, <2>2, <3>1 DEF OncePerCall
  <2>3. CASE i \in 1..k /\ h \in (k + 1)..(k + j)
    <3>1. /\ Carried((s \o t)[i]) \subseteq Carries(s)
          /\ Carried((s \o t)[h]) \subseteq Carries(t)
      BY <1>2, <2>3 DEF Carries
    <3> QED
      BY <1>6, <3>1
  <2>4. CASE i \in (k + 1)..(k + j) /\ h \in 1..k
    <3>1. /\ Carried((s \o t)[i]) \subseteq Carries(t)
          /\ Carried((s \o t)[h]) \subseteq Carries(s)
      BY <1>2, <2>4 DEF Carries
    <3> QED
      BY <1>6, <3>1
  <2> QED
    BY <1>4, <2>1, <2>2, <2>3, <2>4
<1> QED
  BY <1>2, <1>5, <1>6 DEF OncePerCall

\* What no, one and two calls carry.
LEMMA FewCalls ==
    /\ Carries(<<>>) = {} /\ OncePerCall(<<>>)
    /\ \A f : Carries(<<f>>) = Carried(f) /\ OncePerCall(<<f>>)
    /\ \A f, g : /\ Carries(<<f, g>>) = Carried(f) \cup Carried(g)
                 /\ Carried(f) \cap Carried(g) = {} => OncePerCall(<<f, g>>)
<1>1. Carries(<<>>) = {} /\ OncePerCall(<<>>)
  BY DEF Carries, OncePerCall
<1>2. ASSUME NEW f
      PROVE  Carries(<<f>>) = Carried(f) /\ OncePerCall(<<f>>)
  <2>1. DOMAIN <<f>> = {1} /\ <<f>>[1] = f
    OBVIOUS
  <2> QED
    BY <2>1, Zenon DEF Carries, OncePerCall
<1>3. ASSUME NEW f, NEW g
      PROVE  /\ Carries(<<f, g>>) = Carried(f) \cup Carried(g)
             /\ Carried(f) \cap Carried(g) = {} => OncePerCall(<<f, g>>)
  <2>1. DOMAIN <<f, g>> = {1, 2} /\ <<f, g>>[1] = f /\ <<f, g>>[2] = g
    OBVIOUS
  <2> DEFINE s == <<f, g>>
  <2> HIDE DEF s
  <2>2. Carries(s) = Carried(f) \cup Carried(g)
    BY <2>1 DEF Carries, s
  <2>3. Carried(f) \cap Carried(g) = {} => OncePerCall(s)
    BY <2>1 DEF OncePerCall, s
  <2> QED
    BY <2>2, <2>3 DEF s
<1> QED
  BY <1>1, <1>2, <1>3

\* What the calls below the top carry.
LEMMA PopCalls ==
    ASSUME NEW S, stack \in Seq(S), stack # <<>>, OncePerCall(stack)
    PROVE  /\ OncePerCall(Pop)
           /\ Carries(stack) = Carries(Pop) \cup Carried(Top)
           /\ Carries(Pop) \cap Carried(Top) = {}
<1>1. PICK k \in Nat : Len(stack) = k + 1
  BY StackFacts
<1>2. /\ DOMAIN stack = 1..(k + 1) /\ DOMAIN Pop = 1..k
      /\ \A i \in 1..k : Pop[i] = stack[i] /\ i \in 1..(k + 1) /\ i # k + 1
      /\ Top = stack[k + 1] /\ k + 1 \in 1..(k + 1)
      /\ \A i \in 1..(k + 1) : i \in 1..k \/ i = k + 1
  BY <1>1, StackFacts DEF Top
<1>3. OncePerCall(Pop)
  BY <1>2 DEF OncePerCall
<1>4. Carries(stack) = Carries(Pop) \cup Carried(Top)
  BY <1>2 DEF Carries
<1>5. Carries(Pop) \cap Carried(Top) = {}
  BY <1>2 DEF Carries, OncePerCall
<1> QED
  BY <1>3, <1>4, <1>5

\* What is demanded of a frame.
LEMMA FrameOKOf ==
    /\ \A i, T : /\ Carried(AddFrame(i, T)) = T
                 /\ FrameOK(AddFrame(i, T)) <=>
                    \/ /\ phase = "playing"
                       /\ i < Levels \/ FirstUnbounded = 0
                       /\ \A m \in T : Climbing(m, i)
                    \/ /\ i = Levels /\ FirstUnbounded # 0
                       /\ \A m \in T : Final(m)
    /\ \A i, m, E : /\ Carried(CompareFrame(i, m, E)) = {m}
                    /\ FrameOK(CompareFrame(i, m, E)) <=>
                        /\ phase = "playing"
                        /\ Climbing(m, i - 1)
                        /\ HasNegatives(Chain[i], E)
BY DEF AddFrame, CompareFrame, FrameOK, AddOK, CompareOK, Carried

-----------------------------------------------------------------------------
(* Times *)

\* The earliest timestamp of a match is that of one of its events.
LEMMA TimestampsAre ==
    ASSUME TypeInv, NEW m \in Match
    PROVE  /\ \A l \in Positive : m[l] \in EventIds /\ stream[m[l]].ts \in Nat
           /\ \E l \in Positive : FirstTimestamp(m) = stream[m[l]].ts
<1> DEFINE f == [l \in Positive |-> stream[m[l]].ts]
           T == {stream[m[l]].ts : l \in Positive}
<1>1. \A l \in Positive : m[l] \in EventIds /\ stream[m[l]].ts \in Nat
  BY StreamFacts DEF Match
<1>2. PICK k \in Positive : \A l \in Positive : f[k] <= f[l]
  <2>1. f \in [Positive -> Nat] /\ Positive # {}
    BY <1>1, NegationAssumption
  <2> HIDE DEF f
  <2> QED
    BY <2>1, ExtremesOf
<1>3. \A l \in Positive : stream[m[k]].ts <= stream[m[l]].ts
  BY <1>2
<1>4. stream[m[k]].ts \in T
  OBVIOUS
<1>5. FirstTimestamp(m) = CHOOSE t \in T : \A l \in Positive : t <= stream[m[l]].ts
  BY DEF FirstTimestamp
<1>6. FirstTimestamp(m) \in T
  BY <1>3, <1>4, <1>5
<1> QED
  BY <1>1, <1>6

\* The last timestamp of a match that contains the newest event.
LEMMA LastIsNow ==
    ASSUME TypeInv, StreamInv, NEW m \in Match, Newest \in Range(m)
    PROVE  LastTimestamp(m) = Now
<1> DEFINE T == {stream[m[l]].ts : l \in Positive}
<1>1. PICK k \in Positive : m[k] = Newest
  BY DEF Match, Range
<1>2. \A l \in Positive : /\ m[l] \in EventIds /\ m[l] <= Newest
                          /\ stream[m[l]].ts \in Nat
  BY TimestampsAre, StreamFacts
<1>3. Newest \in EventIds
  BY <1>1, <1>2
<1>4. \A l \in Positive : stream[m[l]].ts <= Now
  BY <1>2, <1>3 DEF StreamInv, Now
<1>5. Now \in T /\ Now \in Nat
  BY <1>1, <1>2 DEF Now
<1>6. \A t \in T : t \in Nat /\ (t = Now \/ t < Now)
  BY <1>2, <1>4, <1>5
<1>7. \A t \in T : (\A l \in Positive : stream[m[l]].ts <= t) => t = Now
  <2> SUFFICES ASSUME NEW t \in T, \A l \in Positive : stream[m[l]].ts <= t
               PROVE  t = Now
    OBVIOUS
  <2>1. Now <= t
    BY <1>1 DEF Now
  <2> QED
    BY <1>5, <1>6, <2>1
<1>8. LastTimestamp(m) = CHOOSE t \in T : \A l \in Positive : stream[m[l]].ts <= t
  BY DEF LastTimestamp
<1> QED
  BY <1>4, <1>5, <1>7, <1>8

-----------------------------------------------------------------------------
(* Steps on the stack *)

\* As long as neither the stream nor what waits to be played changes, the parts
\* of the invariant speak of the new calls, storages and matches only.
LEMMA SameEvent ==
    ASSUME UNCHANGED <<stream, phase, playing>>
    PROVE  /\ Waiting' = Waiting
           /\ StreamInv' <=> StreamInv
           /\ NegativesInv' <=> \A n \in Negative : HasNegatives(n, negStore'[n])
           /\ CallInv' <=> \A i \in DOMAIN stack' : FrameOK(stack'[i])
           /\ PendingInv' <=> \A m \in pending' : PendingOK(m)
           /\ OutInv' <=> \A m \in Range(unreported') \cup Range(matches') : Final(m)
<1>1. EventIds' = EventIds /\ Newest' = Newest /\ Now' = Now /\ Match' = Match
  BY DEF EventIds, Newest, Now, Match
<1>2. FirstUnbounded' = FirstUnbounded /\ Levels' = Levels
  BY DEF FirstUnbounded, Unbounded, Levels
<1>3. Waiting' = Waiting
  BY <1>1 DEF Waiting
<1>4. StreamInv' <=> StreamInv
  BY <1>1 DEF StreamInv
<1>5. NegativesInv' <=> \A n \in Negative : HasNegatives(n, negStore'[n])
  BY <1>1 DEF NegativesInv, HasNegatives, Seen
<1>6. CallInv' <=> \A i \in DOMAIN stack' : FrameOK(stack'[i])
  BY <1>1, <1>2 DEF CallInv, FrameOK, AddOK, CompareOK, Climbing, Final, HasNegatives, Seen
<1>7. PendingInv' <=> \A m \in pending' : PendingOK(m)
  BY <1>1 DEF PendingInv, PendingOK, Seen
<1>8. OutInv' <=> \A m \in Range(unreported') \cup Range(matches') : Final(m)
  BY <1>1, <1>2 DEF OutInv, Final, Handed
<1> QED
  BY <1>3, <1>4, <1>5, <1>6, <1>7, <1>8

\* Sequence s is p, of length k, followed by q, of length j.
Joined(s, p, q, k, j) ==
    /\ DOMAIN q = 1..j /\ DOMAIN s = 1..(k + j)
    /\ \A h \in 1..k : s[h] = p[h]
    /\ \A h \in (k + 1)..(k + j) : s[h] = q[h - k] /\ h - k \in 1..j

\* The indices of two sequences that are put together.
LEMMA ConcatIndices ==
    ASSUME NEW S, NEW p \in Seq(S), NEW q \in Seq(S), NEW k \in Nat, NEW j \in Nat,
           Len(p) = k, Len(q) = j
    PROVE  Joined(p \o q, p, q, k, j)
<1>1. DOMAIN q = 1..j /\ DOMAIN (p \o q) = 1..(k + j)
  OBVIOUS
<1>2. ASSUME NEW h \in 1..k
      PROVE  (p \o q)[h] = p[h]
  OBVIOUS
<1>3. ASSUME NEW h \in (k + 1)..(k + j)
      PROVE  (p \o q)[h] = q[h - k] /\ h - k \in 1..j
  OBVIOUS
<1> QED
  BY <1>1, <1>2, <1>3 DEF Joined

\* A step that replaces the innermost call by calls fs.
LEMMA CallsReplaced ==
    ASSUME IInv, stack # <<>>, UNCHANGED <<stream, phase, playing>>,
           NEW fs \in Seq(Frame), stack' = Pop \o fs,
           \A i \in DOMAIN fs : FrameOK(fs[i]),
           OncePerCall(fs), Carries(fs) \cap Carries(Pop) = {}
    PROVE  /\ CallInv'
           /\ OncePerCall(stack')
           /\ Carries(stack') = Carries(Pop) \cup Carries(fs)
<1>1. stack \in Seq(Frame) /\ OncePerCall(stack)
  BY DEF IInv, TypeInv, PlaceInv
<1>2. Pop \in Seq(Frame) /\ OncePerCall(Pop)
  BY <1>1, StackFacts, PopCalls
<1>3. /\ OncePerCall(stack')
      /\ Carries(stack') = Carries(Pop) \cup Carries(fs)
  BY <1>2, ConcatCalls
<1>4. ASSUME NEW i \in DOMAIN stack'
      PROVE  FrameOK(stack'[i])
  <2>1. PICK k \in Nat, j \in Nat : Len(Pop) = k /\ Len(fs) = j
    BY <1>2, LenProperties
  <2>2. /\ DOMAIN fs = 1..j /\ DOMAIN stack' = 1..(k + j)
        /\ \A h \in 1..k : stack'[h] = Pop[h]
        /\ \A h \in (k + 1)..(k + j) : stack'[h] = fs[h - k] /\ h - k \in 1..j
    <3>1. /\ Pop \in Seq(Frame) /\ fs \in Seq(Frame)
          /\ k \in Nat /\ j \in Nat /\ Len(Pop) = k /\ Len(fs) = j
      BY <1>2, <2>1
    <3>2. Joined(Pop \o fs, Pop, fs, k, j)
      BY ONLY <3>1, ConcatIndices
    <3> QED
      BY <3>2 DEF Joined
  <2>3. CASE i \in 1..k
    <3>1. i \in DOMAIN stack /\ Pop[i] = stack[i]
      BY <1>1, <2>1, <2>3, StackFacts
    <3> QED
      BY <2>2, <2>3, <3>1 DEF IInv, CallInv
  <2>4. CASE i \in (k + 1)..(k + j)
    BY <2>2, <2>4
  <2> QED
    BY <2>1, <2>2, <2>3, <2>4
<1>5. CallInv'
  BY <1>4, SameEvent
<1> QED
  BY <1>3, <1>5

\* The matches of the innermost call, and those elsewhere.
LEMMA TopPlace ==
    ASSUME IInv, stack # <<>>
    PROVE  /\ Carries(stack) = Carries(Pop) \cup Carried(Top)
           /\ Carries(Pop) \cap Carried(Top) = {}
           /\ FrameOK(Top)
           /\ Top.op = "add" => Carried(Top) = Top.todo
           /\ Top.op = "compare" => Carried(Top) = {Top.match}
<1>1. stack \in Seq(Frame) /\ OncePerCall(stack)
  BY DEF IInv, TypeInv, PlaceInv
<1>2. Len(stack) \in DOMAIN stack
  BY <1>1, StackFacts
<1>3. FrameOK(Top)
  BY <1>2 DEF Top, IInv, CallInv
<1> QED
  BY <1>1, <1>3, PopCalls DEF Carried

\* Only negative events that no match in progress can reach are cleaned away.
LEMMA CleaningKeeps ==
    ASSUME TypeInv, NegativesInv, NEW n \in Negative
    PROVE  HasNegatives(n, LiveNegatives(n, Now))
<1>1. HasNegatives(n, negStore[n])
  BY DEF NegativesInv
<1> QED
  BY <1>1 DEF HasNegatives, LiveNegatives

\* A pending match whose window is over is prevented by nothing any more, the
\* newest event included.
LEMMA ExpiredIsFinal ==
    ASSUME TypeInv, PendingInv, NEW m \in ExpiredPending(Now)
    PROVE  Final(m)
<1>1. m \in pending /\ FirstTimestamp(m) < Now - Window
  BY DEF ExpiredPending
<1>2. m \in Match /\ PendingOK(m)
  BY <1>1 DEF TypeInv, TypeOK, PendingInv
<1>3. PICK l \in Positive : FirstTimestamp(m) = stream[m[l]].ts
  BY <1>2, TimestampsAre
<1>4. m[l] \in EventIds /\ stream[m[l]].ts \in Nat /\ Now \in Nat /\ Window \in Nat
  <2>1. m[l] \in EventIds /\ stream[m[l]].ts \in Nat
    BY <1>2, TimestampsAre
  <2>2. stream # <<>>
    BY <2>1, StreamFacts DEF Newest
  <2> QED
    BY <2>1, <2>2, StreamFacts, NegationAssumption
<1>5. Now - stream[m[l]].ts > Window
  BY <1>1, <1>3, <1>4
<1>6. m \in [Positive -> Nat]
  BY <1>2, StreamFacts DEF Match
<1>7. ASSUME NEW n \in Negative, NEW e \in EventIds, PreventedBy(stream, n, m, e)
      PROVE  FALSE
  <2>1. e = Newest
    BY <1>2, <1>7 DEF PendingOK, Seen
  <2>2. stream[e].ts - stream[m[l]].ts <= Window
    BY <1>6, <1>7, InvalidatesFacts DEF PreventedBy
  <2> QED
    BY <1>4, <1>5, <2>1, <2>2 DEF Now
<1>8. m \in Demanded(stream)
  BY <1>2, <1>7 DEF Demanded, Prevented, PendingOK, EventIds
<1> QED
  BY <1>5, <1>8 DEF Final

\* A match arrives at a node: the pending matches that are flushed before it is
\* compared are final.
LEMMA ClimbInv ==
    ASSUME SingleUnbounded, IInv, Climb
    PROVE  IInv'
<1>1. /\ TypeInv /\ StreamInv /\ NegativesInv /\ PendingInv /\ PlaceInv /\ CoverInv
      /\ TypeInv'
  BY TypeClimb DEF IInv
<1>2. /\ stack \in Seq(Frame) /\ stack # <<>> /\ Top.op = "add"
      /\ Top.level \in 0..Levels /\ Top.level < Levels /\ Top.todo \in SUBSET Match
  BY <1>1, TopFacts DEF Climb, TypeInv
<1> DEFINE i == Top.level + 1
           n == Chain[i]
<1>3. PICK m \in Top.todo :
        LET last == LastTimestamp(m)
            live == LiveNegatives(n, last)
            flushed == IF i = FirstUnbounded THEN ExpiredPending(last) ELSE {}
        IN  /\ negStore' = [negStore EXCEPT ![n] = live]
            /\ pending' = pending \ flushed
            /\ stack' = CallOn(m, IF flushed = {}
                    THEN <<CompareFrame(i, m, live)>>
                    ELSE <<CompareFrame(i, m, live), AddFrame(i, flushed)>>)
  BY DEF Climb
<1>4. phase = "playing" /\ \A x \in Top.todo : Climbing(x, Top.level)
  BY <1>1, <1>2, TopPlace DEF FrameOK, AddOK
<1>5. m \in Match /\ Newest \in Range(m) /\ LastTimestamp(m) = Now
  BY <1>1, <1>2, <1>4, LastIsNow DEF Climbing
<1> DEFINE live == LiveNegatives(n, Now)
           flushed == IF i = FirstUnbounded THEN ExpiredPending(Now) ELSE {}
           f == AddFrame(Top.level, Top.todo \ {m})
           c == CompareFrame(i, m, live)
           a == AddFrame(i, flushed)
           gs == IF flushed = {} THEN <<c>> ELSE <<c, a>>
           fs == <<f>> \o gs
<1>6. i \in 1..Levels /\ n \in Negative /\ i - 1 = Top.level
  BY <1>2, ChainFacts
<1>7. /\ UNCHANGED <<stream, phase, playing, unreported, matches>>
      /\ negStore' = [negStore EXCEPT ![n] = live]
      /\ pending' = pending \ flushed
  BY <1>3, <1>5 DEF Climb
<1>8. /\ live \in SUBSET EventIds /\ flushed \in SUBSET pending /\ pending \in SUBSET Match
  BY <1>1, <1>6, CleaningTypes
<1>9. f \in Frame /\ c \in Frame /\ a \in Frame
  <2> HIDE DEF i, n, live, flushed
  <2>1. Top.todo \ {m} \in SUBSET Match /\ flushed \in SUBSET Match /\ i \in 0..Levels
    BY <1>2, <1>6, <1>8
  <2> QED
    BY <1>2, <1>5, <1>6, <1>8, <2>1, FrameFacts
<1>10. gs \in Seq(Frame) /\ <<f>> \in Seq(Frame) /\ stack' = Pop \o fs
  <2>1. stack' = CallOn(m, gs)
    BY <1>3, <1>5
  <2>2. [Top EXCEPT !.todo = @ \ {m}] = f
    BY <1>1, <1>2, ShorterTop
  <2> HIDE DEF f, c, a
  <2>3. gs \in Seq(Frame) /\ <<f>> \in Seq(Frame)
    BY <1>9
  <2> HIDE DEF gs
  <2>4. CallOn(m, gs) = Pop \o (<<[Top EXCEPT !.todo = @ \ {m}]>> \o gs)
    <3>1. [Top EXCEPT !.todo = @ \ {m}] \in Frame
      BY <1>9, <2>2
    <3> QED
      BY ONLY <1>2, <2>3, <3>1, CallOnFacts
  <2> QED
    BY <2>1, <2>2, <2>3, <2>4
<1>11. FrameOK(f) /\ FrameOK(c) /\ (flushed # {} => FrameOK(a))
  <2> HIDE DEF live, flushed, i, n
  <2>1. FrameOK(f)
    BY <1>2, <1>4, FrameOKOf
  <2>2. HasNegatives(Chain[i], live)
    BY <1>1, <1>6, CleaningKeeps DEF live, n
  <2>3. FrameOK(c)
    BY <1>4, <1>6, <2>2, FrameOKOf
  <2>4. ASSUME flushed # {}
        PROVE  FrameOK(a)
    <3>1. i = FirstUnbounded /\ flushed = ExpiredPending(Now)
      BY <2>4 DEF flushed
    <3>2. i = Levels
      BY <1>6, <3>1, UnboundedOnTop
    <3>3. \A x \in flushed : Final(x)
      BY <1>1, <3>1, ExpiredIsFinal
    <3> QED
      BY <1>6, <3>1, <3>2, <3>3, FrameOKOf
  <2> QED
    BY <2>1, <2>3, <2>4
<1>12. /\ Carried(f) = Top.todo \ {m} /\ Carried(c) = {m} /\ Carried(a) = flushed
       /\ Carried(Top) = Top.todo
  BY <1>1, <1>2, FrameOKOf, TopPlace
<1>13. /\ Kept = pending /\ Kept' = pending \ flushed /\ Handed' = Handed
  BY <1>4, <1>7 DEF Kept, Handed
<1> HIDE DEF flushed, live, f, c, a, i, n
<1>14. Carries(fs) = Top.todo \cup flushed /\ OncePerCall(fs)
  <2>1. flushed \cap Top.todo = {}
    BY <1>1, <1>2, <1>8, <1>12, <1>13, TopPlace DEF PlaceInv
  <2>2. Carries(gs) = {m} \cup flushed /\ OncePerCall(gs)
    <3>1. Carried(c) \cap Carried(a) = {}
      BY <1>3, <1>12, <2>1
    <3> QED
      BY <1>12, <3>1, FewCalls
  <2>3. Carries(<<f>>) = Top.todo \ {m} /\ OncePerCall(<<f>>)
    BY <1>12, FewCalls
  <2> HIDE DEF gs
  <2>4. Carries(<<f>>) \cap Carries(gs) = {}
    BY <2>1, <2>2, <2>3
  <2>5. Carries(fs) = Carries(<<f>>) \cup Carries(gs) /\ OncePerCall(fs)
    BY <1>10, <2>2, <2>3, <2>4, ConcatCalls
  <2> QED
    BY <1>3, <2>2, <2>3, <2>5
<1>15. \A j \in DOMAIN fs : FrameOK(fs[j])
  <2>1. CASE flushed = {}
    BY <1>11, <2>1
  <2>2. CASE flushed # {}
    BY <1>11, <2>2
  <2> QED
    BY <2>1, <2>2
<1>16. fs \in Seq(Frame)
  BY <1>10, ConcatProperties
<1> HIDE DEF fs, gs
<1>17. Carries(fs) \cap Carries(Pop) = {}
  BY <1>1, <1>2, <1>8, <1>12, <1>13, <1>14, TopPlace DEF PlaceInv
<1>18. /\ CallInv' /\ OncePerCall(stack')
       /\ Carries(stack') = Carries(Pop) \cup Top.todo \cup flushed
  BY <1>2, <1>7, <1>10, <1>14, <1>15, <1>16, <1>17, CallsReplaced
<1>19. /\ Carries(stack)' = Carries(stack) \cup flushed
       /\ OncePerCall(stack)'
  <2>1. Carries(stack') = Carries(stack) \cup flushed
    BY <1>2, <1>12, <1>18, TopPlace
  <2> QED
    BY <1>18, <2>1 DEF Carries, Carried, OncePerCall
<1>20. /\ Waiting' = Waiting /\ StreamInv' /\ NegativesInv' /\ PendingInv' /\ OutInv'
  <2>1. \A k \in Negative : HasNegatives(k, negStore'[k])
    <3>1. HasNegatives(n, live)
      BY <1>1, <1>6, CleaningKeeps DEF live
    <3>2. negStore \in [Negative -> SUBSET EventIds]
      BY <1>1 DEF TypeInv, TypeOK
    <3> QED
      BY <1>1, <1>6, <1>7, <3>1, <3>2 DEF NegativesInv
  <2>2. \A x \in pending' : PendingOK(x)
    BY <1>1, <1>7 DEF PendingInv
  <2>3. \A x \in Range(unreported') \cup Range(matches') : Final(x)
    BY <1>7 DEF IInv, OutInv, Handed
  <2> QED
    BY <1>1, <1>7, <2>1, <2>2, <2>3, SameEvent
<1>21. PlaceInv'
  BY <1>1, <1>7, <1>8, <1>13, <1>19, <1>20 DEF PlaceInv
<1>22. CoverInv'
  BY <1>1, <1>7, <1>13, <1>19, <1>20 DEF CoverInv
<1> QED
  BY <1>1, <1>18, <1>20, <1>21, <1>22 DEF IInv

\* Steps of the innermost call that end it or hand out one of its matches leave
\* the leaves and the pending matches alone.
LEMMA ReachOutputInv ==
    ASSUME IInv, ReachOutput
    PROVE  IInv'
<1>1. /\ TypeInv /\ StreamInv /\ NegativesInv /\ PendingInv /\ OutInv /\ PlaceInv /\ CoverInv
      /\ TypeInv'
  BY TypeStack DEF IInv
<1>2. /\ stack \in Seq(Frame) /\ stack # <<>> /\ Top.op = "add" /\ Top.level = Levels
      /\ Top.level \in 0..Levels /\ Top.todo \in SUBSET Match
  BY <1>1, TopFacts DEF ReachOutput, TypeInv
<1>3. PICK m \in Top.todo :
        unreported' = Append(unreported, m) /\ stack' = CallOn(m, <<>>)
  BY DEF ReachOutput
<1> DEFINE f == AddFrame(Top.level, Top.todo \ {m})
<1>4. UNCHANGED <<stream, phase, playing, negStore, pending, matches>>
  BY DEF ReachOutput
<1>5. Final(m) /\ FrameOK(f)
  <2>1. FrameOK(Top)
    BY <1>2, TopPlace
  <2>2. \/ /\ phase = "playing" /\ FirstUnbounded = 0
           /\ \A x \in Top.todo : Climbing(x, Levels)
        \/ /\ FirstUnbounded # 0
           /\ \A x \in Top.todo : Final(x)
    BY <1>2, <2>1, ChainFacts DEF FrameOK, AddOK
  <2>3. FrameOK(f)
    BY <1>2, <2>2, FrameOKOf
  <2>4. CASE FirstUnbounded = 0
    <3>1. Climbing(m, Levels)
      BY <1>3, <2>2, <2>4
    <3>2. m \in Demanded(stream)
      BY <3>1, ChainFacts DEF Climbing, Demanded, Prevented, EventIds
    <3> QED
      BY <2>3, <2>4, <3>2 DEF Final
  <2>5. CASE FirstUnbounded # 0
    BY <1>3, <2>2, <2>3, <2>5
  <2> QED
    BY <2>4, <2>5
<1>6. f \in Frame /\ [Top EXCEPT !.todo = @ \ {m}] = f
  BY <1>1, <1>2, ShorterTop
<1>7. <<f>> \in Seq(Frame) /\ stack' = Pop \o <<f>>
  <2> HIDE DEF f
  <2>1. [Top EXCEPT !.todo = @ \ {m}] \in Frame /\ <<>> \in Seq(Frame)
    BY <1>6
  <2>2. CallOn(m, <<>>) = Pop \o (<<[Top EXCEPT !.todo = @ \ {m}]>> \o <<>>)
    BY ONLY <1>2, <2>1, CallOnFacts
  <2>3. <<f>> \in Seq(Frame) /\ <<f>> \o <<>> = <<f>>
    BY <1>6, ConcatEmptySeq
  <2> QED
    BY <1>3, <1>6, <2>2, <2>3
<1>8. Carried(f) = Top.todo \ {m} /\ Carried(Top) = Top.todo
  BY <1>2, FrameOKOf, TopPlace
<1> HIDE DEF f
<1>9. Carries(<<f>>) = Top.todo \ {m} /\ OncePerCall(<<f>>)
  BY <1>8, FewCalls
<1>10. /\ CallInv' /\ OncePerCall(stack')
       /\ Carries(stack') = Carries(Pop) \cup (Top.todo \ {m})
  <2>1. \A i \in DOMAIN <<f>> : FrameOK(<<f>>[i])
    BY <1>5
  <2>2. Carries(<<f>>) \cap Carries(Pop) = {}
    BY <1>2, <1>8, <1>9, TopPlace
  <2> QED
    BY <1>2, <1>4, <1>7, <1>9, <2>1, <2>2, CallsReplaced
<1>11. /\ Carries(stack') = Carries(stack) \ {m} /\ m \in Carries(stack)
       /\ Carries(stack)' = Carries(stack') /\ OncePerCall(stack)'
  <2>1. /\ Carries(stack) = Carries(Pop) \cup Top.todo
        /\ Carries(Pop) \cap Top.todo = {}
    BY <1>2, <1>8, TopPlace
  <2>2. Carries(stack') = Carries(stack) \ {m} /\ m \in Carries(stack)
    BY <1>3, <1>10, <2>1
  <2> QED
    BY <1>10, <2>2 DEF Carries, Carried, OncePerCall
<1>12. Range(unreported') = Range(unreported) \cup {m}
  BY <1>1, <1>3, RangeAppend DEF TypeInv
<1>13. Kept' = Kept /\ Handed' = Handed \cup {m}
  BY <1>4, <1>12 DEF Kept, Handed
<1>14. m \notin Handed
  BY <1>1, <1>11 DEF PlaceInv
<1>15. IsInjective(unreported')
  <2>1. /\ unreported' \in Seq(Match) /\ unreported \in Seq(Match)
        /\ m \notin Range(unreported) /\ IsInjective(unreported)
    <3>1. unreported \in Seq(Match) /\ m \in Match
      BY <1>1, <1>2 DEF TypeInv
    <3>2. unreported' \in Seq(Match)
      BY <1>3, <3>1, AppendProperties
    <3> QED
      BY <1>1, <1>14, <3>1, <3>2 DEF Handed, PlaceInv
  <2>2. PICK k \in Nat : Len(unreported) = k
    BY <2>1, LenProperties
  <2>3. /\ DOMAIN unreported' = 1..(k + 1) /\ DOMAIN unreported = 1..k
        /\ \A i \in 1..k : unreported'[i] = unreported[i]
        /\ unreported'[k + 1] = m
        /\ \A i \in 1..(k + 1) : i \in 1..k \/ i = k + 1
    BY <1>3, <2>1, <2>2
  <2> QED
    BY <2>1, <2>3 DEF IsInjective, Range
<1>16. /\ Waiting' = Waiting /\ StreamInv' /\ NegativesInv' /\ PendingInv' /\ OutInv'
  <2>1. \A x \in Range(unreported') \cup Range(matches') : Final(x)
    BY <1>1, <1>4, <1>5, <1>12 DEF OutInv, Handed
  <2> QED
    BY <1>1, <1>4, <2>1, SameEvent DEF NegativesInv, PendingInv
<1>17. PlaceInv'
  <2>1. Range(unreported') \cap Range(matches') = {}
    BY <1>1, <1>4, <1>12, <1>14 DEF PlaceInv, Handed
  <2> QED
    BY <1>1, <1>4, <1>11, <1>13, <1>14, <1>15, <1>16, <2>1 DEF PlaceInv
<1>18. CoverInv'
  BY <1>1, <1>4, <1>11, <1>13, <1>16 DEF CoverInv
<1> QED
  BY <1>1, <1>10, <1>16, <1>17, <1>18 DEF IInv

\* A call that ends, or becomes another one, with none of its matches left
\* behind that something demands.
LEMMA CallEnds ==
    ASSUME IInv, TypeInv', stack # <<>>,
           UNCHANGED <<stream, phase, playing, negStore, unreported, matches>>,
           NEW fs \in Seq(Frame), stack' = Pop \o fs,
           \A i \in DOMAIN fs : FrameOK(fs[i]), OncePerCall(fs),
           NEW kept \in SUBSET Match, pending' = pending \cup kept,
           \A m \in kept : PendingOK(m), kept # {} => phase = "playing",
           Carries(fs) \cup kept \subseteq Carried(Top), Carries(fs) \cap kept = {},
           Demanded(stream) \cap Carried(Top) \subseteq Carries(fs) \cup kept
    PROVE  IInv'
<1>1. /\ TypeInv /\ StreamInv /\ NegativesInv /\ PendingInv /\ OutInv /\ PlaceInv /\ CoverInv
  BY DEF IInv
<1>2. /\ Carries(stack) = Carries(Pop) \cup Carried(Top)
      /\ Carries(Pop) \cap Carried(Top) = {}
  BY TopPlace
<1>3. /\ CallInv' /\ OncePerCall(stack')
      /\ Carries(stack') = Carries(Pop) \cup Carries(fs)
  BY <1>2, CallsReplaced
<1>4. Carries(stack)' = Carries(stack') /\ OncePerCall(stack)'
  BY <1>3 DEF Carries, Carried, OncePerCall
<1>5. /\ Waiting' = Waiting /\ StreamInv' /\ NegativesInv' /\ PendingInv' /\ OutInv'
  BY <1>1, SameEvent DEF NegativesInv, PendingInv, OutInv, Handed
<1>6. Kept' = Kept \cup kept /\ Handed' = Handed
  BY DEF Kept, Handed
<1>7. PlaceInv'
  BY <1>1, <1>2, <1>3, <1>4, <1>5, <1>6 DEF PlaceInv
<1>8. CoverInv'
  BY <1>1, <1>2, <1>3, <1>4, <1>5, <1>6 DEF CoverInv
<1> QED
  BY <1>1, <1>3, <1>5, <1>7, <1>8 DEF IInv

\* The simplest case: a call that only ends.
LEMMA CallOnlyEnds ==
    ASSUME IInv, TypeInv', stack # <<>>,
           UNCHANGED <<stream, phase, playing, negStore, unreported, matches>>,
           stack' = Pop, NEW kept \in SUBSET Match, pending' = pending \cup kept,
           \A m \in kept : PendingOK(m), kept # {} => phase = "playing",
           kept \subseteq Carried(Top),
           Demanded(stream) \cap Carried(Top) \subseteq kept
    PROVE  IInv'
<1>1. PICK fs : fs = <<>>
  OBVIOUS
<1>2. /\ fs \in Seq(Frame) /\ Carries(fs) = {} /\ OncePerCall(fs)
      /\ \A i \in DOMAIN fs : FrameOK(fs[i])
  BY <1>1, FewCalls
<1>3. stack' = Pop \o fs
  BY <1>1, TopFacts, ConcatEmptySeq DEF IInv
<1>4. /\ Carries(fs) \cup kept \subseteq Carried(Top)
      /\ Carries(fs) \cap kept = {}
      /\ Demanded(stream) \cap Carried(Top) \subseteq Carries(fs) \cup kept
  BY <1>2
<1> QED
  BY <1>2, <1>3, <1>4, CallEnds

\* What a comparison finds out: nothing at this level prevents the match, or it
\* is prevented.
LEMMA Compared ==
    ASSUME IInv, stack # <<>>, Top.op = "compare"
    PROVE  /\ phase = "playing"
           /\ Top.match \in PositiveMatches(stream)
           /\ IsInvalidated(Top) => Top.match \notin Demanded(stream)
           /\ ~ IsInvalidated(Top) => Climbing(Top.match, Top.level)
<1> DEFINE m == Top.match
           i == Top.level
           n == Chain[i]
<1>1. TypeInv
  BY DEF IInv
<1>2. /\ i \in 1..Levels /\ m \in Match /\ Top.todo \in SUBSET EventIds
  BY <1>1, TopFacts
<1>3. /\ phase = "playing" /\ Climbing(m, i - 1) /\ HasNegatives(n, Top.todo)
  BY TopPlace DEF FrameOK, CompareOK
<1>4. n \in Negative /\ EventIds = 1..Newest /\ Newest \in Nat
  BY <1>1, <1>2, ChainFacts, StreamFacts
<1> HIDE DEF n
<1>5. /\ m \in [Positive -> 1..Newest] /\ m \in [Positive -> Nat]
      /\ m \in PositiveMatches(stream) /\ Newest \in Range(m)
  BY <1>2, <1>3, <1>4 DEF Climbing, Match
<1>6. Completed(m) = Newest
  BY <1>4, <1>5, CompletedByNewest
<1>7. PICK p \in Positive : m[p] = Newest
  BY <1>5 DEF Range
<1>8. ASSUME NEW e \in EventIds, Invalidates(stream, n, m, e)
      PROVE  e # Newest /\ Now - stream[e].ts <= Window
  BY <1>4, <1>5, <1>7, <1>8, InvalidatesFacts DEF Now
<1>9. ASSUME IsInvalidated(Top)
      PROVE  m \notin Demanded(stream)
  <2>1. PICK e \in Top.todo : Invalidates(stream, n, m, e)
    BY <1>9 DEF IsInvalidated, n
  <2>2. e \in 1..Newest /\ e # Newest
    BY <1>2, <1>4, <1>8, <2>1
  <2>3. e < Completed(m)
    BY <1>4, <1>6, <2>2
  <2>4. PreventedBy(stream, n, m, e)
    BY <1>3, <2>1, <2>3 DEF PreventedBy, HasNegatives
  <2> QED
    BY <1>4, <2>2, <2>4 DEF Demanded, Prevented, Newest
<1>10. ASSUME ~ IsInvalidated(Top)
       PROVE  Climbing(m, i)
  <2>1. ASSUME NEW e \in EventIds, PreventedBy(stream, n, m, e)
        PROVE  FALSE
    <3>1. /\ AcceptedBy(stream, n, e) /\ Invalidates(stream, n, m, e)
          /\ e # Newest /\ Now - stream[e].ts <= Window
      BY <1>8, <2>1 DEF PreventedBy
    <3>2. Now \in Nat /\ stream[e].ts \in Nat /\ Window \in Nat
      <4>1. stream # <<>>
        BY <1>3, <1>1 DEF IInv, StreamInv
      <4> QED
        BY <1>1, <4>1, StreamFacts, NegationAssumption
    <3>3. stream[e].ts >= Now - Window
      BY <3>1, <3>2
    <3>4. e \in Top.todo
      BY <1>3, <3>1, <3>3 DEF HasNegatives, Seen
    <3> QED
      BY <1>10, <3>1, <3>4 DEF IsInvalidated, n
  <2>2. ASSUME NEW j \in 1..i, NEW e \in EventIds
        PROVE  ~ PreventedBy(stream, Chain[j], m, e)
    <3>1. j = i \/ j \in 1..(i - 1)
      BY <1>2, ChainFacts
    <3> QED
      BY <1>3, <2>1, <3>1 DEF Climbing, n
  <2> QED
    BY <1>3, <2>2 DEF Climbing
<1> QED
  BY <1>3, <1>5, <1>9, <1>10

\* A call ends, with its match compared or all its matches handed on: where a
\* match goes next is the only place it is in.
LEMMA EndOfCallInv ==
    ASSUME SingleUnbounded, IInv
    PROVE  /\ FinishAdd => IInv'
           /\ DropMatch => IInv'
           /\ PassMatch => IInv'
<1>1. TypeInv
  BY DEF IInv
<1>2. PICK none : none = {}
  OBVIOUS
<1>3. CASE FinishAdd
  <2>1. stack # <<>> /\ Carried(Top) = {} /\ stack' = Pop /\ TypeInv'
    BY <1>1, <1>3, TypeStack DEF FinishAdd, Carried
  <2>2. /\ UNCHANGED <<stream, phase, playing, negStore, unreported, matches>>
        /\ pending' = pending \cup none
    BY <1>2, <1>3 DEF FinishAdd
  <2> QED
    BY <1>2, <2>1, <2>2, CallOnlyEnds
<1>4. CASE DropMatch
  <2>1. /\ stack # <<>> /\ Top.op = "compare" /\ IsInvalidated(Top)
        /\ stack' = Pop /\ TypeInv'
    BY <1>1, <1>4, TypeStack DEF DropMatch
  <2>2. Demanded(stream) \cap Carried(Top) = {}
    BY <2>1, Compared DEF Carried
  <2>3. /\ UNCHANGED <<stream, phase, playing, negStore, unreported, matches>>
        /\ pending' = pending \cup none
    BY <1>2, <1>4 DEF DropMatch
  <2> QED
    BY <1>2, <2>1, <2>2, <2>3, CallOnlyEnds
<1>5. CASE PassMatch
  <2>1. /\ stack # <<>> /\ Top.op = "compare" /\ ~ IsInvalidated(Top) /\ TypeInv'
        /\ UNCHANGED <<stream, phase, playing, negStore, unreported, matches>>
    BY <1>1, <1>5, TypeStack DEF PassMatch
  <2>2. /\ phase = "playing" /\ Climbing(Top.match, Top.level)
        /\ Top.match \in PositiveMatches(stream)
    BY <2>1, Compared
  <2>3. Carried(Top) = {Top.match} /\ Top.level \in 1..Levels /\ Top.match \in Match
    BY <1>1, <2>1, TopFacts DEF Carried
  <2>4. CASE Top.level = FirstUnbounded
    <3>1. Top.level = Levels
      BY <2>3, <2>4, UnboundedOnTop
    <3>2. PendingOK(Top.match)
      BY <2>2, <3>1, ChainFacts DEF Climbing, PendingOK
    <3>3. stack' = Pop /\ pending' = pending \cup {Top.match}
      BY <1>5, <2>4 DEF PassMatch
    <3>4. PICK kept \in SUBSET Match : kept = {Top.match}
      BY <2>3
    <3> QED
      BY <2>1, <2>2, <2>3, <3>2, <3>3, <3>4, CallOnlyEnds
  <2>5. CASE Top.level # FirstUnbounded
    <3> DEFINE f == AddFrame(Top.level, {Top.match})
    <3>1. Top.level < Levels \/ FirstUnbounded = 0
      BY <2>3, <2>5, UnboundedOnTop, ChainFacts
    <3>2. FrameOK(f) /\ Carried(f) = {Top.match}
      BY <2>2, <3>1, FrameOKOf
    <3>3. f \in Frame
      BY <2>3, FrameFacts
    <3>4. stack' = Append(Pop, f) /\ pending' = pending \cup none
      BY <1>2, <1>5, <2>5 DEF PassMatch
    <3> HIDE DEF f
    <3>5. Append(Pop, f) = Pop \o <<f>> /\ <<f>> \in Seq(Frame)
      BY <1>1, <2>1, <3>3, TopFacts, AppendIsConcat
    <3>6. Carries(<<f>>) = {Top.match} /\ OncePerCall(<<f>>)
      BY <3>2, FewCalls
    <3>7. \A i \in DOMAIN <<f>> : FrameOK(<<f>>[i])
      BY <3>2
    <3>8. PICK fs : fs = <<f>>
      OBVIOUS
    <3>9. /\ fs \in Seq(Frame) /\ stack' = Pop \o fs /\ OncePerCall(fs)
          /\ \A i \in DOMAIN fs : FrameOK(fs[i])
      BY <3>4, <3>5, <3>6, <3>7, <3>8
    <3>10. /\ none \in SUBSET Match /\ none = {} /\ pending' = pending \cup none
           /\ Carries(fs) \cup none \subseteq Carried(Top) /\ Carries(fs) \cap none = {}
           /\ Demanded(stream) \cap Carried(Top) \subseteq Carries(fs) \cup none
      BY <1>2, <2>3, <3>4, <3>6, <3>8
    <3> QED
      BY <2>1, <3>9, <3>10, CallEnds
  <2> QED
    BY <2>4, <2>5
<1> QED
  BY <1>3, <1>4, <1>5

-----------------------------------------------------------------------------
(* Collecting the matches, and the end *)

\* A full match goes from the root to the output.
LEMMA ReportMatchInv ==
    ASSUME IInv, ReportMatch
    PROVE  IInv'
<1>1. /\ TypeInv /\ StreamInv /\ NegativesInv /\ CallInv /\ PendingInv /\ OutInv
      /\ PlaceInv /\ CoverInv /\ TypeInv'
  BY TypeReport DEF IInv
<1>2. /\ UNCHANGED <<stream, phase, playing, stack, negStore, pending>>
      /\ unreported \in Seq(Match) /\ matches \in Seq(Match) /\ unreported # <<>>
      /\ matches' = Append(matches, Head(unreported)) /\ unreported' = Tail(unreported)
  BY <1>1 DEF ReportMatch, TypeInv
<1>3. PICK h : h = Head(unreported)
  OBVIOUS
<1>4. /\ Range(unreported) = {h} \cup Range(unreported')
      /\ Range(matches') = Range(matches) \cup {h}
  BY <1>2, <1>3, RangeTail, RangeAppend
<1>5. h \notin Range(unreported') /\ IsInjective(unreported')
  <2>1. PICK k \in Nat : Len(unreported) = k + 1
    <3>1. Len(unreported) \in Nat \ {0}
      BY ONLY <1>2, TailFacts
    <3>2. \A j \in Nat \ {0} : j - 1 \in Nat /\ j = (j - 1) + 1
      OBVIOUS
    <3> QED
      BY ONLY <3>1, <3>2
  <2>2. /\ DOMAIN unreported = 1..(k + 1) /\ DOMAIN unreported' = 1..k
        /\ \A i \in 1..k : unreported'[i] = unreported[i + 1] /\ i + 1 \in 1..(k + 1)
        /\ unreported[1] = h /\ 1 \in 1..(k + 1)
    BY <1>2, <1>3, <2>1, TailFacts
  <2>3. IsInjective(unreported)
    BY <1>1 DEF PlaceInv
  <2>4. \A i \in 1..k : unreported'[i] # h
    <3>1. \A i \in 1..k : i + 1 # 1
      OBVIOUS
    <3> QED
      BY <2>2, <2>3, <3>1 DEF IsInjective
  <2>5. \A i, j \in 1..k : i + 1 = j + 1 => i = j
    OBVIOUS
  <2>6. IsInjective(unreported')
    BY <2>2, <2>3, <2>5 DEF IsInjective
  <2> QED
    BY <2>2, <2>4, <2>6 DEF Range
<1>6. h \notin Range(matches)
  BY <1>1, <1>4 DEF PlaceInv
<1>7. IsInjective(matches')
  <2>1. PICK k \in Nat : Len(matches) = k
    BY <1>2, LenProperties
  <2>2. /\ DOMAIN matches' = 1..(k + 1) /\ DOMAIN matches = 1..k
        /\ \A i \in 1..k : matches'[i] = matches[i]
        /\ matches'[k + 1] = h
        /\ \A i \in 1..(k + 1) : i \in 1..k \/ i = k + 1
    BY <1>2, <1>3, <2>1
  <2>3. IsInjective(matches)
    BY <1>1 DEF PlaceInv
  <2> QED
    BY <1>6, <2>2, <2>3 DEF IsInjective, Range
<1>8. Handed' = Handed /\ Kept' = Kept
  BY <1>2, <1>4 DEF Handed, Kept
<1>9. Carries(stack)' = Carries(stack) /\ OncePerCall(stack)' = OncePerCall(stack)
  BY <1>2 DEF Carries, Carried, OncePerCall
<1>10. /\ Waiting' = Waiting /\ StreamInv' /\ NegativesInv' /\ CallInv' /\ PendingInv'
       /\ OutInv'
  BY <1>1, <1>2, <1>8, SameEvent DEF NegativesInv, CallInv, PendingInv, OutInv, Handed
<1>11. PlaceInv'
  BY <1>1, <1>4, <1>5, <1>6, <1>7, <1>8, <1>9, <1>10 DEF PlaceInv
<1>12. CoverInv'
  BY <1>1, <1>2, <1>8, <1>9, <1>10 DEF CoverInv
<1> QED
  BY <1>1, <1>10, <1>11, <1>12 DEF IInv

\* What a step does not change that leaves the stream alone.
LEMMA SameStream ==
    ASSUME UNCHANGED stream
    PROVE  /\ EventIds' = EventIds /\ Newest' = Newest /\ Now' = Now /\ Match' = Match
           /\ FirstUnbounded' = FirstUnbounded /\ Levels' = Levels
BY DEF EventIds, Newest, Now, Match, FirstUnbounded, Unbounded, Levels

\* The evaluation of an event is over.
LEMMA FinishEventInv ==
    ASSUME IInv, FinishEvent
    PROVE  IInv'
<1>1. /\ TypeInv /\ StreamInv /\ NegativesInv /\ CallInv /\ PendingInv /\ OutInv
      /\ PlaceInv /\ CoverInv /\ TypeInv'
  BY TypeReport DEF IInv
<1>2. /\ UNCHANGED <<stream, playing, stack, negStore, pending, unreported, matches>>
      /\ stack = <<>> /\ playing = {}
      /\ \/ phase = "playing" /\ phase' = "idle"
         \/ phase = "ending" /\ phase' = "closed"
  BY DEF FinishEvent, Settled
<1>3. /\ EventIds' = EventIds /\ Newest' = Newest /\ Now' = Now
      /\ FirstUnbounded' = FirstUnbounded
  BY <1>2, SameStream
<1>4. StreamInv' /\ Waiting' = Waiting
  BY <1>1, <1>2, <1>3 DEF StreamInv, Waiting
<1>5. NegativesInv' /\ PendingInv'
  BY <1>1, <1>2, <1>3 DEF NegativesInv, HasNegatives, Seen, PendingInv, PendingOK
<1>6. CallInv'
  BY <1>2 DEF CallInv
<1>7. Handed' = Handed /\ Kept' = Kept
  BY <1>2 DEF Handed, Kept
<1>8. OutInv'
  BY <1>1, <1>2, <1>3, <1>7 DEF OutInv, Final
<1>9. Carries(stack)' = Carries(stack) /\ OncePerCall(stack)' = OncePerCall(stack)
  BY <1>2 DEF Carries, Carried, OncePerCall
<1>10. PlaceInv' /\ CoverInv'
  BY <1>1, <1>2, <1>4, <1>7, <1>9 DEF PlaceInv, CoverInv
<1> QED
  BY <1>1, <1>4, <1>5, <1>6, <1>8, <1>10 DEF IInv

\* Between two events nothing prevents a pending match.
LEMMA PendingIsDemanded ==
    ASSUME IInv, playing = {}
    PROVE  pending \subseteq Demanded(stream)
BY DEF IInv, PendingInv, PendingOK, Seen, Demanded, Prevented, EventIds

\* The stream is over: all pending matches, demanded by now, start to climb from
\* the top level.
LEMMA EndInv ==
    ASSUME SingleUnbounded, IInv, End
    PROVE  IInv'
<1>1. /\ TypeInv /\ StreamInv /\ NegativesInv /\ CallInv /\ PendingInv /\ OutInv
      /\ PlaceInv /\ CoverInv /\ TypeInv'
  BY TypeReport DEF IInv
<1>2. /\ UNCHANGED <<stream, playing, negStore, pending, unreported, matches>>
      /\ phase = "idle" /\ phase' = "ending" /\ stack = <<>> /\ playing = {}
      /\ stack' = IF FirstUnbounded = 0 THEN stack
                                        ELSE <<AddFrame(FirstUnbounded, pending)>>
  BY <1>1 DEF End, TypeInv, TypeOK
<1>3. /\ EventIds' = EventIds /\ Newest' = Newest /\ Now' = Now
      /\ FirstUnbounded' = FirstUnbounded /\ Levels' = Levels
  BY <1>2, SameStream
<1>4. StreamInv' /\ Waiting' = Waiting
  BY <1>1, <1>2, <1>3 DEF StreamInv, Waiting
<1>5. NegativesInv' /\ PendingInv'
  BY <1>1, <1>2, <1>3 DEF NegativesInv, HasNegatives, Seen, PendingInv, PendingOK
<1>6. Handed' = Handed /\ Kept = pending /\ Kept' = {}
  BY <1>2 DEF Handed, Kept
<1>7. OutInv'
  BY <1>1, <1>2, <1>3, <1>6 DEF OutInv, Final
<1>8. CallInv'
  <2>1. CASE FirstUnbounded = 0
    BY <1>2, <2>1 DEF CallInv
  <2>2. CASE FirstUnbounded # 0
    <3> DEFINE f == AddFrame(FirstUnbounded, pending)
    <3>1. stack' = <<f>> /\ FirstUnbounded = Levels
      BY <1>2, <2>2, UnboundedOnTop
    <3>2. f.op = "add" /\ f.level = FirstUnbounded /\ f.todo = pending
      BY DEF AddFrame
    <3> HIDE DEF f
    <3>3. DOMAIN stack' = {1} /\ stack'[1] = f
      BY <3>1
    <3>4. \A m \in pending : m \in Demanded(stream')
      BY <1>2, PendingIsDemanded
    <3> QED
      BY <1>2, <1>3, <2>2, <3>1, <3>2, <3>3, <3>4 DEF CallInv, FrameOK, AddOK, Final
  <2> QED
    BY <2>1, <2>2
<1>9. Carries(stack) = {} /\ Carries(stack)' = pending /\ OncePerCall(stack)'
  <2>1. Carries(stack) = {} /\ OncePerCall(stack)
    BY <1>2, FewCalls
  <2>2. Carries(stack') = pending /\ OncePerCall(stack')
    <3>1. CASE FirstUnbounded = 0
      BY <1>1, <1>2, <2>1, <3>1 DEF TypeInv, TypeOK
    <3>2. CASE FirstUnbounded # 0
      BY <1>2, <3>2, FewCalls, FrameOKOf
    <3> QED
      BY <3>1, <3>2
  <2> QED
    BY <2>1, <2>2 DEF Carries, Carried, OncePerCall
<1>10. PlaceInv' /\ CoverInv'
  BY <1>1, <1>2, <1>4, <1>6, <1>9 DEF PlaceInv, CoverInv
<1> QED
  BY <1>1, <1>4, <1>5, <1>7, <1>8, <1>10 DEF IInv

-----------------------------------------------------------------------------
(* The newest event *)

\* A slot of the newest event is filled: the matches it completes start to climb.
LEMMA HandlePositiveInv ==
    ASSUME IInv, NEW l \in Positive, HandlePositive(l)
    PROVE  IInv'
<1> DEFINE T == {m \in PositiveMatches(stream) : m[l] = Newest}
<1>1. /\ TypeInv /\ StreamInv /\ NegativesInv /\ CallInv /\ PendingInv /\ OutInv
      /\ PlaceInv /\ CoverInv /\ TypeInv'
  BY TypeHandle DEF IInv
<1>2. /\ UNCHANGED <<stream, phase, negStore, pending, unreported, matches>>
      /\ stack = <<>> /\ l \in playing /\ playing' = playing \ {l}
      /\ stack' = <<AddFrame(0, T)>>
  BY DEF HandlePositive
<1>3. phase = "playing"
  BY <1>1, <1>2 DEF StreamInv
<1>4. /\ EventIds' = EventIds /\ Newest' = Newest /\ Now' = Now
      /\ FirstUnbounded' = FirstUnbounded /\ Levels' = Levels
  BY <1>2, SameStream
<1>5. StreamInv'
  BY <1>1, <1>2, <1>3, <1>4 DEF StreamInv
<1>6. \A n \in Negative : n # l
  BY NegationAssumption
<1>7. NegativesInv' /\ PendingInv'
  BY <1>1, <1>2, <1>4, <1>6 DEF NegativesInv, HasNegatives, Seen, PendingInv, PendingOK
<1>8. Handed' = Handed /\ Kept' = Kept
  BY <1>2 DEF Handed, Kept
<1>9. OutInv'
  BY <1>1, <1>2, <1>4, <1>8 DEF OutInv, Final
<1>10. \A m \in PositiveMatches(stream) : DOMAIN m = Positive /\ IsInjective(m)
  BY DEF PositiveMatches, ValidFor
<1>11. T \subseteq Waiting /\ Waiting' = Waiting \ T
  <2>1. T \subseteq Waiting
    BY <1>2 DEF Waiting
  <2>2. \A m \in T, k \in Positive : m[k] = Newest => k = l
    BY <1>10 DEF IsInjective
  <2> QED
    BY <1>2, <1>4, <2>1, <2>2 DEF Waiting
<1>12. CallInv'
  <2> DEFINE f == AddFrame(0, T)
  <2>1. f.op = "add" /\ f.level = 0 /\ f.todo = T
    BY DEF AddFrame
  <2>2. ASSUME NEW m \in T
        PROVE  m \in PositiveMatches(stream') /\ Newest \in Range(m)
    BY <1>2, <1>10 DEF Range
  <2>3. Levels \in Nat /\ (0 < Levels \/ FirstUnbounded = 0)
    BY ChainFacts, FirstUnboundedIs
  <2> HIDE DEF T, f
  <2>4. DOMAIN stack' = {1} /\ stack'[1] = f
    BY <1>2 DEF f
  <2>5. \A i \in 1..0 : FALSE
    OBVIOUS
  <2> QED
    BY <1>2, <1>3, <1>4, <2>1, <2>2, <2>3, <2>4, <2>5
       DEF CallInv, FrameOK, AddOK, Climbing
<1>13. Carries(stack) = {} /\ Carries(stack)' = T /\ OncePerCall(stack)'
  <2> HIDE DEF T
  <2>1. Carries(stack) = {} /\ Carries(stack') = T /\ OncePerCall(stack')
    BY <1>2, FewCalls, FrameOKOf
  <2> QED
    BY <2>1 DEF Carries, Carried, OncePerCall
<1> HIDE DEF T
<1>14. PlaceInv' /\ CoverInv'
  BY <1>1, <1>2, <1>8, <1>11, <1>13 DEF PlaceInv, CoverInv
<1> QED
  BY <1>1, <1>5, <1>7, <1>9, <1>12, <1>14 DEF IInv

\* A negative event: the pending matches it prevents go, and so does nothing else.
LEMMA HandleNegativeInv ==
    ASSUME IInv, NEW n \in Negative, HandleNegative(n)
    PROVE  IInv'
<1>1. /\ TypeInv /\ StreamInv /\ NegativesInv /\ CallInv /\ PendingInv /\ OutInv
      /\ PlaceInv /\ CoverInv /\ TypeInv'
  BY TypeHandle DEF IInv
<1>2. /\ UNCHANGED <<stream, phase, stack, unreported, matches>>
      /\ stack = <<>> /\ n \in playing /\ playing' = playing \ {n}
  BY DEF HandleNegative
<1>3. phase = "playing" /\ stream # <<>> /\ Newest \in EventIds /\ Newest \in Nat
  BY <1>1, <1>2, StreamFacts DEF StreamInv
<1>4. /\ EventIds' = EventIds /\ Newest' = Newest /\ Now' = Now
      /\ FirstUnbounded' = FirstUnbounded /\ Levels' = Levels
  BY <1>2, SameStream
<1>5. StreamInv'
  BY <1>1, <1>2, <1>3, <1>4 DEF StreamInv
<1>6. n \notin Positive
  BY NegationAssumption
<1>7. Waiting' = Waiting
  BY <1>2, <1>4, <1>6 DEF Waiting
<1> DEFINE live == LiveNegatives(n, Now)
<1>8. HasNegatives(n, live)
  BY <1>1, CleaningKeeps
<1> HIDE DEF live
<1>9. /\ pending' = IF AcceptedBy(stream, n, Newest) THEN KeptPending(n) ELSE pending
      /\ negStore' = [negStore EXCEPT ![n] =
                        IF AcceptedBy(stream, n, Newest) THEN live \cup {Newest} ELSE live]
  BY DEF HandleNegative, live
<1>10. NegativesInv'
  <2>1. negStore \in [Negative -> SUBSET EventIds]
    BY <1>1 DEF TypeInv, TypeOK
  <2>2. /\ \A e \in negStore'[n] : AcceptedBy(stream, n, e)
        /\ \A e \in EventIds : AcceptedBy(stream, n, e) /\ stream[e].ts >= Now - Window
                => e \in negStore'[n]
    BY <1>8, <1>9, <2>1 DEF HasNegatives, Seen
  <2>3. \A k \in Negative : k # n => negStore'[k] = negStore[k]
    BY <1>9, <2>1
  <2>4. ASSUME NEW k \in Negative
        PROVE  /\ \A e \in negStore'[k] : AcceptedBy(stream, k, e)
               /\ \A e \in EventIds :
                    /\ AcceptedBy(stream, k, e)
                    /\ e = Newest => k \notin playing'
                    /\ stream[e].ts >= Now - Window
                    => e \in negStore'[k]
    <3>1. CASE k = n
      BY <2>2, <3>1
    <3>2. CASE k # n
      BY <1>1, <1>2, <2>3, <3>2 DEF NegativesInv, HasNegatives, Seen
    <3> QED
      BY <3>1, <3>2
  <2> QED
    BY <1>2, <1>4, <2>4 DEF NegativesInv, HasNegatives, Seen
<1>11. pending' \subseteq pending
  BY <1>9 DEF KeptPending
<1>12. ASSUME NEW m \in pending
       PROVE  /\ m \in pending' => ~ PreventedBy(stream, n, m, Newest)
              /\ m \notin pending' => m \notin Demanded(stream)
  <2>1. m \in PositiveMatches(stream) /\ m \in [Positive -> 1..Newest]
    BY <1>1 DEF PendingInv, PendingOK, PositiveMatches, Newest
  <2>2. Completed(m) \in 1..Newest
    BY <1>3, <2>1, CompletedInRange
  <2>3. ~ Newest < Completed(m)
    BY <1>3, <2>2
  <2>4. PreventedBy(stream, n, m, Newest) <=>
            /\ AcceptedBy(stream, n, Newest)
            /\ Invalidates(stream, n, m, Newest)
            /\ Unbounded(n)
    BY <2>3 DEF PreventedBy
  <2>5. m \in pending' <=> ~ PreventedBy(stream, n, m, Newest)
    BY <1>9, <2>4 DEF KeptPending
  <2>6. PreventedBy(stream, n, m, Newest) => m \notin Demanded(stream)
    BY <1>3 DEF Demanded, Prevented, EventIds
  <2> QED
    BY <2>5, <2>6
<1>13. PendingInv'
  <2>1. ASSUME NEW m \in pending', NEW k \in Negative, NEW e \in EventIds,
               PreventedBy(stream, k, m, e)
        PROVE  e = Newest /\ k \in playing'
    <3>1. e = Newest /\ k \in playing
      BY <1>1, <1>11, <2>1 DEF PendingInv, PendingOK, Seen
    <3>2. k # n
      BY <1>11, <1>12, <2>1, <3>1
    <3> QED
      BY <1>2, <3>1, <3>2
  <2>2. \A m \in pending' : m \in PositiveMatches(stream)
    BY <1>1, <1>11 DEF PendingInv, PendingOK
  <2> QED
    BY <1>2, <1>4, <2>1, <2>2 DEF PendingInv, PendingOK, Seen
<1>14. CallInv'
  BY <1>2 DEF CallInv
<1>15. /\ Handed' = Handed /\ Kept = pending /\ Kept' = pending'
       /\ Carries(stack)' = Carries(stack) /\ OncePerCall(stack)' = OncePerCall(stack)
  BY <1>2, <1>3 DEF Handed, Kept, Carries, Carried, OncePerCall
<1>16. OutInv'
  BY <1>1, <1>2, <1>4, <1>15 DEF OutInv, Final
<1>17. PlaceInv'
  BY <1>1, <1>2, <1>7, <1>11, <1>15 DEF PlaceInv
<1>18. CoverInv'
  BY <1>1, <1>2, <1>7, <1>12, <1>15 DEF CoverInv
<1> QED
  BY <1>1, <1>5, <1>10, <1>13, <1>14, <1>16, <1>17, <1>18 DEF IInv

-----------------------------------------------------------------------------
(* Reading an event *)

\* A new event is the newest, and every leaf of its type has yet to see it.
LEMMA ReadFacts ==
    ASSUME IInv, ReadEvent
    PROVE  /\ phase = "idle" /\ playing = {} /\ stack = <<>>
           /\ UNCHANGED <<stack, negStore, pending, unreported, matches>>
           /\ stream \in Seq(Event) /\ Len(stream) \in Nat
           /\ \E x \in Event :
                /\ stream' = Append(stream, x)
                /\ stream # <<>> => x.ts >= Now
                /\ playing' = {l \in Name : TypeOf[l] = x.type}
           /\ phase' \in {"idle", "playing"}
           /\ phase' = "idle" <=> playing' = {}
<1>1. /\ phase = "idle" /\ playing = {} /\ stack = <<>> /\ stream \in Seq(Event)
      /\ Len(stream) \in Nat
  BY DEF IInv, TypeInv, TypeOK, ReadEvent
<1>2. stream # <<>> => Now \in Nat
  BY StreamFacts DEF IInv
<1>3. PICK k \in Kind, ts \in NextStamps :
        stream' = Append(stream, [type |-> k.type, ts |-> ts, val |-> k.val])
  BY DEF ReadEvent
<1>4. ts \in Nat /\ (stream # <<>> => ts >= Now)
  <2>1. MaxGap \in Nat
    BY BoundAssumption
  <2>2. CASE stream = <<>>
    BY <1>3, <2>2 DEF NextStamps
  <2>3. CASE stream # <<>>
    <3>1. PICK now \in Nat : now = Now
      BY <1>2, <2>3
    <3>2. ts \in now..(now + MaxGap)
      BY <1>3, <2>3, <3>1 DEF NextStamps
    <3> QED
      BY <2>1, <3>1, <3>2
  <2> QED
    BY <2>2, <2>3
<1>5. PICK x : x = [type |-> k.type, ts |-> ts, val |-> k.val]
  OBVIOUS
<1>6. x \in Event /\ x.ts = ts
  BY <1>4, <1>5 DEF Event
<1>7. stream' = Append(stream, x)
  BY <1>3, <1>5
<1>8. stream'[Len(stream')] = x
  BY ONLY <1>1, <1>6, <1>7
<1>9. playing' = {l \in Name : TypeOf[l] = x.type}
  BY <1>8 DEF ReadEvent
<1> QED
  BY <1>1, <1>4, <1>6, <1>7, <1>9 DEF ReadEvent

\* A new event: the matches it completes wait for its slots, and it can prevent
\* only pending matches, whose window it is in.
LEMMA ReadEventInv ==
    ASSUME IInv, ReadEvent
    PROVE  IInv'
<1>1. /\ TypeInv /\ StreamInv /\ NegativesInv /\ CallInv /\ PendingInv /\ OutInv
      /\ PlaceInv /\ CoverInv /\ TypeInv'
  BY TypeReadEvent DEF IInv
<1>2. /\ phase = "idle" /\ playing = {} /\ stack = <<>>
      /\ UNCHANGED <<stack, negStore, pending, unreported, matches>>
      /\ stream \in Seq(Event)
      /\ phase' \in {"idle", "playing"} /\ (phase' = "idle" <=> playing' = {})
  BY ReadFacts
<1>3. PICK x \in Event : /\ stream' = Append(stream, x)
                         /\ stream # <<>> => x.ts >= Now
                         /\ playing' = {l \in Name : TypeOf[l] = x.type}
  BY ReadFacts
<1>4. PICK k \in Nat : k = Len(stream)
  BY ReadFacts
<1>5. /\ Len(stream') = k + 1 /\ stream'[k + 1] = x
      /\ \A e \in 1..k : stream'[e] = stream[e]
      /\ stream' # <<>> /\ (k # 0 => stream # <<>>)
  BY ONLY <1>2, <1>3, <1>4
<1>6. \A e \in 1..(k + 1) : e \in 1..k \/ e = k + 1
  OBVIOUS
<1>7. /\ EventIds = 1..k /\ EventIds' = 1..(k + 1) /\ Newest = k /\ Newest' = k + 1
      /\ Now' = x.ts /\ FirstUnbounded' = FirstUnbounded
  BY <1>4, <1>5 DEF EventIds, Newest, Now, FirstUnbounded, Unbounded
<1>8. /\ x.ts \in Nat
      /\ \A e \in 1..k : stream[e].ts \in Nat
      /\ 1..k # {} => k \in 1..k /\ Now \in Nat /\ Now <= x.ts
      /\ Window \in Nat
  <2>1. 1..k # {} => k # 0 /\ k \in 1..k
    BY <1>4
  <2> QED
    BY <1>1, <1>3, <1>5, <1>7, <2>1, StreamFacts, NegationAssumption DEF Event
<1>9. \A e \in 1..k : stream[e].ts <= x.ts
  <2>1. ASSUME NEW e \in 1..k
        PROVE  stream[e].ts <= x.ts
    <3>1. k \in 1..k /\ e <= k /\ Now <= x.ts /\ Now \in Nat
      BY <1>8
    <3>2. stream[e].ts <= stream[k].ts /\ stream[k].ts = Now
      BY <1>1, <1>7, <3>1 DEF StreamInv, Now
    <3> QED
      BY <1>8, <3>1, <3>2
  <2> QED
    BY <2>1
<1>10. StreamInv'
  <2>1. ASSUME NEW i \in 1..(k + 1), NEW j \in 1..(k + 1), i <= j
        PROVE  stream'[i].ts <= stream'[j].ts
    <3>1. CASE i \in 1..k /\ j \in 1..k
      BY <1>1, <1>5, <1>7, <2>1, <3>1 DEF StreamInv
    <3>2. CASE i \in 1..k /\ j = k + 1
      BY <1>5, <1>9, <3>2
    <3>3. CASE i = k + 1
      BY <1>5, <1>8, <2>1, <3>3
    <3> QED
      BY <1>6, <3>1, <3>2, <3>3
  <2> QED
    BY <1>2, <1>5, <1>7, <2>1 DEF StreamInv
<1>11. \A n \in Name : stream'[k + 1].type = TypeOf[n] => n \in playing'
  BY <1>3, <1>5
<1>12. \A n \in Negative, e \in 1..k : AcceptedBy(stream', n, e) <=> AcceptedBy(stream, n, e)
  BY <1>2, <1>3, <1>4, AcceptedGrows
<1>13. \A n \in Negative : AcceptedBy(stream', n, k + 1) => n \in playing'
  BY <1>11 DEF AcceptedBy, Name
<1>14. \A m \in [Positive -> 1..k] :
        /\ m \in PositiveMatches(stream') <=> m \in PositiveMatches(stream)
        /\ \A n \in Negative, e \in 1..k :
            PreventedBy(stream', n, m, e) <=> PreventedBy(stream, n, m, e)
  BY <1>2, <1>3, <1>4, PositiveMatchesGrow, PreventedGrows
<1>15. /\ \A m \in PositiveMatches(stream) : m \in [Positive -> 1..k]
       /\ \A m \in PositiveMatches(stream') : m \in [Positive -> 1..(k + 1)]
  BY <1>4, <1>5 DEF PositiveMatches
<1>16. NegativesInv'
  <2>1. ASSUME NEW n \in Negative
        PROVE  HasNegatives(n, negStore[n])'
    <3>1. negStore[n] \subseteq 1..k /\ HasNegatives(n, negStore[n])
      BY <1>1, <1>7 DEF NegativesInv, TypeInv, TypeOK
    <3>2. \A e \in negStore[n] : AcceptedBy(stream', n, e)
      BY <1>12, <3>1 DEF HasNegatives
    <3>3. ASSUME NEW e \in 1..(k + 1), AcceptedBy(stream', n, e),
                 e = k + 1 => n \notin playing', stream'[e].ts >= x.ts - Window
          PROVE  e \in negStore[n]
      <4>1. e \in 1..k
        BY <1>6, <1>13, <3>3
      <4>2. AcceptedBy(stream, n, e) /\ stream[e].ts >= x.ts - Window
        BY <1>5, <1>12, <3>3, <4>1
      <4>3. stream[e].ts >= Now - Window
        <5>1. Now \in Nat /\ Now <= x.ts /\ stream[e].ts \in Nat
          BY <1>8, <4>1
        <5> QED
          BY <1>8, <4>2, <5>1
      <4> QED
        BY <1>2, <1>7, <3>1, <4>1, <4>2, <4>3 DEF HasNegatives, Seen
    <3> QED
      BY <1>2, <1>7, <3>2, <3>3 DEF HasNegatives, Seen
  <2> QED
    BY <1>2, <2>1 DEF NegativesInv
<1>17. CallInv'
  BY <1>2 DEF CallInv
<1>18. PendingInv'
  <2>1. ASSUME NEW m \in pending
        PROVE  /\ m \in PositiveMatches(stream')
               /\ \A n \in Negative, e \in 1..(k + 1) :
                    PreventedBy(stream', n, m, e) => e = k + 1 /\ n \in playing'
    <3>1. PendingOK(m) /\ m \in [Positive -> 1..k]
      BY <1>1, <1>15 DEF PendingInv, PendingOK
    <3>2. m \in PositiveMatches(stream')
      BY <1>14, <3>1 DEF PendingOK
    <3>3. \A n \in Negative, e \in 1..k : ~ PreventedBy(stream', n, m, e)
      BY <1>2, <1>7, <1>14, <3>1 DEF PendingOK, Seen
    <3>4. \A n \in Negative : PreventedBy(stream', n, m, k + 1) => n \in playing'
      BY <1>13 DEF PreventedBy
    <3> QED
      BY <1>6, <3>2, <3>3, <3>4
  <2> QED
    BY <1>2, <1>7, <2>1 DEF PendingInv, PendingOK, Seen
<1>19. ASSUME NEW m \in Handed
       PROVE  Final(m)' /\ m \in [Positive -> 1..k]
  <2>1. Final(m) /\ m \in [Positive -> 1..k]
    BY <1>1, <1>15 DEF OutInv, Final, Demanded
  <2>2. m \in PositiveMatches(stream') /\ m \in [Positive -> 1..(k + 1)]
    BY <1>14, <1>15, <2>1 DEF Final, Demanded
  <2>3. \A l \in Positive : stream'[m[l]] = stream[m[l]] /\ stream[m[l]].ts \in Nat /\ 1..k # {}
    BY <1>5, <1>8, <2>1
  <2>4. FirstUnbounded = 0 \/ \E l \in Positive : Now - stream[m[l]].ts > Window
    BY <1>2, <2>1 DEF Final
  <2>5. FirstUnbounded = 0 \/ \E l \in Positive : x.ts - stream'[m[l]].ts > Window
    <3>1. CASE FirstUnbounded = 0
      BY <3>1
    <3>2. CASE \E l \in Positive : Now - stream[m[l]].ts > Window
      <4>1. PICK l \in Positive : Now - stream[m[l]].ts > Window
        BY <3>2
      <4>2. Now \in Nat /\ Now <= x.ts /\ stream[m[l]].ts \in Nat
        BY <1>8, <2>3
      <4>3. x.ts - stream[m[l]].ts > Window
        BY <1>8, <4>1, <4>2
      <4> QED
        BY <2>3, <4>3
    <3> QED
      BY <2>4, <3>1, <3>2
  <2>6. ASSUME NEW n \in Negative, NEW e \in 1..(k + 1), PreventedBy(stream', n, m, e)
        PROVE  FALSE
    <3>1. CASE e \in 1..k
      BY <1>7, <1>14, <2>1, <2>6, <3>1 DEF Final, Demanded, Prevented, EventIds
    <3>2. CASE e = k + 1
      <4>1. Completed(m) \in 1..k
        BY <2>1, CompletedInRange
      <4>2. ~ k + 1 < Completed(m)
        BY <4>1
      <4>3. Unbounded(n)
        BY <2>6, <3>2, <4>2 DEF PreventedBy
      <4>4. FirstUnbounded # 0
        BY <4>3, FirstUnboundedIs
      <4>5. PICK l \in Positive : x.ts - stream'[m[l]].ts > Window
        BY <2>5, <4>4
      <4>6. Invalidates(stream', n, m, k + 1) /\ m \in [Positive -> Nat]
        BY <2>1, <2>6, <3>2 DEF PreventedBy
      <4>7. x.ts - stream'[m[l]].ts <= Window
        BY <1>5, <4>6, InvalidatesFacts
      <4>8. stream'[m[l]].ts \in Nat
        BY <2>3
      <4> QED
        BY <1>8, <4>5, <4>7, <4>8
    <3> QED
      BY <1>6, <3>1, <3>2
  <2>7. m \in Demanded(stream')
    BY <1>5, <2>2, <2>6 DEF Demanded, Prevented
  <2> QED
    BY <1>7, <2>1, <2>5, <2>7 DEF Final
<1>20. Handed' = Handed /\ Kept = pending /\ Kept' = pending
  BY <1>2 DEF Handed, Kept
<1>21. OutInv'
  BY <1>19, <1>20 DEF OutInv
<1>22. Waiting = {} /\ Carries(stack) = {} /\ Carries(stack)' = {} /\ OncePerCall(stack)'
  BY <1>2, FewCalls DEF Waiting, Carries, OncePerCall
<1>23. \A m \in PositiveMatches(stream') :
        m \in Waiting' <=> \E l \in Positive : m[l] = k + 1
  <2>1. \A m \in PositiveMatches(stream'), l \in Positive :
            m[l] = k + 1 => l \in playing'
    BY <1>11 DEF PositiveMatches, Name
  <2> QED
    BY <1>7, <2>1 DEF Waiting
<1>24. Waiting' \cap (pending \cup Handed) = {}
  <2>1. \A m \in pending \cup Handed : m \in [Positive -> 1..k]
    BY <1>1, <1>15, <1>19 DEF PendingInv, PendingOK
  <2>2. \A m \in Waiting' : m \in PositiveMatches(stream')
    BY DEF Waiting
  <2>3. k + 1 \notin 1..k
    OBVIOUS
  <2> QED
    BY <1>23, <2>1, <2>2, <2>3
<1>25. PlaceInv'
  BY <1>1, <1>2, <1>20, <1>22, <1>24 DEF PlaceInv
<1>26. ASSUME NEW m \in Demanded(stream')
       PROVE  m \in Waiting' \cup pending \cup Handed
  <2>1. m \in PositiveMatches(stream') /\ ~ Prevented(stream', m)
    BY DEF Demanded
  <2>2. CASE \E l \in Positive : m[l] = k + 1
    BY <1>23, <2>1, <2>2
  <2>3. CASE ~ \E l \in Positive : m[l] = k + 1
    <3>1. m \in [Positive -> 1..k]
      <4>1. m \in [Positive -> 1..(k + 1)]
        BY <1>15, <2>1
      <4>2. \A l \in Positive : m[l] \in 1..k
        BY <1>6, <2>3, <4>1
      <4> QED
        BY <4>1, <4>2
    <3>2. m \in PositiveMatches(stream)
      BY <1>14, <2>1, <3>1
    <3>3. ~ Prevented(stream, m)
      <4>1. \A n \in Negative, e \in 1..k : ~ PreventedBy(stream', n, m, e)
        <5>1. \A e \in 1..k : e \in 1..(k + 1)
          OBVIOUS
        <5> QED
          BY <1>5, <2>1, <5>1 DEF Prevented
      <4> QED
        BY <1>4, <1>14, <3>1, <4>1 DEF Prevented
    <3> QED
      BY <1>1, <1>20, <1>22, <3>2, <3>3 DEF CoverInv, Demanded
  <2> QED
    BY <2>2, <2>3
<1>27. CoverInv'
  BY <1>20, <1>22, <1>26 DEF CoverInv
<1> QED
  BY <1>1, <1>10, <1>16, <1>17, <1>18, <1>21, <1>25, <1>27 DEF IInv

-----------------------------------------------------------------------------
(* What follows of the invariant *)

\* Initially nothing has been read.
LEMMA InitInv == Init => IInv
<1> SUFFICES ASSUME Init
             PROVE  IInv
  OBVIOUS
<1>1. TypeInv
  BY TypeInit
<1>2. /\ stream = <<>> /\ phase = "idle" /\ playing = {} /\ stack = <<>> /\ pending = {}
      /\ unreported = <<>> /\ matches = <<>>
      /\ \A n \in Negative : negStore[n] = {}
  BY DEF Init
<1>3. Len(stream) = 0 /\ 1..Len(stream) = {} /\ DOMAIN stack = {}
  BY <1>2
<1>4. PositiveMatches(stream) = {}
  <2>1. PICK l : l \in Positive
    BY NegationAssumption
  <2>2. \A m \in [Positive -> {}] : m[l] \in {}
    BY <2>1
  <2> QED
    BY <1>3, <2>2 DEF PositiveMatches
<1>5. EventIds = {}
  BY <1>3 DEF EventIds
<1>6. StreamInv /\ NegativesInv /\ CallInv /\ PendingInv
  BY <1>2, <1>3, <1>5 DEF StreamInv, NegativesInv, HasNegatives, CallInv, PendingInv
<1>7. Waiting = {} /\ Kept = {} /\ Carries(stack) = {} /\ OncePerCall(stack)
  BY <1>2, <1>3, <1>4 DEF Waiting, Kept, Carries, OncePerCall
<1>8. Range(<<>>) = {} /\ IsInjective(<<>>)
  BY DEF Range, IsInjective
<1>9. Handed = {}
  BY <1>2, <1>8 DEF Handed
<1>10. OutInv /\ PlaceInv /\ CoverInv
  BY <1>2, <1>4, <1>7, <1>8, <1>9 DEF OutInv, PlaceInv, CoverInv, Demanded
<1> QED
  BY <1>1, <1>6, <1>10 DEF IInv

\* A step that changes nothing.
LEMMA StutterInv ==
    ASSUME IInv, UNCHANGED vars
    PROVE  IInv'
<1>1. /\ UNCHANGED <<stream, phase, playing, stack, negStore, pending, unreported, matches>>
      /\ TypeInv'
  BY TypeNext DEF IInv, vars
<1>2. /\ StreamInv /\ NegativesInv /\ CallInv /\ PendingInv /\ OutInv
      /\ PlaceInv /\ CoverInv
  BY DEF IInv
<1>3. Handed' = Handed /\ Kept' = Kept
  BY <1>1 DEF Handed, Kept
<1>4. Carries(stack)' = Carries(stack) /\ OncePerCall(stack)' = OncePerCall(stack)
  BY <1>1 DEF Carries, Carried, OncePerCall
<1>5. /\ Waiting' = Waiting /\ StreamInv' /\ NegativesInv' /\ CallInv' /\ PendingInv'
      /\ OutInv'
  BY <1>1, <1>2, <1>3, SameEvent DEF NegativesInv, CallInv, PendingInv, OutInv, Handed
<1>6. PlaceInv' /\ CoverInv'
  BY <1>1, <1>2, <1>3, <1>4, <1>5 DEF PlaceInv, CoverInv
<1> QED
  BY <1>1, <1>5, <1>6 DEF IInv

\* Every step keeps the invariant.
LEMMA NextInv == SingleUnbounded /\ IInv /\ [Next]_vars => IInv'
<1> SUFFICES ASSUME SingleUnbounded, IInv, [Next]_vars
             PROVE  IInv'
  OBVIOUS
<1>1. CASE ReadEvent
  BY <1>1, ReadEventInv
<1>2. CASE \E l \in Positive : HandlePositive(l)
  BY <1>2, HandlePositiveInv
<1>3. CASE \E n \in Negative : HandleNegative(n)
  BY <1>3, HandleNegativeInv
<1>4. CASE Climb
  BY <1>4, ClimbInv
<1>5. CASE ReachOutput
  BY <1>5, ReachOutputInv
<1>6. CASE FinishAdd \/ DropMatch \/ PassMatch
  BY <1>6, EndOfCallInv
<1>7. CASE ReportMatch
  BY <1>7, ReportMatchInv
<1>8. CASE FinishEvent
  BY <1>8, FinishEventInv
<1>9. CASE End
  BY <1>9, EndInv
<1>10. CASE UNCHANGED vars
  BY <1>10, StutterInv
<1> QED
  BY <1>1, <1>2, <1>3, <1>4, <1>5, <1>6, <1>7, <1>8, <1>9, <1>10 DEF Next, Step

\* Between two events all full matches have been collected.
CollectedInv == phase \in {"idle", "closed"} => unreported = <<>>

\* A match is added inside a call only, and an event is finished when all are collected.
LEMMA NextCollected == IInv /\ CollectedInv /\ [Next]_vars => CollectedInv'
<1> SUFFICES ASSUME IInv, CollectedInv, [Next]_vars, phase' \in {"idle", "closed"}
             PROVE  unreported' = <<>>
  BY DEF CollectedInv
<1>1. CASE ReachOutput
  <2>1. phase \in {"playing", "ending"}
    BY <1>1, TopFacts DEF ReachOutput, IInv
  <2> QED
    BY <1>1, <2>1 DEF ReachOutput
<1>2. CASE ReportMatch
  BY <1>2 DEF ReportMatch, Settled
<1>3. CASE ReadEvent \/ FinishEvent \/ End
  BY <1>3 DEF ReadEvent, FinishEvent, End, CollectedInv
<1>4. CASE UNCHANGED <<phase, unreported>>
  BY <1>4 DEF CollectedInv
<1> QED
  BY <1>1, <1>2, <1>3, <1>4
     DEF Next, Step, HandlePositive, HandleNegative, Climb, FinishAdd, DropMatch, PassMatch,
         vars

\* Both invariants hold throughout.
LEMMA Invariants ==
    ASSUME SingleUnbounded
    PROVE  Spec => [](IInv /\ CollectedInv)
<1>1. Init => IInv /\ CollectedInv
  BY InitInv DEF Init, CollectedInv
<1>2. IInv /\ CollectedInv /\ [Next]_vars => IInv' /\ CollectedInv'
  BY NextInv, NextCollected
<1> QED
  BY <1>1, <1>2, PTL DEF Spec

\* A match handed to the output is never prevented, by no event that comes
\* later either (flush_pending_matches, __remove_invalidated_pending_matches).
THEOREM NeverPrevented ==
    ASSUME SingleUnbounded
    PROVE  Spec => []ReportedNeverPrevented
<1>1. IInv => ReportedNeverPrevented
  <2>1. \A i \in DOMAIN matches : matches[i] \in Handed
    BY DEF Handed, Range
  <2> QED
    BY <2>1 DEF IInv, OutInv, Final, Demanded, ReportedNeverPrevented
<1> QED
  BY <1>1, Invariants, PTL

\* What is handed out is demanded; with nothing in progress, all that is demanded
\* is kept or handed out.
LEMMA SettledPlaces ==
    ASSUME IInv, playing = {}, stack = <<>>, unreported = <<>>
    PROVE  /\ Range(matches) \subseteq Demanded(stream)
           /\ Demanded(stream) \subseteq Kept \cup Range(matches)
           /\ Kept \cap Range(matches) = {}
           /\ IsInjective(matches)
<1>1. Waiting = {} /\ Carries(stack) = {}
  BY FewCalls DEF Waiting
<1>2. Handed = Range(matches)
  BY DEF Handed, Range
<1> QED
  BY <1>1, <1>2 DEF IInv, OutInv, Final, PlaceInv, CoverInv

\* Between two events every match that nothing prevents is pending or reported,
\* once (handle_new_partial_match, _add_partial_match, get_matches).
THEOREM AllAccountedFor ==
    ASSUME SingleUnbounded
    PROVE  Spec => []EveryMatchAccountedFor
<1>1. IInv /\ CollectedInv => EveryMatchAccountedFor
  <2> SUFFICES ASSUME IInv, CollectedInv, phase = "idle"
               PROVE  /\ pending \cup Range(matches) = Demanded(stream)
                      /\ pending \cap Range(matches) = {}
                      /\ IsInjective(matches)
    BY DEF EveryMatchAccountedFor
  <2>1. playing = {} /\ stack = <<>> /\ unreported = <<>> /\ Kept = pending
    BY DEF IInv, TypeInv, TypeOK, CollectedInv, Kept
  <2> QED
    BY <2>1, SettledPlaces, PendingIsDemanded
<1> QED
  BY <1>1, Invariants, PTL

-----------------------------------------------------------------------------
(* The refinement *)

\* The abstract specification demands the same matches.
LEMMA SameDemand ==
    /\ \A f : Sem!Range(f) = Range(f)
    /\ Sem!Negative = Negative
    /\ \A n : Sem!Unbounded(n) <=> Unbounded(n)
    /\ \A s : Sem!Demanded(s) = Demanded(s)
<1>1. \A f : Sem!Range(f) = Range(f)
  BY DEF Sem!Range, Range
<1>2. Sem!Negative = Negative
  BY <1>1 DEF Sem!Negative, Negative
<1>3. \A n : Sem!Unbounded(n) <=> Unbounded(n)
  BY DEF Sem!Unbounded, Unbounded
<1>4. \A s, m, a : Sem!Satisfies(s, m, a) <=> Satisfies(s, m, a)
  BY DEF Sem!Satisfies, Satisfies
<1>5. \A m : Sem!IsInjective(m) <=> IsInjective(m)
  BY DEF Sem!IsInjective, IsInjective
<1>6. \A s, m, atoms : Sem!ValidFor(s, m, atoms) <=> ValidFor(s, m, atoms)
  BY <1>4, <1>5 DEF Sem!ValidFor, ValidFor
<1>7. \A s : Sem!PositiveMatches(s) = PositiveMatches(s)
  BY <1>6 DEF Sem!PositiveMatches, PositiveMatches
<1>8. \A s, n, e : Sem!AcceptedBy(s, n, e) <=> AcceptedBy(s, n, e)
  BY <1>4 DEF Sem!AcceptedBy, AcceptedBy
<1>9. \A s, n, m, e : Sem!Invalidates(s, n, m, e) <=> Invalidates(s, n, m, e)
  BY <1>6 DEF Sem!Invalidates, Invalidates
<1>10. \A m : Sem!Completed(m) = Completed(m)
  BY <1>1 DEF Sem!Completed, Completed
<1>11. \A s, n, m, e : Sem!PreventedBy(s, n, m, e) <=> PreventedBy(s, n, m, e)
  BY <1>3, <1>8, <1>9, <1>10 DEF Sem!PreventedBy, PreventedBy
<1>12. \A s, m : Sem!Prevented(s, m) <=> Prevented(s, m)
  BY <1>2, <1>11 DEF Sem!Prevented, Prevented
<1> QED
  BY <1>1, <1>2, <1>3, <1>7, <1>12 DEF Sem!Demanded, Demanded

\* Every step of the chain is a step of the abstract specification, or none.
LEMMA StepRefines ==
    IInv /\ [Next]_vars => [Sem!NegNext]_(Sem!negVars)
<1> SUFFICES ASSUME IInv, [Next]_vars
             PROVE  [Sem!NegNext]_(Sem!negVars)
  OBVIOUS
<1>1. CASE ReadEvent
  <2>1. PICK x \in Event : stream' = Append(stream, x)
    BY <1>1, ReadFacts
  <2>2. x \in Range(stream')
    BY <1>1, <2>1, ReadFacts, RangeAppend
  <2>3. /\ phase = "idle" /\ phase' \in {"idle", "playing"} /\ UNCHANGED matches
    BY <1>1, ReadFacts
  <2>4. Sem!Observe(x)
    BY <2>1, <2>3, SameDemand DEF Sem!Observe
  <2> QED
    BY <2>2, <2>4, SameDemand DEF Sem!NegNext
<1>2. CASE ReportMatch
  <2>1. /\ unreported \in Seq(Match) /\ matches \in Seq(Match) /\ unreported # <<>>
        /\ matches' = Append(matches, Head(unreported))
        /\ UNCHANGED <<stream, phase>> /\ phase \in {"playing", "ending"}
    BY <1>2 DEF ReportMatch, Settled, IInv, TypeInv
  <2>2. PICK m : m = Head(unreported)
    OBVIOUS
  <2>3. m \in Range(unreported) /\ Range(matches') = Range(matches) \cup {m}
    BY <2>1, <2>2, RangeTail, RangeAppend
  <2>4. m \notin Range(matches) /\ Final(m)
    BY <2>3 DEF IInv, PlaceInv, OutInv, Handed
  <2>5. Sem!IsFinal(stream, m) \/ phase = "ending"
    <3>1. FirstUnbounded = 0 => Sem!IsFinal(stream, m)
      BY FirstUnboundedIs, SameDemand DEF Sem!IsFinal
    <3>2. (\E l \in Positive : Now - stream[m[l]].ts > Window) => Sem!IsFinal(stream, m)
      BY DEF Sem!IsFinal, Now, Newest
    <3> QED
      BY <2>1, <2>4, <3>1, <3>2 DEF Final
  <2>6. Sem!Report(m)
    BY <2>1, <2>3, <2>4, <2>5, SameDemand DEF Sem!Report, Final
  <2> QED
    BY <2>3, <2>6 DEF Sem!NegNext
<1>3. CASE FinishEvent /\ phase = "ending"
  <2>1. /\ playing = {} /\ stack = <<>> /\ unreported = <<>> /\ Kept = {}
        /\ UNCHANGED <<stream, matches>> /\ phase' = "closed"
    BY <1>3 DEF FinishEvent, Settled, Kept
  <2>2. Range(matches) = Demanded(stream)
    BY <2>1, SettledPlaces
  <2>3. Sem!CloseOutput
    BY <1>3, <2>1, <2>2, SameDemand DEF Sem!CloseOutput
  <2> QED
    BY <2>3 DEF Sem!NegNext
<1>4. CASE FinishEvent /\ phase # "ending"
  BY <1>4 DEF FinishEvent, Settled, Sem!negVars
<1>5. CASE End
  BY <1>5 DEF End, Sem!EndInput, Sem!NegNext
<1>6. CASE UNCHANGED <<stream, phase, matches>>
  BY <1>6 DEF Sem!negVars
<1> QED
  BY <1>1, <1>2, <1>3, <1>4, <1>5, <1>6
     DEF Next, Step, HandlePositive, HandleNegative, Climb, ReachOutput, FinishAdd, DropMatch,
         PassMatch, vars

\* The chain implements its abstract specification: only matches that nothing
\* prevents and nothing can prevent any more are reported, and all that are
\* demanded before the output is closed (eval, get_last_matches).
THEOREM ChainImplementsNegation ==
    ASSUME SingleUnbounded
    PROVE  Spec => RefinesNegation
<1>1. Init => Sem!NegInit
  BY SameDemand DEF Init, Sem!NegInit, Range
<1>2. IInv /\ [Next]_vars => [Sem!NegNext]_(Sem!negVars)
  BY StepRefines
<1>3. Spec => []IInv
  BY Invariants, PTL
<1> QED
  BY <1>1, <1>2, <1>3, PTL DEF Spec, RefinesNegation, Sem!NegSpec

=============================================================================
