--------------------------- MODULE EvalTreeProofs ---------------------------
(***************************************************************************)
(* Proofs about EvalTree, for every tree, every pattern set and every      *)
(* stream: first the type invariant and the soundness of everything the    *)
(* tree holds, then completeness and the policies. TypeOK is not inductive *)
(* by itself (the result of a join has the right domain only because both  *)
(* sides are matches of the subtrees), nor is Sound; IInv joins them with  *)
(* the fact that an event is only played on leaves of its type.            *)
(*                                                                         *)
(* The theorems assume Aligned: an inner node lists a joined match in the  *)
(* order of its own event definitions.  It holds for every tree whose leaf *)
(* indices are distinct below each node, hence for every single pattern;   *)
(* without it (leaves shared by several patterns) Sound is false.          *)
(***************************************************************************)
EXTENDS EvalTreeProperties, SequenceTheorems, FiniteSetTheorems,
        WellFoundedInduction, TLAPS

\* The partial matches of node n, the calls and the reports that are sound.
SoundMatch(s, n) == {pm \in MatchesOf(s, n) : IsPartialMatch(s, n, pm)}

SoundFrame(s) == {f \in Frame(s) : FrameOK(f) /\ FrameSound(s, f)}

SoundReport(s) ==
    {r \in Report(s) :
        /\ IsPartialMatch(s, r.node, r.pm)
        /\ \A p \in r.ids : /\ Root[p] = r.node
                           /\ WithinWindow(s, r.pm, PatternWindow[p])}

\* An event is in the tree only in phase "playing", and it is of the type of
\* every leaf it is still to visit.
ControlInv ==
    /\ stream \in Seq(Event)
    /\ phase \in {"idle", "playing", "closed"}
    /\ playing \in SUBSET Leaf
    /\ phase = "playing" => stream # <<>>
    /\ phase # "playing" => playing = {} /\ stack = <<>>
    /\ \A l \in playing : TypeOf[l] = Now.type

StackInv == stack \in Seq(SoundFrame(stream))

StoreInv ==
    /\ store \in [Node -> SUBSET PartialMatch(stream)]
    /\ \A n \in Node : store[n] \subseteq SoundMatch(stream, n)

CountInv ==
    /\ access \in [Node -> Nat]
    /\ filtered \in [Node -> SUBSET (1..Len(stream))]
    /\ freezers \in SUBSET (1..Len(stream))

OutputInv ==
    /\ unreported \in [OutputNode -> Seq(PartialMatch(stream))]
    /\ \A n \in OutputNode : unreported[n] \in Seq(SoundMatch(stream, n))
    /\ matches \in Seq(SoundReport(stream))

\* The inductive invariant.
IInv == ControlInv /\ StackInv /\ StoreInv /\ CountInv /\ OutputInv

-----------------------------------------------------------------------------
(* The tree *)

\* The two sides of an inner node: they are nodes, and together they make up
\* its leaves and its subtree.
LEMMA SidesOfInner ==
    ASSUME NEW i \in Inner, NEW c \in {Left[i], Right[i]}
    PROVE  /\ i \in Node
           /\ c \in Node
           /\ Sibling(i, c) \in Node
           /\ Subtree[i] = {i} \cup Subtree[c] \cup Subtree[Sibling(i, c)]
           /\ LeavesOf(i) = LeavesOf(c) \cup LeavesOf(Sibling(i, c))
           /\ LeavesOf(c) \cap LeavesOf(Sibling(i, c)) = {}
<1>1. /\ i \in Node
      /\ Left[i] \in Node
      /\ Right[i] \in Node
  BY NodeAssumption DEF Node
<1>2. /\ Subtree[i] = {i} \cup Subtree[Left[i]] \cup Subtree[Right[i]]
      /\ LeavesOf(Left[i]) \cap LeavesOf(Right[i]) = {}
  BY SubtreeAssumption
<1>3. i \notin Leaf
  BY NodeAssumption
<1>4. CASE c = Left[i]
  <2>1. Sibling(i, c) = Right[i]
    BY <1>4 DEF Sibling
  <2> QED
    BY <1>1, <1>2, <1>3, <1>4, <2>1 DEF LeavesOf
<1>5. CASE c # Left[i]
  <2>1. c = Right[i] /\ Sibling(i, c) = Left[i]
    BY <1>5 DEF Sibling
  <2> QED
    BY <1>1, <1>2, <1>3, <2>1 DEF LeavesOf
<1> QED
  BY <1>4, <1>5

\* The leaves below a node below n are leaves below n.
LEMMA LeavesBelow ==
    ASSUME NEW n \in Node, NEW m \in Subtree[n]
    PROVE  m \in Node /\ LeavesOf(m) \subseteq LeavesOf(n)
BY SubtreeAssumption DEF LeavesOf

\* A leaf is its own only leaf.
LEMMA LeafOfLeaf ==
    ASSUME NEW l \in Leaf
    PROVE  l \in Node /\ LeavesOf(l) = {l} /\ Subtree[l] = {l}
BY SubtreeAssumption DEF LeavesOf, Node

-----------------------------------------------------------------------------
(* Validation *)

\* Validation looks at the events of a match only: reading more of the stream
\* changes nothing.
LEMMA ValidExtends ==
    ASSUME NEW s \in Seq(Event), NEW e \in Event, NEW m \in Node,
           NEW r \in MatchesOf(s, m), Valid(s, m, r)
    PROVE  Valid(Append(s, e), m, r)
<1> DEFINE t == Append(s, e)
<1>1. r \in [LeavesOf(m) -> 1..Len(s)]
  BY DEF MatchesOf
<1>2. \A l \in LeavesOf(m) : t[r[l]] = s[r[l]]
  BY <1>1, AppendProperties
<1>3. WithinWindow(t, r, Window[m])
  BY <1>1, <1>2 DEF Valid, WithinWindow
<1>4. InOrder(s, m, r) => InOrder(t, m, r)
  <2> SUFFICES ASSUME InOrder(s, m, r),
                      NEW i \in DOMAIN EventDefs[m], NEW j \in DOMAIN EventDefs[m], i < j
               PROVE  t[r[EventDefs[m][i]]].ts <= t[r[EventDefs[m][j]]].ts
    BY DEF InOrder
  <2>1. EventDefs[m][i] \in LeavesOf(m) /\ EventDefs[m][j] \in LeavesOf(m)
    BY EventDefsAssumption DEF Range
  <2> QED
    BY <1>2, <2>1 DEF InOrder
<1>5. ASSUME NEW a \in NodeCondition(m)
      PROVE  Satisfies(t, r, a)
  <2>1. a.on \subseteq LeavesOf(m)
    BY DEF NodeCondition
  <2>2. [l \in a.on |-> t[r[l]].val] = [l \in a.on |-> s[r[l]].val]
    BY <1>2, <2>1
  <2> QED
    BY <2>2 DEF Valid, Satisfies
<1> QED
  BY <1>3, <1>4, <1>5 DEF Valid

\* A partial match stays one when the stream grows.
LEMMA PartialMatchExtends ==
    ASSUME NEW s \in Seq(Event), NEW e \in Event, NEW n \in Node, NEW pm,
           IsPartialMatch(s, n, pm)
    PROVE  IsPartialMatch(Append(s, e), n, pm)
<1> DEFINE t == Append(s, e)
<1>1. /\ pm \in [LeavesOf(n) -> 1..Len(s)]
      /\ \A l \in LeavesOf(n) : s[pm[l]].type = TypeOf[l]
  BY DEF IsPartialMatch, MatchesOf
<1>2. /\ Len(t) = Len(s) + 1
      /\ Len(s) \in Nat
      /\ \A i \in 1..Len(s) : t[i] = s[i]
  BY AppendProperties, LenProperties
<1>3. pm \in MatchesOf(t, n)
  BY <1>1, <1>2 DEF MatchesOf
<1>4. \A l \in LeavesOf(n) : t[pm[l]].type = TypeOf[l]
  BY <1>1, <1>2
<1>5. ASSUME NEW m \in Subtree[n]
      PROVE  Valid(t, m, Restrict(pm, LeavesOf(m)))
  <2>1. m \in Node /\ LeavesOf(m) \subseteq LeavesOf(n)
    BY LeavesBelow
  <2>2. Restrict(pm, LeavesOf(m)) \in MatchesOf(s, m)
    BY <1>1, <2>1 DEF Restrict, MatchesOf
  <2>3. Valid(s, m, Restrict(pm, LeavesOf(m)))
    BY DEF IsPartialMatch
  <2> QED
    BY <2>1, <2>2, <2>3, ValidExtends
<1> QED
  BY <1>3, <1>4, <1>5 DEF IsPartialMatch

\* The event a leaf accepts makes a partial match of the leaf.
LEMMA LeafMatchSound ==
    ASSUME NEW l \in Leaf, stream # <<>>, stream \in Seq(Event),
           TypeOf[l] = Now.type, Valid(stream, l, LeafMatch(l))
    PROVE  IsPartialMatch(stream, l, LeafMatch(l))
<1>1. l \in Node /\ LeavesOf(l) = {l} /\ Subtree[l] = {l}
  BY LeafOfLeaf
<1>2. Len(stream) \in 1..Len(stream)
  BY LenProperties, EmptySeq
<1>3. LeafMatch(l) \in MatchesOf(stream, l)
  BY <1>1, <1>2 DEF LeafMatch, MatchesOf
<1>4. Restrict(LeafMatch(l), LeavesOf(l)) = LeafMatch(l)
  BY <1>1 DEF Restrict, LeafMatch
<1> QED
  BY <1>1, <1>3, <1>4 DEF IsPartialMatch, LeafMatch, Now

\* Joining a partial match of one subtree with one of the other subtree makes
\* a partial match of the node, provided the node validates it.
LEMMA JoinSound ==
    ASSUME Aligned,
           NEW s, NEW i \in Inner, NEW c \in {Left[i], Right[i]}, NEW x, NEW y,
           IsPartialMatch(s, c, x), IsPartialMatch(s, Sibling(i, c), y),
           Valid(s, i, MergeMatches(i, x, y))
    PROVE  IsPartialMatch(s, i, MergeMatches(i, x, y))
<1> DEFINE o == Sibling(i, c)
           pm == MergeMatches(i, x, y)
<1>1. /\ x \in [LeavesOf(c) -> 1..Len(s)]
      /\ y \in [LeavesOf(o) -> 1..Len(s)]
  BY DEF IsPartialMatch, MatchesOf
<1>2. /\ i \in Node /\ c \in Node /\ o \in Node
      /\ Subtree[i] = {i} \cup Subtree[c] \cup Subtree[o]
      /\ LeavesOf(i) = LeavesOf(c) \cup LeavesOf(o)
      /\ LeavesOf(c) \cap LeavesOf(o) = {}
  BY SidesOfInner
<1>3. /\ pm \in [LeavesOf(i) -> 1..Len(s)]
      /\ \A l \in LeavesOf(c) : pm[l] = x[l]
      /\ \A l \in LeavesOf(o) : pm[l] = y[l]
  <2>1. Source(i, x) \in {Left[i], Right[i]}
    BY DEF Source
  <2>2. MergedDefs(i, Source(i, x)) = EventDefs[i]
    BY <2>1 DEF Aligned
  <2>3. \A l \in LeavesOf(i) : EventDefs[i][Slot(i, l)] = l
    BY <1>2, EventDefsAssumption DEF Slot, Range
  <2>4. pm = [l \in LeavesOf(i) |-> IF l \in DOMAIN x THEN x[l] ELSE y[l]]
    BY <2>2, <2>3 DEF MergeMatches
  <2> QED
    BY <1>1, <1>2, <2>4
<1>4. \A l \in LeavesOf(i) : s[pm[l]].type = TypeOf[l]
  BY <1>2, <1>3 DEF IsPartialMatch
<1>5. ASSUME NEW m \in Subtree[i]
      PROVE  Valid(s, m, Restrict(pm, LeavesOf(m)))
  <2>1. CASE m = i
    <3>1. Restrict(pm, LeavesOf(i)) = pm
      BY <1>3 DEF Restrict
    <3> QED
      BY <2>1, <3>1
  <2>2. CASE m \in Subtree[c]
    <3>1. LeavesOf(m) \subseteq LeavesOf(c)
      BY <1>2, <2>2, LeavesBelow
    <3>2. Restrict(pm, LeavesOf(m)) = Restrict(x, LeavesOf(m))
      BY <1>3, <3>1 DEF Restrict
    <3> QED
      BY <2>2, <3>2 DEF IsPartialMatch
  <2>3. CASE m \in Subtree[o]
    <3>1. LeavesOf(m) \subseteq LeavesOf(o)
      BY <1>2, <2>3, LeavesBelow
    <3>2. Restrict(pm, LeavesOf(m)) = Restrict(y, LeavesOf(m))
      BY <1>3, <3>1 DEF Restrict
    <3> QED
      BY <2>3, <3>2 DEF IsPartialMatch
  <2> QED
    BY <1>2, <2>1, <2>2, <2>3
<1> QED
  BY <1>3, <1>4, <1>5 DEF IsPartialMatch, MatchesOf

-----------------------------------------------------------------------------
(* The stack *)

\* What Top, Pop, Continue and Call make of a non-empty stack.
LEMMA StackProperties ==
    ASSUME NEW S, stack \in Seq(S), stack # <<>>
    PROVE  /\ Top \in S
           /\ Pop \in Seq(S)
           /\ \A f \in S : Continue(f) \in Seq(S)
           /\ \A f, g \in S : Call(f, g) \in Seq(S)
<1>1. Len(stack) \in Nat \ {0}
  BY EmptySeq
<1>2. \A i \in 1..Len(stack) : stack[i] \in S
  BY ElementOfSeq
<1>3. Top \in S
  BY <1>1, <1>2 DEF Top
<1>4. Pop \in Seq(S)
  BY <1>1, <1>2, SubSeqProperties DEF Pop
<1>5. \A f \in S : Continue(f) \in Seq(S)
  BY <1>4, AppendProperties DEF Continue
<1>6. \A f, g \in S : Call(f, g) \in Seq(S)
  BY <1>5, AppendProperties DEF Call
<1> QED
  BY <1>3, <1>4, <1>5, <1>6

\* Sound matches, and with them sound reports, stay sound when events arrive.
LEMMA SoundMonotonic ==
    ASSUME NEW s \in Seq(Event), NEW e \in Event
    PROVE  /\ \A n \in Node : SoundMatch(s, n) \subseteq SoundMatch(Append(s, e), n)
           /\ PartialMatch(s) \subseteq PartialMatch(Append(s, e))
           /\ SoundReport(s) \subseteq SoundReport(Append(s, e))
<1> DEFINE t == Append(s, e)
<1>1. Len(t) = Len(s) + 1 /\ Len(s) \in Nat
  BY AppendProperties, LenProperties
<1>2. \A n \in Node : MatchesOf(s, n) \subseteq MatchesOf(t, n)
  BY <1>1 DEF MatchesOf
<1>3. PartialMatch(s) \subseteq PartialMatch(t)
  BY <1>2 DEF PartialMatch
<1>4. \A n \in Node : SoundMatch(s, n) \subseteq SoundMatch(t, n)
  BY <1>2, PartialMatchExtends DEF SoundMatch
<1>5. SoundReport(s) \subseteq SoundReport(t)
  <2> SUFFICES ASSUME NEW r \in SoundReport(s)
               PROVE  r \in SoundReport(t)
    OBVIOUS
  <2>1. /\ r \in Report(s)
        /\ IsPartialMatch(s, r.node, r.pm)
    BY DEF SoundReport
  <2>2. r.node \in Node
    BY <2>1, NodeAssumption DEF Report, OutputNode, Range
  <2>3. IsPartialMatch(t, r.node, r.pm)
    BY <2>1, <2>2, PartialMatchExtends
  <2>4. r \in Report(t)
    BY <1>3, <2>1 DEF Report
  <2>5. r.pm \in [LeavesOf(r.node) -> 1..Len(s)]
    BY <2>1 DEF IsPartialMatch, MatchesOf
  <2>6. \A i \in 1..Len(s) : t[i] = s[i]
    BY AppendProperties
  <2>7. \A q \in r.ids : WithinWindow(t, r.pm, PatternWindow[q])
    BY <2>5, <2>6 DEF SoundReport, WithinWindow
  <2> QED
    BY <2>3, <2>4, <2>7 DEF SoundReport
<1> QED
  BY <1>3, <1>4, <1>5

\* Output nodes are nodes.
LEMMA OutputNodes == OutputNode \subseteq Node
BY NodeAssumption DEF OutputNode, Range

-----------------------------------------------------------------------------
(* Storage operations *)

\* Cleaning keeps the ranges of the storages and adds nothing to them.
LEMMA CleanProperties ==
    ASSUME StoreInv, CountInv, NEW ns, NEW last
    PROVE  /\ CleanStores(ns, last) \in [Node -> SUBSET PartialMatch(stream)]
           /\ \A n \in Node : CleanStores(ns, last)[n] \subseteq SoundMatch(stream, n)
           /\ CleanAccess(ns) \in [Node -> Nat]
           /\ CleanFiltered(ns, last) \in [Node -> SUBSET (1..Len(stream))]
<1>1. \A n \in Node : Cleaned(n, last) \subseteq store[n]
  BY DEF Cleaned
<1>2. \A n \in Node : CleanedFiltered(n, last) \subseteq filtered[n]
  BY DEF CleanedFiltered
<1>3. \A n \in Node : CleanStores(ns, last)[n] \subseteq store[n]
  BY <1>1 DEF CleanStores
<1>4. /\ \A n \in Node : CleanStores(ns, last)[n] \subseteq SoundMatch(stream, n)
      /\ \A n \in Node : CleanStores(ns, last)[n] \in SUBSET PartialMatch(stream)
  BY <1>3 DEF StoreInv
<1>5. CleanStores(ns, last) \in [Node -> SUBSET PartialMatch(stream)]
  BY <1>4 DEF CleanStores
<1>6. CleanAccess(ns) \in [Node -> Nat]
  BY DEF CleanAccess, CountInv
<1>7. CleanFiltered(ns, last) \in [Node -> SUBSET (1..Len(stream))]
  BY <1>2 DEF CleanFiltered, CountInv
<1> QED
  BY <1>4, <1>5, <1>6, <1>7

\* A partial match is typed as one, and so are the events it may use up.
LEMMA PartialMatchType ==
    ASSUME NEW s, NEW n \in Node, NEW pm, IsPartialMatch(s, n, pm)
    PROVE  /\ pm \in PartialMatch(s)
           /\ pm \in SoundMatch(s, n)
           /\ Range(pm) \subseteq 1..Len(s)
BY DEF IsPartialMatch, PartialMatch, SoundMatch, MatchesOf, Range

\* Calling _add_partial_match with a partial match of the node is sound.
LEMMA AddFrameSound ==
    ASSUME NEW s, NEW n \in Node, NEW pm, IsPartialMatch(s, n, pm)
    PROVE  AddFrame(n, pm) \in SoundFrame(s)
<1> DEFINE f == AddFrame(n, pm)
<1>1. /\ f.op = "add" /\ f.node = n /\ f.pm = pm /\ f.next = Parents[n]
      /\ f.todo = {}
  BY DEF AddFrame
<1>2. Parents[n] \in Seq(Inner)
  BY ParentsAssumption
<1>3. f \in Frame(s)
  BY <1>2, PartialMatchType DEF AddFrame, Frame
<1>4. \A i \in DOMAIN Parents[n] :
        n \in {Left[Parents[n][i]], Right[Parents[n][i]]}
  BY ParentsAssumption DEF Range
<1> QED
  BY <1>1, <1>3, <1>4 DEF SoundFrame, FrameOK, FrameSound

-----------------------------------------------------------------------------
(* The invariant is inductive: one lemma per action *)

\* The state before the first event.
LEMMA InitInv ==
    ASSUME Init
    PROVE  IInv
<1>1. ControlInv
  BY EmptySeq DEF Init, ControlInv
<1>2. StackInv
  BY EmptySeq DEF Init, StackInv
<1>3. StoreInv
  BY DEF Init, StoreInv
<1>4. CountInv
  BY DEF Init, CountInv
<1>5. OutputInv
  BY EmptySeq DEF Init, OutputInv
<1> QED
  BY <1>1, <1>2, <1>3, <1>4, <1>5 DEF IInv

\* A new event: what the tree holds stays sound in the longer stream.
LEMMA ReadEventInv ==
    ASSUME IInv, ReadEvent
    PROVE  IInv'
<1> USE DEF IInv
<1>1. /\ phase = "idle" /\ stack = <<>> /\ playing = {}
      /\ stream \in Seq(Event)
  BY DEF ReadEvent, ControlInv
<1>2. PICK t \in EventType, ts \in NextStamps, v \in Val :
        /\ stream' = Append(stream, [type |-> t, ts |-> ts, val |-> v])
        /\ \/ SkipEvent([type |-> t, ts |-> ts, val |-> v])
           \/ AcceptEvent([type |-> t, ts |-> ts, val |-> v])
  BY DEF ReadEvent
<1> DEFINE e == [type |-> t, ts |-> ts, val |-> v]
<1>3. UNCHANGED <<stack, store, access, filtered, unreported, matches>>
  BY DEF ReadEvent
<1>4. e \in Event
  <2>1. CASE stream = <<>>
    BY <2>1 DEF NextStamps, Event
  <2>2. CASE stream # <<>>
    <3>1. Len(stream) \in 1..Len(stream)
      BY <1>1, <2>2, EmptySeq
    <3>2. Now \in Event
      BY <1>1, <3>1, ElementOfSeq DEF Now
    <3>3. Now.ts \in Nat
      BY <3>2 DEF Event
    <3>4. ts \in Nat
      BY <2>2, <3>3, BoundAssumption DEF NextStamps
    <3> QED
      BY <3>4 DEF Event
  <2> QED
    BY <2>1, <2>2
<1>5. /\ stream' \in Seq(Event)
      /\ stream' # <<>>
      /\ Len(stream') = Len(stream) + 1
      /\ Now' = e
      /\ Len(stream) \in Nat
  BY <1>1, <1>2, <1>4, AppendProperties, LenProperties DEF Now
<1>6. ControlInv'
  <2>1. CASE SkipEvent(e)
    BY <1>1, <1>3, <1>5, <2>1 DEF ControlInv, SkipEvent
  <2>2. CASE AcceptEvent(e)
    BY <1>1, <1>3, <1>5, <2>2 DEF ControlInv, AcceptEvent, Listeners
  <2> QED
    BY <1>2, <2>1, <2>2
<1>7. StackInv'
  BY <1>1, <1>3, EmptySeq DEF StackInv
<1>8. /\ \A n \in Node : SoundMatch(stream, n) \subseteq SoundMatch(stream', n)
      /\ PartialMatch(stream) \subseteq PartialMatch(stream')
      /\ SoundReport(stream) \subseteq SoundReport(stream')
  BY <1>1, <1>2, <1>4, SoundMonotonic
<1>9. StoreInv'
  BY <1>3, <1>8 DEF StoreInv
<1>10. CountInv'
  <2>1. freezers' \subseteq freezers
    BY <1>2 DEF SkipEvent, AcceptEvent
  <2>2. 1..Len(stream) \subseteq 1..Len(stream')
    BY <1>5
  <2> QED
    BY <1>3, <2>1, <2>2 DEF CountInv
<1>11. OutputInv'
  <2>1. \A n \in OutputNode : unreported[n] \in Seq(SoundMatch(stream', n))
    BY <1>8, OutputNodes, SeqMonotonic DEF OutputInv
  <2>2. \A n \in OutputNode : unreported[n] \in Seq(PartialMatch(stream'))
    BY <1>8, SeqMonotonic DEF OutputInv
  <2>3. unreported' \in [OutputNode -> Seq(PartialMatch(stream'))]
    BY <1>3, <2>2 DEF OutputInv
  <2>4. matches \in Seq(SoundReport(stream'))
    BY <1>8, SeqMonotonic DEF OutputInv
  <2> QED
    BY <1>3, <2>1, <2>3, <2>4 DEF OutputInv
<1> QED
  BY <1>6, <1>7, <1>9, <1>10, <1>11

\* A leaf closed by a freezer.
LEMMA IgnoreEventInv ==
    ASSUME IInv, NEW l \in Leaf, IgnoreEvent(l)
    PROVE  IInv'
<1> USE DEF IInv, IgnoreEvent
<1>1. ControlInv'
  BY DEF ControlInv, Now
<1>2. StackInv'
  BY DEF StackInv
<1>3. StoreInv'
  BY DEF StoreInv
<1>4. CountInv'
  BY DEF CountInv
<1>5. OutputInv'
  BY DEF OutputInv
<1> QED
  BY <1>1, <1>2, <1>3, <1>4, <1>5

\* A leaf that is still to visit listens to the event in the tree.
LEMMA PlayingFacts ==
    ASSUME ControlInv, NEW l \in playing
    PROVE  /\ phase = "playing"
           /\ stream # <<>>
           /\ stream \in Seq(Event)
           /\ Len(stream) \in 1..Len(stream)
           /\ TypeOf[l] = Now.type
           /\ l \in Leaf /\ l \in Node
<1>1. phase = "playing" /\ stream # <<>> /\ stream \in Seq(Event)
  BY DEF ControlInv
<1>2. Len(stream) \in 1..Len(stream)
  BY <1>1, EmptySeq
<1> QED
  BY <1>1, <1>2 DEF ControlInv, Node

\* The leaf takes the event: a sound match enters its storage and the stack.
LEMMA HandleEventInv ==
    ASSUME IInv, NEW l \in Leaf, HandleEvent(l)
    PROVE  IInv'
<1> USE DEF IInv
<1> DEFINE pm == LeafMatch(l)
<1>1. /\ phase = "playing"
      /\ stream # <<>>
      /\ stream \in Seq(Event)
      /\ Len(stream) \in 1..Len(stream)
      /\ TypeOf[l] = Now.type
      /\ l \in Node
  BY PlayingFacts DEF HandleEvent
<1>2. IsPartialMatch(stream, l, pm)
  BY <1>1, LeafMatchSound DEF HandleEvent, LeafAccepts
<1>3. /\ pm \in PartialMatch(stream)
      /\ pm \in SoundMatch(stream, l)
      /\ Range(pm) \subseteq 1..Len(stream)
  BY <1>1, <1>2, PartialMatchType
<1>4. stream' = stream
  BY DEF HandleEvent
<1>5. ControlInv'
  BY <1>1, <1>4 DEF ControlInv, HandleEvent, Now
<1>6. StackInv'
  <2>1. AddFrame(l, pm) \in SoundFrame(stream)
    BY <1>1, <1>2, AddFrameSound
  <2> QED
    BY <1>4, <2>1 DEF StackInv, HandleEvent
<1>7. /\ CleanStores({l}, Now.ts) \in [Node -> SUBSET PartialMatch(stream)]
      /\ \A n \in Node : CleanStores({l}, Now.ts)[n] \subseteq SoundMatch(stream, n)
      /\ CleanAccess({l}) \in [Node -> Nat]
      /\ CleanFiltered({l}, Now.ts) \in [Node -> SUBSET (1..Len(stream))]
  BY CleanProperties
<1>8. StoreInv'
  BY <1>3, <1>4, <1>7 DEF StoreInv, HandleEvent, AddedTo
<1>9. CountInv'
  <2>1. SingleEvents(l, pm) \subseteq 1..Len(stream)
    BY <1>3 DEF SingleEvents
  <2>2. freezers' \in SUBSET (1..Len(stream))
    BY <1>1 DEF HandleEvent, RegisterFreezer, CountInv
  <2>3. filtered' \in [Node -> SUBSET (1..Len(stream))]
    BY <1>1, <1>7, <2>1 DEF HandleEvent
  <2>4. access' \in [Node -> Nat]
    <3>1. access' = [CleanAccess({l}) EXCEPT ![l] = @ + 1]
      BY DEF HandleEvent
    <3>2. CleanAccess({l})[l] \in Nat
      BY <1>1, <1>7
    <3>3. CleanAccess({l})[l] + 1 \in Nat
      BY <3>2
    <3> QED
      BY <1>7, <3>1, <3>3
  <2> QED
    BY <1>4, <2>2, <2>3, <2>4 DEF CountInv
<1>10. OutputInv'
  BY <1>4 DEF OutputInv, HandleEvent
<1> QED
  BY <1>5, <1>6, <1>8, <1>9, <1>10

\* The leaf rejects the event and is cleaned.
LEMMA RejectEventInv ==
    ASSUME IInv, NEW l \in Leaf, RejectEvent(l)
    PROVE  IInv'
<1> USE DEF IInv
<1>1. phase = "playing" /\ Len(stream) \in 1..Len(stream)
  BY PlayingFacts DEF RejectEvent
<1>2. stream' = stream
  BY DEF RejectEvent
<1>3. ControlInv'
  BY <1>1, <1>2 DEF ControlInv, RejectEvent, Now
<1>4. StackInv'
  BY <1>2 DEF StackInv, RejectEvent
<1>5. /\ CleanStores({l}, Now.ts) \in [Node -> SUBSET PartialMatch(stream)]
      /\ \A n \in Node : CleanStores({l}, Now.ts)[n] \subseteq SoundMatch(stream, n)
      /\ CleanAccess({l}) \in [Node -> Nat]
      /\ CleanFiltered({l}, Now.ts) \in [Node -> SUBSET (1..Len(stream))]
  BY CleanProperties
<1>6. StoreInv'
  BY <1>2, <1>5 DEF StoreInv, RejectEvent
<1>7. CountInv'
  <2>1. freezers' \in SUBSET (1..Len(stream))
    BY <1>1 DEF RejectEvent, RegisterFreezer, CountInv
  <2> QED
    BY <1>2, <1>5, <2>1 DEF CountInv, RejectEvent
<1>8. OutputInv'
  BY <1>2 DEF OutputInv, RejectEvent
<1> QED
  BY <1>3, <1>4, <1>6, <1>7, <1>8

\* A call in progress: an event is in the tree and the call is sound.
LEMMA TopFacts ==
    ASSUME IInv, stack # <<>>
    PROVE  /\ phase = "playing"
           /\ Top \in SoundFrame(stream)
           /\ Top \in Frame(stream)
           /\ FrameOK(Top)
           /\ FrameSound(stream, Top)
<1>1. phase = "playing"
  BY DEF IInv, ControlInv
<1>2. Top \in SoundFrame(stream)
  BY StackProperties DEF IInv, StackInv
<1> QED
  BY <1>1, <1>2 DEF SoundFrame

\* A step that replaces sound calls by sound calls and keeps the stream, the
\* phase and the leaves to visit.
LEMMA CallStepInv ==
    ASSUME IInv, stack # <<>>, UNCHANGED <<stream, phase, playing>>
    PROVE  /\ ControlInv'
           /\ \A f \in SoundFrame(stream) :
                stack' = Continue(f) => StackInv'
           /\ \A f, g \in SoundFrame(stream) :
                stack' = Call(f, g) => StackInv'
           /\ stack' = Pop => StackInv'
<1>1. phase = "playing" /\ stack \in Seq(SoundFrame(stream))
  BY TopFacts DEF IInv, StackInv
<1>2. ControlInv'
  BY <1>1 DEF IInv, ControlInv, Now
<1>3. /\ \A f \in SoundFrame(stream) : Continue(f) \in Seq(SoundFrame(stream))
      /\ \A f, g \in SoundFrame(stream) : Call(f, g) \in Seq(SoundFrame(stream))
      /\ Pop \in Seq(SoundFrame(stream))
  BY <1>1, StackProperties
<1>4. SoundFrame(stream)' = SoundFrame(stream)
  BY DEF SoundFrame, Frame, FrameSound, IsPartialMatch, MatchesOf, PartialMatch
<1> QED
  BY <1>2, <1>3, <1>4 DEF StackInv

\* A parent takes the new match: it joins it with the other subtree.
LEMMA HandleNewPartialMatchInv ==
    ASSUME IInv, HandleNewPartialMatch
    PROVE  IInv'
<1> DEFINE p == Head(Top.next)
           other == Sibling(p, Top.node)
           last == LastTimestamp(Top.pm)
           sts == CleanStores({other, p}, last)
           rest == [Top EXCEPT !.next = Tail(@)]
           join == JoinFrame(p, Top.pm, Candidates(p, Top.node, sts))
<1>1. /\ stack # <<>> /\ Top.op = "add" /\ Top.next # <<>>
      /\ store' = sts
      /\ access' = CleanAccess({other, p})
      /\ filtered' = CleanFiltered({other, p}, last)
      /\ stack' = Call(rest, join)
      /\ UNCHANGED <<stream, phase, playing, freezers, unreported, matches>>
  BY DEF HandleNewPartialMatch
<1>2. /\ Top \in Frame(stream)
      /\ FrameOK(Top)
      /\ IsPartialMatch(stream, Top.node, Top.pm)
  BY <1>1, TopFacts DEF FrameSound
<1>3. /\ Top.next \in Seq(Inner)
      /\ Top.node \in Node
      /\ Top.pm \in PartialMatch(stream)
      /\ Top.todo \in SUBSET PartialMatch(stream)
  BY <1>2 DEF Frame
<1>4. /\ p \in Inner
      /\ Tail(Top.next) \in Seq(Inner)
      /\ Top.node \in {Left[p], Right[p]}
      /\ \A i \in DOMAIN Tail(Top.next) :
            Top.node \in {Left[Tail(Top.next)[i]], Right[Tail(Top.next)[i]]}
  <2>1. /\ p \in Inner
        /\ Tail(Top.next) \in Seq(Inner)
        /\ Len(Tail(Top.next)) = Len(Top.next) - 1
        /\ \A i \in 1..Len(Tail(Top.next)) : Tail(Top.next)[i] = Top.next[i + 1]
    BY <1>1, <1>3, HeadTailProperties
  <2>2. /\ Len(Top.next) \in Nat \ {0}
        /\ DOMAIN Top.next = 1..Len(Top.next)
        /\ DOMAIN Tail(Top.next) = 1..Len(Tail(Top.next))
    BY <1>1, <1>3, <2>1, EmptySeq, LenProperties
  <2>3. \A i \in 1..Len(Top.next) :
            Top.node \in {Left[Top.next[i]], Right[Top.next[i]]}
    BY <1>1, <1>2, <2>2 DEF FrameOK
  <2>4. p = Top.next[1] /\ 1 \in 1..Len(Top.next)
    BY <1>3, <2>2
  <2>5. Top.node \in {Left[p], Right[p]}
    BY <2>3, <2>4
  <2>6. ASSUME NEW i \in DOMAIN Tail(Top.next)
        PROVE  Top.node \in {Left[Tail(Top.next)[i]], Right[Tail(Top.next)[i]]}
    <3>1. i + 1 \in 1..Len(Top.next) /\ Tail(Top.next)[i] = Top.next[i + 1]
      BY <2>1, <2>2
    <3> QED
      BY <2>3, <3>1
  <2> QED
    BY <2>1, <2>5, <2>6
<1>5. rest \in SoundFrame(stream)
  <2>1. /\ rest.op = "add" /\ rest.node = Top.node /\ rest.pm = Top.pm
        /\ rest.next = Tail(Top.next) /\ rest.todo = Top.todo
    BY <1>1, <1>2 DEF Frame
  <2>2. rest \in Frame(stream)
    BY <1>2, <1>4 DEF Frame
  <2> QED
    BY <1>2, <1>4, <2>1, <2>2 DEF SoundFrame, FrameOK, FrameSound
<1>6. /\ sts \in [Node -> SUBSET PartialMatch(stream)]
      /\ \A n \in Node : sts[n] \subseteq SoundMatch(stream, n)
      /\ CleanAccess({other, p}) \in [Node -> Nat]
      /\ CleanFiltered({other, p}, last) \in [Node -> SUBSET (1..Len(stream))]
  BY CleanProperties DEF IInv
<1>7. other \in Node /\ p \in Node
  BY <1>4, SidesOfInner
<1>8. join \in SoundFrame(stream)
  <2>1. /\ join.op = "join" /\ join.node = p /\ join.pm = Top.pm
        /\ join.next = <<>> /\ join.todo = sts[other]
    BY DEF JoinFrame, Candidates
  <2>2. sts[other] \in SUBSET PartialMatch(stream) /\ <<>> \in Seq(Inner)
    BY <1>6, <1>7, EmptySeq
  <2>3. join \in Frame(stream)
    BY <1>3, <1>7, <2>2 DEF JoinFrame, Candidates, Frame
  <2>4. \A y \in sts[other] : IsPartialMatch(stream, other, y)
    BY <1>6, <1>7 DEF SoundMatch
  <2> QED
    BY <1>2, <1>4, <2>1, <2>3, <2>4 DEF SoundFrame, FrameOK, FrameSound
<1>9. ControlInv' /\ StackInv'
  BY <1>1, <1>5, <1>8, CallStepInv
<1>10. StoreInv'
  BY <1>1, <1>6 DEF StoreInv
<1>11. CountInv'
  BY <1>1, <1>6 DEF CountInv, IInv
<1>12. OutputInv'
  BY <1>1 DEF OutputInv, IInv
<1> QED
  BY <1>9, <1>10, <1>11, <1>12 DEF IInv

\* A join accepts a candidate: by JoinSound the result is a sound match of
\* the joining node.
LEMMA CreateMatchInv ==
    ASSUME Aligned, IInv, CreateMatch
    PROVE  IInv'
<1>1. /\ stack # <<>> /\ Top.op = "join"
      /\ UNCHANGED <<stream, phase, playing, freezers, unreported, matches>>
  BY DEF CreateMatch
<1> DEFINE n == Top.node
<1>2. PICK c \in Top.todo :
        /\ Joinable(n, MergeMatches(n, Top.pm, c))
        /\ store' = AddedTo(store, n, MergeMatches(n, Top.pm, c))
        /\ access' = [access EXCEPT ![n] = @ + 1]
        /\ filtered' = [filtered EXCEPT
                           ![n] = @ \cup SingleEvents(n, MergeMatches(n, Top.pm, c))]
        /\ stack' = Call([Top EXCEPT !.todo = @ \ {c}],
                         AddFrame(n, MergeMatches(n, Top.pm, c)))
  BY DEF CreateMatch
<1> DEFINE pm == MergeMatches(n, Top.pm, c)
           rest == [Top EXCEPT !.todo = @ \ {c}]
<1>3. /\ Top \in Frame(stream)
      /\ FrameOK(Top)
      /\ n \in Inner
      /\ n \in Node
  BY <1>1, TopFacts DEF FrameOK, Node
<1>4. PICK d \in {Left[n], Right[n]} :
        /\ IsPartialMatch(stream, d, Top.pm)
        /\ \A y \in Top.todo : IsPartialMatch(stream, Sibling(n, d), y)
  BY <1>1, TopFacts DEF FrameSound
<1>5. IsPartialMatch(stream, n, pm)
  <2>1. Valid(stream, n, pm)
    BY <1>2 DEF Joinable
  <2> QED
    BY <1>2, <1>3, <1>4, <2>1, JoinSound
<1>6. /\ pm \in PartialMatch(stream)
      /\ pm \in SoundMatch(stream, n)
      /\ Range(pm) \subseteq 1..Len(stream)
  BY <1>3, <1>5, PartialMatchType
<1>7. rest \in SoundFrame(stream)
  <2>1. /\ rest.op = "join" /\ rest.node = n /\ rest.pm = Top.pm
        /\ rest.next = Top.next /\ rest.todo = Top.todo \ {c}
    BY <1>1, <1>3 DEF Frame
  <2>2. rest \in Frame(stream)
    BY <1>3 DEF Frame
  <2>3. FrameOK(rest)
    BY <1>1, <1>3, <2>1 DEF FrameOK
  <2>4. FrameSound(stream, rest)
    BY <1>4, <2>1 DEF FrameSound
  <2> QED
    BY <2>2, <2>3, <2>4 DEF SoundFrame
<1>8. AddFrame(n, pm) \in SoundFrame(stream)
  BY <1>3, <1>5, AddFrameSound
<1>9. ControlInv' /\ StackInv'
  BY <1>1, <1>2, <1>7, <1>8, CallStepInv
<1>10. StoreInv'
  BY <1>1, <1>2, <1>3, <1>6 DEF IInv, StoreInv, AddedTo
<1>11. CountInv'
  <2>1. access[n] \in Nat
    BY <1>3 DEF IInv, CountInv
  <2>2. access' \in [Node -> Nat]
    <3>1. access[n] + 1 \in Nat
      BY <2>1
    <3> QED
      BY <1>2, <3>1 DEF IInv, CountInv
  <2>3. SingleEvents(n, pm) \subseteq 1..Len(stream)
    BY <1>6 DEF SingleEvents
  <2>4. filtered' \in [Node -> SUBSET (1..Len(stream))]
    BY <1>2, <1>3, <2>3 DEF IInv, CountInv
  <2> QED
    BY <1>1, <2>2, <2>4 DEF IInv, CountInv
<1>12. OutputInv'
  BY <1>1 DEF OutputInv, IInv
<1> QED
  BY <1>9, <1>10, <1>11, <1>12 DEF IInv

\* A join rejects a candidate.
LEMMA RejectCandidateInv ==
    ASSUME IInv, RejectCandidate
    PROVE  IInv'
<1>1. /\ stack # <<>> /\ Top.op = "join"
      /\ UNCHANGED <<stream, phase, playing, store, access, filtered, freezers,
                     unreported, matches>>
  BY DEF RejectCandidate
<1>2. PICK c \in Top.todo : stack' = Continue([Top EXCEPT !.todo = @ \ {c}])
  BY DEF RejectCandidate
<1> DEFINE rest == [Top EXCEPT !.todo = @ \ {c}]
<1>3. Top \in Frame(stream) /\ FrameOK(Top) /\ FrameSound(stream, Top)
  BY <1>1, TopFacts
<1>4. /\ rest.op = "join" /\ rest.node = Top.node /\ rest.pm = Top.pm
      /\ rest.next = Top.next /\ rest.todo = Top.todo \ {c}
  BY <1>1, <1>3 DEF Frame
<1>5. rest \in SoundFrame(stream)
  <2>1. rest \in Frame(stream)
    BY <1>3 DEF Frame
  <2>2. FrameOK(rest)
    BY <1>1, <1>3, <1>4 DEF FrameOK
  <2>3. FrameSound(stream, rest)
    BY <1>1, <1>3, <1>4 DEF FrameSound
  <2> QED
    BY <2>1, <2>2, <2>3 DEF SoundFrame
<1>6. ControlInv' /\ StackInv'
  BY <1>1, <1>2, <1>5, CallStepInv
<1> QED
  BY <1>1, <1>6 DEF IInv, StoreInv, CountInv, OutputInv

\* A join is through with its candidates.
LEMMA FinishJoinInv ==
    ASSUME IInv, FinishJoin
    PROVE  IInv'
<1>1. /\ stack # <<>> /\ stack' = Pop
      /\ UNCHANGED <<stream, phase, playing, store, access, filtered, freezers,
                     unreported, matches>>
  BY DEF FinishJoin
<1>2. ControlInv' /\ StackInv'
  BY <1>1, CallStepInv
<1> QED
  BY <1>1, <1>2 DEF IInv, StoreInv, CountInv, OutputInv

\* An addition is through with the parents; an output node queues the match.
LEMMA FinishAddInv ==
    ASSUME IInv, FinishAdd
    PROVE  IInv'
<1>1. /\ stack # <<>> /\ Top.op = "add" /\ stack' = Pop
      /\ unreported' = [n \in OutputNode |->
                          IF n = Top.node THEN Append(unreported[n], Top.pm)
                                          ELSE unreported[n]]
      /\ UNCHANGED <<stream, phase, playing, store, access, filtered, freezers,
                     matches>>
  BY DEF FinishAdd
<1>2. ControlInv' /\ StackInv'
  BY <1>1, CallStepInv
<1>3. /\ Top.node \in Node
      /\ IsPartialMatch(stream, Top.node, Top.pm)
  BY <1>1, TopFacts DEF FrameSound, Frame
<1>4. Top.pm \in SoundMatch(stream, Top.node) /\ Top.pm \in PartialMatch(stream)
  BY <1>3, PartialMatchType
<1>5. OutputInv'
  <2>1. \A n \in OutputNode : unreported'[n] \in Seq(SoundMatch(stream, n))
    BY <1>1, <1>4, AppendProperties DEF IInv, OutputInv
  <2>2. \A n \in OutputNode : unreported'[n] \in Seq(PartialMatch(stream))
    BY <1>1, <1>4, AppendProperties DEF IInv, OutputInv
  <2>3. unreported' \in [OutputNode -> Seq(PartialMatch(stream))]
    BY <1>1, <2>2
  <2> QED
    BY <1>1, <2>1, <2>3 DEF IInv, OutputInv
<1> QED
  BY <1>1, <1>2, <1>5 DEF IInv, StoreInv, CountInv

\* One full match moves to the output stream.
LEMMA ReportMatchInv ==
    ASSUME IInv, NEW n \in OutputNode, ReportMatch(n)
    PROVE  IInv'
<1> DEFINE pm == Head(unreported[n])
           report == [pm |-> pm, node |-> n, ids |-> PatternIds(n, pm)]
<1>1. /\ unreported[n] # <<>>
      /\ matches' = Append(matches, report)
      /\ freezers' \subseteq freezers
      /\ unreported' = [unreported EXCEPT ![n] = Tail(@)]
      /\ UNCHANGED <<stream, phase, playing, stack, store, access, filtered>>
  BY DEF ReportMatch
<1>2. /\ unreported[n] \in Seq(SoundMatch(stream, n))
      /\ unreported[n] \in Seq(PartialMatch(stream))
  BY DEF IInv, OutputInv
<1>3. pm \in SoundMatch(stream, n) /\ pm \in PartialMatch(stream)
  BY <1>1, <1>2, HeadTailProperties
<1>4. report \in SoundReport(stream)
  <2>1. report \in Report(stream)
    BY <1>3 DEF Report, PatternIds
  <2>2. IsPartialMatch(stream, n, pm)
    BY <1>3 DEF SoundMatch
  <2>3. \A p \in report.ids : /\ Root[p] = n
                              /\ WithinWindow(stream, pm, PatternWindow[p])
    BY DEF PatternIds
  <2> QED
    BY <2>1, <2>2, <2>3 DEF SoundReport
<1>5. matches' \in Seq(SoundReport(stream))
  BY <1>1, <1>4, AppendProperties DEF IInv, OutputInv
<1>6. /\ Tail(unreported[n]) \in Seq(SoundMatch(stream, n))
      /\ Tail(unreported[n]) \in Seq(PartialMatch(stream))
  BY <1>1, <1>2, HeadTailProperties
<1>7. OutputInv'
  <2>1. unreported' \in [OutputNode -> Seq(PartialMatch(stream))]
    BY <1>1, <1>6 DEF IInv, OutputInv
  <2>2. \A k \in OutputNode : unreported'[k] \in Seq(SoundMatch(stream, k))
    BY <1>1, <1>6 DEF IInv, OutputInv
  <2> QED
    BY <1>1, <1>5, <2>1, <2>2 DEF OutputInv
<1>8. ControlInv' /\ StackInv' /\ StoreInv'
  BY <1>1 DEF IInv, ControlInv, StackInv, StoreInv, Now
<1>9. CountInv'
  BY <1>1 DEF IInv, CountInv
<1> QED
  BY <1>7, <1>8, <1>9 DEF IInv

\* The event is finished, or the stream is closed: only the phase changes.
LEMMA PhaseInv ==
    ASSUME IInv, FinishEvent \/ Close
    PROVE  IInv'
<1>1. UNCHANGED <<stream, playing, stack, store, access, filtered, freezers,
                  unreported, matches>>
  BY DEF FinishEvent, Close
<1>2. ControlInv'
  BY <1>1 DEF IInv, ControlInv, FinishEvent, Close, Settled, Now
<1> QED
  BY <1>1, <1>2 DEF IInv, StackInv, StoreInv, CountInv, OutputInv

-----------------------------------------------------------------------------
(* Types and soundness *)

\* Every step, and every stutter, keeps the invariant.
LEMMA NextInv ==
    ASSUME Aligned, IInv, [Next]_vars
    PROVE  IInv'
<1>1. CASE ReadEvent
  BY <1>1, ReadEventInv
<1>2. ASSUME NEW l \in Leaf, IgnoreEvent(l) \/ HandleEvent(l) \/ RejectEvent(l)
      PROVE  IInv'
  BY <1>2, IgnoreEventInv, HandleEventInv, RejectEventInv
<1>3. CASE HandleNewPartialMatch
  BY <1>3, HandleNewPartialMatchInv
<1>4. CASE FinishAdd
  BY <1>4, FinishAddInv
<1>5. CASE CreateMatch
  BY <1>5, CreateMatchInv
<1>6. CASE RejectCandidate
  BY <1>6, RejectCandidateInv
<1>7. CASE FinishJoin
  BY <1>7, FinishJoinInv
<1>8. ASSUME NEW n \in OutputNode, ReportMatch(n)
      PROVE  IInv'
  BY <1>8, ReportMatchInv
<1>9. CASE FinishEvent \/ Close
  BY <1>9, PhaseInv
<1>10. CASE UNCHANGED vars
  BY <1>10 DEF vars, IInv, ControlInv, StackInv, StoreInv, CountInv, OutputInv, Now
<1> QED
  BY <1>1, <1>2, <1>3, <1>4, <1>5, <1>6, <1>7, <1>8, <1>9, <1>10 DEF Next, Step

LEMMA Invariance ==
    ASSUME Aligned
    PROVE  Spec => []IInv
<1>1. Init => IInv
  BY InitInv
<1>2. IInv /\ [Next]_vars => IInv'
  BY NextInv
<1> QED
  BY <1>1, <1>2, PTL DEF Spec

\* What the invariant says of the stack, in terms of its indices.
LEMMA InvStack ==
    ASSUME IInv
    PROVE  /\ stack \in Seq(Frame(stream))
           /\ \A i \in 1..Len(stack) : FrameOK(stack[i])
           /\ \A i \in 1..Len(stack) : FrameSound(stream, stack[i])
<1>1. stack \in Seq(SoundFrame(stream))
  BY DEF IInv, StackInv
<1>2. SoundFrame(stream) \subseteq Frame(stream)
  BY DEF SoundFrame
<1>3. \A i \in 1..Len(stack) : stack[i] \in SoundFrame(stream)
  BY <1>1, ElementOfSeq
<1> QED
  BY <1>1, <1>2, <1>3, SeqMonotonic DEF SoundFrame

LEMMA InvTypeOK ==
    ASSUME IInv
    PROVE  TypeOK
<1>1. matches \in Seq(Report(stream))
  <2>1. SoundReport(stream) \subseteq Report(stream)
    BY DEF SoundReport
  <2> QED
    BY <2>1, SeqMonotonic DEF IInv, OutputInv
<1>2. ControlInv /\ StoreInv /\ CountInv /\ OutputInv
  BY DEF IInv
<1> QED
  BY <1>1, <1>2, InvStack DEF TypeOK, ControlInv, StoreInv, CountInv, OutputInv

LEMMA InvSound ==
    ASSUME IInv
    PROVE  Sound
<1>1. \A n \in Node : \A pm \in store[n] : IsPartialMatch(stream, n, pm)
  BY DEF IInv, StoreInv, SoundMatch
<1>2. \A n \in OutputNode : \A i \in 1..Len(unreported[n]) :
        IsPartialMatch(stream, n, unreported[n][i])
  <2> SUFFICES ASSUME NEW n \in OutputNode, NEW i \in 1..Len(unreported[n])
               PROVE  IsPartialMatch(stream, n, unreported[n][i])
    OBVIOUS
  <2>1. unreported[n] \in Seq(SoundMatch(stream, n))
    BY DEF IInv, OutputInv
  <2>2. unreported[n][i] \in SoundMatch(stream, n)
    BY <2>1, ElementOfSeq
  <2> QED
    BY <2>2 DEF SoundMatch
<1>3. \A i \in 1..Len(matches) :
        IsPartialMatch(stream, matches[i].node, matches[i].pm)
  <2> SUFFICES ASSUME NEW i \in 1..Len(matches)
               PROVE  IsPartialMatch(stream, matches[i].node, matches[i].pm)
    OBVIOUS
  <2>1. matches[i] \in SoundReport(stream)
    BY ElementOfSeq DEF IInv, OutputInv
  <2> QED
    BY <2>1 DEF SoundReport
<1> QED
  BY <1>1, <1>2, <1>3, InvStack DEF Sound

\* The type invariant holds of every tree and every stream: no call in progress
\* is at a foreign node, and none is left over between two events.
THEOREM TypeCorrect ==
    ASSUME Aligned
    PROVE  Spec => []TypeOK
<1>1. IInv => TypeOK
  BY InvTypeOK
<1> QED
  BY <1>1, Invariance, PTL

\* Soundness of every storage, every call in progress, every queue and the
\* output, for every tree, sharing and policy (Node, BinaryNode, Tree).
THEOREM Soundness ==
    ASSUME Aligned
    PROVE  Spec => []Sound
<1>1. IInv => Sound
  BY InvSound
<1> QED
  BY <1>1, Invariance, PTL

-----------------------------------------------------------------------------
(* Reported matches and patterns *)

\* Node.apply_condition loses no atom: walking down from the root, an atom
\* ends at the lowest node whose leaves it stays within.
LEMMA AtomAssigned ==
    ASSUME NEW p \in Pattern, NEW a \in Condition[p]
    PROVE  \E m \in Subtree[Root[p]] : a \in NodeCondition(m)
<1> DEFINE Cand == {m \in Subtree[Root[p]] : a.on \subseteq LeavesOf(m)}
           T == {Subtree[m] : m \in Cand}
           R == StrictSubsetOrdering(Node)
<1>1. Root[p] \in Node
  BY NodeAssumption
<1>2. Root[p] \in Subtree[Root[p]]
  BY <1>1, SubtreeAssumption DEF Node
<1>3. Subtree[Root[p]] \in T
  BY <1>1, <1>2, PatternAssumption
<1>4. T \subseteq FiniteSubsetsOf(Node)
  <2> SUFFICES ASSUME NEW m \in Cand
               PROVE  Subtree[m] \in FiniteSubsetsOf(Node)
    OBVIOUS
  <2>1. Subtree[m] \in SUBSET Node
    BY <1>1, SubtreeAssumption
  <2>2. IsFiniteSet(Subtree[m])
    BY <2>1, NodeAssumption, FS_Subset
  <2> QED
    BY <2>1, <2>2 DEF FiniteSubsetsOf
<1>5. IsWellFoundedOn(R, FiniteSubsetsOf(Node))
  BY FS_StrictSubsetOrderingWellFounded
<1>6. PICK m \in Cand : \A y \in T : ~ (<<y, Subtree[m]>> \in R)
  <2>1. \E x \in T : \A y \in T : ~ (<<y, x>> \in R)
    BY <1>3, <1>4, <1>5, WFMin
  <2> QED
    BY <2>1
<1>7. m \in Node /\ m \in Subtree[Root[p]] /\ a.on \subseteq LeavesOf(m)
  BY <1>1, LeavesBelow
<1>8. ASSUME m \in Inner, NEW c \in {Left[m], Right[m]}
      PROVE  ~ a.on \subseteq LeavesOf(c)
  <2> SUFFICES ASSUME a.on \subseteq LeavesOf(c)
               PROVE  FALSE
    OBVIOUS
  <2>1. /\ c \in Node
        /\ Subtree[c] \subseteq Subtree[m]
        /\ m \in Subtree[m]
        /\ m \notin Subtree[c]
        /\ c \in Subtree[c]
    <3>1. m \in Node /\ c \in Node
      BY <1>8, NodeAssumption DEF Node
    <3>2. \A n \in Node : n \in Subtree[n]
      BY SubtreeAssumption DEF Node
    <3>3. /\ Subtree[m] = {m} \cup Subtree[Left[m]] \cup Subtree[Right[m]]
          /\ m \notin Subtree[Left[m]] \cup Subtree[Right[m]]
      BY <1>8, SubtreeAssumption
    <3> QED
      BY <3>1, <3>2, <3>3
  <2>2. c \in Cand
    BY <1>1, <1>7, <2>1, SubtreeAssumption
  <2>3. Subtree[m] \subseteq Node /\ Subtree[c] \subseteq Node
    BY <1>7, <2>1, SubtreeAssumption
  <2>4. <<Subtree[c], Subtree[m]>> \in R
    BY <2>1, <2>3 DEF StrictSubsetOrdering
  <2> QED
    BY <1>6, <2>2, <2>4
<1>9. p \in PatternsOver(m)
  BY <1>7 DEF PatternsOver
<1>10. a \in NodeCondition(m)
  BY <1>7, <1>8, <1>9 DEF NodeCondition
<1> QED
  BY <1>7, <1>10

\* A sound match of the root of p, within the window of p, satisfies p if the
\* tree orders p.
LEMMA SoundMatchSatisfies ==
    ASSUME NEW s, NEW p \in Pattern, NEW pm,
           IsPartialMatch(s, Root[p], pm), WithinWindow(s, pm, PatternWindow[p]),
           OrdersPattern(p)
    PROVE  Sem!IsMatch(s, p, pm)
<1> DEFINE n == Root[p]
<1>1. /\ n \in Node
      /\ pm \in [LeavesOf(n) -> 1..Len(s)]
  BY NodeAssumption DEF IsPartialMatch, MatchesOf
<1>2. \A l \in DOMAIN pm : s[pm[l]].type = TypeOf[l]
  BY <1>1 DEF IsPartialMatch
<1>3. n \in Subtree[n]
  BY <1>1, SubtreeAssumption DEF Node
<1>4. \A m \in Subtree[n] :
        /\ m \in Node
        /\ LeavesOf(m) \subseteq LeavesOf(n)
        /\ Valid(s, m, Restrict(pm, LeavesOf(m)))
  BY <1>1, LeavesBelow DEF IsPartialMatch
<1>5. IsInjective(pm)
  <2>1. CASE n \in Leaf
    BY <1>1, <2>1, LeafOfLeaf DEF IsInjective
  <2>2. CASE n \in Inner
    <3>1. Restrict(pm, LeavesOf(n)) = pm
      BY <1>1 DEF Restrict
    <3> QED
      BY <1>3, <1>4, <2>2, <3>1 DEF Valid
  <2> QED
    BY <1>1, <2>1, <2>2 DEF Node
<1>6. ASSUME NEW o \in Precedes[p]
      PROVE  s[pm[o[1]]].ts <= s[pm[o[2]]].ts
  <2>1. PICK m \in Subtree[n] \cap Inner :
            /\ Operator[m] = "SEQ"
            /\ \E i, j \in DOMAIN EventDefs[m] :
                  i < j /\ EventDefs[m][i] = o[1] /\ EventDefs[m][j] = o[2]
    BY DEF OrdersPattern
  <2>2. PICK i, j \in DOMAIN EventDefs[m] :
            i < j /\ EventDefs[m][i] = o[1] /\ EventDefs[m][j] = o[2]
    BY <2>1
  <2> DEFINE r == Restrict(pm, LeavesOf(m))
  <2>3. InOrder(s, m, r)
    BY <1>4, <2>1 DEF Valid
  <2>4. s[r[o[1]]].ts <= s[r[o[2]]].ts
    BY <2>2, <2>3 DEF InOrder
  <2>5. o[1] \in LeavesOf(m) /\ o[2] \in LeavesOf(m)
    BY <1>4, <2>2, EventDefsAssumption DEF Range
  <2> QED
    BY <2>4, <2>5 DEF Restrict
<1>7. ASSUME NEW a \in Condition[p]
      PROVE  Satisfies(s, pm, a)
  <2>1. PICK m \in Subtree[n] : a \in NodeCondition(m)
    BY AtomAssigned
  <2>2. a.on \subseteq LeavesOf(m)
    BY <2>1 DEF NodeCondition
  <2>3. Satisfies(s, Restrict(pm, LeavesOf(m)), a)
    BY <1>4, <2>1 DEF Valid
  <2>4. [l \in a.on |-> s[Restrict(pm, LeavesOf(m))[l]].val]
            = [l \in a.on |-> s[pm[l]].val]
    BY <2>2 DEF Restrict
  <2> QED
    BY <2>3, <2>4 DEF Satisfies
<1> QED
  <2>1. Sem!IsInjective(pm)
    BY <1>5 DEF Sem!IsInjective, IsInjective
  <2>2. Sem!WithinWindow(s, pm, PatternWindow[p])
    BY DEF Sem!WithinWindow, WithinWindow
  <2>3. \A a \in Condition[p] : Sem!Satisfies(s, pm, a)
    BY <1>7 DEF Sem!Satisfies, Satisfies
  <2> QED
    BY <1>2, <1>6, <2>1, <2>2, <2>3 DEF Sem!IsMatch, Sem!BruteForceMatch

\* Reported matches satisfy the patterns they are attached to, provided the
\* tree orders them.
THEOREM ReportedSatisfy ==
    ASSUME Aligned
    PROVE  Spec => []OrderedPatternsSatisfied
<1>1. ASSUME IInv
      PROVE  OrderedPatternsSatisfied
  <2> SUFFICES ASSUME NEW i \in DOMAIN matches, NEW p \in matches[i].ids,
                      OrdersPattern(p)
               PROVE  Sem!IsMatch(stream, p, matches[i].pm)
    BY DEF OrderedPatternsSatisfied
  <2>1. matches \in Seq(SoundReport(stream))
    BY <1>1 DEF IInv, OutputInv
  <2>2. i \in 1..Len(matches)
    BY <2>1, LenProperties
  <2>3. matches[i] \in SoundReport(stream)
    BY <2>1, <2>2, ElementOfSeq
  <2>4. /\ p \in Pattern
        /\ IsPartialMatch(stream, Root[p], matches[i].pm)
        /\ WithinWindow(stream, matches[i].pm, PatternWindow[p])
    BY <2>3 DEF SoundReport, Report
  <2> QED
    BY <2>4, SoundMatchSatisfies
<1> QED
  BY <1>1, Invariance, PTL

-----------------------------------------------------------------------------
(***************************************************************************)
(* Beyond soundness: nothing is lost, nothing is made twice, and the       *)
(* policies hold, for every window, cleanup interval and stream.           *)
(*                                                                         *)
(* The newest event enters the tree at one leaf at a time, and a call in   *)
(* progress stands for all the matches it will still lead to: an addition  *)
(* at a node for those above its parents to come, a join for those made of *)
(* its candidates (Ahead).  The calls stand for different matches, none of *)
(* them stored yet (ApartInv), so no match is made twice (NoDuplicates).   *)
(* Every match that the storages should hold is stored or ahead            *)
(* (CoverInv); since each call carries the newest event, what lazy cleanup *)
(* removes is out of the window of anything joined later                   *)
(* (StoresAreComplete).                                                    *)
(*                                                                         *)
(* A full match passes from the addition at its output node to the queue   *)
(* and to the output stream (Added).  Those of the newest event are ahead, *)
(* added, or stopped by a policy for an event of one that was (OutInv),    *)
(* which makes the tree an implementation of PatternSemantics              *)
(* (ImplementsSemantics) and a limiting policy reject nothing without      *)
(* reason (RejectsWithReason).                                             *)
(*                                                                         *)
(* The filter of a node keeps the live events it has let pass (FilterInv), *)
(* so these are in one stored match (OneMatchPerEvent) and one full match  *)
(* (UseInv, EventsUsedOnce).  A freezer in its leaf is in force until it   *)
(* is matched or expires (FreezerInv, FreezersHold).                       *)
(***************************************************************************)

Newest == Len(stream)

\* Match m has the events of match z.
Over(m, z) ==
    DOMAIN z \subseteq DOMAIN m /\ \A l \in DOMAIN z : m[l] = z[l]

\* Match m has the events of x and y, which share no leaf, and nothing else.
Combines(m, x, y) ==
    /\ DOMAIN m = DOMAIN x \cup DOMAIN y
    /\ DOMAIN x \cap DOMAIN y = {}
    /\ Over(m, x)
    /\ Over(m, y)

\* Call f will try to make match m of node n.
Pends(f, n, m) ==
    \/ /\ f.op = "add"
       /\ Over(m, f.pm)
       /\ \E p \in Range(f.next) : p \in Subtree[n]
    \/ /\ f.op = "join"
       /\ f.node \in Subtree[n]
       /\ Over(m, f.pm)
       /\ \E y \in f.todo : Over(m, y)

\* A match at a node of the tree, and those that are stored.
Placed == {x \in Node \X PartialMatch(stream) : IsPartialMatch(stream, x[1], x[2])}

Stored == {x \in Placed : x[2] \in store[x[1]]}

\* What a call will try to make.
Ahead == [f \in SoundFrame(stream) |-> {x \in Placed : Pends(f, x[1], x[2])}]

\* All that the elements of sequence s stand for, by the function F; no two
\* stand for the same.
All(F, s) == UNION {F[s[i]] : i \in DOMAIN s}

Apart(F, s) == \A i, j \in DOMAIN s : i # j => F[s[i]] \cap F[s[j]] = {}

\* The match of node n that a call adds, that is queued, or that is reported.
Adding(n) ==
    [f \in SoundFrame(stream) |-> IF f.op = "add" /\ f.node = n THEN {f.pm} ELSE {}]

Queued(n) == [m \in PartialMatch(stream) |-> {m}]

Delivered(n) == [r \in SoundReport(stream) |-> IF r.node = n THEN {r.pm} ELSE {}]

\* The events of such a match that no other match of node n may have.
Limited(n, m) == IF n \in Leaf THEN Range(m) ELSE SingleEvents(n, m)

AddingUse(n) ==
    [f \in SoundFrame(stream) |->
        IF f.op = "add" /\ f.node = n THEN Limited(n, f.pm) ELSE {}]

QueuedUse(n) == [m \in PartialMatch(stream) |-> Limited(n, m)]

DeliveredUse(n) ==
    [r \in SoundReport(stream) |-> IF r.node = n THEN Limited(n, r.pm) ELSE {}]

-----------------------------------------------------------------------------
(* The invariants *)

\* A match is seen when no leaf is still to be visited with an event of it.
SeenMatch(m) == \A l \in playing \cap DOMAIN m : m[l] # Newest

\* A call is about the newest event, does not look ahead to a leaf still to be
\* visited, and notifies no parent twice.
NewestFrame(f) ==
    /\ Newest \in Range(f.pm)
    /\ SeenMatch(f.pm)
    /\ \A y \in f.todo : SeenMatch(y)
    /\ IsInjective(f.next)

Ordered == \A i, j \in 1..Newest : i <= j => stream[i].ts <= stream[j].ts

StoresSeen == \A n \in Node : \A m \in store[n] : SeenMatch(m)

\* What is queued has the newest event; what is reported has it only after the
\* event has visited all leaves.
OutputNewest ==
    /\ \A n \in OutputNode : \A m \in Range(unreported[n]) :
        Newest \in Range(m) /\ SeenMatch(m)
    /\ phase # "playing" => \A n \in OutputNode : unreported[n] = <<>>
    /\ playing # {} => \A r \in Range(matches) : Newest \notin Range(r.pm)

NewestInv ==
    /\ Ordered
    /\ \A f \in Range(stack) : NewestFrame(f)
    /\ StoresSeen
    /\ OutputNewest

ApartInv ==
    /\ Apart(Ahead, stack)
    /\ All(Ahead, stack) \cap Stored = {}

\* No policy limits node n, or the nodes below it.
FreeBelow(n) == \A k \in Subtree[n] \ {n} : SingleTypesOf(k) = {}

Free(n) == FreeBelow(n) /\ SingleTypesOf(n) = {}

\* The matches of node n that a later event, or the newest, may extend.
LiveMatch(n, m) ==
    /\ IsPartialMatch(stream, n, m)
    /\ SeenMatch(m)
    /\ NotBefore(stream, m, Now.ts - Window[n])

\* They are stored or ahead.
CoverInv ==
    stream # <<>> =>
        \A n \in Node, m \in PartialMatch(stream) :
            Free(n) /\ LiveMatch(n, m) => <<n, m>> \in Stored \cup All(Ahead, stack)

\* The full matches of node n that have been added, and the events of limited
\* types in them.
Added(n) ==
    All(Adding(n), stack) \cup All(Queued(n), unreported[n])
        \cup All(Delivered(n), matches)

\* Match m has been added to node n, or one that uses up an event of it.
Consumed(n, m) ==
    \E z \in Added(n) : z = m \/ SingleEvents(n, m) \cap SingleEvents(n, z) # {}

\* What the filter of an output node holds was used up by a full match.
UsedInv ==
    \A n \in OutputNode : \A e \in filtered[n] :
        \E z \in Added(n) : e \in SingleEvents(n, z)

\* The full matches of the newest event are consumed or ahead.
OutInv ==
    \A n \in OutputNode, m \in PartialMatch(stream) :
        /\ FreeBelow(n) /\ IsPartialMatch(stream, n, m)
        /\ Newest \in Range(m) /\ SeenMatch(m)
        => <<n, m>> \in All(Ahead, stack) \/ Consumed(n, m)

\* The full matches of the events evaluated before are consumed.
DoneInv ==
    \A n \in OutputNode, m \in PartialMatch(stream) :
        /\ FreeBelow(n) /\ IsPartialMatch(stream, n, m)
        /\ \A l \in DOMAIN m : m[l] <= SeenLength
        => Consumed(n, m)

\* The SEQ nodes below the root of pattern p check nothing but its constraints.
FollowsPattern(p) ==
    \A k \in Subtree[Root[p]] \cap Inner : \A i, j \in DOMAIN EventDefs[k] :
        Operator[k] = "SEQ" /\ i < j => <<EventDefs[k][i], EventDefs[k][j]>> \in Precedes[p]

\* The tree is one for the patterns.
PlansPatterns == \A p \in Pattern : OrdersPattern(p) /\ FollowsPattern(p)

\* A reported match is attached to every pattern of its node that it fits.
AttachedInv ==
    \A i \in DOMAIN matches : matches[i].ids = PatternIds(matches[i].node, matches[i].pm)

\* The matches node n has let pass, as far as they are still known.
Taken(n) == store[n] \cup IF n \in OutputNode THEN Added(n) ELSE {}

\* The filter of a node has the live events it has let pass.
FilterInv ==
    \A n \in Node : \A m \in Taken(n) : \A e \in SingleEvents(n, m) :
        stream[e].ts >= Now.ts - Window[n] => e \in filtered[n]

\* No event of a limited type is used by two full matches of node n, in
\* whichever stage they are.
UseAt(n) ==
    /\ Apart(AddingUse(n), stack)
    /\ Apart(QueuedUse(n), unreported[n])
    /\ Apart(DeliveredUse(n), matches)
    /\ All(AddingUse(n), stack) \cap All(QueuedUse(n), unreported[n]) = {}
    /\ All(AddingUse(n), stack) \cap All(DeliveredUse(n), matches) = {}
    /\ All(QueuedUse(n), unreported[n]) \cap All(DeliveredUse(n), matches) = {}

UseInv == \A n \in OutputNode : UseAt(n)

\* A freezer in its leaf is in force, has expired or has been matched.
FreezerInv ==
    \A g \in FreezeMap : \A f \in store[g] :
        \/ f[g] \in freezers
        \/ \E p \in Pattern : Now.ts - stream[f[g]].ts > PatternWindow[p]
        \/ \E i \in DOMAIN matches : f[g] \in Range(matches[i].pm)

-----------------------------------------------------------------------------
(* Paths in the tree *)

\* A node is in its own subtree, which holds the subtrees of its nodes.
LEMMA Below ==
    ASSUME NEW n \in Node
    PROVE  /\ n \in Subtree[n]
           /\ Subtree[n] \subseteq Node
           /\ \A m \in Subtree[n] : m \in Node /\ Subtree[m] \subseteq Subtree[n]
           /\ n \in Leaf => n \notin Inner /\ Subtree[n] = {n}
<1>1. n \in Leaf => n \notin Inner /\ Subtree[n] = {n}
  BY SubtreeAssumption, NodeAssumption
<1>2. n \in Subtree[n]
  BY <1>1, SubtreeAssumption DEF Node
<1> QED
  BY <1>1, <1>2, SubtreeAssumption

\* A child is below its parent, and the parent is not below the child.
LEMMA ChildBelow ==
    ASSUME NEW i \in Inner, NEW c \in {Left[i], Right[i]}
    PROVE  /\ i \in Node /\ c \in Node
           /\ c \in Subtree[i]
           /\ Subtree[c] \subseteq Subtree[i]
           /\ i \notin Subtree[c]
           /\ i \notin Leaf
<1>1. /\ i \in Node /\ c \in Node /\ i \notin Leaf
      /\ Subtree[i] = {i} \cup Subtree[Left[i]] \cup Subtree[Right[i]]
      /\ i \notin Subtree[Left[i]] \cup Subtree[Right[i]]
  BY NodeAssumption, SubtreeAssumption DEF Node
<1>2. c \in Subtree[c]
  BY <1>1, Below
<1> QED
  BY <1>1, <1>2

\* A node below an inner node is the node itself or below one of its children.
LEMMA BelowInner ==
    ASSUME NEW i \in Inner, NEW k \in Subtree[i], k # i
    PROVE  \E c \in {Left[i], Right[i]} : k \in Subtree[c]
BY SubtreeAssumption

\* A non-empty set of nodes has one with no child in it.
LEMMA Lowest ==
    ASSUME NEW P \in SUBSET Node, P # {}
    PROVE  \E n \in P : n \in Inner => Left[n] \notin P /\ Right[n] \notin P
<1> DEFINE T == {Subtree[m] : m \in P}
           R == StrictSubsetOrdering(Node)
<1>1. PICK n0 \in P : TRUE
  OBVIOUS
<1>2. T \subseteq FiniteSubsetsOf(Node)
  <2> SUFFICES ASSUME NEW m \in P
               PROVE  Subtree[m] \in FiniteSubsetsOf(Node)
    OBVIOUS
  <2>1. Subtree[m] \in SUBSET Node
    BY SubtreeAssumption
  <2>2. IsFiniteSet(Subtree[m])
    BY <2>1, NodeAssumption, FS_Subset
  <2> QED
    BY <2>1, <2>2 DEF FiniteSubsetsOf
<1>3. Subtree[n0] \in T
  OBVIOUS
<1>4. IsWellFoundedOn(R, FiniteSubsetsOf(Node))
  BY FS_StrictSubsetOrderingWellFounded
<1>5. \E x \in T : \A y \in T : ~ (<<y, x>> \in R)
  BY <1>2, <1>3, <1>4, WFMin
<1>6. PICK n \in P : \A y \in T : ~ (<<y, Subtree[n]>> \in R)
  BY <1>5
<1>7. ASSUME n \in Inner, NEW c \in {Left[n], Right[n]}, c \in P
      PROVE  FALSE
  <2>1. /\ n \in Node /\ c \in Node
        /\ Subtree[c] \subseteq Subtree[n]
        /\ n \notin Subtree[c]
        /\ n \in Subtree[n]
    BY <1>7, ChildBelow, Below
  <2>2. Subtree[n] \subseteq Node /\ Subtree[c] \subseteq Node
    BY <2>1, Below
  <2>3. <<Subtree[c], Subtree[n]>> \in R
    BY <2>1, <2>2 DEF StrictSubsetOrdering
  <2> QED
    BY <1>6, <1>7, <2>3
<1> QED
  BY <1>7

\* Every node has a leaf.
LEMMA HasLeaves ==
    ASSUME NEW n \in Node
    PROVE  LeavesOf(n) # {}
<1>1. n \in Subtree[n] /\ Subtree[n] \subseteq Node
  BY Below
<1>2. PICK x \in Subtree[n] :
          x \in Inner => Left[x] \notin Subtree[n] /\ Right[x] \notin Subtree[n]
  BY <1>1, Lowest
<1>3. x \notin Inner
  <2> SUFFICES ASSUME x \in Inner
               PROVE  FALSE
    OBVIOUS
  <2>1. Left[x] \in Subtree[x]
    BY ChildBelow
  <2>2. Subtree[x] \subseteq Subtree[n]
    BY Below
  <2> QED
    BY <1>2, <2>1, <2>2
<1> QED
  BY <1>1, <1>3 DEF LeavesOf, Node

\* Two nodes below each other are the same.
LEMMA Antisymmetric ==
    ASSUME NEW n \in Node, NEW m \in Subtree[n], n \in Subtree[m]
    PROVE  m = n
<1> SUFFICES ASSUME m # n
             PROVE  FALSE
  OBVIOUS
<1>1. n \in Inner
  BY Below DEF Node
<1>2. PICK c \in {Left[n], Right[n]} : m \in Subtree[c]
  BY <1>1, BelowInner
<1>3. c \in Node /\ n \notin Subtree[c]
  BY <1>1, ChildBelow
<1>4. Subtree[m] \subseteq Subtree[c]
  BY <1>2, <1>3, Below
<1> QED
  BY <1>3, <1>4

\* No node is below both children of a node.
LEMMA OneSide ==
    ASSUME NEW i \in Inner, NEW k \in Subtree[Left[i]]
    PROVE  k \notin Subtree[Right[i]]
<1> SUFFICES ASSUME k \in Subtree[Right[i]]
             PROVE  FALSE
  OBVIOUS
<1>1. Left[i] \in Node /\ Right[i] \in Node
  BY ChildBelow
<1>2. k \in Node /\ LeavesOf(k) \subseteq LeavesOf(Left[i])
  BY <1>1, LeavesBelow
<1>3. LeavesOf(k) \subseteq LeavesOf(Right[i])
  BY <1>1, LeavesBelow
<1>4. LeavesOf(k) # {}
  BY <1>2, HasLeaves
<1> QED
  BY <1>2, <1>3, <1>4, SubtreeAssumption

\* From a node below n a parent leads towards n ...
LEMMA ParentToward ==
    ASSUME NEW n \in Node, NEW k \in Subtree[n], k # n
    PROVE  \E p \in Range(Parents[k]) : p \in Subtree[n]
<1> DEFINE P == {x \in Subtree[n] : k \in Subtree[x] /\ x # k}
<1>1. /\ n \in P
      /\ P \subseteq Node
      /\ k \in Node
  BY Below
<1>2. PICK x \in P : x \in Inner => Left[x] \notin P /\ Right[x] \notin P
  BY <1>1, Lowest
<1>3. x \in Inner
  BY <1>1, Below DEF Node
<1>4. PICK c \in {Left[x], Right[x]} : k \in Subtree[c]
  BY <1>3, BelowInner
<1>5. c \in Subtree[x] /\ Subtree[x] \subseteq Subtree[n]
  BY <1>3, ChildBelow, Below
<1>6. c = k
  BY <1>2, <1>3, <1>4, <1>5
<1>7. x \in Range(Parents[k])
  BY <1>1, <1>3, <1>6, ParentsAssumption
<1> QED
  BY <1>7

\* ... and only one does: the lowest common node of two would have the node
\* below both children.
LEMMA OneParentToward ==
    ASSUME NEW n \in Node, NEW p \in Inner, NEW q \in Inner, NEW k,
           k \in {Left[p], Right[p]}, k \in {Left[q], Right[q]},
           p \in Subtree[n], q \in Subtree[n]
    PROVE  p = q
<1> SUFFICES ASSUME p # q
             PROVE  FALSE
  OBVIOUS
<1> DEFINE P == {x \in Subtree[n] : p \in Subtree[x] /\ q \in Subtree[x]}
<1>1. /\ n \in P
      /\ P \subseteq Node
  BY Below
<1>2. PICK x \in P : x \in Inner => Left[x] \notin P /\ Right[x] \notin P
  BY <1>1, Lowest
<1>3. x \in Inner
  BY <1>1, Below DEF Node
<1>4. /\ k \in Node
      /\ k \in Subtree[p] /\ p \notin Subtree[k]
      /\ k \in Subtree[q] /\ q \notin Subtree[k]
  BY ChildBelow
<1>5. ASSUME NEW c \in {Left[x], Right[x]}
      PROVE  ~ (p \in Subtree[c] /\ q \in Subtree[c])
  <2>1. c \in Subtree[n]
    <3>1. c \in Subtree[x]
      BY <1>3, ChildBelow
    <3>2. Subtree[x] \subseteq Subtree[n]
      BY Below
    <3> QED
      BY <3>1, <3>2
  <2> QED
    BY <1>2, <1>3, <2>1
<1>6. ASSUME NEW a \in {p, q}, NEW b \in {p, q}, a # b, x = a
      PROVE  FALSE
  <2>1. PICK c \in {Left[a], Right[a]} : b \in Subtree[c]
    BY <1>6, BelowInner
  <2>2. c \in Node /\ Subtree[b] \subseteq Subtree[c]
    BY <2>1, ChildBelow, Below
  <2>3. k \in Subtree[c]
    BY <1>4, <2>2
  <2>4. k # c
    BY <1>4, <2>1
  <2>5. Left[a] \in Node /\ Right[a] \in Node
    BY ChildBelow
  <2>6. k \in Subtree[k]
    BY <1>4, Below
  <2> QED
    BY <2>1, <2>3, <2>4, <2>6, OneSide
<1>7. x # p /\ x # q
  BY <1>6
<1>8. PICK c \in {Left[x], Right[x]} : p \in Subtree[c]
  BY <1>3, <1>7, BelowInner
<1>9. PICK d \in {Left[x], Right[x]} : q \in Subtree[d]
  BY <1>3, <1>7, BelowInner
<1>10. c # d
  BY <1>5, <1>8, <1>9
<1>11. c \in Node /\ d \in Node
  BY <1>3, ChildBelow
<1>12. k \in Subtree[c] /\ k \in Subtree[d]
  BY <1>4, <1>8, <1>9, <1>11, Below
<1> QED
  BY <1>3, <1>10, <1>12, OneSide

\* A window is never narrower below a node.
LEMMA WindowGrows ==
    ASSUME NEW n \in Node, NEW k \in Subtree[n]
    PROVE  /\ Window[k] \in Nat /\ Window[n] \in Nat
           /\ Window[n] <= Window[k]
           /\ \A p \in PatternsOver(n) : p \in PatternsOver(k)
<1>1. k \in Node /\ Subtree[n] \subseteq Node
  BY Below
<1>2. \A p \in PatternsOver(n) : p \in PatternsOver(k)
  BY Below, NodeAssumption DEF PatternsOver
<1>3. PICK p \in PatternsOver(n) : PatternWindow[p] = Window[n]
  BY NodeAssumption DEF IsNodeWindow
<1>4. PatternWindow[p] <= Window[k]
  BY <1>1, <1>2, <1>3, NodeAssumption DEF IsNodeWindow
<1> QED
  BY <1>1, <1>2, <1>3, <1>4, NodeAssumption

\* What no policy limits below a node it does not limit at the nodes there.
LEMMA FreeDown ==
    ASSUME NEW n \in Node, NEW k \in Subtree[n], k # n, FreeBelow(n)
    PROVE  Free(k)
<1>1. k \in Node /\ Subtree[k] \subseteq Subtree[n]
  BY Below
<1>2. n \notin Subtree[k]
  BY Antisymmetric
<1> QED
  BY <1>1, <1>2 DEF Free, FreeBelow

-----------------------------------------------------------------------------
(* Matches and their parts *)

\* A partial match has one event per leaf below its node, at least one, no
\* event twice, and fits the window of the node.
LEMMA MatchShape ==
    ASSUME NEW s, NEW n \in Node, NEW m, IsPartialMatch(s, n, m)
    PROVE  /\ m \in [LeavesOf(n) -> 1..Len(s)]
           /\ DOMAIN m = LeavesOf(n)
           /\ DOMAIN m # {}
           /\ IsInjective(m)
           /\ WithinWindow(s, m, Window[n])
           /\ m \in PartialMatch(s)
           /\ Range(m) \subseteq 1..Len(s)
<1>1. m \in [LeavesOf(n) -> 1..Len(s)]
  BY DEF IsPartialMatch, MatchesOf
<1>2. DOMAIN m # {}
  BY <1>1, HasLeaves
<1>3. Valid(s, n, m)
  <2>1. n \in Subtree[n]
    BY Below
  <2>2. Restrict(m, LeavesOf(n)) = m
    BY <1>1 DEF Restrict
  <2> QED
    BY <2>1, <2>2 DEF IsPartialMatch
<1>4. IsInjective(m)
  <2>1. CASE n \in Leaf
    BY <1>1, <2>1, LeafOfLeaf DEF IsInjective
  <2>2. CASE n \in Inner
    BY <1>3, <2>2 DEF Valid
  <2> QED
    BY <2>1, <2>2 DEF Node
<1>5. WithinWindow(s, m, Window[n])
  BY <1>3 DEF Valid
<1> QED
  BY <1>1, <1>2, <1>4, <1>5, PartialMatchType

\* The part of a match below a node of its subtree is a match of that node.
LEMMA PartSound ==
    ASSUME NEW s, NEW n \in Node, NEW m, IsPartialMatch(s, n, m),
           NEW k \in Subtree[n]
    PROVE  /\ IsPartialMatch(s, k, Restrict(m, LeavesOf(k)))
           /\ Over(m, Restrict(m, LeavesOf(k)))
           /\ LeavesOf(k) \subseteq DOMAIN m
<1> DEFINE z == Restrict(m, LeavesOf(k))
<1>1. /\ k \in Node
      /\ Subtree[k] \subseteq Subtree[n]
      /\ LeavesOf(k) \subseteq LeavesOf(n)
  BY Below, LeavesBelow
<1>2. m \in [LeavesOf(n) -> 1..Len(s)]
  BY MatchShape
<1>3. /\ z \in MatchesOf(s, k)
      /\ Over(m, z)
      /\ \A l \in LeavesOf(k) : s[z[l]].type = TypeOf[l]
  BY <1>1, <1>2 DEF Restrict, MatchesOf, Over, IsPartialMatch
<1>4. ASSUME NEW j \in Subtree[k]
      PROVE  Valid(s, j, Restrict(z, LeavesOf(j)))
  <2>1. LeavesOf(j) \subseteq LeavesOf(k)
    BY <1>1, LeavesBelow
  <2>2. Restrict(z, LeavesOf(j)) = Restrict(m, LeavesOf(j))
    BY <2>1 DEF Restrict
  <2>3. j \in Subtree[n]
    BY <1>1
  <2> QED
    BY <2>2, <2>3 DEF IsPartialMatch
<1> QED
  BY <1>1, <1>2, <1>3, <1>4 DEF IsPartialMatch

\* A match of a node that another one has is its part there.
LEMMA PartIs ==
    ASSUME NEW s, NEW k \in Node, NEW z, IsPartialMatch(s, k, z), NEW m, Over(m, z)
    PROVE  z = Restrict(m, LeavesOf(k))
<1>1. z \in [LeavesOf(k) -> 1..Len(s)]
  BY MatchShape
<1> QED
  BY <1>1 DEF Over, Restrict

\* A joined match has the events of both sides, and nothing else.
LEMMA JoinShape ==
    ASSUME Aligned,
           NEW s, NEW i \in Inner, NEW c \in {Left[i], Right[i]}, NEW x, NEW y,
           IsPartialMatch(s, c, x), IsPartialMatch(s, Sibling(i, c), y),
           NEW pm, pm = MergeMatches(i, x, y)
    PROVE  pm \in [LeavesOf(i) -> 1..Len(s)] /\ Combines(pm, x, y)
<1> DEFINE o == Sibling(i, c)
<1>1. /\ i \in Node /\ c \in Node /\ o \in Node
      /\ LeavesOf(i) = LeavesOf(c) \cup LeavesOf(o)
      /\ LeavesOf(c) \cap LeavesOf(o) = {}
  BY SidesOfInner
<1>2. /\ x \in [LeavesOf(c) -> 1..Len(s)]
      /\ y \in [LeavesOf(o) -> 1..Len(s)]
  BY <1>1, MatchShape
<1>3. pm = [l \in LeavesOf(i) |-> IF l \in DOMAIN x THEN x[l] ELSE y[l]]
  <2>1. Source(i, x) \in {Left[i], Right[i]}
    BY DEF Source
  <2>2. MergedDefs(i, Source(i, x)) = EventDefs[i]
    BY <2>1 DEF Aligned
  <2>3. \A l \in LeavesOf(i) : EventDefs[i][Slot(i, l)] = l
    BY <1>1, EventDefsAssumption DEF Slot, Range
  <2> QED
    BY <2>2, <2>3 DEF MergeMatches
<1>4. /\ pm \in [LeavesOf(i) -> 1..Len(s)]
      /\ DOMAIN x \subseteq LeavesOf(i) /\ DOMAIN y \subseteq LeavesOf(i)
      /\ DOMAIN x \cap DOMAIN y = {}
      /\ LeavesOf(i) = DOMAIN x \cup DOMAIN y
      /\ \A l \in DOMAIN x : pm[l] = x[l]
      /\ \A l \in DOMAIN y : pm[l] = y[l]
  BY <1>1, <1>2, <1>3
<1> QED
  BY <1>4 DEF Combines, Over

\* A match that has both sides has their join as its part at node i.
LEMMA JoinIs ==
    ASSUME Aligned,
           NEW s, NEW i \in Inner, NEW c \in {Left[i], Right[i]}, NEW x, NEW y,
           IsPartialMatch(s, c, x), IsPartialMatch(s, Sibling(i, c), y),
           NEW pm, pm = MergeMatches(i, x, y), NEW m, Over(m, x), Over(m, y)
    PROVE  pm = Restrict(m, LeavesOf(i))
<1>1. Combines(pm, x, y)
  BY JoinShape
<1>2. pm \in [LeavesOf(i) -> 1..Len(s)]
  BY JoinShape
<1>3. Over(m, pm)
  BY <1>1 DEF Combines, Over
<1> QED
  BY <1>2, <1>3 DEF Restrict, Over

\* An event of one side is in no part of the other side.
LEMMA OtherSide ==
    ASSUME NEW s, NEW n \in Node, NEW m, IsPartialMatch(s, n, m),
           NEW i \in Inner, i \in Subtree[n], NEW c \in {Left[i], Right[i]},
           NEW x, IsPartialMatch(s, c, x), Over(m, x), NEW e \in Range(x)
    PROVE  e \notin Range(Restrict(m, LeavesOf(Sibling(i, c))))
<1> DEFINE o == Sibling(i, c)
<1>1. /\ i \in Node /\ c \in Node /\ o \in Node
      /\ LeavesOf(i) = LeavesOf(c) \cup LeavesOf(o)
      /\ LeavesOf(c) \cap LeavesOf(o) = {}
  BY SidesOfInner
<1>2. /\ DOMAIN x = LeavesOf(c)
      /\ LeavesOf(i) \subseteq DOMAIN m
      /\ IsInjective(m)
  BY <1>1, MatchShape, PartSound
<1> SUFFICES ASSUME e \in Range(Restrict(m, LeavesOf(o)))
             PROVE  FALSE
  OBVIOUS
<1>3. PICK l \in LeavesOf(o) : e = m[l]
  BY DEF Range, Restrict
<1>4. PICK k \in LeavesOf(c) : e = m[k]
  BY <1>2 DEF Range, Over
<1>5. l # k /\ l \in DOMAIN m /\ k \in DOMAIN m
  BY <1>1, <1>2
<1> QED
  BY <1>2, <1>3, <1>4, <1>5 DEF IsInjective

\* Validation looks at the events of a match only: what is valid in a longer
\* stream was valid before.
LEMMA ValidShrinks ==
    ASSUME NEW s \in Seq(Event), NEW e \in Event, NEW m \in Node,
           NEW r \in MatchesOf(s, m), Valid(Append(s, e), m, r)
    PROVE  Valid(s, m, r)
<1> DEFINE t == Append(s, e)
<1>1. r \in [LeavesOf(m) -> 1..Len(s)]
  BY DEF MatchesOf
<1>2. \A l \in LeavesOf(m) : t[r[l]] = s[r[l]]
  BY <1>1, AppendProperties
<1>3. WithinWindow(s, r, Window[m])
  BY <1>1, <1>2 DEF Valid, WithinWindow
<1>4. InOrder(t, m, r) => InOrder(s, m, r)
  <2> SUFFICES ASSUME InOrder(t, m, r),
                      NEW i \in DOMAIN EventDefs[m], NEW j \in DOMAIN EventDefs[m], i < j
               PROVE  s[r[EventDefs[m][i]]].ts <= s[r[EventDefs[m][j]]].ts
    BY DEF InOrder
  <2>1. EventDefs[m][i] \in LeavesOf(m) /\ EventDefs[m][j] \in LeavesOf(m)
    BY EventDefsAssumption DEF Range
  <2> QED
    BY <1>2, <2>1 DEF InOrder
<1>5. ASSUME NEW a \in NodeCondition(m)
      PROVE  Satisfies(s, r, a)
  <2>1. a.on \subseteq LeavesOf(m)
    BY DEF NodeCondition
  <2>2. [l \in a.on |-> t[r[l]].val] = [l \in a.on |-> s[r[l]].val]
    BY <1>2, <2>1
  <2> QED
    BY <2>2 DEF Valid, Satisfies
<1> QED
  BY <1>3, <1>4, <1>5 DEF Valid

\* A partial match without the last event was one before it arrived.
LEMMA PartialMatchShrinks ==
    ASSUME NEW s \in Seq(Event), NEW e \in Event, NEW n \in Node, NEW pm,
           IsPartialMatch(Append(s, e), n, pm), Len(s) + 1 \notin Range(pm)
    PROVE  IsPartialMatch(s, n, pm)
<1> DEFINE t == Append(s, e)
<1>1. /\ Len(t) = Len(s) + 1
      /\ Len(s) \in Nat
      /\ \A i \in 1..Len(s) : t[i] = s[i]
  BY AppendProperties, LenProperties
<1>2. pm \in [LeavesOf(n) -> 1..Len(s)]
  <2>1. pm \in [LeavesOf(n) -> 1..Len(t)]
    BY DEF IsPartialMatch, MatchesOf
  <2>2. \A l \in LeavesOf(n) : pm[l] # Len(s) + 1
    BY <2>1 DEF Range
  <2>3. \A i \in 1..Len(t) : i # Len(s) + 1 => i \in 1..Len(s)
    BY <1>1
  <2> QED
    BY <2>1, <2>2, <2>3
<1>3. \A l \in LeavesOf(n) : s[pm[l]].type = TypeOf[l]
  BY <1>1, <1>2 DEF IsPartialMatch
<1>4. ASSUME NEW m \in Subtree[n]
      PROVE  Valid(s, m, Restrict(pm, LeavesOf(m)))
  <2>1. m \in Node /\ LeavesOf(m) \subseteq LeavesOf(n)
    BY LeavesBelow
  <2>2. Restrict(pm, LeavesOf(m)) \in MatchesOf(s, m)
    BY <1>2, <2>1 DEF Restrict, MatchesOf
  <2>3. Valid(t, m, Restrict(pm, LeavesOf(m)))
    BY DEF IsPartialMatch
  <2> QED
    BY <2>1, <2>2, <2>3, ValidShrinks
<1> QED
  BY <1>2, <1>3, <1>4 DEF IsPartialMatch, MatchesOf

-----------------------------------------------------------------------------
(* Sequences of things that stand for sets *)

\* A sequence with one more element.
LEMMA AllAppend ==
    ASSUME NEW S, NEW s \in Seq(S), NEW x \in S, NEW F
    PROVE  /\ All(F, Append(s, x)) = All(F, s) \cup F[x]
           /\ Apart(F, Append(s, x)) <=> Apart(F, s) /\ All(F, s) \cap F[x] = {}
<1> DEFINE t == Append(s, x)
<1>1. /\ Len(s) \in Nat
      /\ DOMAIN s = 1..Len(s)
      /\ DOMAIN t = 1..Len(s) + 1
      /\ \A i \in 1..Len(s) : t[i] = s[i]
      /\ t[Len(s) + 1] = x
  BY AppendProperties, LenProperties
<1> HIDE DEF t
<1>2. /\ DOMAIN t = DOMAIN s \cup {Len(s) + 1}
      /\ Len(s) + 1 \notin DOMAIN s
      /\ \A i \in DOMAIN s : t[i] = s[i]
  BY <1>1
<1>3. All(F, t) = All(F, s) \cup F[x]
  BY <1>1, <1>2 DEF All
<1>4. ASSUME Apart(F, t)
      PROVE  Apart(F, s) /\ All(F, s) \cap F[x] = {}
  <2>1. \A i \in DOMAIN s : F[s[i]] \cap F[x] = {}
    BY <1>1, <1>2, <1>4 DEF Apart
  <2>2. Apart(F, s)
    BY <1>2, <1>4 DEF Apart
  <2> QED
    BY <2>1, <2>2 DEF All
<1>5. ASSUME Apart(F, s), All(F, s) \cap F[x] = {}
      PROVE  Apart(F, t)
  <2>1. \A i \in DOMAIN s : F[s[i]] \cap F[x] = {}
    BY <1>5 DEF All
  <2> QED
    BY <1>1, <1>2, <1>5, <2>1 DEF Apart
<1> QED
  BY <1>3, <1>4, <1>5 DEF t

\* The empty sequence, and a sequence of one.
LEMMA AllOne ==
    ASSUME NEW F, NEW x
    PROVE  /\ All(F, <<>>) = {}
           /\ Apart(F, <<>>)
           /\ All(F, <<x>>) = F[x]
           /\ Apart(F, <<x>>)
<1>1. DOMAIN <<>> = {} /\ DOMAIN <<x>> = {1} /\ <<x>>[1] = x
  OBVIOUS
<1> QED
  BY <1>1 DEF All, Apart

\* A sequence without its first element.
LEMMA AllTail ==
    ASSUME NEW S, NEW s \in Seq(S), s # <<>>, NEW F
    PROVE  /\ All(F, s) = F[Head(s)] \cup All(F, Tail(s))
           /\ Apart(F, s) => /\ Apart(F, Tail(s))
                             /\ F[Head(s)] \cap All(F, Tail(s)) = {}
<1> DEFINE t == Tail(s)
<1>1. Len(s) \in Nat \ {0} /\ DOMAIN s = 1..Len(s)
  BY EmptySeq, LenProperties
<1>2. PICK k \in Nat : Len(s) = k + 1
  <2>1. Len(s) - 1 \in Nat /\ Len(s) = (Len(s) - 1) + 1
    BY <1>1
  <2> QED
    BY <2>1
<1>3. /\ DOMAIN t = 1..k
      /\ \A i \in 1..k : t[i] = s[i + 1]
      /\ Head(s) = s[1]
  BY <1>1, <1>2, HeadTailProperties, LenProperties
<1> HIDE DEF t
<1>4. /\ \A i \in 1..k : i + 1 \in 1..k + 1
      /\ \A j \in 1..k + 1 : j = 1 \/ \E i \in 1..k : j = i + 1
      /\ 1 \in 1..k + 1
      /\ \A i \in 1..k : i + 1 # 1
      /\ \A i, j \in 1..k : i # j => i + 1 # j + 1
  <2>1. \A j \in 1..k + 1 : j = 1 \/ \E i \in 1..k : j = i + 1
    <3> SUFFICES ASSUME NEW j \in 1..k + 1, j # 1
                 PROVE  \E i \in 1..k : j = i + 1
      OBVIOUS
    <3>1. j - 1 \in 1..k /\ j = (j - 1) + 1
      OBVIOUS
    <3> QED
      BY <3>1
  <2>2. \A i \in 1..k : i + 1 \in 1..k + 1
    OBVIOUS
  <2>3. /\ 1 \in 1..k + 1
        /\ \A i \in 1..k : i + 1 # 1
        /\ \A i, j \in 1..k : i # j => i + 1 # j + 1
    OBVIOUS
  <2> QED
    BY ONLY <2>1, <2>2, <2>3
<1>d. DOMAIN s = 1..k + 1
  BY <1>1, <1>2
<1>5. All(F, s) = F[s[1]] \cup All(F, t)
  <2>1. \A i \in 1..k : F[t[i]] = F[s[i + 1]]
    BY <1>3
  <2>2. ASSUME NEW a \in All(F, s)
        PROVE  a \in F[s[1]] \cup All(F, t)
    <3>1. PICK j \in 1..k + 1 : a \in F[s[j]]
      BY <1>d DEF All
    <3>2. CASE j = 1
      BY <3>1, <3>2
    <3>3. CASE j # 1
      <4>1. PICK i \in 1..k : j = i + 1
        BY <1>4, <3>3
      <4> QED
        BY <1>3, <2>1, <3>1, <4>1 DEF All
    <3> QED
      BY <3>2, <3>3
  <2>3. F[s[1]] \subseteq All(F, s)
    BY <1>d, <1>4 DEF All
  <2>4. ASSUME NEW a \in All(F, t)
        PROVE  a \in All(F, s)
    <3>1. PICK i \in 1..k : a \in F[t[i]]
      BY <1>3 DEF All
    <3>2. a \in F[s[i + 1]] /\ i + 1 \in DOMAIN s
      BY <1>d, <1>4, <2>1, <3>1
    <3> QED
      BY <3>2 DEF All
  <2> QED
    BY <2>2, <2>3, <2>4
<1>6. ASSUME Apart(F, s)
      PROVE  Apart(F, t) /\ F[s[1]] \cap All(F, t) = {}
  <2>1. \A i, j \in 1..k + 1 : i # j => F[s[i]] \cap F[s[j]] = {}
    BY <1>d, <1>6 DEF Apart
  <2>2. ASSUME NEW i \in 1..k, NEW j \in 1..k, i # j
        PROVE  F[t[i]] \cap F[t[j]] = {}
    <3>1. i + 1 \in 1..k + 1 /\ j + 1 \in 1..k + 1 /\ i + 1 # j + 1
      BY <1>4, <2>2
    <3>2. F[s[i + 1]] \cap F[s[j + 1]] = {}
      BY <2>1, <3>1
    <3> QED
      BY <1>3, <3>2
  <2>3. \A i \in DOMAIN t : F[s[1]] \cap F[t[i]] = {}
    BY <1>3, <1>4, <2>1
  <2>4. Apart(F, t)
    BY <1>3, <2>2 DEF Apart
  <2> QED
    BY <2>3, <2>4 DEF All
<1> QED
  BY <1>3, <1>5, <1>6 DEF t

\* A sequence is its last element on the others.
LEMMA LastApart ==
    ASSUME NEW S, NEW s \in Seq(S), s # <<>>
    PROVE  /\ s[Len(s)] \in S
           /\ SubSeq(s, 1, Len(s) - 1) \in Seq(S)
           /\ s = Append(SubSeq(s, 1, Len(s) - 1), s[Len(s)])
<1> PICK x : x = s[Len(s)]
  OBVIOUS
<1> PICK t : t = SubSeq(s, 1, Len(s) - 1)
  OBVIOUS
<1>1. Len(s) \in Nat \ {0}
  BY EmptySeq
<1>2. x \in S /\ \A i \in 1..Len(s) - 1 : s[i] \in S
  BY <1>1, ElementOfSeq
<1>3. /\ t \in Seq(S)
      /\ Len(t) = Len(s) - 1
      /\ \A i \in 1..Len(s) - 1 : t[i] = s[i]
  <2>1. /\ t \in Seq(S)
        /\ Len(t) = IF 1 <= Len(s) - 1 THEN Len(s) - 1 - 1 + 1 ELSE 0
        /\ \A i \in 1..(Len(s) - 1 - 1 + 1) : t[i] = s[1 + i - 1]
    BY <1>1, <1>2, SubSeqProperties
  <2>2. PICK k \in Nat : Len(s) = k + 1
    <3>1. Len(s) - 1 \in Nat /\ Len(s) = (Len(s) - 1) + 1
      BY <1>1
    <3> QED
      BY <3>1
  <2>3. /\ Len(s) - 1 = k
        /\ Len(s) - 1 - 1 + 1 = k
        /\ (IF 1 <= k THEN k ELSE 0) = k
        /\ \A i \in 1..k : 1 + i - 1 = i
    BY <2>2
  <2> QED
    BY <2>1, <2>3
<1>4. /\ Append(t, x) \in Seq(S)
      /\ Len(Append(t, x)) = Len(s)
      /\ \A i \in 1..Len(s) : Append(t, x)[i] = s[i]
  <2>1. /\ Append(t, x) \in Seq(S)
        /\ Len(Append(t, x)) = Len(t) + 1
        /\ \A i \in 1..Len(t) : Append(t, x)[i] = t[i]
        /\ Append(t, x)[Len(t) + 1] = x
    BY <1>2, <1>3, AppendProperties
  <2> QED
    BY <1>1, <1>3, <2>1
<1>5. s = Append(t, x)
  BY <1>4, SeqEqual
<1> QED
  BY <1>2, <1>3, <1>5

\* The stack is the top call on the others.
LEMMA StackIs ==
    ASSUME NEW S, stack \in Seq(S), stack # <<>>
    PROVE  /\ Top \in S
           /\ Pop \in Seq(S)
           /\ stack = Append(Pop, Top)
BY LastApart DEF Top, Pop

\* What the calls stand for when the top call ends, goes on, or makes a call.
LEMMA AllStack ==
    ASSUME NEW S, stack \in Seq(S), stack # <<>>, NEW F
    PROVE  /\ All(F, stack) = All(F, Pop) \cup F[Top]
           /\ \A f \in S : All(F, Continue(f)) = All(F, Pop) \cup F[f]
           /\ \A f, g \in S : All(F, Call(f, g)) = All(F, Pop) \cup F[f] \cup F[g]
<1>1. Top \in S /\ Pop \in Seq(S) /\ stack = Append(Pop, Top)
  BY StackIs
<1>2. All(F, stack) = All(F, Pop) \cup F[Top]
  BY <1>1, AllAppend
<1>3. ASSUME NEW f \in S
      PROVE  /\ Continue(f) \in Seq(S)
             /\ All(F, Continue(f)) = All(F, Pop) \cup F[f]
  BY <1>1, AllAppend, AppendProperties DEF Continue
<1>4. ASSUME NEW f \in S, NEW g \in S
      PROVE  All(F, Call(f, g)) = All(F, Pop) \cup F[f] \cup F[g]
  BY <1>3, AllAppend DEF Call
<1> QED
  BY <1>2, <1>3, <1>4

\* The calls keep apart when the new ones share what the top call stood for.
LEMMA ApartStack ==
    ASSUME NEW S, stack \in Seq(S), stack # <<>>, NEW F, Apart(F, stack)
    PROVE  /\ Apart(F, Pop)
           /\ All(F, Pop) \cap F[Top] = {}
           /\ \A f \in S : F[f] \cap All(F, Pop) = {} => Apart(F, Continue(f))
           /\ \A f, g \in S :
                /\ F[f] \cap All(F, Pop) = {} /\ F[g] \cap All(F, Pop) = {}
                /\ F[f] \cap F[g] = {}
                => Apart(F, Call(f, g))
<1>1. Top \in S /\ Pop \in Seq(S) /\ stack = Append(Pop, Top)
  BY StackIs
<1>2. Apart(F, Pop) /\ All(F, Pop) \cap F[Top] = {}
  BY <1>1, AllAppend
<1>3. ASSUME NEW f \in S, F[f] \cap All(F, Pop) = {}
      PROVE  /\ Continue(f) \in Seq(S)
             /\ Apart(F, Continue(f))
             /\ All(F, Continue(f)) = All(F, Pop) \cup F[f]
  BY <1>1, <1>2, <1>3, AllAppend, AppendProperties DEF Continue
<1>4. ASSUME NEW f \in S, NEW g \in S,
             F[f] \cap All(F, Pop) = {}, F[g] \cap All(F, Pop) = {},
             F[f] \cap F[g] = {}
      PROVE  Apart(F, Call(f, g))
  <2>1. /\ Continue(f) \in Seq(S)
        /\ Apart(F, Continue(f))
        /\ All(F, Continue(f)) = All(F, Pop) \cup F[f]
    BY <1>3, <1>4
  <2>2. All(F, Continue(f)) \cap F[g] = {}
    BY <1>4, <2>1
  <2> QED
    BY <2>1, <2>2, AllAppend DEF Call
<1> QED
  BY <1>2, <1>3, <1>4

\* The elements of a sequence with one more element, or without its first.
LEMMA RangeFacts ==
    ASSUME NEW S, NEW s \in Seq(S)
    PROVE  /\ \A x \in S : Range(Append(s, x)) = Range(s) \cup {x}
           /\ s # <<>> => /\ Head(s) \in Range(s)
                          /\ Range(Tail(s)) \subseteq Range(s)
           /\ Range(s) \subseteq S
<1>1. Len(s) \in Nat /\ DOMAIN s = 1..Len(s)
  BY LenProperties
<1>2. ASSUME NEW x \in S
      PROVE  Range(Append(s, x)) = Range(s) \cup {x}
  <2> DEFINE t == Append(s, x)
  <2>1. /\ DOMAIN t = 1..Len(s) + 1
        /\ \A i \in 1..Len(s) : t[i] = s[i]
        /\ t[Len(s) + 1] = x
    BY AppendProperties, LenProperties
  <2> HIDE DEF t
  <2>2. DOMAIN t = DOMAIN s \cup {Len(s) + 1}
    BY <1>1, <2>1
  <2>3. \A i \in DOMAIN s : t[i] = s[i]
    BY <1>1, <2>1
  <2>4. Range(t) = Range(s) \cup {x}
    BY <2>1, <2>2, <2>3 DEF Range
  <2> QED
    BY <2>4 DEF t
<1>3. ASSUME s # <<>>
      PROVE  Head(s) \in Range(s) /\ Range(Tail(s)) \subseteq Range(s)
  <2>1. Len(s) \in Nat \ {0}
    BY <1>3, EmptySeq
  <2>2. Head(s) = s[1] /\ 1 \in DOMAIN s
    BY <1>1, <2>1
  <2>3. ASSUME NEW i \in DOMAIN Tail(s)
        PROVE  Tail(s)[i] \in Range(s)
    <3>1. /\ Tail(s) \in Seq(S)
          /\ Len(Tail(s)) = Len(s) - 1
          /\ \A j \in 1..Len(Tail(s)) : Tail(s)[j] = s[j + 1]
      BY <1>3, HeadTailProperties
    <3>2. i \in 1..Len(Tail(s))
      BY <3>1, LenProperties
    <3>3. i + 1 \in DOMAIN s /\ Tail(s)[i] = s[i + 1]
      BY <1>1, <2>1, <3>1, <3>2
    <3> QED
      BY <3>3 DEF Range
  <2> QED
    BY <2>2, <2>3 DEF Range
<1>4. Range(s) \subseteq S
  BY <1>1, ElementOfSeq DEF Range
<1> QED
  BY <1>2, <1>3, <1>4

\* The calls that a new stack has.
LEMMA RangeStack ==
    ASSUME NEW S, stack \in Seq(S), stack # <<>>
    PROVE  /\ Top \in Range(stack)
           /\ Range(Pop) \subseteq Range(stack)
           /\ \A f : Range(Continue(f)) = Range(Pop) \cup {f}
           /\ \A f, g : Range(Call(f, g)) = Range(Pop) \cup {f, g}
<1>1. Top \in S /\ Pop \in Seq(S) /\ stack = Append(Pop, Top)
  BY StackIs
<1>2. Range(stack) = Range(Pop) \cup {Top}
  BY <1>1, RangeFacts
<1>3. ASSUME NEW f, NEW g
      PROVE  /\ Range(Continue(f)) = Range(Pop) \cup {f}
             /\ Range(Call(f, g)) = Range(Pop) \cup {f, g}
  <2> DEFINE T == S \cup {f, g}
  <2>1. Pop \in Seq(T)
    BY <1>1, SeqMonotonic
  <2>2. f \in T /\ g \in T
    OBVIOUS
  <2> HIDE DEF T
  <2>3. Continue(f) \in Seq(T) /\ Range(Continue(f)) = Range(Pop) \cup {f}
    BY <2>1, <2>2, RangeFacts, AppendProperties DEF Continue
  <2>4. Range(Call(f, g)) = Range(Continue(f)) \cup {g}
    BY <2>2, <2>3, RangeFacts DEF Call
  <2> QED
    BY <2>3, <2>4
<1> QED
  BY <1>1, <1>2, <1>3

\* Calls on a sound stack are sound calls.
LEMMA CallParts ==
    ASSUME NEW S, stack \in Seq(S), stack # <<>>, NEW f, NEW g
    PROVE  /\ Continue(f) \in Seq(S) => f \in S
           /\ Call(f, g) \in Seq(S) => f \in S /\ g \in S
<1>1. /\ f \in Range(Continue(f))
      /\ f \in Range(Call(f, g))
      /\ g \in Range(Call(f, g))
  BY RangeStack
<1>2. Continue(f) \in Seq(S) => Range(Continue(f)) \subseteq S
  BY RangeFacts
<1>3. Call(f, g) \in Seq(S) => Range(Call(f, g)) \subseteq S
  BY RangeFacts
<1> QED
  BY <1>1, <1>2, <1>3

-----------------------------------------------------------------------------
(* Time *)

\* The stamps are numbers.
LEMMA Stamps ==
    ASSUME stream \in Seq(Event), NEW e \in 1..Newest
    PROVE  stream[e] \in Event /\ stream[e].ts \in Nat
<1>1. stream[e] \in Event
  BY ElementOfSeq DEF Newest
<1> QED
  BY <1>1 DEF Event

\* A match with the newest event was made now.
LEMMA LastIsNow ==
    ASSUME stream \in Seq(Event), Ordered, NEW n \in Node, NEW m,
           IsPartialMatch(stream, n, m), Newest \in Range(m)
    PROVE  LastTimestamp(m) = Now.ts
<1>1. Range(m) \subseteq 1..Newest
  BY MatchShape DEF Newest
<1>2. \A e \in Range(m) : stream[e].ts \in Nat
  BY <1>1, Stamps
<1>3. \A e \in Range(m) : stream[e].ts <= Now.ts
  <2> SUFFICES ASSUME NEW e \in Range(m)
               PROVE  stream[e].ts <= Now.ts
    OBVIOUS
  <2>1. e \in 1..Newest /\ Newest \in 1..Newest
    BY <1>1
  <2>2. e <= Newest
    BY <2>1
  <2> QED
    BY <2>1, <2>2 DEF Ordered, Now, Newest
<1> DEFINE T == {stream[e].ts : e \in Range(m)}
           P(t) == \A e \in Range(m) : stream[e].ts <= t
<1>4. Now.ts \in T /\ P(Now.ts)
  BY <1>3 DEF Now, Newest
<1>5. \A t \in T : P(t) => t = Now.ts
  <2> SUFFICES ASSUME NEW e \in Range(m), P(stream[e].ts)
               PROVE  stream[e].ts = Now.ts
    OBVIOUS
  <2>1. Now.ts <= stream[e].ts /\ stream[e].ts <= Now.ts
    BY <1>3 DEF Now, Newest
  <2>2. Now.ts \in Nat /\ stream[e].ts \in Nat
    BY <1>2 DEF Now, Newest
  <2> QED
    BY <2>1, <2>2
<1>6. LastTimestamp(m) = CHOOSE t \in T : P(t)
  BY DEF LastTimestamp
<1> HIDE DEF T, P
<1> QED
  BY <1>4, <1>5, <1>6

\* A match with the newest event is within the window of its node from now.
LEMMA NewestNotBefore ==
    ASSUME stream \in Seq(Event), NEW n \in Node, NEW m,
           IsPartialMatch(stream, n, m), Newest \in Range(m)
    PROVE  NotBefore(stream, m, Now.ts - Window[n])
<1>1. /\ m \in [LeavesOf(n) -> 1..Newest]
      /\ DOMAIN m = LeavesOf(n)
      /\ WithinWindow(stream, m, Window[n])
  BY MatchShape DEF Newest
<1>2. PICK k \in DOMAIN m : m[k] = Newest
  BY DEF Range
<1>3. Window[n] \in Nat
  BY NodeAssumption
<1> SUFFICES ASSUME NEW l \in DOMAIN m
             PROVE  stream[m[l]].ts >= Now.ts - Window[n]
  BY DEF NotBefore
<1>4. stream[m[k]].ts - stream[m[l]].ts <= Window[n]
  BY <1>1 DEF WithinWindow
<1>5. stream[m[k]].ts \in Nat /\ stream[m[l]].ts \in Nat
  <2>1. m[k] \in 1..Newest /\ m[l] \in 1..Newest
    BY <1>1
  <2> QED
    BY <2>1, Stamps
<1>6. Now.ts = stream[m[k]].ts
  BY <1>2 DEF Now, Newest
<1> QED
  BY <1>3, <1>4, <1>5, <1>6

-----------------------------------------------------------------------------
(* What a step of the recursion does, in terms of sound calls *)

\* The child of the joining node that the match of call f comes from.
Sides(f, d) ==
    /\ d \in {Left[f.node], Right[f.node]}
    /\ IsPartialMatch(stream, d, f.pm)
    /\ \A y \in f.todo : IsPartialMatch(stream, Sibling(f.node, d), y)

\* HandleNewPartialMatch: parent p gets the match of the top call.
Notifies(p, rest, join) ==
    /\ stack # <<>> /\ Top \in SoundFrame(stream)
    /\ Top.op = "add" /\ Top.next \in Seq(Inner) /\ Top.next # <<>>
    /\ Top.node \in Node /\ IsPartialMatch(stream, Top.node, Top.pm)
    /\ p = Head(Top.next) /\ p \in Inner /\ Top.node \in {Left[p], Right[p]}
    /\ rest \in SoundFrame(stream) /\ rest.op = "add" /\ rest.node = Top.node
    /\ rest.pm = Top.pm /\ rest.next = Tail(Top.next) /\ rest.todo = Top.todo
    /\ join \in SoundFrame(stream) /\ join.op = "join" /\ join.node = p
    /\ join.pm = Top.pm /\ join.next = <<>>
    /\ join.todo = CleanStores({Sibling(p, Top.node), p}, Now.ts)[Sibling(p, Top.node)]
    /\ store' = CleanStores({Sibling(p, Top.node), p}, Now.ts)
    /\ filtered' = CleanFiltered({Sibling(p, Top.node), p}, Now.ts)
    /\ stack' = Call(rest, join)
    /\ UNCHANGED <<stream, phase, playing, freezers, unreported, matches>>

\* CreateMatch: the top call joins candidate c and adds the result pm.
Accepts(c, pm, rest, add) ==
    /\ stack # <<>> /\ Top \in SoundFrame(stream)
    /\ Top.op = "join" /\ Top.node \in Inner /\ Top.node \in Node /\ c \in Top.todo
    /\ pm = MergeMatches(Top.node, Top.pm, c)
    /\ IsPartialMatch(stream, Top.node, pm)
    /\ SingleEvents(Top.node, pm) \cap filtered[Top.node] = {}
    /\ rest \in SoundFrame(stream) /\ rest.op = "join" /\ rest.node = Top.node
    /\ rest.pm = Top.pm /\ rest.next = Top.next /\ rest.todo = Top.todo \ {c}
    /\ add \in SoundFrame(stream) /\ add.op = "add" /\ add.node = Top.node
    /\ add.pm = pm /\ add.next = Parents[Top.node] /\ add.todo = {}
    /\ store' = [store EXCEPT ![Top.node] = @ \cup {pm}]
    /\ filtered' = [filtered EXCEPT ![Top.node] = @ \cup SingleEvents(Top.node, pm)]
    /\ stack' = Call(rest, add)
    /\ UNCHANGED <<stream, phase, playing, freezers, unreported, matches>>

\* RejectCandidate: the top call leaves candidate c out.
Rejects(c, rest) ==
    /\ stack # <<>> /\ Top \in SoundFrame(stream)
    /\ Top.op = "join" /\ Top.node \in Inner /\ Top.node \in Node /\ c \in Top.todo
    /\ ~ Joinable(Top.node, MergeMatches(Top.node, Top.pm, c))
    /\ rest \in SoundFrame(stream) /\ rest.op = "join" /\ rest.node = Top.node
    /\ rest.pm = Top.pm /\ rest.next = Top.next /\ rest.todo = Top.todo \ {c}
    /\ stack' = Continue(rest)
    /\ UNCHANGED <<stream, phase, playing, store, filtered, freezers, unreported, matches>>

\* A join has its match from one child and its candidates from the other.
LEMMA JoinSides ==
    ASSUME NEW f \in SoundFrame(stream), f.op = "join"
    PROVE  f.node \in Inner /\ f.node \in Node /\ \E d : Sides(f, d)
<1>1. f \in Frame(stream) /\ FrameOK(f) /\ FrameSound(stream, f)
  BY DEF SoundFrame
<1> QED
  BY <1>1 DEF Frame, FrameOK, FrameSound, Sides

\* The calls of a step are sound.
LEMMA NextStack ==
    ASSUME IInv', stream' = stream
    PROVE  stack' \in Seq(SoundFrame(stream))
<1>1. stack' \in Seq(SoundFrame(stream)')
  BY DEF IInv, StackInv
<1>2. SoundFrame(stream)' = SoundFrame(stream)
  BY DEF SoundFrame, Frame, FrameSound, IsPartialMatch, MatchesOf, PartialMatch
<1> QED
  BY <1>1, <1>2

\* HandleNewPartialMatch calls a join at the next parent; the time of the match
\* is now.
LEMMA NotifyStep ==
    ASSUME IInv, IInv', NewestInv, HandleNewPartialMatch
    PROVE  \E p, rest, join : Notifies(p, rest, join)
<1> DEFINE p == Head(Top.next)
           other == Sibling(p, Top.node)
           sts == CleanStores({other, p}, LastTimestamp(Top.pm))
           rest == [Top EXCEPT !.next = Tail(@)]
           join == JoinFrame(p, Top.pm, Candidates(p, Top.node, sts))
<1>1. /\ stack # <<>> /\ Top.op = "add" /\ Top.next # <<>>
      /\ store' = sts
      /\ filtered' = CleanFiltered({other, p}, LastTimestamp(Top.pm))
      /\ stack' = Call(rest, join)
      /\ UNCHANGED <<stream, phase, playing, freezers, unreported, matches>>
  BY DEF HandleNewPartialMatch
<1>2. /\ Top \in SoundFrame(stream)
      /\ Top \in Frame(stream)
      /\ FrameOK(Top)
      /\ IsPartialMatch(stream, Top.node, Top.pm)
  BY <1>1, TopFacts DEF FrameSound
<1>3. /\ Top.next \in Seq(Inner)
      /\ Top.node \in Node
  BY <1>2 DEF Frame
<1>4. p \in Inner /\ Top.node \in {Left[p], Right[p]}
  <2>1. /\ Len(Top.next) \in Nat \ {0}
        /\ DOMAIN Top.next = 1..Len(Top.next)
    BY <1>1, <1>3, EmptySeq, LenProperties
  <2>2. p = Top.next[1] /\ 1 \in DOMAIN Top.next
    BY <1>3, <2>1
  <2>3. Top.node \in {Left[Top.next[1]], Right[Top.next[1]]}
    BY <1>1, <1>2, <2>2 DEF FrameOK
  <2> QED
    BY <1>1, <1>3, <2>2, <2>3, HeadTailProperties
<1>5. LastTimestamp(Top.pm) = Now.ts
  <2>1. Top \in Range(stack)
    BY <1>1, RangeStack DEF IInv, StackInv
  <2>2. Newest \in Range(Top.pm) /\ Ordered
    BY <2>1 DEF NewestInv, NewestFrame
  <2>3. stream \in Seq(Event)
    BY DEF IInv, ControlInv
  <2> QED
    BY <1>2, <1>3, <2>2, <2>3, LastIsNow
<1>6. /\ rest.op = "add" /\ rest.node = Top.node /\ rest.pm = Top.pm
      /\ rest.next = Tail(Top.next) /\ rest.todo = Top.todo
  BY <1>1, <1>2 DEF Frame
<1>7. /\ join.op = "join" /\ join.node = p /\ join.pm = Top.pm
      /\ join.next = <<>> /\ join.todo = sts[other]
  BY DEF JoinFrame, Candidates
<1>8. rest \in SoundFrame(stream) /\ join \in SoundFrame(stream)
  <2>1. Call(rest, join) \in Seq(SoundFrame(stream))
    BY <1>1, NextStack
  <2>2. stack \in Seq(SoundFrame(stream))
    BY DEF IInv, StackInv
  <2> HIDE DEF rest, join
  <2> QED
    BY <1>1, <2>1, <2>2, CallParts
<1> HIDE DEF rest, join
<1>9. Notifies(p, rest, join)
  BY <1>1, <1>2, <1>3, <1>4, <1>5, <1>6, <1>7, <1>8 DEF Notifies
<1> QED
  BY <1>9

\* CreateMatch calls the addition of a partial match of the node.
LEMMA AcceptStep ==
    ASSUME IInv, IInv', Aligned, CreateMatch
    PROVE  \E c, pm, rest, add : Accepts(c, pm, rest, add)
<1> DEFINE n == Top.node
<1>1. /\ stack # <<>> /\ Top.op = "join"
      /\ UNCHANGED <<stream, phase, playing, freezers, unreported, matches>>
  BY DEF CreateMatch
<1>2. PICK c \in Top.todo :
        /\ Joinable(n, MergeMatches(n, Top.pm, c))
        /\ store' = AddedTo(store, n, MergeMatches(n, Top.pm, c))
        /\ access' = [access EXCEPT ![n] = @ + 1]
        /\ filtered' = [filtered EXCEPT
                           ![n] = @ \cup SingleEvents(n, MergeMatches(n, Top.pm, c))]
        /\ stack' = Call([Top EXCEPT !.todo = @ \ {c}],
                         AddFrame(n, MergeMatches(n, Top.pm, c)))
  BY DEF CreateMatch
<1> DEFINE pm == MergeMatches(n, Top.pm, c)
           rest == [Top EXCEPT !.todo = @ \ {c}]
           add == AddFrame(n, pm)
<1>3. /\ Top \in SoundFrame(stream) /\ Top \in Frame(stream)
      /\ n \in Inner /\ n \in Node
  BY <1>1, TopFacts, JoinSides
<1>4. PICK d : Sides(Top, d)
  BY <1>1, <1>3, JoinSides
<1>5. /\ rest.op = "join" /\ rest.node = n /\ rest.pm = Top.pm
      /\ rest.next = Top.next /\ rest.todo = Top.todo \ {c}
  BY <1>1, <1>3 DEF Frame
<1>6. /\ add.op = "add" /\ add.node = n /\ add.pm = pm
      /\ add.next = Parents[n] /\ add.todo = {}
  BY DEF AddFrame
<1>7. rest \in SoundFrame(stream) /\ add \in SoundFrame(stream)
  <2>1. Call(rest, add) \in Seq(SoundFrame(stream))
    BY <1>1, <1>2, NextStack
  <2>2. stack \in Seq(SoundFrame(stream))
    BY DEF IInv, StackInv
  <2> HIDE DEF rest, add
  <2> QED
    BY <1>1, <2>1, <2>2, CallParts
<1>8. IsPartialMatch(stream, n, pm)
  <2>1. add \in SoundFrame(stream)
    BY <1>7
  <2> QED
    BY <1>6, <2>1 DEF SoundFrame, FrameSound
<1>9. /\ SingleEvents(n, pm) \cap filtered[n] = {}
      /\ store' = [store EXCEPT ![n] = @ \cup {pm}]
      /\ filtered' = [filtered EXCEPT ![n] = @ \cup SingleEvents(n, pm)]
      /\ stack' = Call(rest, add)
      /\ c \in Top.todo
  BY <1>2 DEF Joinable, CanAdd, AddedTo
<1>10. PICK q : q = pm
  OBVIOUS
<1> HIDE DEF rest, add
<1>11. Accepts(c, q, rest, add)
  BY <1>1, <1>3, <1>5, <1>6, <1>7, <1>8, <1>9, <1>10 DEF Accepts
<1> QED
  BY <1>11

\* RejectCandidate goes on without the candidate.
LEMMA RejectStep ==
    ASSUME IInv, IInv', RejectCandidate
    PROVE  \E c, rest : Rejects(c, rest)
<1>1. /\ stack # <<>> /\ Top.op = "join"
      /\ UNCHANGED <<stream, phase, playing, store, filtered, freezers,
                     unreported, matches>>
  BY DEF RejectCandidate
<1>2. PICK c \in Top.todo :
          /\ ~ Joinable(Top.node, MergeMatches(Top.node, Top.pm, c))
          /\ stack' = Continue([Top EXCEPT !.todo = @ \ {c}])
  BY DEF RejectCandidate
<1> DEFINE rest == [Top EXCEPT !.todo = @ \ {c}]
<1>3. /\ Top \in SoundFrame(stream) /\ Top \in Frame(stream)
      /\ Top.node \in Inner /\ Top.node \in Node
  BY <1>1, TopFacts, JoinSides
<1>4. /\ rest.op = "join" /\ rest.node = Top.node /\ rest.pm = Top.pm
      /\ rest.next = Top.next /\ rest.todo = Top.todo \ {c}
  BY <1>1, <1>3 DEF Frame
<1>5. rest \in SoundFrame(stream)
  <2>1. Continue(rest) \in Seq(SoundFrame(stream))
    BY <1>1, <1>2, NextStack
  <2>2. stack \in Seq(SoundFrame(stream))
    BY DEF IInv, StackInv
  <2> HIDE DEF rest
  <2> QED
    BY <1>1, <2>1, <2>2, CallParts
<1>6. stack' = Continue(rest) /\ c \in Top.todo
  BY <1>2
<1> HIDE DEF rest
<1>7. Rejects(c, rest)
  BY <1>1, <1>2, <1>3, <1>4, <1>5, <1>6 DEF Rejects
<1> QED
  BY <1>7

-----------------------------------------------------------------------------
(* The calls are about the newest event *)

\* Everything the tree holds refers to events read.
LEMMA Typed ==
    ASSUME IInv
    PROVE  /\ stream \in Seq(Event)
           /\ stack \in Seq(SoundFrame(stream))
           /\ Range(stack) \subseteq SoundFrame(stream)
           /\ phase # "playing" => playing = {} /\ stack = <<>>
           /\ \A n \in Node : \A m \in store[n] : IsPartialMatch(stream, n, m)
           /\ \A n \in OutputNode :
                /\ n \in Node
                /\ unreported[n] \in Seq(PartialMatch(stream))
                /\ \A m \in Range(unreported[n]) : IsPartialMatch(stream, n, m)
           /\ matches \in Seq(SoundReport(stream))
           /\ \A r \in Range(matches) :
                r.node \in OutputNode /\ IsPartialMatch(stream, r.node, r.pm)
<1>1. /\ stream \in Seq(Event)
      /\ stack \in Seq(SoundFrame(stream))
      /\ phase # "playing" => playing = {} /\ stack = <<>>
      /\ matches \in Seq(SoundReport(stream))
  BY DEF IInv, ControlInv, StackInv, OutputInv
<1>2. Range(stack) \subseteq SoundFrame(stream)
  BY <1>1, RangeFacts
<1>3. \A n \in Node : \A m \in store[n] : IsPartialMatch(stream, n, m)
  BY DEF IInv, StoreInv, SoundMatch
<1>4. ASSUME NEW n \in OutputNode
      PROVE  /\ n \in Node
             /\ unreported[n] \in Seq(PartialMatch(stream))
             /\ \A m \in Range(unreported[n]) : IsPartialMatch(stream, n, m)
  <2>1. /\ unreported[n] \in Seq(SoundMatch(stream, n))
        /\ unreported[n] \in Seq(PartialMatch(stream))
    BY DEF IInv, OutputInv
  <2>2. Range(unreported[n]) \subseteq SoundMatch(stream, n)
    BY <2>1, RangeFacts
  <2> QED
    BY <2>1, <2>2, OutputNodes DEF SoundMatch
<1>5. ASSUME NEW r \in Range(matches)
      PROVE  r.node \in OutputNode /\ IsPartialMatch(stream, r.node, r.pm)
  <2>1. r \in SoundReport(stream)
    BY <1>1, RangeFacts
  <2> QED
    BY <2>1 DEF SoundReport, Report
<1> QED
  BY <1>1, <1>2, <1>3, <1>4, <1>5

\* What a new event is, and where it is played.
LEMMA NewEvent ==
    ASSUME IInv, IInv', ReadEvent
    PROVE  \E e \in Event :
              /\ stream' = Append(stream, e)
              /\ Newest' = Newest + 1 /\ Newest \in Nat
              /\ \A i \in 1..Newest : stream'[i] = stream[i]
              /\ stream'[Newest + 1] = e /\ Now' = e
              /\ stream # <<>> => Now.ts <= e.ts
              /\ \/ SkipEvent(e) /\ phase' = "idle" /\ playing' = {}
                 \/ AcceptEvent(e) /\ phase' = "playing"
              /\ \A l \in Leaf : TypeOf[l] = e.type => l \in playing'
              /\ phase = "idle" /\ stack = <<>> /\ stack' = <<>> /\ playing = {}
              /\ UNCHANGED <<stack, store, access, filtered, unreported, matches>>
<1>1. PICK t \in EventType, ts \in NextStamps, v \in Val :
        /\ stream' = Append(stream, [type |-> t, ts |-> ts, val |-> v])
        /\ \/ SkipEvent([type |-> t, ts |-> ts, val |-> v])
           \/ AcceptEvent([type |-> t, ts |-> ts, val |-> v])
  BY DEF ReadEvent
<1> DEFINE e == [type |-> t, ts |-> ts, val |-> v]
<1>2. /\ phase = "idle" /\ stack = <<>> /\ playing = {}
      /\ UNCHANGED <<stack, store, access, filtered, unreported, matches>>
      /\ stream \in Seq(Event)
  BY DEF ReadEvent, IInv, ControlInv
<1>3. stream # <<>> => Now.ts \in Nat
  <2> SUFFICES ASSUME stream # <<>>
               PROVE  Now.ts \in Nat
    OBVIOUS
  <2>1. Newest \in 1..Newest
    BY <1>2, EmptySeq DEF Newest
  <2> QED
    BY <1>2, <2>1, Stamps DEF Now, Newest
<1>4. ts \in Nat /\ (stream # <<>> => Now.ts <= ts)
  <2>1. CASE stream = <<>>
    BY <2>1 DEF NextStamps
  <2>2. CASE stream # <<>>
    <3>1. ts \in Now.ts..(Now.ts + MaxGap)
      BY <2>2 DEF NextStamps
    <3> QED
      BY <1>3, <2>2, <3>1, BoundAssumption
  <2> QED
    BY <2>1, <2>2
<1>5. e \in Event /\ e.type = t /\ e.ts = ts
  BY <1>4 DEF Event
<1> HIDE DEF e
<1>6. /\ stream' = Append(stream, e)
      /\ Len(stream') = Len(stream) + 1 /\ Len(stream) \in Nat
      /\ \A i \in 1..Len(stream) : stream'[i] = stream[i]
      /\ stream'[Len(stream) + 1] = e
  BY <1>1, <1>2, <1>5, AppendProperties, LenProperties DEF e
<1>7. Newest' = Newest + 1 /\ Newest \in Nat /\ Now' = e /\ Newest = Len(stream)
  BY <1>6 DEF Newest, Now
<1>8. \/ SkipEvent(e) /\ phase' = "idle" /\ playing' = {}
      \/ AcceptEvent(e) /\ phase' = "playing"
  BY <1>1, <1>2 DEF SkipEvent, AcceptEvent, e
<1>9. \A l \in Leaf : TypeOf[l] = e.type => l \in playing'
  BY <1>8 DEF SkipEvent, AcceptEvent, Listeners
<1> QED
  BY <1>2, <1>4, <1>5, <1>6, <1>7, <1>8, <1>9

\* Whatever the tree held is without the new event.
LEMMA NewestReadEvent ==
    ASSUME IInv, IInv', NewestInv, ReadEvent
    PROVE  NewestInv'
<1>1. PICK e \in Event :
              /\ stream' = Append(stream, e)
              /\ Newest' = Newest + 1 /\ Newest \in Nat
              /\ \A i \in 1..Newest : stream'[i] = stream[i]
              /\ stream'[Newest + 1] = e /\ Now' = e
              /\ stream # <<>> => Now.ts <= e.ts
              /\ \/ SkipEvent(e) /\ phase' = "idle" /\ playing' = {}
                 \/ AcceptEvent(e) /\ phase' = "playing"
              /\ \A l \in Leaf : TypeOf[l] = e.type => l \in playing'
              /\ phase = "idle" /\ stack = <<>> /\ stack' = <<>> /\ playing = {}
              /\ UNCHANGED <<stack, store, access, filtered, unreported, matches>>
  BY NewEvent
<1>2. \A n \in Node : \A m : IsPartialMatch(stream, n, m) => Newest' \notin Range(m)
  <2> SUFFICES ASSUME NEW n \in Node, NEW m, IsPartialMatch(stream, n, m)
               PROVE  Newest' \notin Range(m)
    OBVIOUS
  <2>1. Range(m) \subseteq 1..Newest
    BY MatchShape DEF Newest
  <2> QED
    BY <1>1, <2>1
<1>3. Ordered'
  <2> SUFFICES ASSUME NEW i \in 1..Newest', NEW j \in 1..Newest', i <= j
               PROVE  stream'[i].ts <= stream'[j].ts
    BY DEF Ordered
  <2>1. stream \in Seq(Event) /\ stream' \in Seq(Event)
    BY DEF IInv, ControlInv
  <2>2. CASE j \in 1..Newest
    <3>1. i \in 1..Newest
      BY <1>1, <2>2
    <3> QED
      BY <1>1, <2>2, <3>1 DEF NewestInv, Ordered
  <2>3. CASE j = Newest + 1 /\ i \in 1..Newest
    <3>1. Newest \in 1..Newest /\ i <= Newest /\ stream # <<>>
      <4>1. Newest \in 1..Newest /\ i <= Newest
        BY <1>1, <2>3
      <4>2. stream # <<>>
        BY <4>1, EmptySeq DEF Newest
      <4> QED
        BY <4>1, <4>2
    <3>2. stream[i].ts <= stream[Newest].ts
      BY <2>3, <3>1 DEF NewestInv, Ordered
    <3>3. stream[i].ts \in Nat /\ stream[Newest].ts \in Nat
      BY <2>1, <2>3, <3>1, Stamps
    <3>4. stream[Newest].ts <= e.ts
      BY <1>1, <3>1 DEF Now, Newest
    <3>5. e.ts \in Nat
      BY DEF Event
    <3>6. stream'[i] = stream[i] /\ stream'[j] = e
      BY <1>1, <2>3
    <3> QED
      BY <3>2, <3>3, <3>4, <3>5, <3>6
  <2>4. CASE j = Newest + 1 /\ i = Newest + 1
    <3>1. e.ts \in Nat
      BY DEF Event
    <3>2. stream'[i] = e /\ stream'[j] = e
      BY <1>1, <2>4
    <3> QED
      BY <3>1, <3>2
  <2>5. \/ j \in 1..Newest
        \/ j = Newest + 1 /\ i \in 1..Newest
        \/ j = Newest + 1 /\ i = Newest + 1
    <3>1. Newest' = Newest + 1 /\ Newest \in Nat
      BY <1>1
    <3> QED
      BY <3>1
  <2> QED
    BY <2>2, <2>3, <2>4, <2>5
<1>4. \A f \in Range(stack') : NewestFrame(f)'
  BY <1>1 DEF Range
<1>5. StoresSeen'
  <2> SUFFICES ASSUME NEW n \in Node, NEW m \in store[n]
               PROVE  SeenMatch(m)'
    BY <1>1 DEF StoresSeen
  <2>1. Newest' \notin Range(m)
    BY <1>2, Typed
  <2> QED
    BY <2>1 DEF SeenMatch, Range
<1>6. OutputNewest'
  <2>1. \A n \in OutputNode : unreported'[n] = <<>>
    BY <1>1 DEF NewestInv, OutputNewest
  <2>2. \A r \in Range(matches') : Newest' \notin Range(r.pm)
    <3> SUFFICES ASSUME NEW r \in Range(matches)
                 PROVE  Newest' \notin Range(r.pm)
      BY <1>1
    <3>1. r.node \in Node /\ IsPartialMatch(stream, r.node, r.pm)
      BY Typed
    <3> QED
      BY <1>2, <3>1
  <2>3. \A n \in OutputNode : Range(unreported'[n]) = {}
    BY <2>1 DEF Range
  <2> QED
    BY <2>1, <2>2, <2>3 DEF OutputNewest
<1> QED
  BY <1>3, <1>4, <1>5, <1>6 DEF NewestInv

\* The state of the event in the tree.
LEMMA InTree ==
    ASSUME IInv, playing # {} \/ stack # <<>> \/ phase = "playing"
    PROVE  /\ phase = "playing" /\ stream # <<>> /\ stream \in Seq(Event)
           /\ Newest \in 1..Newest
           /\ Now = stream[Newest] /\ Now \in Event /\ Now.ts \in Nat
           /\ \A l \in playing : l \in Leaf /\ l \in Node /\ TypeOf[l] = Now.type
<1>1. phase = "playing" /\ stream # <<>> /\ stream \in Seq(Event)
  BY DEF IInv, ControlInv
<1>2. Newest \in 1..Newest
  BY <1>1, EmptySeq DEF Newest
<1>3. Now = stream[Newest]
  BY DEF Now, Newest
<1>4. \A l \in playing : l \in Leaf /\ l \in Node /\ TypeOf[l] = Now.type
  BY DEF IInv, ControlInv, Node
<1> QED
  BY <1>1, <1>2, <1>3, <1>4, Stamps

\* Cleaning takes out.
LEMMA CleanLess ==
    ASSUME NEW ns, NEW last, NEW n \in Node
    PROVE  /\ CleanStores(ns, last)[n] \subseteq store[n]
           /\ CleanFiltered(ns, last)[n] \subseteq filtered[n]
BY DEF CleanStores, CleanFiltered, Cleaned, CleanedFiltered

\* What is seen stays seen when a leaf has been visited.
LEMMA SeenStays ==
    ASSUME NEW m, SeenMatch(m), stream' = stream, playing' \subseteq playing
    PROVE  SeenMatch(m)'
BY DEF SeenMatch, Newest

\* What the leaf makes of the event.
LEMMA LeafMatchFacts ==
    ASSUME NEW l \in Leaf
    PROVE  /\ DOMAIN LeafMatch(l) = {l}
           /\ LeafMatch(l)[l] = Newest
           /\ Range(LeafMatch(l)) = {Newest}
BY DEF LeafMatch, Newest, Range

\* A step that only takes calls or matches away, or leaves them as they are,
\* and passes no new parent list.
LEMMA NewestLess ==
    ASSUME NewestInv, stream' = stream, playing' \subseteq playing,
           Range(stack') \subseteq Range(stack),
           \A n \in Node : \A m \in store'[n] : SeenMatch(m),
           \A n \in OutputNode : Range(unreported'[n]) \subseteq Range(unreported[n]),
           phase' # "playing" => \A n \in OutputNode : unreported'[n] = <<>>,
           playing' # {} => Range(matches') \subseteq Range(matches)
    PROVE  NewestInv'
<1>1. Ordered' /\ Newest' = Newest
  BY DEF NewestInv, Ordered, Newest
<1>2. \A m : SeenMatch(m) => SeenMatch(m)'
  BY SeenStays
<1>3. ASSUME NEW f \in Range(stack')
      PROVE  NewestFrame(f)'
  <2>1. NewestFrame(f)
    BY DEF NewestInv
  <2> QED
    BY <1>1, <1>2, <2>1 DEF NewestFrame
<1>4. StoresSeen'
  BY <1>2 DEF StoresSeen
<1>5. OutputNewest'
  BY <1>1, <1>2 DEF NewestInv, OutputNewest
<1> QED
  BY <1>1, <1>3, <1>4, <1>5 DEF NewestInv

\* A leaf that accepts the event adds a match made of it.
LEMMA NewestHandleEvent ==
    ASSUME IInv, IInv', NewestInv, NEW l \in Leaf, HandleEvent(l)
    PROVE  NewestInv'
<1> PICK lm : lm = LeafMatch(l)
  OBVIOUS
<1>1. /\ stack = <<>> /\ l \in playing /\ playing' = playing \ {l}
      /\ stack' = <<AddFrame(l, lm)>>
      /\ store' = AddedTo(CleanStores({l}, Now.ts), l, lm)
      /\ UNCHANGED <<stream, phase, unreported, matches>>
  BY DEF HandleEvent
<1>2. l \in Node /\ phase = "playing"
  BY <1>1, InTree
<1>3. Ordered' /\ Newest' = Newest
  BY <1>1 DEF NewestInv, Ordered, Newest
<1>4. \A m : SeenMatch(m) => SeenMatch(m)'
  BY <1>1, SeenStays
<1>5. SeenMatch(lm)' /\ Newest \in Range(lm)
  BY <1>1, LeafMatchFacts DEF SeenMatch
<1>6. \A f \in Range(stack') : NewestFrame(f)'
  <2>1. Range(stack') = {AddFrame(l, lm)}
    BY <1>1 DEF Range
  <2>2. IsInjective(Parents[l])
    BY <1>2, ParentsAssumption
  <2>3. NewestFrame(AddFrame(l, lm))'
    BY <1>3, <1>5, <2>2 DEF NewestFrame, AddFrame
  <2> QED
    BY <2>1, <2>3
<1>7. StoresSeen'
  <2> SUFFICES ASSUME NEW n \in Node, NEW m \in store'[n]
               PROVE  SeenMatch(m)'
    BY DEF StoresSeen
  <2>1. CleanStores({l}, Now.ts) \in [Node -> SUBSET PartialMatch(stream)]
    BY CleanProperties DEF IInv
  <2>2. m \in CleanStores({l}, Now.ts)[n] \/ m = lm
    BY <1>1, <1>2, <2>1 DEF AddedTo
  <2>3. m \in store[n] \/ m = lm
    BY <2>2, CleanLess
  <2> QED
    BY <1>4, <1>5, <2>3 DEF NewestInv, StoresSeen
<1>8. OutputNewest'
  BY <1>1, <1>2, <1>3, <1>4 DEF NewestInv, OutputNewest
<1> QED
  BY <1>3, <1>6, <1>7, <1>8 DEF NewestInv

\* The join started at a parent is about the match that was added.
LEMMA NewestNotify ==
    ASSUME IInv, IInv', NewestInv, HandleNewPartialMatch
    PROVE  NewestInv'
<1>1. PICK p, rest, join : Notifies(p, rest, join)
  BY NotifyStep
<1>2. /\ stack # <<>> /\ stack' = Call(rest, join)
      /\ Top.next \in Seq(Inner) /\ Top.next # <<>>
      /\ UNCHANGED <<stream, phase, playing, unreported, matches>>
  BY <1>1 DEF Notifies
<1>3. Ordered' /\ Newest' = Newest
  BY <1>2 DEF NewestInv, Ordered, Newest
<1>4. \A m : SeenMatch(m) => SeenMatch(m)'
  BY <1>2, SeenStays
<1>5. /\ Top \in Range(stack)
      /\ Range(Pop) \subseteq Range(stack)
      /\ Range(stack') = Range(Pop) \cup {rest, join}
  BY <1>2, RangeStack, Typed
<1>6. NewestFrame(Top)
  BY <1>5 DEF NewestInv
<1>7. NewestFrame(rest)'
  <2>1. IsInjective(Tail(Top.next))
    <3>1. IsInjective(Top.next)
      BY <1>6 DEF NewestFrame
    <3>2. /\ Len(Top.next) \in Nat \ {0}
          /\ DOMAIN Top.next = 1..Len(Top.next)
          /\ DOMAIN Tail(Top.next) = 1..Len(Top.next) - 1
          /\ \A i \in DOMAIN Tail(Top.next) : Tail(Top.next)[i] = Top.next[i + 1]
      BY <1>2, EmptySeq, LenProperties, HeadTailProperties
    <3>3. \A i \in DOMAIN Tail(Top.next) : i + 1 \in DOMAIN Top.next /\ i \in Int
      BY <3>2
    <3>4. \A i, j \in Int : i # j => i + 1 # j + 1
      OBVIOUS
    <3> HIDE DEF Notifies
    <3> QED
      BY <3>1, <3>2, <3>3, <3>4 DEF IsInjective
  <2>2. rest.pm = Top.pm /\ rest.todo = Top.todo /\ rest.next = Tail(Top.next)
    BY <1>1 DEF Notifies
  <2> QED
    BY <1>3, <1>4, <1>6, <2>1, <2>2 DEF NewestFrame
<1>8. \A n \in Node : store'[n] \subseteq store[n]
  BY <1>1, CleanLess DEF Notifies
<1>9. NewestFrame(join)'
  <2>1. /\ join.pm = Top.pm /\ join.next = <<>>
        /\ join.todo = store'[Sibling(p, Top.node)]
        /\ Sibling(p, Top.node) \in Node
    BY <1>1, SidesOfInner DEF Notifies
  <2>2. \A y \in join.todo : SeenMatch(y)
    BY <1>8, <2>1 DEF NewestInv, StoresSeen
  <2>3. IsInjective(<<>>)
    BY DEF IsInjective
  <2> QED
    BY <1>3, <1>4, <1>6, <2>1, <2>2, <2>3 DEF NewestFrame
<1>10. \A f \in Range(stack') : NewestFrame(f)'
  <2>1. \A f \in Range(Pop) : NewestFrame(f)'
    BY <1>3, <1>4, <1>5 DEF NewestInv, NewestFrame
  <2> QED
    BY <1>5, <1>7, <1>9, <2>1
<1>11. StoresSeen'
  BY <1>4, <1>8 DEF NewestInv, StoresSeen
<1>12. OutputNewest'
  BY <1>2, <1>3, <1>4 DEF NewestInv, OutputNewest
<1> QED
  BY <1>3, <1>10, <1>11, <1>12 DEF NewestInv

\* A joined match has the events of the match that the join is about.
LEMMA AcceptNewest ==
    ASSUME Aligned, IInv, NewestInv, NEW c, NEW pm, NEW rest, NEW add,
           Accepts(c, pm, rest, add)
    PROVE  Newest \in Range(pm) /\ SeenMatch(pm)
<1>1. /\ stack # <<>> /\ c \in Top.todo
      /\ Top \in SoundFrame(stream) /\ Top.op = "join"
      /\ Top.node \in Inner /\ Top.node \in Node
      /\ pm = MergeMatches(Top.node, Top.pm, c)
  BY DEF Accepts
<1>2. NewestFrame(Top)
  BY <1>1, RangeStack, Typed DEF NewestInv
<1>3. PICK d : Sides(Top, d)
  BY <1>1, JoinSides
<1>4. Combines(pm, Top.pm, c)
  BY <1>1, <1>3, JoinShape DEF Sides
<1>5. Newest \in Range(Top.pm) /\ SeenMatch(Top.pm) /\ SeenMatch(c)
  BY <1>1, <1>2 DEF NewestFrame
<1>6. Newest \in Range(pm)
  BY <1>4, <1>5 DEF Combines, Over, Range
<1>7. SeenMatch(pm)
  BY <1>4, <1>5 DEF Combines, Over, SeenMatch
<1> QED
  BY <1>6, <1>7

\* A join goes on with the candidates that are left.
LEMMA NewestAccept ==
    ASSUME Aligned, IInv, IInv', NewestInv, CreateMatch
    PROVE  NewestInv'
<1>1. PICK c, pm, rest, add : Accepts(c, pm, rest, add)
  BY AcceptStep
<1>2. /\ stack # <<>> /\ stack' = Call(rest, add) /\ c \in Top.todo
      /\ Top \in SoundFrame(stream) /\ Top.op = "join"
      /\ Top.node \in Inner /\ Top.node \in Node
      /\ pm = MergeMatches(Top.node, Top.pm, c)
      /\ store' = [store EXCEPT ![Top.node] = @ \cup {pm}]
      /\ UNCHANGED <<stream, phase, playing, unreported, matches>>
  BY <1>1 DEF Accepts
<1>3. Ordered' /\ Newest' = Newest
  BY <1>2 DEF NewestInv, Ordered, Newest
<1>4. \A m : SeenMatch(m) => SeenMatch(m)'
  BY <1>2, SeenStays
<1>5. /\ Top \in Range(stack)
      /\ Range(Pop) \subseteq Range(stack)
      /\ Range(stack') = Range(Pop) \cup {rest, add}
  BY <1>2, RangeStack, Typed
<1>6. NewestFrame(Top)
  BY <1>5 DEF NewestInv
<1>7. Newest \in Range(pm) /\ SeenMatch(pm)
  BY <1>1, AcceptNewest
<1>8. NewestFrame(rest)'
  <2>1. rest.pm = Top.pm /\ rest.todo \subseteq Top.todo /\ rest.next = Top.next
    BY <1>1 DEF Accepts
  <2> QED
    BY <1>3, <1>4, <1>6, <2>1 DEF NewestFrame
<1>9. NewestFrame(add)'
  <2>1. add.pm = pm /\ add.todo = {} /\ add.next = Parents[Top.node]
    BY <1>1 DEF Accepts
  <2>2. IsInjective(Parents[Top.node])
    BY <1>2, ParentsAssumption
  <2> QED
    BY <1>3, <1>4, <1>7, <2>1, <2>2 DEF NewestFrame
<1>10. \A f \in Range(stack') : NewestFrame(f)'
  <2>1. \A f \in Range(Pop) : NewestFrame(f)'
    BY <1>3, <1>4, <1>5 DEF NewestInv, NewestFrame
  <2> QED
    BY <1>5, <1>8, <1>9, <2>1
<1>11. StoresSeen'
  <2>1. \A n \in Node : \A m \in store'[n] : m \in store[n] \/ m = pm
    BY <1>2 DEF IInv, StoreInv
  <2> QED
    BY <1>4, <1>7, <2>1 DEF NewestInv, StoresSeen
<1>12. OutputNewest'
  BY <1>2, <1>3, <1>4 DEF NewestInv, OutputNewest
<1> QED
  BY <1>3, <1>10, <1>11, <1>12 DEF NewestInv

\* The top call ends; an output node queues its match.
LEMMA EndStep ==
    ASSUME IInv, FinishAdd \/ FinishJoin
    PROVE  /\ stack # <<>> /\ stack' = Pop
           /\ Top \in SoundFrame(stream) /\ Top.pm \in PartialMatch(stream)
           /\ ((Top.op = "add" /\ Top.next = <<>>) \/ (Top.op = "join" /\ Top.todo = {}))
           /\ UNCHANGED <<stream, phase, playing, store, filtered, freezers, matches>>
           /\ unreported' = [n \in OutputNode |->
                                IF Top.op = "add" /\ n = Top.node
                                THEN Append(unreported[n], Top.pm) ELSE unreported[n]]
<1>1. /\ stack # <<>> /\ stack' = Pop
      /\ ((Top.op = "add" /\ Top.next = <<>>) \/ (Top.op = "join" /\ Top.todo = {}))
      /\ UNCHANGED <<stream, phase, playing, store, filtered, freezers, matches>>
  <2>1. CASE FinishAdd
    BY <2>1 DEF FinishAdd
  <2>2. CASE FinishJoin
    BY <2>2 DEF FinishJoin
  <2> QED
    BY <2>1, <2>2
<1>2. Top \in SoundFrame(stream) /\ Top.pm \in PartialMatch(stream)
  BY <1>1, TopFacts DEF Frame
<1>3. unreported' = [n \in OutputNode |->
                        IF Top.op = "add" /\ n = Top.node
                        THEN Append(unreported[n], Top.pm) ELSE unreported[n]]
  <2>1. CASE FinishAdd
    BY <2>1 DEF FinishAdd
  <2>2. CASE FinishJoin
    <3>1. unreported' = unreported /\ Top.op # "add"
      BY <2>2 DEF FinishJoin
    <3>2. unreported = [n \in OutputNode |-> unreported[n]]
      BY DEF IInv, OutputInv
    <3> QED
      BY <3>1, <3>2
  <2> QED
    BY <2>1, <2>2
<1> QED
  BY <1>1, <1>2, <1>3

\* What an output node queues was added for the newest event.
LEMMA NewestEnd ==
    ASSUME IInv, IInv', NewestInv, FinishAdd \/ FinishJoin
    PROVE  NewestInv'
<1>1. /\ stack # <<>> /\ stack' = Pop /\ Top.pm \in PartialMatch(stream)
      /\ UNCHANGED <<stream, phase, playing, store, filtered, freezers, matches>>
      /\ unreported' = [n \in OutputNode |->
                            IF Top.op = "add" /\ n = Top.node
                            THEN Append(unreported[n], Top.pm) ELSE unreported[n]]
  BY EndStep
<1>2. Ordered' /\ Newest' = Newest /\ phase = "playing"
  BY <1>1, InTree DEF NewestInv, Ordered, Newest
<1>3. \A m : SeenMatch(m) => SeenMatch(m)'
  BY <1>1, SeenStays
<1>4. Top \in Range(stack) /\ Range(stack') \subseteq Range(stack)
  BY <1>1, RangeStack, Typed
<1>5. ASSUME NEW n \in OutputNode, NEW m \in Range(unreported'[n])
      PROVE  Newest \in Range(m) /\ SeenMatch(m)
  <2>1. unreported[n] \in Seq(PartialMatch(stream))
    BY Typed
  <2>2. Range(Append(unreported[n], Top.pm)) = Range(unreported[n]) \cup {Top.pm}
    BY <1>1, <2>1, RangeFacts
  <2>3. m \in Range(unreported[n]) \/ m = Top.pm
    BY <1>1, <1>5, <2>2
  <2>4. NewestFrame(Top)
    BY <1>4 DEF NewestInv
  <2> QED
    BY <2>3, <2>4 DEF NewestInv, OutputNewest, NewestFrame
<1>6. OutputNewest'
  BY <1>1, <1>2, <1>3, <1>5 DEF NewestInv, OutputNewest
<1>7. \A f \in Range(stack') : NewestFrame(f)'
  BY <1>2, <1>3, <1>4 DEF NewestInv, NewestFrame
<1>8. StoresSeen'
  BY <1>1, <1>3 DEF NewestInv, StoresSeen
<1> QED
  BY <1>2, <1>6, <1>7, <1>8 DEF NewestInv

\* One full match moves to the output stream.
LEMMA ReportStep ==
    ASSUME IInv, NEW n \in OutputNode, ReportMatch(n)
    PROVE  \E pm, report :
              /\ phase = "playing" /\ playing = {} /\ stack = <<>>
              /\ unreported[n] # <<>> /\ pm = Head(unreported[n])
              /\ report = [pm |-> pm, node |-> n, ids |-> PatternIds(n, pm)]
              /\ report \in SoundReport(stream)
              /\ pm \in Range(unreported[n]) /\ pm \in PartialMatch(stream)
              /\ IsPartialMatch(stream, n, pm)
              /\ matches' = Append(matches, report)
              /\ freezers' = IF FreezeMap = {} THEN freezers ELSE freezers \ Range(pm)
              /\ unreported' = [unreported EXCEPT ![n] = Tail(@)]
              /\ UNCHANGED <<stream, phase, playing, stack, store, access, filtered>>
<1> DEFINE pm == Head(unreported[n])
           report == [pm |-> pm, node |-> n, ids |-> PatternIds(n, pm)]
<1>1. /\ phase = "playing" /\ playing = {} /\ stack = <<>>
      /\ unreported[n] # <<>>
      /\ matches' = Append(matches, report)
      /\ freezers' = IF FreezeMap = {} THEN freezers ELSE freezers \ Range(pm)
      /\ unreported' = [unreported EXCEPT ![n] = Tail(@)]
      /\ UNCHANGED <<stream, phase, playing, stack, store, access, filtered>>
  BY DEF ReportMatch, Settled
<1>2. /\ unreported[n] \in Seq(PartialMatch(stream))
      /\ \A m \in Range(unreported[n]) : IsPartialMatch(stream, n, m)
      /\ n \in Node
  BY Typed
<1>3. pm \in Range(unreported[n]) /\ pm \in PartialMatch(stream)
  BY <1>1, <1>2, RangeFacts
<1>4. IsPartialMatch(stream, n, pm)
  BY <1>2, <1>3
<1>5. report \in SoundReport(stream)
  <2>1. report \in Report(stream)
    BY <1>3 DEF Report, PatternIds
  <2>2. \A p \in report.ids : /\ Root[p] = n
                              /\ WithinWindow(stream, pm, PatternWindow[p])
    BY DEF PatternIds
  <2> QED
    BY <1>4, <2>1, <2>2 DEF SoundReport
<1> HIDE DEF pm, report
<1>6. pm = Head(unreported[n]) /\ report = [pm |-> pm, node |-> n, ids |-> PatternIds(n, pm)]
  BY DEF pm, report
<1> QED
  BY <1>1, <1>3, <1>4, <1>5, <1>6

\* The queues after a report.
LEMMA QueueTail ==
    ASSUME IInv, NEW n \in OutputNode, unreported[n] # <<>>,
           unreported' = [unreported EXCEPT ![n] = Tail(@)]
    PROVE  /\ unreported'[n] = Tail(unreported[n])
           /\ \A k \in OutputNode : k # n => unreported'[k] = unreported[k]
           /\ \A k \in OutputNode : Range(unreported'[k]) \subseteq Range(unreported[k])
<1>1. /\ unreported'[n] = Tail(unreported[n])
      /\ \A k \in OutputNode : k # n => unreported'[k] = unreported[k]
  BY DEF IInv, OutputInv
<1>2. Range(Tail(unreported[n])) \subseteq Range(unreported[n])
  BY Typed, RangeFacts
<1> QED
  BY <1>1, <1>2

\* NewestInv is inductive.
LEMMA NewestNext ==
    ASSUME Aligned, IInv, IInv', NewestInv, [Next]_vars
    PROVE  NewestInv'
<1>1. CASE ReadEvent
  BY <1>1, NewestReadEvent
<1>2. ASSUME NEW l \in Leaf, IgnoreEvent(l) \/ RejectEvent(l)
      PROVE  NewestInv'
  <2>1. /\ playing' \subseteq playing
        /\ stack = <<>> /\ stack' = stack
        /\ l \in playing
        /\ UNCHANGED <<stream, phase, unreported, matches>>
    BY <1>2 DEF IgnoreEvent, RejectEvent
  <2>2. phase = "playing"
    BY <2>1, InTree
  <2>3. \A n \in Node : store'[n] \subseteq store[n]
    BY <1>2, CleanLess DEF IgnoreEvent, RejectEvent
  <2>4. \A n \in Node : \A m \in store'[n] : SeenMatch(m)
    BY <2>3 DEF NewestInv, StoresSeen
  <2> QED
    BY <2>1, <2>2, <2>4, NewestLess
<1>3. ASSUME NEW l \in Leaf, HandleEvent(l)
      PROVE  NewestInv'
  BY <1>3, NewestHandleEvent
<1>4. CASE HandleNewPartialMatch
  BY <1>4, NewestNotify
<1>5. CASE FinishAdd \/ FinishJoin
  BY <1>5, NewestEnd
<1>6. CASE CreateMatch
  BY <1>6, NewestAccept
<1>7. CASE RejectCandidate
  <2>1. PICK c, rest : Rejects(c, rest)
    BY <1>7, RejectStep
  <2>2. /\ stack # <<>> /\ stack' = Continue(rest)
        /\ rest.pm = Top.pm /\ rest.todo \subseteq Top.todo /\ rest.next = Top.next
        /\ UNCHANGED <<stream, phase, playing, store, unreported, matches>>
    BY <2>1 DEF Rejects
  <2>3. Ordered' /\ Newest' = Newest
    BY <2>2 DEF NewestInv, Ordered, Newest
  <2>4. \A m : SeenMatch(m) => SeenMatch(m)'
    BY <2>2, SeenStays
  <2>5. /\ Top \in Range(stack)
        /\ Range(Pop) \subseteq Range(stack)
        /\ Range(stack') = Range(Pop) \cup {rest}
    BY <2>2, RangeStack, Typed
  <2>6. NewestFrame(rest)'
    BY <2>2, <2>3, <2>4, <2>5 DEF NewestInv, NewestFrame
  <2>7. \A f \in Range(Pop) : NewestFrame(f)'
    BY <2>3, <2>4, <2>5 DEF NewestInv, NewestFrame
  <2>8. StoresSeen' /\ OutputNewest'
    BY <2>2, <2>3, <2>4 DEF NewestInv, StoresSeen, OutputNewest
  <2> QED
    BY <2>3, <2>5, <2>6, <2>7, <2>8 DEF NewestInv
<1>8. ASSUME NEW n \in OutputNode, ReportMatch(n)
      PROVE  NewestInv'
  <2>1. PICK pm, report :
            /\ phase = "playing" /\ playing = {} /\ stack = <<>>
            /\ unreported[n] # <<>> /\ pm = Head(unreported[n])
            /\ report = [pm |-> pm, node |-> n, ids |-> PatternIds(n, pm)]
            /\ report \in SoundReport(stream)
            /\ pm \in Range(unreported[n]) /\ pm \in PartialMatch(stream)
            /\ IsPartialMatch(stream, n, pm)
            /\ matches' = Append(matches, report)
            /\ freezers' = IF FreezeMap = {} THEN freezers ELSE freezers \ Range(pm)
            /\ unreported' = [unreported EXCEPT ![n] = Tail(@)]
            /\ UNCHANGED <<stream, phase, playing, stack, store, access, filtered>>
    BY <1>8, ReportStep
  <2>2. \A k \in OutputNode : Range(unreported'[k]) \subseteq Range(unreported[k])
    BY <2>1, QueueTail
  <2>3. \A k \in Node : \A m \in store'[k] : SeenMatch(m)
    BY <2>1 DEF NewestInv, StoresSeen
  <2>4. stream' = stream /\ playing' = {} /\ stack' = stack /\ phase' = "playing"
    BY <2>1
  <2> QED
    BY <2>2, <2>3, <2>4, NewestLess
<1>9. CASE FinishEvent \/ Close \/ UNCHANGED vars
  <2>1. UNCHANGED <<stream, playing, stack, store, unreported, matches>>
    BY <1>9 DEF FinishEvent, Close, vars
  <2>2. phase' # "playing" => \A n \in OutputNode : unreported'[n] = <<>>
    BY <1>9, <2>1 DEF FinishEvent, Close, vars, NewestInv, OutputNewest
  <2>3. \A n \in Node : \A m \in store'[n] : SeenMatch(m)
    BY <2>1 DEF NewestInv, StoresSeen
  <2> QED
    BY <2>1, <2>2, <2>3, NewestLess
<1> QED
  BY <1>1, <1>2, <1>3, <1>4, <1>5, <1>6, <1>7, <1>8, <1>9 DEF Next, Step

\* Before the first event there is nothing.
LEMMA NewestInit ==
    ASSUME Init
    PROVE  NewestInv
<1>1. Newest = 0
  BY DEF Init, Newest
<1>2. /\ stack = <<>> /\ playing = {} /\ matches = <<>>
      /\ \A n \in Node : store[n] = {}
      /\ \A n \in OutputNode : unreported[n] = <<>>
  BY DEF Init
<1>3. Range(<<>>) = {}
  BY DEF Range
<1> QED
  BY <1>1, <1>2, <1>3 DEF NewestInv, Ordered, StoresSeen, OutputNewest

-----------------------------------------------------------------------------
(* The calls in progress stand for different matches *)

\* The tree and the stream alone decide what a call stands for.
LEMMA AheadStays ==
    ASSUME stream' = stream
    PROVE  Ahead' = Ahead /\ Placed' = Placed
<1>1. Placed' = Placed
  BY DEF Placed, PartialMatch, MatchesOf, IsPartialMatch
<1>2. SoundFrame(stream)' = SoundFrame(stream)
  BY DEF SoundFrame, Frame, FrameSound, IsPartialMatch, MatchesOf, PartialMatch
<1> QED
  BY <1>1, <1>2 DEF Ahead

\* What a sound call stands for, and the matches of the tree.
LEMMA AheadOf ==
    /\ \A f \in SoundFrame(stream) : Ahead[f] = {x \in Placed : Pends(f, x[1], x[2])}
    /\ \A x \in Placed : /\ x[1] \in Node /\ x = <<x[1], x[2]>>
                         /\ IsPartialMatch(stream, x[1], x[2])
<1>1. \A f \in SoundFrame(stream) : Ahead[f] = {x \in Placed : Pends(f, x[1], x[2])}
  BY DEF Ahead
<1>2. \A x \in Placed : /\ x[1] \in Node /\ x = <<x[1], x[2]>>
                        /\ IsPartialMatch(stream, x[1], x[2])
  BY DEF Placed
<1> QED
  BY <1>1, <1>2

\* A partial match of a node is in its place.
LEMMA PlaceOf ==
    ASSUME NEW n \in Node, NEW m, IsPartialMatch(stream, n, m)
    PROVE  <<n, m>> \in Placed
<1>1. m \in PartialMatch(stream)
  BY MatchShape
<1> QED
  BY <1>1 DEF Placed

\* No call, nothing ahead.
LEMMA ApartEmpty ==
    ASSUME stack = <<>>
    PROVE  ApartInv /\ All(Ahead, stack) = {}
BY AllOne DEF ApartInv

\* The top call goes on as two calls that share what it stood for, and no
\* match is stored that is still ahead.
LEMMA ApartCall ==
    ASSUME IInv, ApartInv, stack # <<>>, stream' = stream,
           NEW f \in SoundFrame(stream), NEW g \in SoundFrame(stream),
           stack' = Call(f, g),
           Ahead[f] \subseteq Ahead[Top], Ahead[g] \subseteq Ahead[Top],
           Ahead[f] \cap Ahead[g] = {},
           Stored' \subseteq Stored \cup (Ahead[Top] \ (Ahead[f] \cup Ahead[g]))
    PROVE  ApartInv'
<1> PICK A : A = Ahead
  OBVIOUS
<1>1. Ahead' = A
  BY AheadStays
<1>2. stack \in Seq(SoundFrame(stream))
  BY Typed
<1>3. /\ All(A, stack) = All(A, Pop) \cup A[Top]
      /\ All(A, Call(f, g)) = All(A, Pop) \cup A[f] \cup A[g]
  BY <1>2, AllStack
<1>4. All(A, Pop) \cap A[Top] = {} /\ Apart(A, stack) /\ All(A, stack) \cap Stored = {}
  BY <1>2, ApartStack DEF ApartInv
<1>5. Apart(A, Call(f, g))
  <2>1. A[f] \cap All(A, Pop) = {} /\ A[g] \cap All(A, Pop) = {} /\ A[f] \cap A[g] = {}
    BY <1>4
  <2> QED
    BY <1>2, <1>4, <2>1, ApartStack
<1>6. All(A, Call(f, g)) \cap Stored' = {}
  BY <1>3, <1>4
<1>7. Apart(Ahead', stack') /\ All(Ahead', stack') \cap Stored' = {}
  BY <1>1, <1>5, <1>6
<1> QED
  BY <1>7 DEF ApartInv

\* The top call goes on as one that stands for less.
LEMMA ApartGoOn ==
    ASSUME IInv, ApartInv, stack # <<>>, stream' = stream, store' = store,
           NEW f \in SoundFrame(stream),
           stack' = Continue(f), Ahead[f] \subseteq Ahead[Top]
    PROVE  ApartInv'
<1> PICK A : A = Ahead
  OBVIOUS
<1>1. Ahead' = A /\ Stored' = Stored
  BY AheadStays DEF Stored
<1>2. stack \in Seq(SoundFrame(stream))
  BY Typed
<1>3. /\ All(A, stack) = All(A, Pop) \cup A[Top]
      /\ All(A, Continue(f)) = All(A, Pop) \cup A[f]
  BY <1>2, AllStack
<1>4. All(A, Pop) \cap A[Top] = {} /\ Apart(A, stack) /\ All(A, stack) \cap Stored = {}
  BY <1>2, ApartStack DEF ApartInv
<1>5. Apart(A, Continue(f))
  <2>1. A[f] \cap All(A, Pop) = {}
    BY <1>4
  <2> QED
    BY <1>2, <1>4, <2>1, ApartStack
<1>6. Apart(Ahead', stack') /\ All(Ahead', stack') \cap Stored' = {}
  BY <1>1, <1>3, <1>4, <1>5
<1> QED
  BY <1>6 DEF ApartInv

\* The top call ends.
LEMMA ApartEnd ==
    ASSUME IInv, ApartInv, stack # <<>>, stream' = stream, store' = store, stack' = Pop
    PROVE  ApartInv'
<1> PICK A : A = Ahead
  OBVIOUS
<1>1. Ahead' = A /\ Stored' = Stored
  BY AheadStays DEF Stored
<1>2. stack \in Seq(SoundFrame(stream))
  BY Typed
<1>3. /\ All(A, stack) = All(A, Pop) \cup A[Top]
      /\ Apart(A, stack) /\ All(A, stack) \cap Stored = {}
  BY <1>2, AllStack DEF ApartInv
<1>4. Apart(A, Pop)
  BY <1>2, <1>3, ApartStack
<1>5. Apart(Ahead', stack') /\ All(Ahead', stack') \cap Stored' = {}
  BY <1>1, <1>3, <1>4
<1> QED
  BY <1>5 DEF ApartInv

\* The event enters at one leaf: what is stored is about older events there.
LEMMA ApartHandleEvent ==
    ASSUME IInv, IInv', NewestInv, NEW l \in Leaf, HandleEvent(l)
    PROVE  /\ ApartInv'
           /\ LeafMatch(l) \notin store[l]
<1> PICK lm : lm = LeafMatch(l)
  OBVIOUS
<1> PICK add : add = AddFrame(l, lm)
  OBVIOUS
<1>1. /\ stack = <<>> /\ l \in playing
      /\ stack' = <<add>> /\ stream' = stream
      /\ store' = AddedTo(CleanStores({l}, Now.ts), l, lm)
  BY DEF HandleEvent
<1>2. l \in Node
  BY DEF Node
<1>3. DOMAIN lm = {l} /\ lm[l] = Newest
  BY LeafMatchFacts
<1>4. ASSUME NEW n \in Node, NEW m \in store[n]
      PROVE  ~ Over(m, lm)
  <2>1. SeenMatch(m)
    BY DEF NewestInv, StoresSeen
  <2> QED
    BY <1>1, <1>3, <2>1 DEF SeenMatch, Over
<1>5. add \in SoundFrame(stream)
  <2>1. <<add>> \in Seq(SoundFrame(stream))
    BY <1>1, NextStack
  <2>2. <<add>>[1] = add /\ 1 \in 1..Len(<<add>>)
    OBVIOUS
  <2> QED
    BY <2>1, <2>2, ElementOfSeq
<1>6. add.op = "add" /\ add.pm = lm /\ add.next = Parents[l]
  BY DEF AddFrame
<1>7. \A x \in Ahead[add] : x[1] \in Node /\ Over(x[2], lm) /\ x[1] # l
  <2> SUFFICES ASSUME NEW x \in Ahead[add]
               PROVE  x[1] \in Node /\ Over(x[2], lm) /\ x[1] # l
    OBVIOUS
  <2>1. x \in Placed /\ Pends(add, x[1], x[2])
    BY <1>5, AheadOf
  <2>2. PICK p \in Range(Parents[l]) : p \in Subtree[x[1]]
    BY <1>6, <2>1 DEF Pends
  <2>3. p \in Inner /\ l \in {Left[p], Right[p]}
    BY <1>2, ParentsAssumption
  <2>4. p \notin Subtree[l]
    BY <2>3, ChildBelow
  <2> QED
    BY <1>6, <2>1, <2>2, <2>4, AheadOf DEF Pends
<1>8. \A x \in Stored' : x[1] \in Node /\ (x[2] \in store[x[1]] \/ x[1] = l)
  <2> SUFFICES ASSUME NEW x \in Stored', x[1] # l
               PROVE  x[1] \in Node /\ x[2] \in store[x[1]]
    BY AheadOf, AheadStays, <1>1 DEF Stored
  <2>1. x \in Placed /\ x[2] \in store'[x[1]]
    BY <1>1, AheadStays DEF Stored
  <2>2. CleanStores({l}, Now.ts) \in [Node -> SUBSET PartialMatch(stream)]
    BY CleanProperties DEF IInv
  <2>3. x[1] \in Node
    BY <2>1, AheadOf
  <2>4. x[2] \in CleanStores({l}, Now.ts)[x[1]]
    BY <1>1, <2>1, <2>2, <2>3 DEF AddedTo
  <2> QED
    BY <2>3, <2>4, CleanLess
<1>9. Ahead[add] \cap Stored' = {}
  BY <1>4, <1>7, <1>8
<1>10. ApartInv'
  <2>1. Ahead' = Ahead
    BY <1>1, AheadStays
  <2>2. Apart(Ahead', stack') /\ All(Ahead', stack') = Ahead[add]
    BY <1>1, <2>1, AllOne
  <2> QED
    BY <1>9, <2>2 DEF ApartInv
<1>11. lm \notin store[l]
  BY <1>2, <1>4 DEF Over
<1> QED
  BY <1>10, <1>11

\* A parent takes over what is above it: the others are not towards the same
\* nodes.
LEMMA AheadNotify ==
    ASSUME IInv, NewestInv, NEW p, NEW rest, NEW join, Notifies(p, rest, join)
    PROVE  /\ Ahead[rest] \subseteq Ahead[Top]
           /\ Ahead[join] \subseteq Ahead[Top]
           /\ Ahead[rest] \cap Ahead[join] = {}
<1>1. /\ Top \in SoundFrame(stream) /\ rest \in SoundFrame(stream)
      /\ join \in SoundFrame(stream)
      /\ Top.op = "add" /\ Top.next \in Seq(Inner) /\ Top.next # <<>>
      /\ p = Head(Top.next) /\ p \in Inner /\ Top.node \in {Left[p], Right[p]}
      /\ rest.op = "add" /\ rest.pm = Top.pm /\ rest.next = Tail(Top.next)
      /\ join.op = "join" /\ join.node = p /\ join.pm = Top.pm
      /\ stack # <<>>
  BY DEF Notifies
<1>2. p \in Range(Top.next) /\ Range(Tail(Top.next)) \subseteq Range(Top.next)
  BY <1>1, RangeFacts
<1>3. Ahead[rest] \subseteq Ahead[Top] /\ Ahead[join] \subseteq Ahead[Top]
  BY <1>1, <1>2, AheadOf DEF Pends
<1>4. p \notin Range(Tail(Top.next))
  <2>1. IsInjective(Top.next)
    <3>1. Top \in Range(stack)
      BY <1>1, RangeStack, Typed
    <3> QED
      BY <3>1 DEF NewestInv, NewestFrame
  <2>2. /\ Len(Top.next) \in Nat \ {0}
        /\ DOMAIN Top.next = 1..Len(Top.next)
        /\ DOMAIN Tail(Top.next) = 1..Len(Top.next) - 1
        /\ \A i \in DOMAIN Tail(Top.next) : Tail(Top.next)[i] = Top.next[i + 1]
        /\ p = Top.next[1]
    BY <1>1, EmptySeq, LenProperties, HeadTailProperties
  <2>3. \A i \in DOMAIN Tail(Top.next) : i + 1 \in DOMAIN Top.next /\ i + 1 # 1
    BY <2>2
  <2>4. 1 \in DOMAIN Top.next
    BY <2>2
  <2>5. \A i \in DOMAIN Tail(Top.next) : Tail(Top.next)[i] # p
    BY <2>1, <2>2, <2>3, <2>4 DEF IsInjective
  <2> QED
    BY <2>5 DEF Range
<1>5. \A q \in Range(Tail(Top.next)) : q \in Inner /\ Top.node \in {Left[q], Right[q]}
  <2>1. Range(Top.next) \subseteq Inner
    BY <1>1, RangeFacts
  <2>2. \A i \in DOMAIN Top.next : Top.node \in {Left[Top.next[i]], Right[Top.next[i]]}
    BY <1>1 DEF SoundFrame, FrameOK
  <2>3. \A q \in Range(Top.next) : Top.node \in {Left[q], Right[q]}
    BY <2>2 DEF Range
  <2> QED
    BY <1>2, <2>1, <2>3
<1>6. ASSUME NEW x \in Ahead[rest], x \in Ahead[join]
      PROVE  FALSE
  <2>1. x \in Placed /\ x[1] \in Node /\ Pends(rest, x[1], x[2]) /\ Pends(join, x[1], x[2])
    BY <1>1, <1>6, AheadOf
  <2>2. p \in Subtree[x[1]]
    BY <1>1, <2>1 DEF Pends
  <2>3. PICK q \in Range(Tail(Top.next)) : q \in Subtree[x[1]]
    BY <1>1, <2>1 DEF Pends
  <2>4. p = q
    BY <1>1, <1>5, <2>1, <2>2, <2>3, OneParentToward
  <2> QED
    BY <1>4, <2>4
<1> QED
  BY <1>3, <1>6

\* Two candidates are not in the same match.
LEMMA OneCandidate ==
    ASSUME NEW f \in SoundFrame(stream), f.op = "join", NEW x \in f.todo, NEW y \in f.todo,
           NEW m, Over(m, x), Over(m, y)
    PROVE  x = y
<1>1. f.node \in Inner
  BY JoinSides
<1>2. PICK d : Sides(f, d)
  BY JoinSides
<1> PICK k : k = Sibling(f.node, d)
  OBVIOUS
<1>3. k \in Node
  BY <1>1, <1>2, SidesOfInner DEF Sides
<1>4. IsPartialMatch(stream, k, x) /\ IsPartialMatch(stream, k, y)
  BY <1>2 DEF Sides
<1>5. x = Restrict(m, LeavesOf(k))
  BY <1>3, <1>4, PartIs
<1>6. y = Restrict(m, LeavesOf(k))
  BY <1>3, <1>4, PartIs
<1> QED
  BY <1>5, <1>6

\* The joined match was ahead, what is above it was, and the other candidates
\* lead elsewhere.
LEMMA AheadAccept ==
    ASSUME Aligned, IInv, NEW c, NEW pm, NEW rest, NEW add, Accepts(c, pm, rest, add)
    PROVE  /\ Ahead[rest] \subseteq Ahead[Top]
           /\ Ahead[add] \subseteq Ahead[Top]
           /\ Ahead[rest] \cap Ahead[add] = {}
           /\ <<Top.node, pm>> \in Ahead[Top] \ (Ahead[rest] \cup Ahead[add])
<1> PICK n : n = Top.node
  OBVIOUS
<1>1. /\ Top \in SoundFrame(stream) /\ rest \in SoundFrame(stream)
      /\ add \in SoundFrame(stream)
      /\ Top.op = "join" /\ Top.node = n /\ n \in Inner /\ n \in Node
      /\ c \in Top.todo
      /\ pm = MergeMatches(n, Top.pm, c)
      /\ IsPartialMatch(stream, n, pm)
      /\ rest.op = "join" /\ rest.node = n /\ rest.pm = Top.pm
      /\ rest.todo = Top.todo \ {c}
      /\ add.op = "add" /\ add.pm = pm /\ add.next = Parents[n]
  BY DEF Accepts
<1>2. Over(pm, Top.pm) /\ Over(pm, c)
  <2>1. PICK d : Sides(Top, d)
    BY <1>1, JoinSides
  <2>2. /\ d \in {Left[n], Right[n]}
        /\ IsPartialMatch(stream, d, Top.pm)
        /\ IsPartialMatch(stream, Sibling(n, d), c)
    BY <1>1, <2>1 DEF Sides
  <2>3. Combines(pm, Top.pm, c)
    <3>1. pm = MergeMatches(n, Top.pm, c) /\ n \in Inner /\ Aligned
      BY <1>1
    <3> QED
      BY ONLY <2>2, <3>1, JoinShape
  <2> QED
    BY <2>3 DEF Combines
<1>3. \A m : Over(m, pm) => Over(m, Top.pm) /\ Over(m, c)
  BY <1>2 DEF Over
<1>4. \A m : Over(m, c) => \A y \in rest.todo : ~ Over(m, y)
  BY <1>1, OneCandidate
<1>5. \A p \in Range(Parents[n]) : p \in Inner /\ n \in {Left[p], Right[p]}
  BY <1>1, ParentsAssumption
<1>6. ASSUME NEW x \in Ahead[add]
      PROVE  x \in Ahead[Top] /\ x \notin Ahead[rest] /\ x # <<n, pm>>
  <2>1. x \in Placed /\ x[1] \in Node /\ Pends(add, x[1], x[2])
    BY <1>1, AheadOf
  <2>2. PICK p \in Range(Parents[n]) : p \in Subtree[x[1]]
    BY <1>1, <2>1 DEF Pends
  <2>3. Over(x[2], pm)
    BY <1>1, <2>1 DEF Pends
  <2>4. p \in Node /\ n \in Subtree[p] /\ p \notin Subtree[n]
    BY <1>5, ChildBelow
  <2>5. n \in Subtree[x[1]]
    BY <2>1, <2>2, <2>4, Below
  <2>6. Pends(Top, x[1], x[2])
    BY <1>1, <1>3, <2>3, <2>5 DEF Pends
  <2>7. ~ Pends(rest, x[1], x[2])
    BY <1>1, <1>3, <1>4, <2>3 DEF Pends
  <2> QED
    BY <1>1, <2>1, <2>2, <2>4, <2>6, <2>7, AheadOf
<1>7. Ahead[rest] \subseteq Ahead[Top]
  BY <1>1, AheadOf DEF Pends
<1>8. <<n, pm>> \in Ahead[Top] /\ <<n, pm>> \notin Ahead[rest]
  <2>1. <<n, pm>> \in Placed /\ n \in Subtree[n]
    BY <1>1, PlaceOf, Below
  <2>2. Pends(Top, n, pm) /\ ~ Pends(rest, n, pm)
    BY <1>1, <1>2, <1>4, <2>1 DEF Pends
  <2> QED
    BY <1>1, <2>1, <2>2, AheadOf
<1> QED
  BY <1>1, <1>6, <1>7, <1>8

\* ApartInv is inductive.
LEMMA ApartNext ==
    ASSUME Aligned, IInv, IInv', NewestInv, ApartInv, [Next]_vars
    PROVE  ApartInv'
<1>1. ASSUME stack' = <<>>
      PROVE  ApartInv'
  <2>1. Apart(Ahead', stack') /\ All(Ahead', stack') = {}
    BY <1>1, AllOne
  <2> QED
    BY <2>1 DEF ApartInv
<1>2. ASSUME NEW l \in Leaf, HandleEvent(l)
      PROVE  ApartInv'
  BY <1>2, ApartHandleEvent
<1>3. CASE HandleNewPartialMatch
  <2>1. PICK p, rest, join : Notifies(p, rest, join)
    BY <1>3, NotifyStep
  <2>2. /\ stack # <<>> /\ stream' = stream /\ stack' = Call(rest, join)
        /\ rest \in SoundFrame(stream) /\ join \in SoundFrame(stream)
        /\ store' = CleanStores({Sibling(p, Top.node), p}, Now.ts)
    BY <2>1 DEF Notifies
  <2>3. \A n \in Node : store'[n] \subseteq store[n]
    BY <2>2, CleanLess
  <2>4. Stored' \subseteq Stored
    BY <2>2, <2>3, AheadStays, AheadOf DEF Stored
  <2>5. /\ Ahead[rest] \subseteq Ahead[Top]
        /\ Ahead[join] \subseteq Ahead[Top]
        /\ Ahead[rest] \cap Ahead[join] = {}
    BY <2>1, AheadNotify
  <2> QED
    BY <2>2, <2>4, <2>5, ApartCall
<1>4. CASE CreateMatch
  <2>1. PICK c, pm, rest, add : Accepts(c, pm, rest, add)
    BY <1>4, AcceptStep
  <2>2. /\ stack # <<>> /\ stream' = stream /\ stack' = Call(rest, add)
        /\ rest \in SoundFrame(stream) /\ add \in SoundFrame(stream)
        /\ store' = [store EXCEPT ![Top.node] = @ \cup {pm}]
        /\ store \in [Node -> SUBSET PartialMatch(stream)]
    BY <2>1 DEF Accepts, IInv, StoreInv
  <2>3. /\ Ahead[rest] \subseteq Ahead[Top]
        /\ Ahead[add] \subseteq Ahead[Top]
        /\ Ahead[rest] \cap Ahead[add] = {}
        /\ <<Top.node, pm>> \in Ahead[Top] \ (Ahead[rest] \cup Ahead[add])
    BY <2>1, AheadAccept
  <2>4. ASSUME NEW x \in Stored'
        PROVE  x \in Stored \cup {<<Top.node, pm>>}
    <3>1. x \in Placed /\ x[2] \in store'[x[1]]
      BY <2>2, AheadStays DEF Stored
    <3>2. x[1] \in Node /\ x = <<x[1], x[2]>>
      BY <3>1, AheadOf
    <3>3. x[2] \in store[x[1]] \/ (x[1] = Top.node /\ x[2] = pm)
      BY <2>2, <3>1, <3>2
    <3> QED
      BY <3>1, <3>2, <3>3 DEF Stored
  <2>5. Stored' \subseteq Stored \cup (Ahead[Top] \ (Ahead[rest] \cup Ahead[add]))
    BY <2>3, <2>4
  <2> QED
    BY <2>2, <2>3, <2>5, ApartCall
<1>5. CASE RejectCandidate
  <2>1. PICK c, rest : Rejects(c, rest)
    BY <1>5, RejectStep
  <2>2. /\ stack # <<>> /\ stream' = stream /\ store' = store /\ stack' = Continue(rest)
        /\ Top \in SoundFrame(stream) /\ rest \in SoundFrame(stream)
        /\ Top.op = "join" /\ rest.op = "join"
        /\ rest.node = Top.node /\ rest.pm = Top.pm /\ rest.todo \subseteq Top.todo
    BY <2>1 DEF Rejects
  <2>3. Ahead[rest] \subseteq Ahead[Top]
    BY <2>2, AheadOf DEF Pends
  <2> QED
    BY <2>2, <2>3, ApartGoOn
<1>6. CASE FinishAdd \/ FinishJoin
  BY <1>6, EndStep, ApartEnd
<1>7. ASSUME NEW l \in Leaf, IgnoreEvent(l) \/ RejectEvent(l)
      PROVE  ApartInv'
  BY <1>1, <1>7 DEF IgnoreEvent, RejectEvent
<1>8. CASE ReadEvent
  BY <1>1, <1>8 DEF ReadEvent, IInv, ControlInv
<1>9. ASSUME NEW n \in OutputNode, ReportMatch(n)
      PROVE  ApartInv'
  BY <1>1, <1>9 DEF ReportMatch, Settled
<1>10. CASE FinishEvent
  BY <1>1, <1>10 DEF FinishEvent, Settled
<1>11. CASE Close
  BY <1>1, <1>11 DEF Close, IInv, ControlInv
<1>12. CASE UNCHANGED vars
  <2>1. stack' = stack /\ stream' = stream /\ store' = store
    BY <1>12 DEF vars
  <2>2. Ahead' = Ahead /\ Stored' = Stored
    BY <2>1, AheadStays DEF Stored
  <2>3. Apart(Ahead', stack') /\ All(Ahead', stack') \cap Stored' = {}
    BY <2>1, <2>2 DEF ApartInv
  <2> QED
    BY <2>3 DEF ApartInv
<1> QED
  BY <1>2, <1>3, <1>4, <1>5, <1>6, <1>7, <1>8, <1>9, <1>10, <1>11, <1>12 DEF Next, Step
\* Before the first event there is no call.
LEMMA ApartInit ==
    ASSUME Init
    PROVE  ApartInv
BY ApartEmpty DEF Init

\* IInv, NewestInv and ApartInv hold throughout.
LEMMA CallInvariance ==
    ASSUME Aligned
    PROVE  Spec => [](IInv /\ NewestInv /\ ApartInv)
<1>1. Init => NewestInv /\ ApartInv
  BY NewestInit, ApartInit
<1>2. IInv /\ IInv' /\ NewestInv /\ ApartInv /\ [Next]_vars => NewestInv' /\ ApartInv'
  BY NewestNext, ApartNext
<1>3. Spec => []IInv
  BY Invariance
<1> QED
  BY <1>1, <1>2, <1>3, PTL DEF Spec

\* A node never adds a match it still stores.
LEMMA AddsNew ==
    ASSUME Aligned, IInv, IInv', NewestInv, ApartInv, [Next]_vars,
           Len(stack') > Len(stack), Top'.op = "add"
    PROVE  Top'.pm \notin store[Top'.node]
<1>1. /\ stack \in Seq(SoundFrame(stream)) /\ Len(stack) \in Nat
      /\ \A f, g : /\ Call(f, g)[Len(Call(f, g))] = g
  <2>1. stack \in Seq(SoundFrame(stream))
    BY Typed
  <2>2. \A f, g : Call(f, g)[Len(Call(f, g))] = g
    BY DEF Call
  <2> QED
    BY <2>1, <2>2, LenProperties
<1>2. ASSUME NEW l \in Leaf, HandleEvent(l)
      PROVE  Top'.pm \notin store[Top'.node]
  <2>1. stack' = <<AddFrame(l, LeafMatch(l))>>
    BY <1>2 DEF HandleEvent
  <2>2. Top' = AddFrame(l, LeafMatch(l))
    BY <2>1 DEF Top
  <2>3. Top'.pm = LeafMatch(l) /\ Top'.node = l
    BY <2>2 DEF AddFrame
  <2> QED
    BY <1>2, <2>3, ApartHandleEvent
<1>3. CASE HandleNewPartialMatch
  <2>1. PICK p, rest, join : Notifies(p, rest, join)
    BY <1>3, NotifyStep
  <2>2. stack' = Call(rest, join) /\ join.op = "join"
    BY <2>1 DEF Notifies
  <2>3. Top' = join
    BY <1>1, <2>2 DEF Top
  <2> QED
    BY <2>2, <2>3
<1>4. CASE CreateMatch
  <2>1. PICK c, pm, rest, add : Accepts(c, pm, rest, add)
    BY <1>4, AcceptStep
  <2>2. /\ stack # <<>> /\ stack' = Call(rest, add) /\ add.pm = pm /\ add.node = Top.node
        /\ Top.node \in Node /\ IsPartialMatch(stream, Top.node, pm)
    BY <2>1 DEF Accepts
  <2>3. Top' = add
    BY <1>1, <2>2 DEF Top
  <2>4. <<Top.node, pm>> \in All(Ahead, stack)
    <3>1. <<Top.node, pm>> \in Ahead[Top]
      BY <2>1, AheadAccept
    <3> QED
      BY <1>1, <2>2, <3>1, AllStack
  <2>5. <<Top.node, pm>> \in Placed \ Stored
    BY <2>2, <2>4, PlaceOf DEF ApartInv
  <2> QED
    BY <2>2, <2>3, <2>5 DEF Stored
<1>5. CASE RejectCandidate
  <2>1. PICK c, rest : Rejects(c, rest)
    BY <1>5, RejectStep
  <2>2. stack # <<>> /\ stack' = Continue(rest)
    BY <2>1 DEF Rejects
  <2>3. Pop \in Seq(SoundFrame(stream)) /\ stack = Append(Pop, Top)
    BY <1>1, <2>2, StackIs
  <2>4. Len(stack') = Len(stack)
    BY <2>2, <2>3 DEF Continue
  <2> QED
    BY <1>1, <2>4
<1>6. CASE FinishAdd \/ FinishJoin
  <2>1. stack # <<>> /\ stack' = Pop
    BY <1>6, EndStep
  <2>2. Pop \in Seq(SoundFrame(stream)) /\ stack = Append(Pop, Top)
    BY <1>1, <2>1, StackIs
  <2>3. Len(stack) = Len(stack') + 1 /\ Len(stack') \in Nat
    BY <2>1, <2>2, LenProperties
  <2> QED
    BY <2>3
<1>7. ASSUME stack' = stack
      PROVE  FALSE
  BY <1>1, <1>7
<1>8. ASSUME NEW l \in Leaf, IgnoreEvent(l) \/ RejectEvent(l)
      PROVE  FALSE
  BY <1>7, <1>8 DEF IgnoreEvent, RejectEvent
<1>9. ASSUME NEW n \in OutputNode, ReportMatch(n)
      PROVE  FALSE
  BY <1>7, <1>9 DEF ReportMatch
<1>10. CASE ReadEvent \/ FinishEvent \/ Close \/ UNCHANGED vars
  BY <1>7, <1>10 DEF ReadEvent, FinishEvent, Close, vars
<1> QED
  BY <1>2, <1>3, <1>4, <1>5, <1>6, <1>8, <1>9, <1>10 DEF Next, Step

\* For every tree and every policy, no storage gets a match it already holds:
\* a set represents the list of the code.
THEOREM NoDuplicates ==
    ASSUME Aligned
    PROVE  Spec => NoDuplicateAdd
<1>1. ASSUME IInv, IInv', NewestInv, ApartInv, [Next]_vars
      PROVE  [Len(stack') > Len(stack) /\ Top'.op = "add"
                 => Top'.pm \notin store[Top'.node]]_vars
  BY <1>1, AddsNew
<1> QED
  BY <1>1, CallInvariance, Invariance, PTL DEF Spec, NoDuplicateAdd
-----------------------------------------------------------------------------
(* Nothing is lost *)

\* Every call in progress stands for matches with the newest event.
LEMMA AheadNewest ==
    ASSUME IInv, NewestInv, NEW x \in All(Ahead, stack)
    PROVE  x \in Placed /\ Newest \in Range(x[2])
<1>1. PICK i \in DOMAIN stack : x \in Ahead[stack[i]]
  BY DEF All
<1>2. stack[i] \in Range(stack) /\ stack[i] \in SoundFrame(stream)
  BY Typed DEF Range
<1>3. NewestFrame(stack[i])
  BY <1>2 DEF NewestInv
<1>4. x \in Placed /\ Pends(stack[i], x[1], x[2])
  BY <1>1, <1>2, AheadOf
<1>5. Over(x[2], stack[i].pm)
  BY <1>4 DEF Pends
<1>6. Newest \in Range(x[2])
  BY <1>3, <1>5 DEF NewestFrame, Over, Range
<1> QED
  BY <1>4, <1>6

\* Lazy cleanup keeps what is live.
LEMMA CleanKeeps ==
    ASSUME NEW ns, NEW k \in Node, NEW m \in store[k],
           NotBefore(stream, m, Now.ts - Window[k])
    PROVE  m \in CleanStores(ns, Now.ts)[k]
BY DEF CleanStores, Cleaned

\* What is live at a node is live in its parts.
LEMMA LivePart ==
    ASSUME IInv, stream # <<>>, NEW n \in Node, NEW k \in Subtree[n], NEW m,
           LiveMatch(n, m)
    PROVE  LiveMatch(k, Restrict(m, LeavesOf(k)))
<1> PICK z : z = Restrict(m, LeavesOf(k))
  OBVIOUS
<1>1. IsPartialMatch(stream, n, m)
  BY DEF LiveMatch
<1>2. /\ IsPartialMatch(stream, k, z) /\ Over(m, z)
  BY <1>1, PartSound
<1>3. k \in Node
  BY Below
<1>4. SeenMatch(z)
  BY <1>2 DEF LiveMatch, SeenMatch, Over
<1>5. NotBefore(stream, z, Now.ts - Window[k])
  <2> SUFFICES ASSUME NEW l \in DOMAIN z
               PROVE  stream[z[l]].ts >= Now.ts - Window[k]
    BY DEF NotBefore
  <2>1. stream[z[l]].ts >= Now.ts - Window[n]
    BY <1>2 DEF LiveMatch, NotBefore, Over
  <2>2. Window[k] \in Nat /\ Window[n] \in Nat /\ Window[n] <= Window[k]
    BY WindowGrows
  <2>3. stream \in Seq(Event)
    BY Typed
  <2>4. z[l] \in 1..Newest
    BY <1>2, <1>3, MatchShape DEF Newest
  <2>5. Newest \in 1..Newest
    BY <2>3, EmptySeq DEF Newest
  <2>6. stream[z[l]].ts \in Nat /\ Now.ts \in Nat
    BY <2>3, <2>4, <2>5, Stamps DEF Now, Newest
  <2> QED
    BY <2>1, <2>2, <2>6
<1> QED
  BY <1>2, <1>4, <1>5 DEF LiveMatch

\* A notified parent finds all the matches that the new one is to be joined
\* with: they are stored, since no call in progress is about the other side.
LEMMA NotifyMoves ==
    ASSUME IInv, NewestInv, CoverInv,
           NEW p, NEW rest, NEW join, Notifies(p, rest, join),
           NEW x \in Ahead[Top], FreeBelow(x[1]), LiveMatch(x[1], x[2])
    PROVE  x \in Ahead[rest] \cup Ahead[join]
<1> PICK n : n = x[1]
  OBVIOUS
<1> PICK m : m = x[2]
  OBVIOUS
<1> PICK c : c = Top.node
  OBVIOUS
<1>1. /\ stack # <<>> /\ Top \in SoundFrame(stream) /\ rest \in SoundFrame(stream)
      /\ join \in SoundFrame(stream)
      /\ Top.op = "add" /\ Top.next \in Seq(Inner) /\ Top.next # <<>>
      /\ c \in Node /\ IsPartialMatch(stream, c, Top.pm)
      /\ p = Head(Top.next) /\ p \in Inner /\ c \in {Left[p], Right[p]}
      /\ rest.op = "add" /\ rest.pm = Top.pm /\ rest.next = Tail(Top.next)
      /\ join.op = "join" /\ join.node = p /\ join.pm = Top.pm
      /\ join.todo = CleanStores({Sibling(p, c), p}, Now.ts)[Sibling(p, c)]
  BY DEF Notifies
<1>2. x \in Placed /\ n \in Node /\ IsPartialMatch(stream, n, m) /\ Pends(Top, n, m)
  BY <1>1, AheadOf
<1>3. PICK q \in Range(Top.next) : q \in Subtree[n]
  BY <1>1, <1>2 DEF Pends
<1>4. Over(m, Top.pm)
  BY <1>1, <1>2 DEF Pends
<1>5. CASE q \in Range(Tail(Top.next))
  <2>1. Pends(rest, n, m)
    BY <1>1, <1>3, <1>4, <1>5 DEF Pends
  <2> QED
    BY <1>1, <1>2, <2>1, AheadOf
<1>6. CASE q \notin Range(Tail(Top.next))
  <2>1. q = p
    <3>1. Range(Top.next) = {p} \cup Range(Tail(Top.next))
      <4>1. PICK k \in Nat : Len(Top.next) = k + 1
        <5>1. Len(Top.next) \in Nat \ {0}
          BY <1>1, EmptySeq, LenProperties
        <5>2. Len(Top.next) = (Len(Top.next) - 1) + 1 /\ Len(Top.next) - 1 \in Nat
          BY <5>1
        <5> QED
          BY <5>2
      <4>2. /\ DOMAIN Top.next = 1..k + 1
            /\ DOMAIN Tail(Top.next) = 1..k
            /\ \A i \in 1..k : Tail(Top.next)[i] = Top.next[i + 1]
            /\ p = Top.next[1]
        BY <1>1, <4>1, LenProperties, HeadTailProperties
      <4>3. \A i \in 1..k + 1 : i = 1 \/ \E j \in 1..k : i = j + 1
        <5> SUFFICES ASSUME NEW i \in 1..k + 1, i # 1
                     PROVE  \E j \in 1..k : i = j + 1
          OBVIOUS
        <5>1. i - 1 \in 1..k /\ i = (i - 1) + 1
          OBVIOUS
        <5> QED
          BY <5>1
      <4>4. \A i \in DOMAIN Top.next :
                Top.next[i] = p \/ \E j \in DOMAIN Tail(Top.next) :
                                        Top.next[i] = Tail(Top.next)[j]
        <5> SUFFICES ASSUME NEW i \in 1..k + 1, i # 1
                     PROVE  \E j \in 1..k : Top.next[i] = Tail(Top.next)[j]
          BY <4>2
        <5>1. PICK j \in 1..k : i = j + 1
          BY <4>3
        <5>2. Tail(Top.next)[j] = Top.next[i]
          BY <4>2, <5>1
        <5> QED
          BY <5>2
      <4>5. \A a \in Range(Top.next) : a = p \/ a \in Range(Tail(Top.next))
        BY <4>4 DEF Range
      <4>6. p \in Range(Top.next) /\ Range(Tail(Top.next)) \subseteq Range(Top.next)
        BY <1>1, RangeFacts
      <4> QED
        BY <4>5, <4>6
    <3> QED
      BY <1>3, <1>6, <3>1
  <2> PICK o : o = Sibling(p, c)
    OBVIOUS
  <2> PICK y : y = Restrict(m, LeavesOf(o))
    OBVIOUS
  <2>2. o \in Node /\ o \in {Left[p], Right[p]}
    BY <1>1, SidesOfInner DEF Sibling
  <2>3. o \in Subtree[n] /\ o # n
    <3>1. o \in Subtree[p] /\ Subtree[p] \subseteq Subtree[n] /\ p \notin Subtree[o]
      BY <1>1, <1>2, <1>3, <2>1, <2>2, ChildBelow, Below
    <3> QED
      BY <1>3, <2>1, <3>1
  <2>4. Free(o)
    BY <1>2, <2>3, FreeDown
  <2>5. stream # <<>> /\ Newest \in Range(Top.pm)
    BY <1>1, InTree, RangeStack, Typed DEF NewestInv, NewestFrame
  <2>6. LiveMatch(o, y)
    BY <1>2, <2>3, <2>5, LivePart
  <2>7. IsPartialMatch(stream, o, y) /\ y \in PartialMatch(stream)
    BY <2>2, <2>6, MatchShape DEF LiveMatch
  <2>8. Newest \notin Range(y)
    <3> PICK u : u = Top.pm
      OBVIOUS
    <3> PICK e : e = Newest
      OBVIOUS
    <3>1. /\ n \in Node /\ IsPartialMatch(stream, n, m)
          /\ p \in Inner /\ p \in Subtree[n] /\ c \in {Left[p], Right[p]}
          /\ IsPartialMatch(stream, c, u) /\ Over(m, u) /\ e \in Range(u)
      BY <1>1, <1>2, <1>3, <1>4, <2>1, <2>5
    <3>2. e \notin Range(Restrict(m, LeavesOf(Sibling(p, c))))
      BY ONLY <3>1, OtherSide
    <3> QED
      BY <3>2
  <2>9. y \in store[o]
    <3>1. <<o, y>> \in Stored \cup All(Ahead, stack)
      BY <2>2, <2>4, <2>5, <2>6, <2>7 DEF CoverInv
    <3>2. <<o, y>> \notin All(Ahead, stack)
      BY <2>8, AheadNewest
    <3> QED
      BY <3>1, <3>2 DEF Stored
  <2>10. y \in join.todo
    BY <1>1, <2>2, <2>6, <2>9, CleanKeeps DEF LiveMatch
  <2>11. Over(m, y)
    BY <1>2, <2>3, PartSound
  <2>12. Pends(join, n, m)
    BY <1>1, <1>3, <1>4, <2>1, <2>10, <2>11 DEF Pends
  <2> QED
    BY <1>1, <1>2, <2>12, AheadOf
<1> QED
  BY <1>5, <1>6

\* What the top join stands for with candidate c: the joined match, or one
\* above it.
LEMMA JoinAhead ==
    ASSUME Aligned, NEW f \in SoundFrame(stream), f.op = "join",
           NEW c \in f.todo, NEW x \in Ahead[f], Over(x[2], c), NEW pm,
           pm = MergeMatches(f.node, f.pm, c)
    PROVE  /\ x[1] \in Node /\ f.node \in Subtree[x[1]]
           /\ Valid(stream, f.node, pm)
           /\ Over(x[2], pm)
           /\ x[1] = f.node => x[2] = pm
<1>1. f.node \in Inner /\ f.node \in Node
  BY JoinSides
<1>2. PICK d : Sides(f, d)
  BY JoinSides
<1>3. x \in Placed /\ x[1] \in Node /\ IsPartialMatch(stream, x[1], x[2])
      /\ Pends(f, x[1], x[2])
  BY AheadOf
<1>4. f.node \in Subtree[x[1]] /\ Over(x[2], f.pm)
  BY <1>3 DEF Pends
<1> PICK i : i = f.node
  OBVIOUS
<1> PICK n : n = x[1]
  OBVIOUS
<1> PICK m : m = x[2]
  OBVIOUS
<1> PICK u : u = f.pm
  OBVIOUS
<1>5. /\ i \in Inner /\ d \in {Left[i], Right[i]}
      /\ IsPartialMatch(stream, d, u) /\ IsPartialMatch(stream, Sibling(i, d), c)
      /\ n \in Node /\ i \in Subtree[n] /\ IsPartialMatch(stream, n, m)
      /\ Over(m, u) /\ Over(m, c) /\ pm = MergeMatches(i, u, c)
      /\ Aligned
  BY <1>1, <1>2, <1>3, <1>4 DEF Sides
<1>6. pm = Restrict(m, LeavesOf(i))
  BY ONLY <1>5, JoinIs
<1>7. Over(m, pm) /\ Valid(stream, i, pm)
  BY <1>5, <1>6, PartSound DEF IsPartialMatch
<1>8. n = i => m = pm
  <2>1. m = [k \in LeavesOf(n) |-> m[k]] /\ DOMAIN m = LeavesOf(n)
    BY <1>5, MatchShape
  <2> QED
    BY <1>6, <2>1 DEF Restrict
<1> QED
  BY <1>3, <1>4, <1>7, <1>8

\* An accepted candidate leads to the joined match and what is above it.
LEMMA AcceptMoves ==
    ASSUME Aligned, IInv, NEW c, NEW pm, NEW rest, NEW add, Accepts(c, pm, rest, add),
           NEW x \in Ahead[Top]
    PROVE  x \in Ahead[rest] \cup Ahead[add] \cup {<<Top.node, pm>>}
<1> PICK n : n = Top.node
  OBVIOUS
<1>1. /\ Top \in SoundFrame(stream) /\ rest \in SoundFrame(stream)
      /\ add \in SoundFrame(stream)
      /\ Top.op = "join" /\ n \in Inner /\ n \in Node
      /\ c \in Top.todo
      /\ pm = MergeMatches(Top.node, Top.pm, c)
      /\ rest.op = "join" /\ rest.node = n /\ rest.pm = Top.pm
      /\ rest.todo = Top.todo \ {c}
      /\ add.op = "add" /\ add.pm = pm /\ add.next = Parents[n]
  BY DEF Accepts
<1>2. /\ x \in Placed /\ x[1] \in Node /\ Pends(Top, x[1], x[2])
      /\ x = <<x[1], x[2]>>
  BY <1>1, AheadOf
<1>3. PICK y \in Top.todo : Over(x[2], y)
  BY <1>1, <1>2 DEF Pends
<1>4. CASE y # c
  <2>1. Pends(rest, x[1], x[2])
    BY <1>1, <1>2, <1>3, <1>4 DEF Pends
  <2> QED
    BY <1>1, <1>2, <2>1, AheadOf
<1>5. CASE y = c
  <2>1. /\ n \in Subtree[x[1]] /\ Over(x[2], pm)
        /\ x[1] = n => x[2] = pm
    BY <1>1, <1>3, <1>5, JoinAhead
  <2>2. CASE x[1] = n
    BY <1>2, <2>1, <2>2
  <2>3. CASE x[1] # n
    <3>1. PICK p \in Range(Parents[n]) : p \in Subtree[x[1]]
      BY <1>2, <2>1, <2>3, ParentToward
    <3>2. Pends(add, x[1], x[2])
      BY <1>1, <2>1, <3>1 DEF Pends
    <3> QED
      BY <1>1, <1>2, <3>2, AheadOf
  <2> QED
    BY <2>2, <2>3
<1> QED
  BY <1>4, <1>5

\* A candidate that some match has is rejected only by a policy.
LEMMA RejectMoves ==
    ASSUME Aligned, IInv, NEW c, NEW rest, Rejects(c, rest),
           NEW x \in Ahead[Top], FreeBelow(x[1])
    PROVE  \/ x \in Ahead[rest]
           \/ /\ x[1] = Top.node
              /\ SingleEvents(x[1], x[2]) \cap filtered[x[1]] # {}
<1> PICK n : n = Top.node
  OBVIOUS
<1> PICK pm : pm = MergeMatches(Top.node, Top.pm, c)
  OBVIOUS
<1>1. /\ Top \in SoundFrame(stream) /\ rest \in SoundFrame(stream)
      /\ Top.op = "join" /\ n \in Inner /\ n \in Node
      /\ c \in Top.todo
      /\ ~ Joinable(n, pm)
      /\ rest.op = "join" /\ rest.node = n /\ rest.pm = Top.pm
      /\ rest.todo = Top.todo \ {c}
  BY DEF Rejects
<1>2. /\ x \in Placed /\ x[1] \in Node /\ Pends(Top, x[1], x[2])
      /\ x = <<x[1], x[2]>>
  BY <1>1, AheadOf
<1>3. PICK y \in Top.todo : Over(x[2], y)
  BY <1>1, <1>2 DEF Pends
<1>4. CASE y # c
  <2>1. Pends(rest, x[1], x[2])
    BY <1>1, <1>2, <1>3, <1>4 DEF Pends
  <2> QED
    BY <1>1, <1>2, <2>1, AheadOf
<1>5. CASE y = c
  <2>1. /\ n \in Subtree[x[1]] /\ Valid(stream, n, pm)
        /\ x[1] = n => x[2] = pm
    BY <1>1, <1>3, <1>5, JoinAhead
  <2>2. SingleEvents(n, pm) \cap filtered[n] # {}
    BY <1>1, <2>1 DEF Joinable, CanAdd
  <2>3. SingleTypesOf(n) # {}
    BY <2>2 DEF SingleEvents
  <2>4. x[1] = n
    BY <1>2, <2>1, <2>3, FreeDown DEF Free
  <2> QED
    BY <2>1, <2>2, <2>4
<1> QED
  BY <1>4, <1>5

\* A match with the newest event of leaf l has the match the leaf makes, and
\* the leaf's condition holds.
LEMMA LeafPart ==
    ASSUME IInv, NEW l \in Leaf, NEW n \in Node, NEW m, IsPartialMatch(stream, n, m),
           l \in DOMAIN m, m[l] = Newest
    PROVE  /\ l \in Node /\ l \in Subtree[n]
           /\ Over(m, LeafMatch(l))
           /\ Valid(stream, l, LeafMatch(l))
           /\ n = l => m = LeafMatch(l)
<1> PICK lm : lm = LeafMatch(l)
  OBVIOUS
<1>1. l \in Node /\ LeavesOf(l) = {l}
  BY LeafOfLeaf
<1>2. DOMAIN m = LeavesOf(n)
  BY MatchShape
<1>3. l \in Subtree[n]
  BY <1>2 DEF LeavesOf
<1>4. lm = Restrict(m, LeavesOf(l))
  BY <1>1, LeafMatchFacts DEF Restrict, LeafMatch, Newest
<1>5. Over(m, lm)
  BY <1>3, <1>4, PartSound
<1>6. Valid(stream, l, lm)
  BY <1>3, <1>4 DEF IsPartialMatch
<1>7. n = l => m = lm
  <2>1. m = [k \in DOMAIN m |-> m[k]]
    BY MatchShape
  <2> QED
    BY <1>1, <1>2, <2>1 DEF LeafMatch, Newest
<1> QED
  BY <1>1, <1>3, <1>5, <1>6, <1>7

\* Without freezers no leaf is closed.
LEMMA NotFrozen ==
    ASSUME FreezeMap = {}, NEW l \in Leaf
    PROVE  ~ Frozen(l)
BY DEF Frozen
\* Where a live match was decides where it is, in a step that visits no leaf.
LEMMA CoverStep ==
    ASSUME IInv, CoverInv, stream' = stream, playing' = playing,
           \A x \in Stored \cup All(Ahead, stack) :
                Free(x[1]) /\ LiveMatch(x[1], x[2]) => x \in Stored' \cup All(Ahead', stack')
    PROVE  CoverInv'
<1>1. ASSUME stream # <<>>, NEW n \in Node, NEW m \in PartialMatch(stream), Free(n),
             LiveMatch(n, m)
      PROVE  <<n, m>> \in Stored' \cup All(Ahead', stack')
  <2>1. <<n, m>> \in Stored \cup All(Ahead, stack)
    BY <1>1 DEF CoverInv
  <2> QED
    BY <1>1, <2>1
<1>2. \A n, m : LiveMatch(n, m)' => LiveMatch(n, m)
  BY DEF LiveMatch, SeenMatch, Now, Newest, NotBefore, IsPartialMatch, MatchesOf
<1>3. PartialMatch(stream)' = PartialMatch(stream)
  OBVIOUS
<1>4. \A n : Free(n)' <=> Free(n)
  BY DEF Free, FreeBelow
<1> QED
  BY <1>1, <1>2, <1>3, <1>4 DEF CoverInv

\* Reading an event makes no new match live: those with the event are not seen.
LEMMA CoverReadEvent ==
    ASSUME IInv, IInv', CoverInv, ReadEvent
    PROVE  CoverInv'
<1>1. PICK e \in Event :
              /\ stream' = Append(stream, e)
              /\ Newest' = Newest + 1 /\ Newest \in Nat
              /\ \A i \in 1..Newest : stream'[i] = stream[i]
              /\ stream'[Newest + 1] = e /\ Now' = e
              /\ stream # <<>> => Now.ts <= e.ts
              /\ \/ SkipEvent(e) /\ phase' = "idle" /\ playing' = {}
                 \/ AcceptEvent(e) /\ phase' = "playing"
              /\ \A l \in Leaf : TypeOf[l] = e.type => l \in playing'
              /\ phase = "idle" /\ stack = <<>> /\ stack' = <<>> /\ playing = {}
              /\ UNCHANGED <<stack, store, access, filtered, unreported, matches>>
  BY NewEvent
<1> SUFFICES ASSUME NEW n \in Node, NEW m, Free(n), LiveMatch(n, m)'
             PROVE  <<n, m>> \in Stored'
  BY DEF CoverInv, Free, FreeBelow
<1>2. stream \in Seq(Event)
  BY Typed
<1>3. IsPartialMatch(stream', n, m) /\ m \in [LeavesOf(n) -> 1..Newest + 1]
  <2>1. IsPartialMatch(stream', n, m)
    BY DEF LiveMatch
  <2>2. m \in [LeavesOf(n) -> 1..Len(stream')]
    BY <2>1, MatchShape
  <2> QED
    BY <1>1, <2>1, <2>2 DEF Newest
<1>4. Newest + 1 \notin Range(m)
  <2> SUFFICES ASSUME NEW l \in DOMAIN m, m[l] = Newest + 1
               PROVE  FALSE
    BY DEF Range
  <2>1. l \in Leaf /\ l \in LeavesOf(n)
    BY <1>3 DEF LeavesOf
  <2>2. TypeOf[l] = e.type
    BY <1>1, <1>3, <2>1 DEF IsPartialMatch
  <2> QED
    BY <1>1, <2>1, <2>2 DEF LiveMatch, SeenMatch
<1>5. IsPartialMatch(stream, n, m)
  BY <1>1, <1>2, <1>3, <1>4, PartialMatchShrinks DEF Newest
<1>6. DOMAIN m # {} /\ Range(m) \subseteq 1..Newest /\ m \in PartialMatch(stream)
  BY <1>5, MatchShape DEF Newest
<1>7. stream # <<>>
  <2>1. Newest # 0
    <3>1. PICK l : l \in DOMAIN m
      BY <1>6
    <3>2. m[l] \in 1..Newest
      BY <1>6, <3>1 DEF Range
    <3> QED
      BY <1>1, <3>2
  <2> QED
    BY <2>1 DEF Newest
<1>8. LiveMatch(n, m)
  <2>1. NotBefore(stream, m, Now.ts - Window[n])
    <3> SUFFICES ASSUME NEW l \in DOMAIN m
                 PROVE  stream[m[l]].ts >= Now.ts - Window[n]
      BY DEF NotBefore
    <3>1. m[l] \in 1..Newest /\ Newest \in 1..Newest
      <4>1. m[l] \in 1..Newest
        BY <1>6 DEF Range
      <4> QED
        BY <1>1, <4>1
    <3>2. stream'[m[l]].ts >= e.ts - Window[n]
      BY <1>1 DEF LiveMatch, NotBefore
    <3>3. stream[m[l]].ts >= e.ts - Window[n]
      BY <1>1, <3>1, <3>2
    <3>4. stream[m[l]].ts \in Nat /\ Now.ts \in Nat
      BY <1>2, <3>1, Stamps DEF Now, Newest
    <3>5. Window[n] \in Nat /\ e.ts \in Nat /\ Now.ts <= e.ts
      BY <1>1, <1>7, NodeAssumption DEF Event
    <3> QED
      BY <3>3, <3>4, <3>5
  <2> QED
    BY <1>1, <1>5, <2>1 DEF LiveMatch, SeenMatch
<1>9. m \in store[n]
  <2>1. <<n, m>> \in Stored \cup All(Ahead, stack)
    BY <1>6, <1>7, <1>8 DEF CoverInv
  <2> QED
    BY <1>1, <2>1, ApartEmpty DEF Stored
<1>10. <<n, m>> \in Placed'
  BY <1>3, PlaceOf, MatchShape DEF Placed
<1> QED
  BY <1>1, <1>9, <1>10 DEF Stored

\* A leaf that is visited takes the event, unless its condition fails.
LEMMA CoverLeaf ==
    ASSUME IInv, IInv', CoverInv, NEW l \in Leaf, HandleEvent(l) \/ RejectEvent(l)
    PROVE  CoverInv'
<1> PICK lm : lm = LeafMatch(l)
  OBVIOUS
<1>1. /\ stack = <<>> /\ l \in playing /\ playing' = playing \ {l} /\ stream' = stream
  BY DEF HandleEvent, RejectEvent
<1>2. l \in Node /\ stream # <<>>
  BY <1>1, InTree
<1> SUFFICES ASSUME NEW n \in Node, NEW m, Free(n), LiveMatch(n, m)'
             PROVE  <<n, m>> \in Stored' \cup All(Ahead', stack')
  BY <1>1, <1>2 DEF CoverInv, Free, FreeBelow
<1>3. /\ IsPartialMatch(stream, n, m)
      /\ NotBefore(stream, m, Now.ts - Window[n])
  BY <1>1 DEF LiveMatch, Now
<1>4. <<n, m>> \in Placed /\ m \in PartialMatch(stream)
  BY <1>3, PlaceOf, MatchShape
<1>5. Placed' = Placed /\ Ahead' = Ahead
  BY <1>1, AheadStays
<1>6. CleanStores({l}, Now.ts) \in [Node -> SUBSET PartialMatch(stream)]
  BY CleanProperties DEF IInv
<1>7. /\ HandleEvent(l) => store' = AddedTo(CleanStores({l}, Now.ts), l, lm)
      /\ RejectEvent(l) => store' = CleanStores({l}, Now.ts)
  BY DEF HandleEvent, RejectEvent
<1>8. CASE SeenMatch(m)
  <2>1. LiveMatch(n, m)
    BY <1>3, <1>8 DEF LiveMatch
  <2>2. m \in store[n]
    <3>1. <<n, m>> \in Stored \cup All(Ahead, stack)
      BY <1>2, <1>4, <2>1 DEF CoverInv
    <3> QED
      BY <1>1, <3>1, ApartEmpty DEF Stored
  <2>3. m \in CleanStores({l}, Now.ts)[n]
    BY <1>3, <2>2, CleanKeeps
  <2>4. m \in store'[n]
    BY <1>2, <1>6, <1>7, <2>3 DEF AddedTo
  <2> QED
    BY <1>4, <1>5, <2>4 DEF Stored
<1>9. CASE ~ SeenMatch(m)
  <2>1. l \in DOMAIN m /\ m[l] = Newest
    BY <1>1, <1>9 DEF LiveMatch, SeenMatch, Newest
  <2>2. /\ l \in Subtree[n]
        /\ Over(m, lm)
        /\ Valid(stream, l, lm)
        /\ n = l => m = lm
    BY <1>3, <2>1, LeafPart
  <2>3. SingleTypesOf(l) = {}
    BY <2>2, FreeDown DEF Free
  <2>4. LeafAccepts(l)
    BY <2>2, <2>3 DEF LeafAccepts, CanAdd, SingleEvents
  <2>5. HandleEvent(l)
    BY <2>4 DEF RejectEvent
  <2>6. CASE n = l
    <3>1. lm \in store'[l]
      BY <1>2, <1>6, <1>7, <2>5 DEF AddedTo
    <3> QED
      BY <1>4, <1>5, <2>2, <2>6, <3>1 DEF Stored
  <2>7. CASE n # l
    <3> PICK add : add = AddFrame(l, lm)
      OBVIOUS
    <3>1. stack' = <<add>>
      BY <2>5 DEF HandleEvent
    <3>2. add \in SoundFrame(stream)
      <4>1. <<add>> \in Seq(SoundFrame(stream))
        BY <1>1, <3>1, NextStack
      <4>2. <<add>>[1] = add /\ 1 \in 1..Len(<<add>>)
        OBVIOUS
      <4> QED
        BY <4>1, <4>2, ElementOfSeq
    <3>3. add.op = "add" /\ add.pm = lm /\ add.next = Parents[l]
      BY DEF AddFrame
    <3>4. PICK p \in Range(Parents[l]) : p \in Subtree[n]
      BY <2>2, <2>7, ParentToward
    <3>5. Pends(add, n, m)
      BY <2>2, <3>3, <3>4 DEF Pends
    <3>6. <<n, m>> \in Ahead[add]
      BY <1>4, <3>2, <3>5, AheadOf
    <3> QED
      BY <1>5, <3>1, <3>6, AllOne
  <2> QED
    BY <2>6, <2>7
<1> QED
  BY <1>8, <1>9

\* CoverInv is inductive when there are no freezers.
LEMMA CoverNext ==
    ASSUME Aligned, FreezeMap = {}, IInv, IInv', NewestInv, CoverInv, [Next]_vars
    PROVE  CoverInv'
<1>1. CASE ReadEvent
  BY <1>1, CoverReadEvent
<1>2. ASSUME NEW l \in Leaf, HandleEvent(l) \/ RejectEvent(l)
      PROVE  CoverInv'
  BY <1>2, CoverLeaf
<1>3. ASSUME NEW l \in Leaf, IgnoreEvent(l)
      PROVE  FALSE
  BY <1>3, NotFrozen DEF IgnoreEvent
<1>4. CASE HandleNewPartialMatch
  <2>1. PICK p, rest, join : Notifies(p, rest, join)
    BY <1>4, NotifyStep
  <2>2. /\ stack # <<>> /\ stream' = stream /\ playing' = playing
        /\ stack' = Call(rest, join)
        /\ rest \in SoundFrame(stream) /\ join \in SoundFrame(stream)
        /\ store' = CleanStores({Sibling(p, Top.node), p}, Now.ts)
    BY <2>1 DEF Notifies
  <2>3. Placed' = Placed /\ Ahead' = Ahead
    BY <2>2, AheadStays
  <2>4. /\ All(Ahead, stack) = All(Ahead, Pop) \cup Ahead[Top]
        /\ All(Ahead, Call(rest, join)) = All(Ahead, Pop) \cup Ahead[rest] \cup Ahead[join]
    BY <2>2, Typed, AllStack
  <2>5. ASSUME NEW x \in Stored \cup All(Ahead, stack), Free(x[1]), LiveMatch(x[1], x[2])
        PROVE  x \in Stored' \cup All(Ahead', stack')
    <3>1. CASE x \in Stored
      <4>1. x \in Placed /\ x[1] \in Node /\ x[2] \in store[x[1]]
        BY <3>1, AheadOf DEF Stored
      <4>2. x[2] \in store'[x[1]]
        BY <2>2, <2>5, <4>1, CleanKeeps DEF LiveMatch
      <4> QED
        BY <2>3, <4>1, <4>2 DEF Stored
    <3>2. CASE x \in All(Ahead, Pop)
      BY <2>2, <2>3, <2>4, <3>2
    <3>3. CASE x \in Ahead[Top]
      <4>1. x \in Ahead[rest] \cup Ahead[join]
        BY <2>1, <2>5, <3>3, NotifyMoves DEF Free
      <4> QED
        BY <2>2, <2>3, <2>4, <4>1
    <3> QED
      BY <2>4, <2>5, <3>1, <3>2, <3>3
  <2> QED
    BY <2>2, <2>5, CoverStep
<1>5. CASE CreateMatch
  <2>1. PICK c, pm, rest, add : Accepts(c, pm, rest, add)
    BY <1>5, AcceptStep
  <2>2. /\ stack # <<>> /\ stream' = stream /\ playing' = playing
        /\ stack' = Call(rest, add)
        /\ rest \in SoundFrame(stream) /\ add \in SoundFrame(stream)
        /\ Top.node \in Node /\ IsPartialMatch(stream, Top.node, pm)
        /\ store' = [store EXCEPT ![Top.node] = @ \cup {pm}]
        /\ store \in [Node -> SUBSET PartialMatch(stream)]
    BY <2>1 DEF Accepts, IInv, StoreInv
  <2>3. Placed' = Placed /\ Ahead' = Ahead
    BY <2>2, AheadStays
  <2>4. /\ All(Ahead, stack) = All(Ahead, Pop) \cup Ahead[Top]
        /\ All(Ahead, Call(rest, add)) = All(Ahead, Pop) \cup Ahead[rest] \cup Ahead[add]
    BY <2>2, Typed, AllStack
  <2>5. ASSUME NEW x \in Stored \cup All(Ahead, stack)
        PROVE  x \in Stored' \cup All(Ahead', stack')
    <3>1. CASE x \in Stored
      <4>1. x \in Placed /\ x[1] \in Node /\ x[2] \in store[x[1]]
        BY <3>1, AheadOf DEF Stored
      <4>2. x[2] \in store'[x[1]]
        BY <2>2, <4>1
      <4> QED
        BY <2>3, <4>1, <4>2 DEF Stored
    <3>2. CASE x \in All(Ahead, Pop)
      BY <2>2, <2>3, <2>4, <3>2
    <3>3. CASE x \in Ahead[Top]
      <4>1. x \in Ahead[rest] \cup Ahead[add] \cup {<<Top.node, pm>>}
        BY <2>1, <3>3, AcceptMoves
      <4>2. <<Top.node, pm>> \in Stored'
        <5>1. pm \in store'[Top.node] /\ <<Top.node, pm>> \in Placed
          BY <2>2, PlaceOf
        <5> QED
          BY <2>3, <5>1 DEF Stored
      <4> QED
        BY <2>2, <2>3, <2>4, <4>1, <4>2
    <3> QED
      BY <2>4, <2>5, <3>1, <3>2, <3>3
  <2> QED
    BY <2>2, <2>5, CoverStep
<1>6. CASE RejectCandidate
  <2>1. PICK c, rest : Rejects(c, rest)
    BY <1>6, RejectStep
  <2>2. /\ stack # <<>> /\ stream' = stream /\ playing' = playing /\ store' = store
        /\ stack' = Continue(rest) /\ rest \in SoundFrame(stream)
    BY <2>1 DEF Rejects
  <2>3. Stored' = Stored /\ Ahead' = Ahead
    BY <2>2, AheadStays DEF Stored
  <2>4. /\ All(Ahead, stack) = All(Ahead, Pop) \cup Ahead[Top]
        /\ All(Ahead, Continue(rest)) = All(Ahead, Pop) \cup Ahead[rest]
    BY <2>2, Typed, AllStack
  <2>5. ASSUME NEW x \in Stored \cup All(Ahead, stack), Free(x[1])
        PROVE  x \in Stored' \cup All(Ahead', stack')
    <3>1. CASE x \in Ahead[Top]
      <4>1. SingleEvents(x[1], x[2]) = {}
        BY <2>5 DEF Free, SingleEvents
      <4>2. x \in Ahead[rest]
        BY <2>1, <2>5, <3>1, <4>1, RejectMoves DEF Free
      <4> QED
        BY <2>2, <2>3, <2>4, <4>2
    <3> QED
      BY <2>2, <2>3, <2>4, <2>5, <3>1
  <2> QED
    BY <2>2, <2>5, CoverStep
<1>7. CASE FinishAdd \/ FinishJoin
  <2>1. /\ stack # <<>> /\ stack' = Pop /\ Top \in SoundFrame(stream)
        /\ ((Top.op = "add" /\ Top.next = <<>>) \/ (Top.op = "join" /\ Top.todo = {}))
        /\ stream' = stream /\ playing' = playing /\ store' = store
    BY <1>7, EndStep
  <2>2. Stored' = Stored /\ Ahead' = Ahead
    BY <2>1, AheadStays DEF Stored
  <2>3. All(Ahead, stack) = All(Ahead, Pop) \cup Ahead[Top]
    BY <2>1, Typed, AllStack
  <2>4. Ahead[Top] = {}
    <3>1. Range(<<>>) = {}
      BY DEF Range
    <3> QED
      BY <2>1, <3>1, AheadOf DEF Pends
  <2>5. Stored' \cup All(Ahead', stack') = Stored \cup All(Ahead, stack)
    BY <2>1, <2>2, <2>3, <2>4
  <2> QED
    BY <2>1, <2>5, CoverStep
<1>8. ASSUME stream' = stream, playing' = playing, stack' = stack, store' = store
      PROVE  CoverInv'
  <2>1. Stored' = Stored /\ Ahead' = Ahead
    BY <1>8, AheadStays DEF Stored
  <2>2. Stored' \cup All(Ahead', stack') = Stored \cup All(Ahead, stack)
    BY <1>8, <2>1
  <2> QED
    BY <1>8, <2>2, CoverStep
<1>9. ASSUME NEW n \in OutputNode, ReportMatch(n)
      PROVE  CoverInv'
  BY <1>8, <1>9 DEF ReportMatch
<1>10. CASE FinishEvent \/ Close \/ UNCHANGED vars
  BY <1>8, <1>10 DEF FinishEvent, Close, vars
<1> QED
  BY <1>1, <1>2, <1>3, <1>4, <1>5, <1>6, <1>7, <1>9, <1>10 DEF Next, Step

\* IInv, NewestInv and CoverInv hold throughout.
LEMMA CoverInvariance ==
    ASSUME Aligned, FreezeMap = {}
    PROVE  Spec => [](IInv /\ NewestInv /\ CoverInv)
<1>1. Init => CoverInv
  BY DEF Init, CoverInv
<1>2. IInv /\ IInv' /\ NewestInv /\ CoverInv /\ [Next]_vars => CoverInv'
  BY CoverNext
<1>3. Spec => [](IInv /\ NewestInv)
  BY CallInvariance, PTL
<1> QED
  BY <1>1, <1>2, <1>3, PTL DEF Spec

\* Without a limiting policy no node limits anything.
LEMMA AnyIsFree ==
    ASSUME Strategy = "any"
    PROVE  \A n \in Node : SingleTypesOf(n) = {}
BY DEF SingleTypesOf

\* Without freezers and policies, a node holds between two events every partial
\* match that a later event could extend, for every tree, window and cleanup
\* interval.
THEOREM StoresAreComplete ==
    ASSUME Aligned, FreezeMap = {}, Strategy = "any"
    PROVE  Spec => []StoresComplete
<1>1. ASSUME IInv, CoverInv
      PROVE  StoresComplete
  <2> SUFFICES ASSUME phase = "idle", stream # <<>>, NEW n \in Node,
                      NEW pm \in MatchesOf(stream, n),
                      IsPartialMatch(stream, n, pm),
                      NotBefore(stream, pm, Now.ts - Window[n])
               PROVE  pm \in store[n]
    BY DEF StoresComplete
  <2>1. playing = {} /\ stack = <<>>
    BY <1>1, Typed
  <2>2. LiveMatch(n, pm)
    BY <2>1 DEF LiveMatch, SeenMatch
  <2>3. Free(n)
    BY AnyIsFree, Below DEF Free, FreeBelow
  <2>4. pm \in PartialMatch(stream)
    BY DEF PartialMatch
  <2>5. <<n, pm>> \in Stored \cup All(Ahead, stack)
    BY <1>1, <2>2, <2>3, <2>4 DEF CoverInv
  <2> QED
    BY <2>1, <2>5, ApartEmpty DEF Stored
<1> QED
  BY <1>1, CoverInvariance, PTL
-----------------------------------------------------------------------------
(* The full matches that have been added *)

\* The stream and the tree alone decide what a call, a queued match and a
\* report stand for.
LEMMA OutputsStay ==
    ASSUME stream' = stream, NEW n
    PROVE  Adding(n)' = Adding(n) /\ Queued(n)' = Queued(n) /\ Delivered(n)' = Delivered(n)
<1>1. SoundFrame(stream)' = SoundFrame(stream) /\ PartialMatch(stream)' = PartialMatch(stream)
  BY DEF SoundFrame, Frame, FrameSound, IsPartialMatch, MatchesOf, PartialMatch
<1>2. SoundReport(stream)' = SoundReport(stream)
  BY DEF SoundReport, Report, IsPartialMatch, MatchesOf, PartialMatch, WithinWindow
<1> QED
  BY <1>1, <1>2 DEF Adding, Queued, Delivered

\* A call stands for the match it adds to the node.
LEMMA AddingOf ==
    ASSUME NEW n, NEW f \in SoundFrame(stream)
    PROVE  Adding(n)[f] = IF f.op = "add" /\ f.node = n THEN {f.pm} ELSE {}
BY DEF Adding

\* A queued match stands for itself.
LEMMA QueuedOf ==
    ASSUME NEW n, NEW m \in PartialMatch(stream)
    PROVE  Queued(n)[m] = {m}
BY DEF Queued

\* A report stands for its match.
LEMMA DeliveredOf ==
    ASSUME NEW n, NEW r \in SoundReport(stream)
    PROVE  Delivered(n)[r] = IF r.node = n THEN {r.pm} ELSE {}
BY DEF Delivered

\* They are partial matches.
LEMMA AddedSound ==
    ASSUME IInv, NEW n \in OutputNode, NEW z \in Added(n)
    PROVE  IsPartialMatch(stream, n, z)
<1>1. CASE z \in All(Adding(n), stack)
  <2>1. PICK i \in DOMAIN stack : z \in Adding(n)[stack[i]]
    BY <1>1 DEF All
  <2>2. stack[i] \in SoundFrame(stream)
    BY Typed DEF Range
  <2>3. Adding(n)[stack[i]] =
            IF stack[i].op = "add" /\ stack[i].node = n THEN {stack[i].pm} ELSE {}
    BY <2>2, AddingOf
  <2>4. stack[i].op = "add" /\ stack[i].node = n /\ z = stack[i].pm
    BY <2>1, <2>3
  <2> QED
    BY <2>2, <2>4 DEF SoundFrame, FrameSound
<1>2. CASE z \in All(Queued(n), unreported[n])
  <2>1. PICK i \in DOMAIN unreported[n] : z \in Queued(n)[unreported[n][i]]
    BY <1>2 DEF All
  <2>2. unreported[n][i] \in Range(unreported[n])
    BY DEF Range
  <2>3. unreported[n][i] \in PartialMatch(stream) /\ IsPartialMatch(stream, n, unreported[n][i])
    BY <2>2, Typed, MatchShape
  <2> QED
    BY <2>1, <2>3, QueuedOf
<1>3. CASE z \in All(Delivered(n), matches)
  <2>1. PICK i \in DOMAIN matches : z \in Delivered(n)[matches[i]]
    BY <1>3 DEF All
  <2>2. matches[i] \in SoundReport(stream)
    BY Typed, LenProperties, ElementOfSeq
  <2>3. Delivered(n)[matches[i]] = IF matches[i].node = n THEN {matches[i].pm} ELSE {}
    BY <2>2, DeliveredOf
  <2>4. matches[i].node = n /\ z = matches[i].pm
    BY <2>1, <2>3
  <2> QED
    BY <2>2, <2>4 DEF SoundReport
<1> QED
  BY <1>1, <1>2, <1>3 DEF Added

\* The event enters at a leaf.
LEMMA AddedHandleEvent ==
    ASSUME IInv, IInv', NEW l \in Leaf, HandleEvent(l), NEW n \in OutputNode
    PROVE  Added(n)' = Added(n) \cup IF n = l THEN {LeafMatch(l)} ELSE {}
<1> PICK add : add = AddFrame(l, LeafMatch(l))
  OBVIOUS
<1>1. /\ stack = <<>> /\ stack' = <<add>>
      /\ UNCHANGED <<stream, unreported, matches>>
  BY DEF HandleEvent
<1>2. add \in SoundFrame(stream)
  <2>1. <<add>> \in Seq(SoundFrame(stream))
    BY <1>1, NextStack
  <2>2. <<add>>[1] = add /\ 1 \in 1..Len(<<add>>)
    OBVIOUS
  <2> QED
    BY <2>1, <2>2, ElementOfSeq
<1>3. add.op = "add" /\ add.node = l /\ add.pm = LeafMatch(l)
  BY DEF AddFrame
<1>4. Adding(n)[add] = IF n = l THEN {LeafMatch(l)} ELSE {}
  BY <1>2, <1>3, AddingOf
<1>5. All(Adding(n), stack) = {} /\ All(Adding(n), <<add>>) = Adding(n)[add]
  BY <1>1, AllOne
<1>6. Adding(n)' = Adding(n) /\ Queued(n)' = Queued(n) /\ Delivered(n)' = Delivered(n)
  BY <1>1, OutputsStay
<1> QED
  BY <1>1, <1>4, <1>5, <1>6 DEF Added

\* A joined match is added.
LEMMA AddedAccept ==
    ASSUME IInv, NEW c, NEW pm, NEW rest, NEW add, Accepts(c, pm, rest, add),
           NEW n \in OutputNode
    PROVE  Added(n)' = Added(n) \cup IF n = Top.node THEN {pm} ELSE {}
<1>1. /\ stack # <<>> /\ stack' = Call(rest, add)
      /\ UNCHANGED <<stream, unreported, matches>>
      /\ Top \in SoundFrame(stream) /\ rest \in SoundFrame(stream) /\ add \in SoundFrame(stream)
      /\ Top.op = "join" /\ rest.op = "join" /\ add.op = "add" /\ add.node = Top.node
      /\ add.pm = pm
  BY DEF Accepts
<1>2. /\ Adding(n)[Top] = {} /\ Adding(n)[rest] = {}
      /\ Adding(n)[add] = IF n = Top.node THEN {pm} ELSE {}
  <2>1. Adding(n)[Top] = {}
    BY <1>1, AddingOf
  <2>2. Adding(n)[rest] = {}
    BY <1>1, AddingOf
  <2>3. Adding(n)[add] = IF add.op = "add" /\ add.node = n THEN {add.pm} ELSE {}
    BY <1>1, AddingOf
  <2>4. Adding(n)[add] = IF n = Top.node THEN {pm} ELSE {}
    BY <1>1, <2>3
  <2> QED
    BY <2>1, <2>2, <2>4
<1>3. /\ All(Adding(n), stack) = All(Adding(n), Pop) \cup Adding(n)[Top]
      /\ All(Adding(n), Call(rest, add)) =
            All(Adding(n), Pop) \cup Adding(n)[rest] \cup Adding(n)[add]
  BY <1>1, Typed, AllStack
<1>4. Adding(n)' = Adding(n) /\ Queued(n)' = Queued(n) /\ Delivered(n)' = Delivered(n)
  BY <1>1, OutputsStay
<1> QED
  BY <1>1, <1>2, <1>3, <1>4 DEF Added

\* A notified parent starts a join.
LEMMA AddedNotify ==
    ASSUME IInv, NEW p, NEW rest, NEW join, Notifies(p, rest, join), NEW n \in OutputNode
    PROVE  Added(n)' = Added(n)
<1>1. /\ stack # <<>> /\ stack' = Call(rest, join)
      /\ UNCHANGED <<stream, unreported, matches>>
      /\ Top \in SoundFrame(stream) /\ rest \in SoundFrame(stream) /\ join \in SoundFrame(stream)
      /\ Top.op = "add" /\ rest.op = "add" /\ join.op = "join"
      /\ rest.node = Top.node /\ rest.pm = Top.pm
  BY DEF Notifies
<1>2. Adding(n)[Top] = Adding(n)[rest] /\ Adding(n)[join] = {}
  <2>1. Adding(n)[Top] = IF Top.node = n THEN {Top.pm} ELSE {}
    <3>1. Top \in SoundFrame(stream) /\ Top.op = "add"
      BY <1>1
    <3> QED
      BY ONLY <3>1, AddingOf
  <2>2. Adding(n)[rest] = IF Top.node = n THEN {Top.pm} ELSE {}
    <3>1. /\ rest \in SoundFrame(stream) /\ rest.op = "add"
          /\ rest.node = Top.node /\ rest.pm = Top.pm
      BY <1>1
    <3> QED
      BY ONLY <3>1, AddingOf
  <2>3. Adding(n)[join] = {}
    <3>1. join \in SoundFrame(stream) /\ join.op = "join"
      BY <1>1
    <3> QED
      BY ONLY <3>1, AddingOf
  <2> QED
    BY <2>1, <2>2, <2>3
<1>3. /\ All(Adding(n), stack) = All(Adding(n), Pop) \cup Adding(n)[Top]
      /\ All(Adding(n), Call(rest, join)) =
            All(Adding(n), Pop) \cup Adding(n)[rest] \cup Adding(n)[join]
  BY <1>1, Typed, AllStack
<1>4. Adding(n)' = Adding(n) /\ Queued(n)' = Queued(n) /\ Delivered(n)' = Delivered(n)
  BY <1>1, OutputsStay
<1> QED
  BY <1>1, <1>2, <1>3, <1>4 DEF Added

\* A join that leaves a candidate out goes on.
LEMMA AddedReject ==
    ASSUME IInv, NEW c, NEW rest, Rejects(c, rest), NEW n \in OutputNode
    PROVE  Added(n)' = Added(n)
<1>1. /\ stack # <<>> /\ stack' = Continue(rest)
      /\ UNCHANGED <<stream, unreported, matches>>
      /\ Top \in SoundFrame(stream) /\ rest \in SoundFrame(stream)
      /\ Top.op = "join" /\ rest.op = "join"
  BY DEF Rejects
<1>2. Adding(n)[Top] = {} /\ Adding(n)[rest] = {}
  BY <1>1, AddingOf
<1>3. /\ All(Adding(n), stack) = All(Adding(n), Pop) \cup Adding(n)[Top]
      /\ All(Adding(n), Continue(rest)) = All(Adding(n), Pop) \cup Adding(n)[rest]
  BY <1>1, Typed, AllStack
<1>4. Adding(n)' = Adding(n) /\ Queued(n)' = Queued(n) /\ Delivered(n)' = Delivered(n)
  BY <1>1, OutputsStay
<1> QED
  BY <1>1, <1>2, <1>3, <1>4 DEF Added

\* An addition that ends at an output node is queued.
LEMMA AddedEnd ==
    ASSUME IInv, FinishAdd \/ FinishJoin, NEW n \in OutputNode
    PROVE  Added(n)' = Added(n)
<1>1. /\ stack # <<>> /\ stack' = Pop
      /\ Top \in SoundFrame(stream) /\ Top.pm \in PartialMatch(stream)
      /\ UNCHANGED <<stream, matches>>
      /\ unreported' = [k \in OutputNode |->
                            IF Top.op = "add" /\ k = Top.node
                            THEN Append(unreported[k], Top.pm) ELSE unreported[k]]
  BY EndStep
<1>2. All(Adding(n), stack) = All(Adding(n), Pop) \cup Adding(n)[Top]
  BY <1>1, Typed, AllStack
<1>3. Adding(n)' = Adding(n) /\ Queued(n)' = Queued(n) /\ Delivered(n)' = Delivered(n)
  BY <1>1, OutputsStay
<1>4. CASE Top.op = "add" /\ n = Top.node
  <2>1. unreported[n] \in Seq(PartialMatch(stream))
    BY Typed
  <2>2. unreported'[n] = Append(unreported[n], Top.pm)
    BY <1>1, <1>4
  <2>3. All(Queued(n), unreported'[n]) = All(Queued(n), unreported[n]) \cup Queued(n)[Top.pm]
    BY <1>1, <2>1, <2>2, AllAppend
  <2>4. Queued(n)[Top.pm] = {Top.pm} /\ Adding(n)[Top] = {Top.pm}
    BY <1>1, <1>4, QueuedOf, AddingOf
  <2> QED
    BY <1>1, <1>2, <1>3, <2>3, <2>4 DEF Added
<1>5. CASE ~ (Top.op = "add" /\ n = Top.node)
  <2>1. unreported'[n] = unreported[n]
    BY <1>1, <1>5
  <2>2. Adding(n)[Top] = {}
    BY <1>1, <1>5, AddingOf
  <2> QED
    BY <1>1, <1>2, <1>3, <2>1, <2>2 DEF Added
<1> QED
  BY <1>4, <1>5

\* A queued match is reported.
LEMMA AddedReport ==
    ASSUME IInv, NEW k \in OutputNode, ReportMatch(k), NEW n \in OutputNode
    PROVE  Added(n)' = Added(n)
<1>1. PICK pm, report :
              /\ phase = "playing" /\ playing = {} /\ stack = <<>>
              /\ unreported[k] # <<>> /\ pm = Head(unreported[k])
              /\ report = [pm |-> pm, node |-> k, ids |-> PatternIds(k, pm)]
              /\ report \in SoundReport(stream)
              /\ pm \in Range(unreported[k]) /\ pm \in PartialMatch(stream)
              /\ IsPartialMatch(stream, k, pm)
              /\ matches' = Append(matches, report)
              /\ freezers' = IF FreezeMap = {} THEN freezers ELSE freezers \ Range(pm)
              /\ unreported' = [unreported EXCEPT ![k] = Tail(@)]
              /\ UNCHANGED <<stream, phase, playing, stack, store, access, filtered>>
  BY ReportStep
<1>2. Adding(n)' = Adding(n) /\ Queued(n)' = Queued(n) /\ Delivered(n)' = Delivered(n)
  BY <1>1, OutputsStay
<1>3. All(Delivered(n), matches') = All(Delivered(n), matches) \cup Delivered(n)[report]
  BY <1>1, Typed, AllAppend
<1>4. /\ unreported'[k] = Tail(unreported[k])
      /\ n # k => unreported'[n] = unreported[n]
  BY <1>1, QueueTail
<1>5. CASE n = k
  <2>1. Delivered(n)[report] = {pm} /\ Queued(n)[pm] = {pm}
    BY <1>1, <1>5, QueuedOf, DeliveredOf
  <2>2. unreported[k] \in Seq(PartialMatch(stream))
    BY Typed
  <2>3. All(Queued(n), unreported[k]) = Queued(n)[pm] \cup All(Queued(n), Tail(unreported[k]))
    BY <1>1, <2>2, AllTail
  <2> QED
    BY <1>1, <1>2, <1>3, <1>4, <1>5, <2>1, <2>3 DEF Added
<1>6. CASE n # k
  <2>1. Delivered(n)[report] = {}
    BY <1>1, <1>6, DeliveredOf
  <2> QED
    BY <1>1, <1>2, <1>3, <1>4, <1>6, <2>1 DEF Added
<1> QED
  BY <1>5, <1>6

\* A new event leaves what has been added as it was.
LEMMA AddedReadEvent ==
    ASSUME IInv, IInv', NewestInv, ReadEvent, NEW n \in OutputNode
    PROVE  Added(n)' = Added(n)
<1>1. /\ stack = <<>> /\ phase = "idle"
      /\ UNCHANGED <<stack, unreported, matches>>
  BY DEF ReadEvent, IInv, ControlInv
<1>2. unreported[n] = <<>>
  BY <1>1 DEF NewestInv, OutputNewest
<1>3. ASSUME NEW i \in DOMAIN matches
      PROVE  Delivered(n)'[matches[i]] = Delivered(n)[matches[i]]
  <2>1. matches \in Seq(SoundReport(stream)) /\ matches \in Seq(SoundReport(stream)')
    BY <1>1 DEF IInv, OutputInv
  <2>2. matches[i] \in SoundReport(stream) /\ matches[i] \in SoundReport(stream)'
    BY <2>1, LenProperties, ElementOfSeq
  <2> QED
    BY <2>2 DEF Delivered
<1>4. All(Delivered(n)', matches) = All(Delivered(n), matches)
  BY <1>3 DEF All
<1>5. /\ All(Adding(n), <<>>) = {} /\ All(Adding(n)', <<>>) = {}
      /\ All(Queued(n), <<>>) = {} /\ All(Queued(n)', <<>>) = {}
  BY AllOne
<1> QED
  BY <1>1, <1>2, <1>4, <1>5 DEF Added

\* No other step has to do with it.
LEMMA AddedSame ==
    ASSUME UNCHANGED <<stream, stack, unreported, matches>>, NEW n
    PROVE  Added(n)' = Added(n)
BY OutputsStay DEF Added
-----------------------------------------------------------------------------
(* Every full match is added *)

\* What is used up stays so.
LEMMA ConsumedStays ==
    ASSUME stream' = stream, NEW n, Added(n) \subseteq Added(n)', NEW m, Consumed(n, m)
    PROVE  Consumed(n, m)'
BY DEF Consumed, SingleEvents

\* A match that the filter of an output node stops has an event of one that was
\* added.
LEMMA FilterConsumes ==
    ASSUME UsedInv, NEW n \in OutputNode, NEW m, SingleEvents(n, m) \cap filtered[n] # {}
    PROVE  Consumed(n, m)
BY DEF UsedInv, Consumed

\* UsedInv in a step that reads no event.
LEMMA UsedStep ==
    ASSUME UsedInv, stream' = stream,
           \A n \in OutputNode : Added(n) \subseteq Added(n)',
           \A n \in OutputNode : \A e \in filtered'[n] :
                e \in filtered[n] \/ \E z \in Added(n)' : e \in SingleEvents(n, z)
    PROVE  UsedInv'
<1> SUFFICES ASSUME NEW n \in OutputNode, NEW e \in filtered'[n]
             PROVE  \E z \in Added(n)' : e \in SingleEvents(n, z)'
  BY DEF UsedInv
<1>1. \E z \in Added(n)' : e \in SingleEvents(n, z)
  BY DEF UsedInv
<1>2. \A z : SingleEvents(n, z)' = SingleEvents(n, z)
  BY DEF SingleEvents
<1> QED
  BY <1>1, <1>2

\* UsedInv is inductive.
LEMMA UsedNext ==
    ASSUME Aligned, IInv, IInv', NewestInv, UsedInv, [Next]_vars
    PROVE  UsedInv'
<1>1. CASE ReadEvent
  <2>1. PICK e \in Event : stream' = Append(stream, e) /\ filtered' = filtered
    BY <1>1, NewEvent
  <2>2. ASSUME NEW n \in OutputNode, NEW z \in Added(n)
        PROVE  SingleEvents(n, z)' = SingleEvents(n, z)
    <3>1. Range(z) \subseteq 1..Len(stream)
      BY AddedSound, Typed, MatchShape
    <3>2. \A i \in 1..Len(stream) : stream'[i] = stream[i]
      BY <2>1, Typed, AppendProperties
    <3> QED
      BY <3>1, <3>2 DEF SingleEvents
  <2>3. \A n \in OutputNode : Added(n)' = Added(n)
    BY <1>1, AddedReadEvent
  <2> QED
    BY <2>1, <2>2, <2>3 DEF UsedInv
<1>2. ASSUME NEW l \in Leaf, HandleEvent(l)
      PROVE  UsedInv'
  <2> PICK lm : lm = LeafMatch(l)
    OBVIOUS
  <2>1. /\ stream' = stream
        /\ filtered' = [CleanFiltered({l}, Now.ts) EXCEPT ![l] = @ \cup SingleEvents(l, lm)]
    BY <1>2 DEF HandleEvent
  <2>2. CleanFiltered({l}, Now.ts) \in [Node -> SUBSET (1..Len(stream))]
    BY CleanProperties DEF IInv
  <2>3. \A n \in OutputNode : Added(n)' = Added(n) \cup IF n = l THEN {lm} ELSE {}
    BY <1>2, AddedHandleEvent
  <2>4. ASSUME NEW n \in OutputNode, NEW e \in filtered'[n]
        PROVE  e \in filtered[n] \/ \E z \in Added(n)' : e \in SingleEvents(n, z)
    <3>1. n \in Node
      BY OutputNodes
    <3>2. e \in CleanFiltered({l}, Now.ts)[n] \/ (n = l /\ e \in SingleEvents(l, lm))
      BY <2>1, <2>2, <2>4, <3>1
    <3> QED
      BY <2>3, <3>1, <3>2, CleanLess
  <2> QED
    BY <2>1, <2>3, <2>4, UsedStep
<1>3. CASE CreateMatch
  <2>1. PICK c, pm, rest, add : Accepts(c, pm, rest, add)
    BY <1>3, AcceptStep
  <2>2. /\ stream' = stream
        /\ filtered' = [filtered EXCEPT ![Top.node] = @ \cup SingleEvents(Top.node, pm)]
        /\ filtered \in [Node -> SUBSET (1..Len(stream))]
    BY <2>1 DEF Accepts, IInv, CountInv
  <2>3. \A n \in OutputNode : Added(n)' = Added(n) \cup IF n = Top.node THEN {pm} ELSE {}
    BY <2>1, AddedAccept
  <2>4. ASSUME NEW n \in OutputNode, NEW e \in filtered'[n]
        PROVE  e \in filtered[n] \/ \E z \in Added(n)' : e \in SingleEvents(n, z)
    <3>1. e \in filtered[n] \/ (n = Top.node /\ e \in SingleEvents(n, pm))
      BY <2>2, <2>4, OutputNodes
    <3> QED
      BY <2>3, <3>1
  <2> QED
    BY <2>2, <2>3, <2>4, UsedStep
<1>4. ASSUME stream' = stream, \A n \in OutputNode : Added(n)' = Added(n),
             \A n \in Node : filtered'[n] \subseteq filtered[n]
      PROVE  UsedInv'
  BY <1>4, UsedStep, OutputNodes
<1>5. ASSUME NEW l \in Leaf, IgnoreEvent(l) \/ RejectEvent(l)
      PROVE  UsedInv'
  <2>1. UNCHANGED <<stream, stack, unreported, matches>>
    BY <1>5 DEF IgnoreEvent, RejectEvent
  <2>2. \A n \in Node : filtered'[n] \subseteq filtered[n]
    BY <1>5, CleanLess DEF IgnoreEvent, RejectEvent
  <2> QED
    BY <1>4, <2>1, <2>2, AddedSame
<1>6. CASE HandleNewPartialMatch
  <2>1. PICK p, rest, join : Notifies(p, rest, join)
    BY <1>6, NotifyStep
  <2>2. stream' = stream /\ \A n \in Node : filtered'[n] \subseteq filtered[n]
    BY <2>1, CleanLess DEF Notifies
  <2> QED
    BY <1>4, <2>1, <2>2, AddedNotify
<1>7. CASE RejectCandidate
  <2>1. PICK c, rest : Rejects(c, rest)
    BY <1>7, RejectStep
  <2>2. stream' = stream /\ filtered' = filtered
    BY <2>1 DEF Rejects
  <2> QED
    BY <1>4, <2>1, <2>2, AddedReject
<1>8. CASE FinishAdd \/ FinishJoin
  <2>1. stream' = stream /\ filtered' = filtered
    BY <1>8, EndStep
  <2> QED
    BY <1>4, <1>8, <2>1, AddedEnd
<1>9. ASSUME NEW n \in OutputNode, ReportMatch(n)
      PROVE  UsedInv'
  <2>1. stream' = stream /\ filtered' = filtered
    BY <1>9 DEF ReportMatch
  <2> QED
    BY <1>4, <1>9, <2>1, AddedReport
<1>10. CASE FinishEvent \/ Close \/ UNCHANGED vars
  <2>1. UNCHANGED <<stream, stack, unreported, matches, filtered>>
    BY <1>10 DEF FinishEvent, Close, vars
  <2> QED
    BY <1>4, <2>1, AddedSame
<1> QED
  BY <1>1, <1>2, <1>3, <1>5, <1>6, <1>7, <1>8, <1>9, <1>10 DEF Next, Step

\* OutInv in a step that visits no leaf.
LEMMA OutStep ==
    ASSUME IInv, OutInv, stream' = stream, playing' = playing,
           \A n \in OutputNode : Added(n) \subseteq Added(n)',
           \A x \in All(Ahead, stack) :
                /\ x[1] \in OutputNode /\ FreeBelow(x[1]) /\ LiveMatch(x[1], x[2])
                => x \in All(Ahead', stack') \/ Consumed(x[1], x[2])'
    PROVE  OutInv'
<1>1. ASSUME NEW n \in OutputNode, NEW m \in PartialMatch(stream),
             FreeBelow(n), IsPartialMatch(stream, n, m), Newest \in Range(m), SeenMatch(m)
      PROVE  <<n, m>> \in All(Ahead', stack') \/ Consumed(n, m)'
  <2>1. CASE Consumed(n, m)
    BY <2>1, ConsumedStays
  <2>2. CASE <<n, m>> \in All(Ahead, stack)
    <3>1. LiveMatch(n, m)
      BY <1>1, Typed, OutputNodes, NewestNotBefore DEF LiveMatch
    <3> QED
      BY <1>1, <2>2, <3>1
  <2> QED
    BY <1>1, <2>1, <2>2 DEF OutInv
<1>2. \A m : SeenMatch(m)' => SeenMatch(m)
  BY DEF SeenMatch, Newest
<1>3. /\ PartialMatch(stream)' = PartialMatch(stream) /\ Newest' = Newest
      /\ \A n, m : IsPartialMatch(stream, n, m)' <=> IsPartialMatch(stream, n, m)
      /\ \A n : FreeBelow(n)' <=> FreeBelow(n)
  BY DEF Newest, PartialMatch, MatchesOf, IsPartialMatch, FreeBelow
<1> QED
  BY <1>1, <1>2, <1>3 DEF OutInv

\* OutInv when a leaf is visited.
LEMMA OutLeaf ==
    ASSUME IInv, IInv', OutInv, UsedInv, NEW l \in Leaf, HandleEvent(l) \/ RejectEvent(l)
    PROVE  OutInv'
<1> PICK lm : lm = LeafMatch(l)
  OBVIOUS
<1>1. /\ stack = <<>> /\ l \in playing /\ playing' = playing \ {l} /\ stream' = stream
  BY DEF HandleEvent, RejectEvent
<1>2. l \in Node /\ stream # <<>>
  BY <1>1, InTree
<1> SUFFICES ASSUME NEW n \in OutputNode, NEW m,
                    FreeBelow(n), IsPartialMatch(stream, n, m), Newest \in Range(m),
                    SeenMatch(m)'
             PROVE  <<n, m>> \in All(Ahead', stack') \/ Consumed(n, m)'
  BY <1>1 DEF OutInv, FreeBelow, Newest, IsPartialMatch, MatchesOf, PartialMatch
<1>3. n \in Node /\ <<n, m>> \in Placed /\ m \in PartialMatch(stream) /\ Ahead' = Ahead
  BY <1>1, OutputNodes, PlaceOf, MatchShape, AheadStays
<1>4. Added(n) \subseteq Added(n)' /\ (HandleEvent(l) /\ n = l => lm \in Added(n)')
  <2>1. CASE HandleEvent(l)
    BY <2>1, AddedHandleEvent
  <2>2. CASE RejectEvent(l)
    <3>1. UNCHANGED <<stream, stack, unreported, matches>>
      BY <2>2 DEF RejectEvent
    <3>2. ~ HandleEvent(l)
      BY <2>2 DEF RejectEvent, HandleEvent
    <3> QED
      BY <3>1, <3>2, AddedSame
  <2> QED
    BY <2>1, <2>2
<1>5. CASE SeenMatch(m)
  <2>1. Consumed(n, m)
    BY <1>1, <1>3, <1>5, ApartEmpty DEF OutInv
  <2> QED
    BY <1>1, <1>4, <2>1, ConsumedStays
<1>6. CASE ~ SeenMatch(m)
  <2>1. l \in DOMAIN m /\ m[l] = Newest
    BY <1>1, <1>6 DEF SeenMatch, Newest
  <2>2. /\ l \in Subtree[n]
        /\ Over(m, lm)
        /\ Valid(stream, l, lm)
        /\ n = l => m = lm
    BY <1>3, <2>1, LeafPart
  <2>3. CASE n = l /\ HandleEvent(l)
    BY <1>4, <2>2, <2>3 DEF Consumed
  <2>4. CASE n = l /\ RejectEvent(l)
    <3>1. SingleEvents(l, lm) \cap CleanedFiltered(l, Now.ts) # {}
      BY <2>2, <2>4 DEF RejectEvent, LeafAccepts, CanAdd
    <3>2. SingleEvents(n, m) \cap filtered[n] # {}
      BY <2>2, <2>4, <3>1 DEF CleanedFiltered
    <3>3. Consumed(n, m)
      BY <3>2, FilterConsumes
    <3> QED
      BY <1>1, <1>4, <3>3, ConsumedStays
  <2>5. CASE n # l
    <3> PICK add : add = AddFrame(l, lm)
      OBVIOUS
    <3>1. SingleTypesOf(l) = {}
      BY <1>3, <2>2, <2>5, FreeDown DEF Free
    <3>2. LeafAccepts(l)
      BY <2>2, <3>1 DEF LeafAccepts, CanAdd, SingleEvents
    <3>3. HandleEvent(l)
      BY <3>2 DEF RejectEvent
    <3>4. stack' = <<add>>
      BY <3>3 DEF HandleEvent
    <3>5. add \in SoundFrame(stream)
      <4>1. <<add>> \in Seq(SoundFrame(stream))
        BY <1>1, <3>4, NextStack
      <4>2. <<add>>[1] = add /\ 1 \in 1..Len(<<add>>)
        OBVIOUS
      <4> QED
        BY <4>1, <4>2, ElementOfSeq
    <3>6. add.op = "add" /\ add.pm = lm /\ add.next = Parents[l]
      BY DEF AddFrame
    <3>7. PICK p \in Range(Parents[l]) : p \in Subtree[n]
      BY <1>3, <2>2, <2>5, ParentToward
    <3>8. Pends(add, n, m)
      BY <2>2, <3>6, <3>7 DEF Pends
    <3>9. <<n, m>> \in Ahead[add]
      BY <1>3, <3>5, <3>8, AheadOf
    <3> QED
      BY <1>3, <3>4, <3>9, AllOne
  <2> QED
    BY <2>3, <2>4, <2>5
<1> QED
  BY <1>5, <1>6

\* OutInv is inductive when there are no freezers.
LEMMA OutNext ==
    ASSUME Aligned, FreezeMap = {}, IInv, IInv', NewestInv, NewestInv', CoverInv, UsedInv,
           OutInv, [Next]_vars
    PROVE  OutInv'
<1>1. CASE ReadEvent
  <2>1. PICK e \in Event :
              /\ stream' = Append(stream, e)
              /\ Newest' = Newest + 1 /\ Newest \in Nat
              /\ \A i \in 1..Newest : stream'[i] = stream[i]
              /\ stream'[Newest + 1] = e /\ Now' = e
              /\ stream # <<>> => Now.ts <= e.ts
              /\ \/ SkipEvent(e) /\ phase' = "idle" /\ playing' = {}
                 \/ AcceptEvent(e) /\ phase' = "playing"
              /\ \A l \in Leaf : TypeOf[l] = e.type => l \in playing'
              /\ phase = "idle" /\ stack = <<>> /\ stack' = <<>> /\ playing = {}
              /\ UNCHANGED <<stack, store, access, filtered, unreported, matches>>
    BY <1>1, NewEvent
  <2>2. ASSUME NEW n \in OutputNode, NEW m, IsPartialMatch(stream', n, m),
               Newest' \in Range(m), SeenMatch(m)'
        PROVE  FALSE
    <3>1. PICK l \in DOMAIN m : m[l] = Newest'
      BY <2>2 DEF Range
    <3>2. l \in LeavesOf(n) /\ l \in Leaf
      BY <2>2, <3>1, MatchShape, OutputNodes DEF LeavesOf
    <3>3. TypeOf[l] = e.type
      BY <2>1, <2>2, <3>1, <3>2 DEF IsPartialMatch
    <3> QED
      BY <2>1, <2>2, <3>1, <3>2, <3>3 DEF SeenMatch
  <2> QED
    BY <2>2 DEF OutInv
<1>2. ASSUME NEW l \in Leaf, HandleEvent(l) \/ RejectEvent(l)
      PROVE  OutInv'
  BY <1>2, OutLeaf
<1>3. ASSUME NEW l \in Leaf, IgnoreEvent(l)
      PROVE  FALSE
  BY <1>3, NotFrozen DEF IgnoreEvent
<1>4. CASE HandleNewPartialMatch
  <2>1. PICK p, rest, join : Notifies(p, rest, join)
    BY <1>4, NotifyStep
  <2>2. /\ stack # <<>> /\ stream' = stream /\ playing' = playing
        /\ stack' = Call(rest, join)
        /\ rest \in SoundFrame(stream) /\ join \in SoundFrame(stream)
    BY <2>1 DEF Notifies
  <2>3. /\ Ahead' = Ahead
        /\ All(Ahead, stack) = All(Ahead, Pop) \cup Ahead[Top]
        /\ All(Ahead, Call(rest, join)) = All(Ahead, Pop) \cup Ahead[rest] \cup Ahead[join]
    BY <2>2, AheadStays, Typed, AllStack
  <2>4. ASSUME NEW x \in All(Ahead, stack), FreeBelow(x[1]), LiveMatch(x[1], x[2])
        PROVE  x \in All(Ahead', stack')
    <3>1. CASE x \in Ahead[Top]
      <4>1. x \in Ahead[rest] \cup Ahead[join]
        BY <2>1, <2>4, <3>1, NotifyMoves
      <4> QED
        BY <2>2, <2>3, <4>1
    <3> QED
      BY <2>2, <2>3, <2>4, <3>1
  <2> QED
    BY <2>1, <2>2, <2>4, AddedNotify, OutStep
<1>5. CASE CreateMatch
  <2>1. PICK c, pm, rest, add : Accepts(c, pm, rest, add)
    BY <1>5, AcceptStep
  <2>2. /\ stack # <<>> /\ stream' = stream /\ playing' = playing
        /\ stack' = Call(rest, add)
        /\ rest \in SoundFrame(stream) /\ add \in SoundFrame(stream)
    BY <2>1 DEF Accepts
  <2>3. /\ Ahead' = Ahead
        /\ All(Ahead, stack) = All(Ahead, Pop) \cup Ahead[Top]
        /\ All(Ahead, Call(rest, add)) = All(Ahead, Pop) \cup Ahead[rest] \cup Ahead[add]
    BY <2>2, AheadStays, Typed, AllStack
  <2>4. \A n \in OutputNode : Added(n)' = Added(n) \cup IF n = Top.node THEN {pm} ELSE {}
    BY <2>1, AddedAccept
  <2>5. ASSUME NEW x \in All(Ahead, stack), x[1] \in OutputNode
        PROVE  x \in All(Ahead', stack') \/ Consumed(x[1], x[2])'
    <3>1. CASE x \in Ahead[Top]
      <4>1. x \in Ahead[rest] \cup Ahead[add] \/ x = <<Top.node, pm>>
        BY <2>1, <3>1, AcceptMoves
      <4>2. ASSUME x = <<Top.node, pm>>
            PROVE  Consumed(x[1], x[2])'
        <5>1. x[1] = Top.node /\ x[2] = pm
          BY <4>2
        <5>2. pm \in Added(x[1])'
          BY <2>4, <2>5, <5>1
        <5> QED
          BY <5>1, <5>2 DEF Consumed
      <4> QED
        BY <2>2, <2>3, <4>1, <4>2
    <3> QED
      BY <2>2, <2>3, <2>5, <3>1
  <2>6. \A n \in OutputNode : Added(n) \subseteq Added(n)'
    BY <2>4
  <2> QED
    BY <2>2, <2>5, <2>6, OutStep
<1>6. CASE RejectCandidate
  <2>1. PICK c, rest : Rejects(c, rest)
    BY <1>6, RejectStep
  <2>2. /\ stack # <<>> /\ stream' = stream /\ playing' = playing
        /\ stack' = Continue(rest) /\ rest \in SoundFrame(stream)
    BY <2>1 DEF Rejects
  <2>3. /\ Ahead' = Ahead
        /\ All(Ahead, stack) = All(Ahead, Pop) \cup Ahead[Top]
        /\ All(Ahead, Continue(rest)) = All(Ahead, Pop) \cup Ahead[rest]
    BY <2>2, AheadStays, Typed, AllStack
  <2>4. \A n \in OutputNode : Added(n)' = Added(n)
    BY <2>1, AddedReject
  <2>5. ASSUME NEW x \in All(Ahead, stack), x[1] \in OutputNode, FreeBelow(x[1])
        PROVE  x \in All(Ahead', stack') \/ Consumed(x[1], x[2])'
    <3>1. CASE x \in Ahead[Top]
      <4>1. \/ x \in Ahead[rest]
            \/ SingleEvents(x[1], x[2]) \cap filtered[x[1]] # {}
        BY <2>1, <2>5, <3>1, RejectMoves
      <4>2. ASSUME SingleEvents(x[1], x[2]) \cap filtered[x[1]] # {}
            PROVE  Consumed(x[1], x[2])'
        <5>1. Consumed(x[1], x[2])
          BY <2>5, <4>2, FilterConsumes
        <5>2. Added(x[1]) \subseteq Added(x[1])'
          BY <2>4, <2>5
        <5> QED
          BY <2>2, <5>1, <5>2, ConsumedStays
      <4> QED
        BY <2>2, <2>3, <4>1, <4>2
    <3> QED
      BY <2>2, <2>3, <2>5, <3>1
  <2> QED
    BY <2>2, <2>4, <2>5, OutStep
<1>7. CASE FinishAdd \/ FinishJoin
  <2>1. /\ stack # <<>> /\ stack' = Pop /\ Top \in SoundFrame(stream)
        /\ ((Top.op = "add" /\ Top.next = <<>>) \/ (Top.op = "join" /\ Top.todo = {}))
        /\ stream' = stream /\ playing' = playing
    BY <1>7, EndStep
  <2>2. Ahead' = Ahead
    BY <2>1, AheadStays
  <2>3. All(Ahead, stack) = All(Ahead, Pop) \cup Ahead[Top]
    BY <2>1, Typed, AllStack
  <2>4. Ahead[Top] = {}
    <3>1. Range(<<>>) = {}
      BY DEF Range
    <3> QED
      BY <2>1, <3>1, AheadOf DEF Pends
  <2>5. All(Ahead', stack') = All(Ahead, stack)
    BY <2>1, <2>2, <2>3, <2>4
  <2>6. \A n \in OutputNode : Added(n)' = Added(n)
    BY <1>7, AddedEnd
  <2> QED
    BY <2>1, <2>5, <2>6, OutStep
<1>8. ASSUME stream' = stream, playing' = playing, stack' = stack,
             \A n \in OutputNode : Added(n)' = Added(n)
      PROVE  OutInv'
  <2>1. All(Ahead', stack') = All(Ahead, stack)
    BY <1>8, AheadStays
  <2> QED
    BY <1>8, <2>1, OutStep
<1>9. ASSUME NEW n \in OutputNode, ReportMatch(n)
      PROVE  OutInv'
  <2>1. stream' = stream /\ playing' = playing /\ stack' = stack
    BY <1>9 DEF ReportMatch
  <2> QED
    BY <1>8, <1>9, <2>1, AddedReport
<1>10. CASE FinishEvent \/ Close \/ UNCHANGED vars
  <2>1. UNCHANGED <<stream, playing, stack, unreported, matches>>
    BY <1>10 DEF FinishEvent, Close, vars
  <2> QED
    BY <1>8, <2>1, AddedSame
<1> QED
  BY <1>1, <1>2, <1>3, <1>4, <1>5, <1>6, <1>7, <1>9, <1>10 DEF Next, Step
\* Every full match of the events evaluated before stays consumed, and those of
\* the event become so when it is finished.
LEMMA DoneNext ==
    ASSUME Aligned, IInv, IInv', NewestInv, OutInv, DoneInv, [Next]_vars
    PROVE  DoneInv'
<1>1. ASSUME stream' = stream, phase' = phase, \A n \in OutputNode : Added(n) \subseteq Added(n)'
      PROVE  DoneInv'
  <2>1. \A n \in OutputNode : \A m : Consumed(n, m) => Consumed(n, m)'
    BY <1>1, ConsumedStays
  <2> QED
    BY <1>1, <2>1 DEF DoneInv, PartialMatch, MatchesOf, IsPartialMatch, FreeBelow, SeenLength
<1>2. CASE ReadEvent
  <2>1. PICK e \in Event :
              /\ stream' = Append(stream, e)
              /\ Newest' = Newest + 1 /\ Newest \in Nat
              /\ \A i \in 1..Newest : stream'[i] = stream[i]
              /\ stream'[Newest + 1] = e /\ Now' = e
              /\ stream # <<>> => Now.ts <= e.ts
              /\ \/ SkipEvent(e) /\ phase' = "idle" /\ playing' = {}
                 \/ AcceptEvent(e) /\ phase' = "playing"
              /\ \A l \in Leaf : TypeOf[l] = e.type => l \in playing'
              /\ phase = "idle" /\ stack = <<>> /\ stack' = <<>> /\ playing = {}
              /\ UNCHANGED <<stack, store, access, filtered, unreported, matches>>
    BY <1>2, NewEvent
  <2> SUFFICES ASSUME NEW n \in OutputNode, NEW m, FreeBelow(n),
                      IsPartialMatch(stream', n, m),
                      \A l \in DOMAIN m : m[l] <= SeenLength'
               PROVE  Consumed(n, m)'
    BY DEF DoneInv, FreeBelow
  <2>2. n \in Node /\ m \in [LeavesOf(n) -> 1..Newest + 1]
    BY <2>1, OutputNodes, MatchShape DEF Newest
  <2>3. Newest + 1 \notin Range(m)
    <3> SUFFICES ASSUME NEW l \in DOMAIN m, m[l] = Newest + 1
                 PROVE  FALSE
      BY DEF Range
    <3>1. l \in Leaf /\ l \in LeavesOf(n)
      BY <2>2 DEF LeavesOf
    <3>2. TypeOf[l] = e.type
      BY <2>1, <3>1 DEF IsPartialMatch
    <3>3. phase' = "playing"
      BY <2>1, <3>1, <3>2
    <3>4. SeenLength' = Newest' - 1
      BY <3>3 DEF SeenLength, Newest
    <3>5. SeenLength' = Newest
      BY <2>1, <3>4
    <3> QED
      BY <2>1, <3>5
  <2>4. IsPartialMatch(stream, n, m)
    BY <2>1, <2>2, <2>3, Typed, PartialMatchShrinks DEF Newest
  <2>5. m \in PartialMatch(stream) /\ Range(m) \subseteq 1..Newest
    BY <2>2, <2>4, MatchShape DEF Newest
  <2>6. \A l \in DOMAIN m : m[l] <= SeenLength
    <3>1. SeenLength = Newest
      BY <2>1 DEF SeenLength, Newest
    <3>2. \A l \in DOMAIN m : m[l] \in 1..Newest
      BY <2>5 DEF Range
    <3> QED
      BY <2>1, <3>1, <3>2
  <2>7. PICK z \in Added(n) : z = m \/ SingleEvents(n, m) \cap SingleEvents(n, z) # {}
    BY <2>4, <2>5, <2>6 DEF DoneInv, Consumed
  <2>8. Range(z) \subseteq 1..Newest
    BY <2>2, AddedSound, MatchShape DEF Newest
  <2>9. SingleEvents(n, z)' = SingleEvents(n, z) /\ SingleEvents(n, m)' = SingleEvents(n, m)
    BY <2>1, <2>5, <2>8 DEF SingleEvents
  <2>10. z \in Added(n)'
    BY <1>2, AddedReadEvent
  <2> QED
    BY <2>7, <2>9, <2>10 DEF Consumed
<1>3. CASE FinishEvent
  <2>1. /\ stack = <<>> /\ playing = {} /\ phase = "playing" /\ phase' = "idle"
        /\ UNCHANGED <<stream, stack, unreported, matches>>
    BY <1>3 DEF FinishEvent, Settled
  <2>2. SeenLength = Newest - 1 /\ SeenLength' = Newest
    BY <2>1 DEF SeenLength, Newest
  <2>3. Newest \in Nat
    BY Typed, LenProperties DEF Newest
  <2>4. \A n : Added(n)' = Added(n)
    BY <2>1, AddedSame
  <2> SUFFICES ASSUME NEW n \in OutputNode, NEW m \in PartialMatch(stream), FreeBelow(n),
                      IsPartialMatch(stream, n, m)
               PROVE  Consumed(n, m)'
    BY <2>1 DEF DoneInv, PartialMatch, MatchesOf, IsPartialMatch, FreeBelow
  <2>5. Consumed(n, m)
    <3>1. CASE Newest \in Range(m)
      <4>1. SeenMatch(m) /\ All(Ahead, stack) = {}
        BY <2>1, ApartEmpty DEF SeenMatch
      <4> QED
        BY <3>1, <4>1 DEF OutInv
    <3>2. CASE Newest \notin Range(m)
      <4>1. \A l \in DOMAIN m : m[l] \in 1..Newest /\ m[l] # Newest
        BY <3>2, MatchShape, OutputNodes DEF Range, Newest
      <4>2. \A l \in DOMAIN m : m[l] <= SeenLength
        BY <2>2, <2>3, <4>1
      <4> QED
        BY <4>2 DEF DoneInv
    <3> QED
      BY <3>1, <3>2
  <2> QED
    BY <2>1, <2>4, <2>5, ConsumedStays
<1>4. CASE Close
  <2>1. SeenLength' = SeenLength /\ stream' = stream
    BY <1>4 DEF Close, SeenLength
  <2>2. \A n : Added(n)' = Added(n)
    BY <1>4, AddedSame DEF Close
  <2>3. \A n \in OutputNode : \A m : Consumed(n, m) => Consumed(n, m)'
    BY <2>1, <2>2, ConsumedStays
  <2> QED
    BY <2>1, <2>3 DEF DoneInv, PartialMatch, MatchesOf, IsPartialMatch, FreeBelow
<1>5. ASSUME NEW l \in Leaf, HandleEvent(l)
      PROVE  DoneInv'
  BY <1>1, <1>5, AddedHandleEvent DEF HandleEvent
<1>6. ASSUME NEW l \in Leaf, IgnoreEvent(l) \/ RejectEvent(l)
      PROVE  DoneInv'
  <2>1. UNCHANGED <<stream, phase, stack, unreported, matches>>
    BY <1>6 DEF IgnoreEvent, RejectEvent
  <2> QED
    BY <1>1, <2>1, AddedSame
<1>7. CASE HandleNewPartialMatch
  <2>1. PICK p, rest, join : Notifies(p, rest, join)
    BY <1>7, NotifyStep
  <2> QED
    BY <1>1, <2>1, AddedNotify DEF Notifies
<1>8. CASE CreateMatch
  <2>1. PICK c, pm, rest, add : Accepts(c, pm, rest, add)
    BY <1>8, AcceptStep
  <2>2. stream' = stream /\ phase' = phase
    BY <2>1 DEF Accepts
  <2>3. \A n \in OutputNode : Added(n) \subseteq Added(n)'
    BY <2>1, AddedAccept
  <2> QED
    BY <1>1, <2>2, <2>3
<1>9. CASE RejectCandidate
  <2>1. PICK c, rest : Rejects(c, rest)
    BY <1>9, RejectStep
  <2>2. stream' = stream /\ phase' = phase
    BY <2>1 DEF Rejects
  <2>3. \A n \in OutputNode : Added(n)' = Added(n)
    BY <2>1, AddedReject
  <2> QED
    BY <1>1, <2>2, <2>3
<1>10. CASE FinishAdd \/ FinishJoin
  BY <1>1, <1>10, AddedEnd, EndStep
<1>11. ASSUME NEW n \in OutputNode, ReportMatch(n)
      PROVE  DoneInv'
  BY <1>1, <1>11, AddedReport DEF ReportMatch
<1>12. CASE UNCHANGED vars
  <2>1. UNCHANGED <<stream, phase, stack, unreported, matches>>
    BY <1>12 DEF vars
  <2> QED
    BY <1>1, <2>1, AddedSame
<1> QED
  BY <1>2, <1>3, <1>4, <1>5, <1>6, <1>7, <1>8, <1>9, <1>10, <1>11, <1>12 DEF Next, Step

\* Reports are attached when they are made, by stamps that do not change.
LEMMA AttachedNext ==
    ASSUME IInv, IInv', AttachedInv, [Next]_vars
    PROVE  AttachedInv'
<1>1. ASSUME UNCHANGED <<stream, matches>>
      PROVE  AttachedInv'
  BY <1>1 DEF AttachedInv, PatternIds, WithinWindow
<1>2. CASE ReadEvent
  <2>1. PICK e \in Event : stream' = Append(stream, e) /\ matches' = matches
    BY <1>2, NewEvent
  <2> SUFFICES ASSUME NEW i \in DOMAIN matches
               PROVE  PatternIds(matches[i].node, matches[i].pm)'
                        = PatternIds(matches[i].node, matches[i].pm)
    BY <2>1 DEF AttachedInv
  <2>2. matches[i] \in Range(matches)
    BY DEF Range
  <2> PICK m : m = matches[i].pm
    OBVIOUS
  <2>3. Range(m) \subseteq 1..Len(stream)
    BY <2>2, Typed, MatchShape
  <2>4. \A l \in DOMAIN m : m[l] \in 1..Len(stream)
    BY <2>3 DEF Range
  <2>5. \A k \in 1..Len(stream) : stream'[k] = stream[k]
    BY <2>1, Typed, AppendProperties
  <2>6. \A w : WithinWindow(stream', m, w) <=> WithinWindow(stream, m, w)
    BY <2>4, <2>5 DEF WithinWindow
  <2> QED
    BY <2>1, <2>6 DEF PatternIds
<1>3. ASSUME NEW n \in OutputNode, ReportMatch(n)
      PROVE  AttachedInv'
  <2>1. PICK pm, report :
              /\ phase = "playing" /\ playing = {} /\ stack = <<>>
              /\ unreported[n] # <<>> /\ pm = Head(unreported[n])
              /\ report = [pm |-> pm, node |-> n, ids |-> PatternIds(n, pm)]
              /\ report \in SoundReport(stream)
              /\ pm \in Range(unreported[n]) /\ pm \in PartialMatch(stream)
              /\ IsPartialMatch(stream, n, pm)
              /\ matches' = Append(matches, report)
              /\ freezers' = IF FreezeMap = {} THEN freezers ELSE freezers \ Range(pm)
              /\ unreported' = [unreported EXCEPT ![n] = Tail(@)]
              /\ UNCHANGED <<stream, phase, playing, stack, store, access, filtered>>
    BY <1>3, ReportStep
  <2>2. /\ DOMAIN matches' = 1..Len(matches) + 1
        /\ \A i \in 1..Len(matches) : matches'[i] = matches[i]
        /\ matches'[Len(matches) + 1] = report
        /\ DOMAIN matches = 1..Len(matches) /\ Len(matches) \in Nat
    BY <2>1, Typed, AppendProperties, LenProperties
  <2>3. \A k, m : PatternIds(k, m)' = PatternIds(k, m)
    BY <2>1 DEF PatternIds, WithinWindow
  <2>4. report.ids = PatternIds(report.node, report.pm)
    BY <2>1
  <2> SUFFICES ASSUME NEW i \in DOMAIN matches'
               PROVE  matches'[i].ids = PatternIds(matches'[i].node, matches'[i].pm)
    BY <2>3 DEF AttachedInv
  <2>5. i \in 1..Len(matches) \/ i = Len(matches) + 1
    BY <2>2
  <2> QED
    BY <2>2, <2>4, <2>5 DEF AttachedInv
<1> QED
  <2>1. CASE \E l \in Leaf : IgnoreEvent(l) \/ HandleEvent(l) \/ RejectEvent(l)
    BY <1>1, <2>1 DEF IgnoreEvent, HandleEvent, RejectEvent
  <2>2. CASE HandleNewPartialMatch \/ FinishAdd \/ CreateMatch \/ RejectCandidate \/ FinishJoin
    BY <1>1, <2>2
       DEF HandleNewPartialMatch, FinishAdd, CreateMatch, RejectCandidate, FinishJoin
  <2>3. CASE FinishEvent \/ Close \/ UNCHANGED vars
    BY <1>1, <2>3 DEF FinishEvent, Close, vars
  <2> QED
    BY <1>2, <1>3, <2>1, <2>2, <2>3 DEF Next, Step

\* Before the first event there is nothing to match.
LEMMA OutInit ==
    ASSUME Init
    PROVE  UsedInv /\ OutInv /\ DoneInv /\ AttachedInv
<1>1. stream = <<>> /\ Len(stream) = 0 /\ matches = <<>>
  BY DEF Init
<1>2. ASSUME NEW n \in OutputNode, NEW m
      PROVE  ~ IsPartialMatch(stream, n, m)
  <2>1. n \in Node
    BY OutputNodes
  <2> SUFFICES ASSUME IsPartialMatch(stream, n, m)
               PROVE  FALSE
    OBVIOUS
  <2>2. m \in [LeavesOf(n) -> 1..Len(stream)] /\ DOMAIN m # {}
    BY <2>1, MatchShape
  <2>3. PICK l : l \in LeavesOf(n)
    BY <2>2
  <2> QED
    BY <1>1, <2>2, <2>3
<1>3. UsedInv
  BY OutputNodes DEF Init, UsedInv
<1>4. OutInv /\ DoneInv
  BY <1>2 DEF OutInv, DoneInv
<1>5. AttachedInv
  BY <1>1 DEF AttachedInv
<1> QED
  BY <1>3, <1>4, <1>5

\* They hold throughout.
LEMMA OutInvariance ==
    ASSUME Aligned, FreezeMap = {}
    PROVE  Spec => [](IInv /\ NewestInv /\ OutInv /\ DoneInv /\ AttachedInv)
<1>1. Init => UsedInv /\ OutInv /\ DoneInv /\ AttachedInv
  BY OutInit
<1>2. /\ IInv /\ IInv' /\ NewestInv /\ NewestInv' /\ CoverInv
      /\ UsedInv /\ OutInv /\ DoneInv /\ AttachedInv /\ [Next]_vars
      => UsedInv' /\ OutInv' /\ DoneInv' /\ AttachedInv'
  BY UsedNext, OutNext, DoneNext, AttachedNext
<1>3. Spec => [](IInv /\ NewestInv /\ CoverInv)
  BY CoverInvariance
<1> QED
  BY <1>1, <1>2, <1>3, PTL DEF Spec

-----------------------------------------------------------------------------
(* Refinement of the pattern semantics *)

\* A combination that satisfies pattern p passes the checks of its tree, which
\* makes none the pattern does not ask for.
LEMMA MatchIsPartial ==
    ASSUME NEW s \in Seq(Event), NEW p \in Pattern, FollowsPattern(p),
           NEW m \in [LeavesOf(Root[p]) -> 1..Len(s)], Sem!IsMatch(s, p, m)
    PROVE  IsPartialMatch(s, Root[p], m) /\ WithinWindow(s, m, PatternWindow[p])
<1> DEFINE n == Root[p]
<1>1. n \in Node
  BY NodeAssumption
<1>2. /\ \A l \in DOMAIN m : s[m[l]].type = TypeOf[l]
      /\ IsInjective(m)
      /\ WithinWindow(s, m, PatternWindow[p])
      /\ \A o \in Precedes[p] : s[m[o[1]]].ts <= s[m[o[2]]].ts
      /\ \A a \in Condition[p] : Satisfies(s, m, a)
  BY DEF Sem!IsMatch, Sem!BruteForceMatch, Sem!IsInjective, IsInjective, Sem!WithinWindow, WithinWindow,
         Sem!Satisfies, Satisfies
<1>3. ASSUME NEW k \in Subtree[n]
      PROVE  Valid(s, k, Restrict(m, LeavesOf(k)))
  <2> DEFINE r == Restrict(m, LeavesOf(k))
  <2>1. k \in Node /\ LeavesOf(k) \subseteq LeavesOf(n)
    BY <1>1, LeavesBelow
  <2>2. DOMAIN r = LeavesOf(k) /\ \A l \in LeavesOf(k) : r[l] = m[l] /\ l \in DOMAIN m
    BY <2>1 DEF Restrict
  <2>3. \A l \in LeavesOf(k) : r[l] \in 1..Len(s) /\ s[r[l]].ts \in Nat
    <3>1. ASSUME NEW e \in 1..Len(s)
          PROVE  s[e].ts \in Nat
      <4>1. s[e] \in Event
        BY ElementOfSeq
      <4> QED
        BY <4>1 DEF Event
    <3> QED
      BY <2>1, <2>2, <3>1
  <2>4. ASSUME k \in Inner, Operator[k] = "SEQ"
        PROVE  InOrder(s, k, r)
    <3> SUFFICES ASSUME NEW i \in DOMAIN EventDefs[k], NEW j \in DOMAIN EventDefs[k], i < j
                 PROVE  s[r[EventDefs[k][i]]].ts <= s[r[EventDefs[k][j]]].ts
      BY DEF InOrder
    <3>1. EventDefs[k][i] \in LeavesOf(k) /\ EventDefs[k][j] \in LeavesOf(k)
      BY <2>1, EventDefsAssumption DEF Range
    <3>2. <<EventDefs[k][i], EventDefs[k][j]>> \in Precedes[p]
      BY <2>4 DEF FollowsPattern
    <3>3. s[m[EventDefs[k][i]]].ts <= s[m[EventDefs[k][j]]].ts
      BY <1>2, <3>2
    <3> QED
      BY <2>2, <3>1, <3>3
  <2>5. WithinWindow(s, r, Window[k])
    <3>1. PatternWindow[p] <= Window[k] /\ PatternWindow[p] \in Nat /\ Window[k] \in Nat
      <4>1. IsNodeWindow(k, Window[k]) /\ PatternWindow[p] \in Nat /\ Window[k] \in Nat
        BY <2>1, NodeAssumption
      <4> QED
        BY <4>1 DEF IsNodeWindow, PatternsOver
    <3> SUFFICES ASSUME NEW x \in LeavesOf(k), NEW y \in LeavesOf(k)
                 PROVE  s[r[x]].ts - s[r[y]].ts <= Window[k]
      BY <2>2 DEF WithinWindow
    <3>2. s[r[x]].ts - s[r[y]].ts <= PatternWindow[p]
      BY <1>2, <2>2 DEF WithinWindow
    <3>3. s[r[x]].ts \in Nat /\ s[r[y]].ts \in Nat
      BY <2>3
    <3> QED
      BY <3>1, <3>2, <3>3
  <2>6. IsInjective(r)
    BY <1>2, <2>2 DEF IsInjective
  <2>7. ASSUME NEW a \in NodeCondition(k)
        PROVE  Satisfies(s, r, a)
    <3>1. a.on \subseteq LeavesOf(k) /\ \E q \in PatternsOver(k) : a \in Condition[q]
      BY DEF NodeCondition
    <3>2. p \in PatternsOver(k)
      BY DEF PatternsOver
    <3>3. a \in Condition[p]
      BY <2>1, <3>1, <3>2, SharingAssumption
    <3>4. [l \in a.on |-> s[r[l]].val] = [l \in a.on |-> s[m[l]].val]
      BY <2>2, <3>1
    <3> QED
      BY <1>2, <3>3, <3>4 DEF Satisfies
  <2> QED
    BY <2>4, <2>5, <2>6, <2>7 DEF Valid
<1>4. m \in MatchesOf(s, n) /\ DOMAIN m = LeavesOf(n)
  BY DEF MatchesOf
<1> QED
  BY <1>2, <1>3, <1>4 DEF IsPartialMatch

\* What Reported holds.
LEMMA ReportedIs ==
    \A p \in Pattern : \A m :
        m \in Reported[p] <=>
            \E i \in DOMAIN matches :
                /\ p \in matches[i].ids /\ matches[i].pm = m
                /\ \A l \in DOMAIN m : m[l] <= SeenLength
<1> SUFFICES ASSUME NEW p \in Pattern, NEW m
             PROVE  m \in Reported[p] <=>
                        \E i \in DOMAIN matches :
                            /\ p \in matches[i].ids /\ matches[i].pm = m
                            /\ \A l \in DOMAIN m : m[l] <= SeenLength
  OBVIOUS
<1>1. Reported[p] = {matches[i].pm : i \in {j \in DOMAIN matches :
                        /\ p \in matches[j].ids
                        /\ \A l \in DOMAIN matches[j].pm : matches[j].pm[l] <= SeenLength}}
  BY DEF Reported
<1> QED
  BY <1>1

\* The same after a step.
LEMMA ReportedIsNext ==
    (\A p \in Pattern : \A m :
        m \in Reported[p] <=>
            \E i \in DOMAIN matches :
                /\ p \in matches[i].ids /\ matches[i].pm = m
                /\ \A l \in DOMAIN m : m[l] <= SeenLength)'
BY ReportedIs, PTL

\* When the tree is at rest with empty queues, what was added was reported.
LEMMA AddedReported ==
    ASSUME IInv, AttachedInv, stack = <<>>, NEW n \in OutputNode, unreported[n] = <<>>,
           NEW z \in Added(n)
    PROVE  \E i \in DOMAIN matches :
              matches[i].node = n /\ matches[i].pm = z /\ matches[i].ids = PatternIds(n, z)
<1>1. All(Adding(n), stack) = {} /\ All(Queued(n), unreported[n]) = {}
  BY AllOne
<1>2. z \in All(Delivered(n), matches)
  BY <1>1 DEF Added
<1>3. PICK i \in DOMAIN matches : z \in Delivered(n)[matches[i]]
  BY <1>2 DEF All
<1>4. matches[i] \in SoundReport(stream)
  BY Typed, ElementOfSeq, LenProperties
<1>5. matches[i].node = n /\ matches[i].pm = z
  <2> PICK r : r = matches[i]
    OBVIOUS
  <2>1. Delivered(n)[r] = IF r.node = n THEN {r.pm} ELSE {}
    BY <1>4, DeliveredOf
  <2>2. z \in IF r.node = n THEN {r.pm} ELSE {}
    BY <1>3, <2>1
  <2> QED
    BY <2>2
<1> QED
  BY <1>5 DEF AttachedInv

\* A report is a match of every pattern it is attached to.
LEMMA ReportMatches ==
    ASSUME IInv, NEW p \in Pattern, OrdersPattern(p), NEW i \in DOMAIN matches,
           p \in matches[i].ids
    PROVE  matches[i].pm \in Sem!Matches(stream, p)
<1>1. matches[i] \in SoundReport(stream)
  BY Typed, ElementOfSeq, LenProperties
<1>2. /\ IsPartialMatch(stream, Root[p], matches[i].pm)
      /\ WithinWindow(stream, matches[i].pm, PatternWindow[p])
  BY <1>1 DEF SoundReport, Report
<1>3. Sem!IsMatch(stream, p, matches[i].pm)
  BY <1>2, SoundMatchSatisfies
<1> QED
  BY <1>2, <1>3 DEF Sem!Matches, IsPartialMatch, MatchesOf, Sem!LeavesOf, LeavesOf

\* Of a report, the abstract system has seen all but the newest event.
LEMMA ReportSeen ==
    ASSUME IInv, NewestInv, NEW i \in DOMAIN matches
    PROVE  /\ DOMAIN matches[i].pm # {}
           /\ \A l \in DOMAIN matches[i].pm : matches[i].pm[l] \in 1..Newest
<1>1. matches[i] \in Range(matches)
  BY DEF Range
<1>2. /\ matches[i].node \in Node
      /\ IsPartialMatch(stream, matches[i].node, matches[i].pm)
  BY <1>1, Typed
<1>3. /\ matches[i].pm \in [LeavesOf(matches[i].node) -> 1..Newest]
      /\ DOMAIN matches[i].pm # {}
  BY <1>2, MatchShape DEF Newest
<1> QED
  BY <1>3

\* What the abstract system has seen.
LEMMA SeenIs ==
    ASSUME stream \in Seq(Event)
    PROVE  /\ phase # "playing" => Seen = stream /\ SeenLength = Newest
           /\ phase = "playing" => Seen = SubSeq(stream, 1, Newest - 1)
                                   /\ SeenLength = Newest - 1
           /\ Newest \in Nat
<1>1. SubSeq(stream, 1, Len(stream)) = stream
  BY SubSeqProperties, LenProperties
<1> QED
  BY <1>1, LenProperties DEF Seen, SeenLength, Newest

\* Nothing has been reported before the first event.
LEMMA SemanticsInit ==
    ASSUME Init
    PROVE  Sem!SemInit
<1>1. Seen = <<>>
  BY DEF Init, Seen, SeenLength
<1>2. \A p \in Pattern : Reported[p] = {}
  BY ReportedIs DEF Init
<1>3. Reported = [p \in Pattern |-> {}]
  BY <1>2 DEF Reported
<1> QED
  BY <1>1, <1>3 DEF Sem!SemInit

\* Reading an event evaluates it if no leaf listens to it, and is a stutter
\* otherwise.
LEMMA SemanticsReadEvent ==
    ASSUME IInv, IInv', NewestInv, ReadEvent
    PROVE  Sem!SemNext \/ UNCHANGED Sem!semVars
<1>1. PICK e \in Event :
              /\ stream' = Append(stream, e)
              /\ Newest' = Newest + 1 /\ Newest \in Nat
              /\ \A i \in 1..Newest : stream'[i] = stream[i]
              /\ stream'[Newest + 1] = e /\ Now' = e
              /\ stream # <<>> => Now.ts <= e.ts
              /\ \/ SkipEvent(e) /\ phase' = "idle" /\ playing' = {}
                 \/ AcceptEvent(e) /\ phase' = "playing"
              /\ \A l \in Leaf : TypeOf[l] = e.type => l \in playing'
              /\ phase = "idle" /\ stack = <<>> /\ stack' = <<>> /\ playing = {}
              /\ UNCHANGED <<stack, store, access, filtered, unreported, matches>>
  BY NewEvent
<1>2. stream \in Seq(Event) /\ stream' \in Seq(Event) /\ Len(stream') = Len(stream) + 1
  BY <1>1, Typed, AppendProperties
<1>3. Seen = stream /\ SeenLength = Newest /\ Newest \in Nat
  BY <1>1, <1>2, SeenIs
<1>4. SeenLength' = Newest \/ SeenLength' = Newest + 1
  BY <1>1, <1>2 DEF SeenLength, Newest
<1>5. Reported' = Reported
  <2>1. \A i \in DOMAIN matches : \A l \in DOMAIN matches[i].pm :
            matches[i].pm[l] <= SeenLength /\ matches[i].pm[l] <= SeenLength'
    BY <1>3, <1>4, ReportSeen
  <2>2. \A p \in Pattern : \A m : m \in Reported'[p] <=> m \in Reported[p]
    BY <1>1, <2>1, ReportedIs, ReportedIsNext
  <2> QED
    BY <2>2 DEF Reported
<1>6. CASE SkipEvent(e) /\ phase' = "idle"
  <2>1. Seen' = Append(Seen, e)
    <3>1. SubSeq(stream', 1, Len(stream')) = stream'
      BY <1>2, SubSeqProperties, LenProperties
    <3> QED
      BY <1>1, <1>3, <1>6, <3>1 DEF Seen, SeenLength
  <2>2. ASSUME NEW p \in Pattern, NEW m \in Sem!Matches(Seen', p)
        PROVE  Len(Seen') \notin Range(m)
    <3>1. Seen' = stream' /\ Len(Seen') = Newest + 1 /\ stream'[Newest + 1] = e
      BY <1>1, <1>2, <1>3, <2>1 DEF Newest
    <3>2. DOMAIN m \subseteq Leaf /\ \A l \in DOMAIN m : Seen'[m[l]].type = TypeOf[l]
      BY <2>2 DEF Sem!Matches, Sem!IsMatch, Sem!BruteForceMatch, Sem!LeavesOf
    <3> SUFFICES ASSUME NEW l \in DOMAIN m, m[l] = Newest + 1
                 PROVE  FALSE
      BY <3>1 DEF Range
    <3>3. l \in Listeners(e.type)
      BY <3>1, <3>2 DEF Listeners
    <3> QED
      BY <1>6, <3>3 DEF SkipEvent
  <2>3. Reported' = [p \in Pattern |->
                        Reported[p] \cup
                            {m \in Sem!Matches(Seen', p) : Len(Seen') \in Sem!Range(m)}]
    <3>1. \A p \in Pattern :
            {m \in Sem!Matches(Seen', p) : Len(Seen') \in Sem!Range(m)} = {}
      BY <2>2 DEF Range, Sem!Range
    <3>2. Reported = [p \in Pattern |-> Reported[p]]
      BY DEF Reported
    <3> QED
      BY <1>5, <3>1, <3>2
  <2>4. Sem!Evaluate(e)
    BY <2>1, <2>3 DEF Sem!Evaluate
  <2>5. e \in Sem!Range(Seen') /\ e \in Sem!Event
    <3>1. e = Seen'[Len(Seen')] /\ Len(Seen') \in DOMAIN Seen'
      BY <1>2, <1>3, <2>1, AppendProperties
    <3> QED
      BY <3>1 DEF Sem!Range, Sem!Event, Event
  <2> QED
    BY <2>4, <2>5 DEF Sem!SemNext
<1>7. CASE AcceptEvent(e) /\ phase' = "playing"
  <2>1. Seen' = SubSeq(stream', 1, Len(stream') - 1)
    BY <1>7 DEF Seen, SeenLength
  <2>2. SubSeq(stream', 1, Len(stream)) = stream
    BY <1>1, <1>2, SubSeqProperties, AppendProperties, LenProperties
  <2>3. Seen' = Seen
    BY <1>2, <1>3, <2>1, <2>2, LenProperties
  <2> QED
    BY <1>5, <2>3 DEF Sem!semVars
<1> QED
  BY <1>1, <1>6, <1>7

\* When no policy limits it, a full match that is consumed has been added.
LEMMA ConsumedAdded ==
    ASSUME NEW n \in Node, SingleTypesOf(n) = {}, NEW m, Consumed(n, m)
    PROVE  m \in Added(n)
BY DEF Consumed, SingleEvents

\* At the end of an event its full matches have been consumed by reports.
LEMMA FinishConsumes ==
    ASSUME IInv, NewestInv, OutInv, FinishEvent, NEW n \in OutputNode, FreeBelow(n), NEW m,
           IsPartialMatch(stream, n, m), Newest \in Range(m)
    PROVE  Consumed(n, m)
<1>1. stack = <<>> /\ playing = {}
  BY DEF FinishEvent, Settled
<1>2. SeenMatch(m) /\ All(Ahead, stack) = {}
  BY <1>1, ApartEmpty DEF SeenMatch
<1>3. m \in PartialMatch(stream)
  BY OutputNodes, MatchShape
<1> QED
  BY <1>2, <1>3 DEF OutInv

\* The end of an event evaluates it.
LEMMA SemanticsFinishEvent ==
    ASSUME IInv, NewestInv, OutInv, AttachedInv, PlansPatterns,
           \A n \in Node : SingleTypesOf(n) = {}, FinishEvent
    PROVE  Sem!SemNext
<1>1. /\ phase = "playing" /\ phase' = "idle" /\ playing = {} /\ stack = <<>>
      /\ \A n \in OutputNode : unreported[n] = <<>>
      /\ stream' = stream /\ matches' = matches
  BY DEF FinishEvent, Settled
<1>2. /\ stream \in Seq(Event) /\ stream # <<>>
      /\ Newest \in Nat /\ Newest \in 1..Newest /\ Now \in Event /\ Now = stream[Newest]
  BY <1>1, InTree, Typed, LenProperties DEF Newest
<1>3. /\ SeenLength = Newest - 1 /\ SeenLength' = Newest
      /\ Seen = SubSeq(stream, 1, Newest - 1) /\ Seen' = stream
  BY <1>1, <1>2, SubSeqProperties DEF Seen, SeenLength, Newest
<1>4. Seen' = Append(Seen, Now)
  BY <1>2, <1>3, LastApart DEF Now, Newest
<1>5. Now \in Sem!Range(Seen') /\ Now \in Sem!Event
  <2>1. Newest \in DOMAIN stream
    BY <1>2, LenProperties DEF Newest
  <2> QED
    BY <1>2, <1>3, <2>1 DEF Sem!Range, Sem!Event, Event
<1>6. ASSUME NEW p \in Pattern, NEW m
      PROVE  m \in Reported'[p] <=>
                \/ m \in Reported[p]
                \/ m \in Sem!Matches(Seen', p) /\ Len(Seen') \in Sem!Range(m)
  <2>1. Len(Seen') = Newest
    BY <1>3 DEF Newest
  <2>2. ASSUME m \in Reported'[p], m \notin Reported[p]
        PROVE  m \in Sem!Matches(Seen', p) /\ Len(Seen') \in Sem!Range(m)
    <3>1. PICK i \in DOMAIN matches : p \in matches[i].ids /\ matches[i].pm = m
      BY <1>1, <2>2, ReportedIsNext
    <3>2. PICK l \in DOMAIN m : ~ (m[l] <= Newest - 1)
      BY <1>3, <2>2, <3>1, ReportedIs
    <3>3. m[l] \in 1..Newest
      BY <3>1, ReportSeen
    <3>4. m[l] = Newest
      BY <1>2, <3>2, <3>3
    <3>5. m \in Sem!Matches(stream, p)
      BY <3>1, ReportMatches DEF PlansPatterns
    <3> QED
      BY <1>3, <2>1, <3>4, <3>5 DEF Sem!Range
  <2>3. ASSUME m \in Reported[p]
        PROVE  m \in Reported'[p]
    <3>1. PICK i \in DOMAIN matches : p \in matches[i].ids /\ matches[i].pm = m
      BY <2>3, ReportedIs
    <3>2. \A l \in DOMAIN m : m[l] \in 1..Newest
      BY <3>1, ReportSeen
    <3>3. \A l \in DOMAIN m : m[l] <= SeenLength'
      BY <1>2, <1>3, <3>2
    <3> QED
      BY <1>1, <3>1, <3>3, ReportedIsNext
  <2>4. ASSUME m \in Sem!Matches(Seen', p), Len(Seen') \in Sem!Range(m)
        PROVE  m \in Reported'[p]
    <3> PICK n \in OutputNode : n = Root[p]
      BY NodeAssumption DEF OutputNode, Range
    <3>1. n \in Node
      BY OutputNodes
    <3>2. m \in [LeavesOf(n) -> 1..Len(stream)] /\ Sem!IsMatch(stream, p, m)
      BY <1>3, <2>4 DEF Sem!Matches, Sem!LeavesOf, LeavesOf
    <3>3. IsPartialMatch(stream, n, m) /\ WithinWindow(stream, m, PatternWindow[p])
      BY <1>2, <3>2, MatchIsPartial DEF PlansPatterns
    <3>4. Newest \in Range(m)
      BY <2>1, <2>4 DEF Sem!Range, Range
    <3>5. FreeBelow(n)
      BY <3>1, Below DEF FreeBelow
    <3>6. m \in Added(n)
      BY <3>1, <3>3, <3>4, <3>5, FinishConsumes, ConsumedAdded
    <3>7. PICK i \in DOMAIN matches : matches[i].pm = m /\ matches[i].ids = PatternIds(n, m)
      BY <1>1, <3>6, AddedReported
    <3>8. p \in matches[i].ids
      BY <3>3, <3>7 DEF PatternIds
    <3>9. \A l \in DOMAIN m : m[l] <= SeenLength'
      BY <1>2, <1>3, <3>2 DEF Newest
    <3> QED
      BY <1>1, <3>7, <3>8, <3>9, ReportedIsNext
  <2> QED
    BY <2>2, <2>3, <2>4
<1>7. Reported' = [p \in Pattern |->
                        Reported[p] \cup
                            {m \in Sem!Matches(Seen', p) : Len(Seen') \in Sem!Range(m)}]
  <2> DEFINE new == [p \in Pattern |->
                        Reported[p] \cup
                            {m \in Sem!Matches(Seen', p) : Len(Seen') \in Sem!Range(m)}]
  <2>1. ASSUME NEW p \in Pattern
        PROVE  Reported'[p] = new[p]
    BY <1>6
  <2>2. Reported' = [p \in Pattern |-> Reported'[p]]
    BY DEF Reported
  <2> QED
    BY <2>1, <2>2
<1>8. Sem!Evaluate(Now)
  BY <1>4, <1>7 DEF Sem!Evaluate
<1> QED
  BY <1>5, <1>8 DEF Sem!SemNext

\* A report of the event still in the tree is not for the abstract system yet.
LEMMA SemanticsReportMatch ==
    ASSUME IInv, NewestInv, NEW n \in OutputNode, ReportMatch(n)
    PROVE  UNCHANGED Sem!semVars
<1>1. PICK pm, report :
              /\ phase = "playing" /\ playing = {} /\ stack = <<>>
              /\ unreported[n] # <<>> /\ pm = Head(unreported[n])
              /\ report = [pm |-> pm, node |-> n, ids |-> PatternIds(n, pm)]
              /\ report \in SoundReport(stream)
              /\ pm \in Range(unreported[n]) /\ pm \in PartialMatch(stream)
              /\ IsPartialMatch(stream, n, pm)
              /\ matches' = Append(matches, report)
              /\ freezers' = IF FreezeMap = {} THEN freezers ELSE freezers \ Range(pm)
              /\ unreported' = [unreported EXCEPT ![n] = Tail(@)]
              /\ UNCHANGED <<stream, phase, playing, stack, store, access, filtered>>
  BY ReportStep
<1>2. Seen' = Seen /\ SeenLength' = SeenLength
  BY <1>1 DEF Seen, SeenLength
<1>3. SeenLength = Newest - 1 /\ Newest \in Nat
  BY <1>1, Typed, SeenIs
<1>4. Newest \in Range(pm)
  BY <1>1 DEF NewestInv, OutputNewest
<1>5. PICK l \in DOMAIN pm : ~ (pm[l] <= SeenLength)
  BY <1>3, <1>4 DEF Range
<1>6. /\ DOMAIN matches' = 1..Len(matches) + 1
      /\ \A i \in 1..Len(matches) : matches'[i] = matches[i]
      /\ matches'[Len(matches) + 1].pm = pm
      /\ DOMAIN matches = 1..Len(matches) /\ Len(matches) \in Nat
  BY <1>1, Typed, AppendProperties, LenProperties
<1>7. \A p \in Pattern : \A m : m \in Reported'[p] <=> m \in Reported[p]
  BY <1>2, <1>5, <1>6, ReportedIs, ReportedIsNext
<1>8. Reported' = Reported
  BY <1>7 DEF Reported
<1> QED
  BY <1>2, <1>8 DEF Sem!semVars

\* Every other step changes nothing the abstract system sees.
LEMMA SemanticsStutter ==
    ASSUME stream' = stream, matches' = matches,
           phase' = phase \/ (phase = "idle" /\ phase' = "closed")
    PROVE  UNCHANGED Sem!semVars
<1>1. SeenLength' = SeenLength
  BY DEF SeenLength
<1>2. Seen' = Seen
  BY <1>1 DEF Seen
<1>3. Reported' = Reported
  BY <1>1 DEF Reported
<1> QED
  BY <1>2, <1>3 DEF Sem!semVars

\* Every step of the tree evaluates an event or changes nothing the abstract
\* system sees.
LEMMA SemanticsNext ==
    ASSUME IInv, IInv', NewestInv, OutInv, AttachedInv, PlansPatterns,
           \A n \in Node : SingleTypesOf(n) = {}, [Next]_vars
    PROVE  [Sem!SemNext]_(Sem!semVars)
<1>1. CASE ReadEvent
  BY <1>1, SemanticsReadEvent
<1>2. CASE FinishEvent
  BY <1>2, SemanticsFinishEvent
<1>3. ASSUME NEW n \in OutputNode, ReportMatch(n)
      PROVE  UNCHANGED Sem!semVars
  BY <1>3, SemanticsReportMatch
<1>4. ASSUME stream' = stream, matches' = matches,
             phase' = phase \/ (phase = "idle" /\ phase' = "closed")
      PROVE  UNCHANGED Sem!semVars
  BY <1>4, SemanticsStutter
<1>5. CASE \E l \in Leaf : IgnoreEvent(l) \/ HandleEvent(l) \/ RejectEvent(l)
  BY <1>4, <1>5 DEF IgnoreEvent, HandleEvent, RejectEvent
<1>6. CASE HandleNewPartialMatch \/ FinishAdd \/ CreateMatch \/ RejectCandidate \/ FinishJoin
  BY <1>4, <1>6
     DEF HandleNewPartialMatch, FinishAdd, CreateMatch, RejectCandidate, FinishJoin
<1>7. CASE Close \/ UNCHANGED vars
  BY <1>4, <1>7 DEF Close, vars
<1> QED
  BY <1>1, <1>2, <1>3, <1>5, <1>6, <1>7 DEF Next, Step

\* The tree implements the semantics of the patterns it is planned for: with
\* every event it finishes it has reported, for each pattern, exactly the
\* combinations that the event completes.
THEOREM ImplementsSemantics ==
    ASSUME Aligned, FreezeMap = {}, Strategy = "any", PlansPatterns
    PROVE  Spec => RefinesSemantics
<1>1. Init => Sem!SemInit
  BY SemanticsInit
<1>2. /\ IInv /\ IInv' /\ NewestInv /\ OutInv /\ AttachedInv /\ [Next]_vars
      => [Sem!SemNext]_(Sem!semVars)
  BY AnyIsFree, SemanticsNext
<1>3. Spec => [](IInv /\ NewestInv /\ OutInv /\ DoneInv /\ AttachedInv)
  BY OutInvariance
<1> QED
  BY <1>1, <1>2, <1>3, PTL DEF Spec, RefinesSemantics, Sem!SemSpec

\* A consumption policy stops only matches whose events are used up: between two
\* events each combination that satisfies a pattern has been reported, or a
\* reported match uses an event of it.
THEOREM RejectsWithReason ==
    ASSUME Aligned, FreezeMap = {}, Strategy # "next", PlansPatterns
    PROVE  Spec => []SingleMaximal
<1>1. ASSUME IInv, NewestInv, DoneInv, AttachedInv
      PROVE  SingleMaximal
  <2> SUFFICES ASSUME phase = "idle", NEW p \in Pattern, NEW m \in Sem!Matches(stream, p)
               PROVE  \/ m \in Reported[p]
                      \/ \E r \in Reported[p] : SingleIn(m) \cap SingleIn(r) # {}
    BY DEF SingleMaximal
  <2> PICK n \in OutputNode : n = Root[p]
    BY NodeAssumption DEF OutputNode, Range
  <2>1. n \in Node /\ stream \in Seq(Event) /\ stack = <<>>
    BY <1>1, OutputNodes, Typed
  <2>2. m \in [LeavesOf(n) -> 1..Len(stream)] /\ Sem!IsMatch(stream, p, m)
    BY DEF Sem!Matches, Sem!LeavesOf, LeavesOf
  <2>3. IsPartialMatch(stream, n, m) /\ WithinWindow(stream, m, PatternWindow[p])
    BY <2>1, <2>2, MatchIsPartial DEF PlansPatterns
  <2>4. ASSUME Strategy = "single"
        PROVE  Pattern = {p} /\ OutputNode = {n}
    <3>1. PICK q \in Pattern : Pattern = {q}
      BY <2>4, StrategyAssumption
    <3>2. Pattern = {p} /\ DOMAIN Root = Pattern
      BY <3>1, NodeAssumption
    <3> QED
      BY <3>2 DEF OutputNode, Range
  <2>5. Strategy = "any" \/ Strategy = "single"
    BY StrategyAssumption
  <2>6. FreeBelow(n)
    <3>1. CASE Strategy = "any"
      BY <2>1, <3>1, AnyIsFree, Below DEF FreeBelow
    <3>2. CASE Strategy = "single"
      BY <2>4, <3>2 DEF FreeBelow, SingleTypesOf
    <3> QED
      BY <2>5, <3>1, <3>2
  <2>7. SeenLength = Len(stream) /\ Len(stream) \in Nat
    BY <2>1, LenProperties DEF SeenLength
  <2>8. \A l \in DOMAIN m : m[l] <= SeenLength
    BY <2>2, <2>7
  <2>9. m \in PartialMatch(stream)
    BY <2>1, <2>3, MatchShape
  <2>10. Consumed(n, m)
    BY <1>1, <2>3, <2>6, <2>8, <2>9 DEF DoneInv
  <2>11. unreported[n] = <<>>
    BY <1>1 DEF NewestInv, OutputNewest
  <2>12. ASSUME NEW z \in Added(n), WithinWindow(stream, z, PatternWindow[p])
         PROVE  z \in Reported[p]
    <3>1. PICK i \in DOMAIN matches : matches[i].pm = z /\ matches[i].ids = PatternIds(n, z)
      BY <1>1, <2>1, <2>11, AddedReported
    <3>2. p \in matches[i].ids
      BY <2>12, <3>1 DEF PatternIds
    <3>3. \A l \in DOMAIN z : z[l] \in 1..Newest
      BY <1>1, <3>1, ReportSeen
    <3>4. \A l \in DOMAIN z : z[l] <= SeenLength
      BY <2>7, <3>3 DEF Newest
    <3> QED
      BY <3>1, <3>2, <3>4, ReportedIs
  <2>13. CASE m \in Added(n)
    BY <2>3, <2>12, <2>13
  <2>14. ASSUME NEW z \in Added(n), NEW e \in SingleEvents(n, m) \cap SingleEvents(n, z)
         PROVE  \E r \in Reported[p] : SingleIn(m) \cap SingleIn(r) # {}
    <3>1. SingleTypesOf(n) # {}
      BY DEF SingleEvents
    <3>2. Strategy = "single"
      BY <2>1, <2>5, <3>1, AnyIsFree
    <3>3. SingleTypesOf(n) = SingleType
      BY <3>1, <3>2 DEF SingleTypesOf
    <3>4. Window[n] = PatternWindow[p]
      <4>1. IsNodeWindow(n, Window[n])
        BY <2>1, NodeAssumption
      <4> QED
        BY <2>4, <3>2, <4>1 DEF IsNodeWindow, PatternsOver
    <3>5. IsPartialMatch(stream, n, z)
      BY <1>1, AddedSound
    <3>6. WithinWindow(stream, z, PatternWindow[p])
      BY <2>1, <3>4, <3>5, MatchShape
    <3>7. e \in SingleIn(m) /\ e \in SingleIn(z)
      BY <3>3 DEF SingleEvents, SingleIn
    <3> QED
      BY <2>12, <3>6, <3>7
  <2> QED
    BY <2>10, <2>13, <2>14 DEF Consumed
<1>2. Spec => [](IInv /\ NewestInv /\ OutInv /\ DoneInv /\ AttachedInv)
  BY OutInvariance
<1> QED
  BY <1>1, <1>2, PTL

-----------------------------------------------------------------------------
(* Consumption policies *)

\* Cleaning leaves live events in the filter.
LEMMA FilterKeeps ==
    ASSUME NEW ns, NEW n \in Node, NEW e \in filtered[n],
           stream[e].ts >= Now.ts - Window[n]
    PROVE  e \in CleanFiltered(ns, Now.ts)[n] /\ e \in CleanedFiltered(n, Now.ts)
BY DEF CleanFiltered, CleanedFiltered

\* FilterInv in a step that reads no event.
LEMMA FilterStep ==
    ASSUME FilterInv, stream' = stream,
           \A n \in Node : \A m \in Taken(n)' :
                m \in Taken(n) \/ SingleEvents(n, m) \subseteq filtered'[n],
           \A n \in Node : \A e \in filtered[n] :
                stream[e].ts >= Now.ts - Window[n] => e \in filtered'[n]
    PROVE  FilterInv'
<1>1. \A n, m : SingleEvents(n, m)' = SingleEvents(n, m)
  BY DEF SingleEvents
<1>2. Now' = Now
  BY DEF Now
<1> SUFFICES ASSUME NEW n \in Node, NEW m \in Taken(n)', NEW e \in SingleEvents(n, m),
                    stream[e].ts >= Now.ts - Window[n]
             PROVE  e \in filtered'[n]
  BY <1>1, <1>2 DEF FilterInv
<1>3. CASE m \in Taken(n)
  BY <1>3 DEF FilterInv
<1> QED
  BY <1>3

\* What a node has let pass stays as it was but for matches that are cleaned,
\* when nothing is added to it.
LEMMA TakenLess ==
    ASSUME NEW n \in Node, store'[n] \subseteq store[n],
           n \in OutputNode => Added(n)' = Added(n)
    PROVE  Taken(n)' \subseteq Taken(n)
<1>1. CASE n \in OutputNode
  BY <1>1 DEF Taken
<1>2. CASE n \notin OutputNode
  BY <1>2 DEF Taken
<1> QED
  BY <1>1, <1>2

\* FilterInv when nothing is added.
LEMMA FilterLess ==
    ASSUME FilterInv, stream' = stream,
           \A n \in Node : store'[n] \subseteq store[n],
           \A n \in OutputNode : Added(n)' = Added(n),
           \A n \in Node : \A e \in filtered[n] :
                stream[e].ts >= Now.ts - Window[n] => e \in filtered'[n]
    PROVE  FilterInv'
<1>1. \A n \in Node : Taken(n)' \subseteq Taken(n)
  BY TakenLess
<1> QED
  BY <1>1, FilterStep

\* FilterInv when node k adds match z.
LEMMA FilterMore ==
    ASSUME FilterInv, stream' = stream, NEW k, NEW z,
           \A n \in Node : store'[n] \subseteq store[n] \cup IF n = k THEN {z} ELSE {},
           \A n \in OutputNode : Added(n)' = Added(n) \cup IF n = k THEN {z} ELSE {},
           SingleEvents(k, z) \subseteq filtered'[k],
           \A n \in Node : \A e \in filtered[n] :
                stream[e].ts >= Now.ts - Window[n] => e \in filtered'[n]
    PROVE  FilterInv'
<1>1. ASSUME NEW n \in Node, NEW m \in Taken(n)'
      PROVE  m \in Taken(n) \/ SingleEvents(n, m) \subseteq filtered'[n]
  <2>1. CASE n = k
    <3>1. m \in Taken(n) \/ m = z
      <4>1. m \in store'[n] \/ (n \in OutputNode /\ m \in Added(n)')
        BY DEF Taken
      <4>2. CASE m \in store'[n]
        BY <2>1, <4>2 DEF Taken
      <4>3. CASE n \in OutputNode /\ m \in Added(n)'
        BY <2>1, <4>3 DEF Taken
      <4> QED
        BY <4>1, <4>2, <4>3
    <3> QED
      BY <2>1, <3>1
  <2>2. CASE n # k
    <3>1. store'[n] \subseteq store[n] /\ (n \in OutputNode => Added(n)' = Added(n))
      BY <2>2
    <3> QED
      BY <3>1, TakenLess
  <2> QED
    BY <2>1, <2>2
<1> QED
  BY <1>1, FilterStep

\* FilterInv is inductive.
LEMMA FilterNext ==
    ASSUME Aligned, IInv, IInv', NewestInv, FilterInv, [Next]_vars
    PROVE  FilterInv'
<1>1. CASE ReadEvent
  <2>1. PICK e \in Event :
              /\ stream' = Append(stream, e)
              /\ Newest' = Newest + 1 /\ Newest \in Nat
              /\ \A i \in 1..Newest : stream'[i] = stream[i]
              /\ stream'[Newest + 1] = e /\ Now' = e
              /\ stream # <<>> => Now.ts <= e.ts
              /\ \/ SkipEvent(e) /\ phase' = "idle" /\ playing' = {}
                 \/ AcceptEvent(e) /\ phase' = "playing"
              /\ \A l \in Leaf : TypeOf[l] = e.type => l \in playing'
              /\ phase = "idle" /\ stack = <<>> /\ stack' = <<>> /\ playing = {}
              /\ UNCHANGED <<stack, store, access, filtered, unreported, matches>>
    BY <1>1, NewEvent
  <2>2. \A n \in Node : Taken(n)' \subseteq Taken(n)
    BY <1>1, <2>1, AddedReadEvent, TakenLess
  <2> SUFFICES ASSUME NEW n \in Node, NEW m \in Taken(n), NEW i \in SingleEvents(n, m)',
                      stream'[i].ts >= Now'.ts - Window[n]
               PROVE  i \in filtered[n]
    BY <2>1, <2>2 DEF FilterInv
  <2>3. IsPartialMatch(stream, n, m)
    <3>1. CASE m \in store[n]
      BY <3>1, Typed
    <3>2. CASE n \in OutputNode /\ m \in Added(n)
      BY <3>2, AddedSound
    <3> QED
      BY <3>1, <3>2 DEF Taken
  <2>4. i \in Range(m) /\ Range(m) \subseteq 1..Newest
    BY <2>3, MatchShape DEF SingleEvents, Newest
  <2>5. stream'[i] = stream[i] /\ i \in SingleEvents(n, m)
    BY <2>1, <2>4 DEF SingleEvents
  <2>6. stream # <<>> /\ stream \in Seq(Event) /\ Newest \in 1..Newest /\ Now = stream[Newest]
    <3>1. Len(stream) \in Nat /\ i \in 1..Len(stream) /\ stream \in Seq(Event)
      BY <2>4, Typed, LenProperties DEF Newest
    <3> QED
      BY <3>1 DEF Newest, Now
  <2>7. Now.ts \in Nat /\ stream[i].ts \in Nat /\ e.ts \in Nat
    BY <2>4, <2>6, Stamps DEF Event
  <2>8. Window[n] \in Nat
    BY NodeAssumption
  <2>9. stream[i].ts >= Now.ts - Window[n]
    BY <2>1, <2>5, <2>6, <2>7, <2>8
  <2> QED
    BY <2>5, <2>9 DEF FilterInv
<1>2. ASSUME NEW l \in Leaf, HandleEvent(l)
      PROVE  FilterInv'
  <2> PICK lm : lm = LeafMatch(l)
    OBVIOUS
  <2>1. /\ stream' = stream
        /\ filtered' = [CleanFiltered({l}, Now.ts) EXCEPT ![l] = @ \cup SingleEvents(l, lm)]
        /\ store' = AddedTo(CleanStores({l}, Now.ts), l, lm)
    BY <1>2 DEF HandleEvent
  <2>2. /\ CleanFiltered({l}, Now.ts) \in [Node -> SUBSET (1..Len(stream))]
        /\ CleanStores({l}, Now.ts) \in [Node -> SUBSET PartialMatch(stream)]
        /\ l \in Node
    BY CleanProperties, LeafOfLeaf DEF IInv
  <2>3. \A n \in OutputNode : Added(n)' = Added(n) \cup IF n = l THEN {lm} ELSE {}
    BY <1>2, AddedHandleEvent
  <2>4. \A n \in Node : store'[n] \subseteq store[n] \cup IF n = l THEN {lm} ELSE {}
    <3>1. \A n \in Node :
            store'[n] = CleanStores({l}, Now.ts)[n] \cup IF n = l THEN {lm} ELSE {}
      BY <2>1, <2>2 DEF AddedTo
    <3> QED
      BY <3>1, CleanLess
  <2>5. /\ SingleEvents(l, lm) \subseteq filtered'[l]
        /\ \A n \in Node : CleanFiltered({l}, Now.ts)[n] \subseteq filtered'[n]
    BY <2>1, <2>2
  <2>6. \A n \in Node : \A e \in filtered[n] :
            stream[e].ts >= Now.ts - Window[n] => e \in filtered'[n]
    BY <2>5, FilterKeeps
  <2> QED
    BY <2>1, <2>3, <2>4, <2>5, <2>6, FilterMore
<1>3. CASE CreateMatch
  <2>1. PICK c, pm, rest, add : Accepts(c, pm, rest, add)
    BY <1>3, AcceptStep
  <2>2. /\ stream' = stream /\ Top.node \in Node
        /\ filtered' = [filtered EXCEPT ![Top.node] = @ \cup SingleEvents(Top.node, pm)]
        /\ filtered \in [Node -> SUBSET (1..Len(stream))]
        /\ store' = [store EXCEPT ![Top.node] = @ \cup {pm}]
        /\ store \in [Node -> SUBSET PartialMatch(stream)]
    BY <2>1 DEF Accepts, IInv, CountInv, StoreInv
  <2>3. \A n \in OutputNode : Added(n)' = Added(n) \cup IF n = Top.node THEN {pm} ELSE {}
    BY <2>1, AddedAccept
  <2>4. \A n \in Node : store'[n] \subseteq store[n] \cup IF n = Top.node THEN {pm} ELSE {}
    BY <2>2
  <2>5. /\ SingleEvents(Top.node, pm) \subseteq filtered'[Top.node]
        /\ \A n \in Node : filtered[n] \subseteq filtered'[n]
    BY <2>2
  <2> QED
    BY <2>2, <2>3, <2>4, <2>5, FilterMore
<1>4. ASSUME UNCHANGED <<stream, store, filtered>>, \A n \in OutputNode : Added(n)' = Added(n)
      PROVE  FilterInv'
  BY <1>4, FilterLess
<1>5. ASSUME NEW l \in Leaf, IgnoreEvent(l)
      PROVE  FilterInv'
  <2>1. UNCHANGED <<stream, stack, unreported, matches, store, filtered>>
    BY <1>5 DEF IgnoreEvent
  <2> QED
    BY <1>4, <2>1, AddedSame
<1>6. ASSUME NEW l \in Leaf, RejectEvent(l)
      PROVE  FilterInv'
  <2>1. /\ UNCHANGED <<stream, stack, unreported, matches>>
        /\ store' = CleanStores({l}, Now.ts) /\ filtered' = CleanFiltered({l}, Now.ts)
    BY <1>6 DEF RejectEvent
  <2>2. \A n \in Node : store'[n] \subseteq store[n]
    BY <2>1, CleanLess
  <2>3. \A n \in Node : \A e \in filtered[n] :
            stream[e].ts >= Now.ts - Window[n] => e \in filtered'[n]
    BY <2>1, FilterKeeps
  <2> QED
    BY <2>1, <2>2, <2>3, AddedSame, FilterLess
<1>7. CASE HandleNewPartialMatch
  <2>1. PICK p, rest, join : Notifies(p, rest, join)
    BY <1>7, NotifyStep
  <2> PICK ns : ns = {Sibling(p, Top.node), p}
    OBVIOUS
  <2>2. /\ stream' = stream /\ store' = CleanStores(ns, Now.ts)
        /\ filtered' = CleanFiltered(ns, Now.ts)
    BY <2>1 DEF Notifies
  <2>3. \A n \in Node : store'[n] \subseteq store[n]
    BY <2>2, CleanLess
  <2>4. \A n \in Node : \A e \in filtered[n] :
            stream[e].ts >= Now.ts - Window[n] => e \in filtered'[n]
    BY <2>2, FilterKeeps
  <2>5. \A n \in OutputNode : Added(n)' = Added(n)
    BY <2>1, AddedNotify
  <2> QED
    BY <2>2, <2>3, <2>4, <2>5, FilterLess
<1>8. CASE RejectCandidate
  <2>1. PICK c, rest : Rejects(c, rest)
    BY <1>8, RejectStep
  <2>2. UNCHANGED <<stream, store, filtered>>
    BY <2>1 DEF Rejects
  <2> QED
    BY <1>4, <2>1, <2>2, AddedReject
<1>9. CASE FinishAdd \/ FinishJoin
  <2>1. UNCHANGED <<stream, store, filtered>>
    BY <1>9, EndStep
  <2> QED
    BY <1>4, <1>9, <2>1, AddedEnd
<1>10. ASSUME NEW n \in OutputNode, ReportMatch(n)
       PROVE  FilterInv'
  <2>1. UNCHANGED <<stream, store, filtered>>
    BY <1>10 DEF ReportMatch
  <2> QED
    BY <1>4, <1>10, <2>1, AddedReport
<1>11. CASE FinishEvent \/ Close \/ UNCHANGED vars
  <2>1. UNCHANGED <<stream, stack, unreported, matches, store, filtered>>
    BY <1>11 DEF FinishEvent, Close, vars
  <2> QED
    BY <1>4, <2>1, AddedSame
<1> QED
  BY <1>1, <1>2, <1>3, <1>5, <1>6, <1>7, <1>8, <1>9, <1>10, <1>11 DEF Next, Step

\* A match of the newest event that passes the filter of node n, whatever has
\* been cleaned, has no limited event of a match that n has let pass before.
LEMMA FilterSeparates ==
    ASSUME IInv, FilterInv, NEW n \in Node, NEW m, IsPartialMatch(stream, n, m),
           Newest \in Range(m), NEW F, SingleEvents(n, m) \cap F = {},
           \A e \in filtered[n] : stream[e].ts >= Now.ts - Window[n] => e \in F,
           NEW y \in Taken(n)
    PROVE  SingleEvents(n, m) \cap SingleEvents(n, y) = {}
<1> SUFFICES ASSUME NEW e \in SingleEvents(n, m), e \in SingleEvents(n, y)
             PROVE  FALSE
  OBVIOUS
<1>1. NotBefore(stream, m, Now.ts - Window[n])
  BY Typed, NewestNotBefore
<1>2. PICK l \in DOMAIN m : m[l] = e
  BY DEF SingleEvents, Range
<1>3. stream[e].ts >= Now.ts - Window[n]
  BY <1>1, <1>2 DEF NotBefore
<1>4. e \in filtered[n]
  BY <1>3 DEF FilterInv
<1> QED
  BY <1>3, <1>4

\* A leaf that takes the newest event passes its filter.
LEMMA HandlePasses ==
    ASSUME IInv, FilterInv, NEW l \in Leaf, HandleEvent(l), NEW y \in Taken(l)
    PROVE  SingleEvents(l, LeafMatch(l)) \cap SingleEvents(l, y) = {}
<1> PICK lm : lm = LeafMatch(l)
  OBVIOUS
<1> PICK F : F = CleanedFiltered(l, Now.ts)
  OBVIOUS
<1>1. l \in playing /\ Valid(stream, l, lm) /\ SingleEvents(l, lm) \cap F = {}
  BY DEF HandleEvent, LeafAccepts, CanAdd
<1>2. /\ l \in Node /\ stream # <<>> /\ stream \in Seq(Event) /\ TypeOf[l] = Now.type
  BY <1>1, InTree
<1>3. IsPartialMatch(stream, l, lm)
  BY <1>1, <1>2, LeafMatchSound
<1>4. Newest \in Range(lm)
  BY LeafMatchFacts
<1>5. \A e \in filtered[l] : stream[e].ts >= Now.ts - Window[l] => e \in F
  BY <1>2, FilterKeeps
<1> QED
  BY <1>1, <1>2, <1>3, <1>4, <1>5, FilterSeparates

\* So does a join that accepts a candidate.
LEMMA AcceptPasses ==
    ASSUME Aligned, IInv, NewestInv, FilterInv, NEW c, NEW pm, NEW rest, NEW add,
           Accepts(c, pm, rest, add), NEW y \in Taken(Top.node)
    PROVE  SingleEvents(Top.node, pm) \cap SingleEvents(Top.node, y) = {}
<1>1. /\ stack # <<>> /\ Top \in SoundFrame(stream) /\ Top.op = "join" /\ c \in Top.todo
      /\ pm = MergeMatches(Top.node, Top.pm, c) /\ Top.node \in Node
      /\ IsPartialMatch(stream, Top.node, pm)
      /\ SingleEvents(Top.node, pm) \cap filtered[Top.node] = {}
  BY DEF Accepts
<1>2. Newest \in Range(pm)
  BY AcceptNewest
<1> QED
  BY <1>1, <1>2, FilterSeparates

\* NextUnique when matches are only removed.
LEMMA UniqueLess ==
    ASSUME NextUnique, \A n \in Node : store'[n] \subseteq store[n],
           \A n \in Node : \A m \in store[n] : SingleEvents(n, m)' = SingleEvents(n, m)
    PROVE  NextUnique'
<1> SUFFICES ASSUME NEW n \in Node, NEW x \in store'[n], NEW y \in store'[n], x # y
             PROVE  SingleEvents(n, x)' \cap SingleEvents(n, y)' = {}
  BY DEF NextUnique
<1>1. x \in store[n] /\ y \in store[n]
  OBVIOUS
<1>2. SingleEvents(n, x) \cap SingleEvents(n, y) = {}
  BY <1>1 DEF NextUnique
<1>3. SingleEvents(n, x)' = SingleEvents(n, x) /\ SingleEvents(n, y)' = SingleEvents(n, y)
  BY <1>1
<1> QED
  BY <1>2, <1>3

\* NextUnique when node k stores match z.
LEMMA UniqueMore ==
    ASSUME NextUnique, stream' = stream, NEW k, NEW z,
           \A n \in Node : store'[n] \subseteq store[n] \cup IF n = k THEN {z} ELSE {},
           \A y \in store[k] : SingleEvents(k, z) \cap SingleEvents(k, y) = {}
    PROVE  NextUnique'
<1>1. \A n, m : SingleEvents(n, m)' = SingleEvents(n, m)
  BY DEF SingleEvents
<1> SUFFICES ASSUME NEW n \in Node, NEW x \in store'[n], NEW y \in store'[n], x # y
             PROVE  SingleEvents(n, x) \cap SingleEvents(n, y) = {}
  BY <1>1 DEF NextUnique
<1>2. CASE x \in store[n] /\ y \in store[n]
  BY <1>2 DEF NextUnique
<1>3. CASE x \notin store[n]
  <2>1. n = k /\ x = z
    BY <1>3
  <2>2. y \in store[k]
    BY <2>1
  <2> QED
    BY <2>1, <2>2
<1>4. CASE y \notin store[n]
  <2>1. n = k /\ y = z
    BY <1>4
  <2>2. x \in store[k]
    BY <2>1
  <2> QED
    BY <2>1, <2>2
<1> QED
  BY <1>2, <1>3, <1>4

\* NextUnique is inductive next to FilterInv.
LEMMA UniqueNext ==
    ASSUME Aligned, IInv, IInv', NewestInv, FilterInv, NextUnique, [Next]_vars
    PROVE  NextUnique'
<1>1. CASE ReadEvent
  <2>1. PICK e \in Event : stream' = Append(stream, e) /\ store' = store
    BY <1>1, NewEvent
  <2>2. ASSUME NEW n \in Node, NEW m \in store[n]
        PROVE  SingleEvents(n, m)' = SingleEvents(n, m)
    <3>1. Range(m) \subseteq 1..Len(stream)
      BY Typed, MatchShape
    <3>2. \A i \in 1..Len(stream) : stream'[i] = stream[i]
      BY <2>1, Typed, AppendProperties
    <3> QED
      BY <3>1, <3>2 DEF SingleEvents
  <2> QED
    BY <2>1, <2>2, UniqueLess
<1>2. ASSUME NEW l \in Leaf, HandleEvent(l)
      PROVE  NextUnique'
  <2> PICK lm : lm = LeafMatch(l)
    OBVIOUS
  <2>1. stream' = stream /\ store' = AddedTo(CleanStores({l}, Now.ts), l, lm)
    BY <1>2 DEF HandleEvent
  <2>2. CleanStores({l}, Now.ts) \in [Node -> SUBSET PartialMatch(stream)]
    BY CleanProperties DEF IInv
  <2>3. \A n \in Node :
            store'[n] = CleanStores({l}, Now.ts)[n] \cup IF n = l THEN {lm} ELSE {}
    BY <2>1, <2>2 DEF AddedTo
  <2>4. \A n \in Node : store'[n] \subseteq store[n] \cup IF n = l THEN {lm} ELSE {}
    BY <2>3, CleanLess
  <2>5. \A y \in store[l] : SingleEvents(l, lm) \cap SingleEvents(l, y) = {}
    BY <1>2, HandlePasses DEF Taken
  <2>6. /\ NextUnique /\ stream' = stream
        /\ \A n \in Node : store'[n] \subseteq store[n] \cup IF n = l THEN {lm} ELSE {}
        /\ \A y \in store[l] : SingleEvents(l, lm) \cap SingleEvents(l, y) = {}
    BY <2>1, <2>4, <2>5
  <2> QED
    BY ONLY <2>6, UniqueMore
<1>3. CASE CreateMatch
  <2>1. PICK c, pm, rest, add : Accepts(c, pm, rest, add)
    BY <1>3, AcceptStep
  <2>2. /\ stream' = stream
        /\ store' = [store EXCEPT ![Top.node] = @ \cup {pm}]
        /\ store \in [Node -> SUBSET PartialMatch(stream)]
    BY <2>1 DEF Accepts, IInv, StoreInv
  <2>3. \A n \in Node : store'[n] \subseteq store[n] \cup IF n = Top.node THEN {pm} ELSE {}
    BY <2>2
  <2>4. \A y \in store[Top.node] :
            SingleEvents(Top.node, pm) \cap SingleEvents(Top.node, y) = {}
    BY <2>1, AcceptPasses DEF Taken
  <2> QED
    BY <2>2, <2>3, <2>4, UniqueMore
<1>4. ASSUME stream' = stream, \A n \in Node : store'[n] \subseteq store[n]
      PROVE  NextUnique'
  <2>1. \A n, m : SingleEvents(n, m)' = SingleEvents(n, m)
    BY <1>4 DEF SingleEvents
  <2> QED
    BY <1>4, <2>1, UniqueLess
<1>5. ASSUME NEW l \in Leaf, IgnoreEvent(l) \/ RejectEvent(l)
      PROVE  NextUnique'
  <2>1. \A n \in Node : store'[n] \subseteq store[n]
    BY <1>5, CleanLess DEF IgnoreEvent, RejectEvent
  <2> QED
    BY <1>4, <1>5, <2>1 DEF IgnoreEvent, RejectEvent
<1>6. CASE HandleNewPartialMatch
  <2>1. PICK p, rest, join : Notifies(p, rest, join)
    BY <1>6, NotifyStep
  <2>2. stream' = stream /\ \A n \in Node : store'[n] \subseteq store[n]
    BY <2>1, CleanLess DEF Notifies
  <2> QED
    BY <1>4, <2>2
<1>7. CASE RejectCandidate \/ FinishAdd \/ FinishJoin \/ FinishEvent \/ Close \/ UNCHANGED vars
  <2>1. stream' = stream /\ store' = store
    BY <1>7 DEF RejectCandidate, FinishAdd, FinishJoin, FinishEvent, Close, vars
  <2> QED
    BY <1>4, <2>1
<1>8. ASSUME NEW n \in OutputNode, ReportMatch(n)
      PROVE  NextUnique'
  <2>1. stream' = stream /\ store' = store
    BY <1>8 DEF ReportMatch
  <2> QED
    BY <1>4, <2>1
<1> QED
  BY <1>1, <1>2, <1>3, <1>5, <1>6, <1>7, <1>8 DEF Next, Step

\* Before the first event nothing has been let pass.
LEMMA FilterInit ==
    ASSUME Init
    PROVE  FilterInv /\ NextUnique
<1>1. IInv /\ stream = <<>> /\ Len(stream) = 0 /\ store = [n \in Node |-> {}]
  BY InitInv DEF Init
<1>2. ASSUME NEW n \in Node, NEW m \in Taken(n)
      PROVE  FALSE
  <2>1. n \in OutputNode /\ m \in Added(n)
    BY <1>1 DEF Taken
  <2>2. IsPartialMatch(stream, n, m)
    BY <1>1, <2>1, AddedSound
  <2>3. m \in [LeavesOf(n) -> 1..Len(stream)] /\ DOMAIN m # {}
    BY <2>2, MatchShape
  <2>4. PICK l : l \in LeavesOf(n)
    BY <2>3
  <2> QED
    BY <1>1, <2>3, <2>4
<1>3. FilterInv
  BY <1>2 DEF FilterInv
<1>4. NextUnique
  BY <1>1 DEF NextUnique
<1> QED
  BY <1>3, <1>4

\* They hold throughout.
LEMMA FilterInvariance ==
    ASSUME Aligned
    PROVE  Spec => [](IInv /\ NewestInv /\ FilterInv /\ NextUnique)
<1>1. Init => FilterInv /\ NextUnique
  BY FilterInit
<1>2. IInv /\ IInv' /\ NewestInv /\ FilterInv /\ NextUnique /\ [Next]_vars
      => FilterInv' /\ NextUnique'
  BY FilterNext, UniqueNext
<1>3. Spec => [](IInv /\ NewestInv /\ ApartInv)
  BY CallInvariance
<1> QED
  BY <1>1, <1>2, <1>3, PTL DEF Spec

\* At every node that a policy limits, an event of a limited type is in at most
\* one stored match, although matches and filter are cleaned by different rules.
THEOREM OneMatchPerEvent ==
    ASSUME Aligned
    PROVE  Spec => []NextUnique
<1>1. Spec => [](IInv /\ NewestInv /\ FilterInv /\ NextUnique)
  BY FilterInvariance
<1> QED
  BY <1>1, PTL

-----------------------------------------------------------------------------
(* Freezers *)

\* What a leaf stores is a single event of its type.
LEMMA LeafStored ==
    ASSUME IInv, NEW l \in Leaf, NEW x \in store[l]
    PROVE  x[l] \in 1..Newest /\ stream[x[l]].type = TypeOf[l] /\ stream # <<>>
           /\ stream \in Seq(Event) /\ Newest \in 1..Newest
<1>1. l \in Node /\ LeavesOf(l) = {l} /\ stream \in Seq(Event)
  BY LeafOfLeaf, Typed
<1>2. IsPartialMatch(stream, l, x)
  BY <1>1, Typed
<1>3. x \in [{l} -> 1..Newest] /\ stream[x[l]].type = TypeOf[l]
  BY <1>1, <1>2 DEF IsPartialMatch, MatchesOf, Newest
<1>4. x[l] \in 1..Newest /\ Newest \in Nat /\ Newest = Len(stream)
  BY <1>1, <1>3, LenProperties DEF Newest
<1>5. stream # <<>>
  BY <1>4
<1> QED
  BY <1>1, <1>3, <1>4, <1>5

\* A freezer is a leaf.
LEMMA FreezerIsLeaf == FreezeMap \subseteq Leaf
BY StrategyAssumption DEF FreezeMap

\* The events of f and x at leaves g and l do not violate FreezeRespected.
KeptOut(l, x, g, f) ==
    /\ l \in FrozenBy(g)
    /\ f[g] < x[l]
    /\ \A p \in Pattern : stream[x[l]].ts - stream[f[g]].ts <= PatternWindow[p]
    => \E i \in DOMAIN matches :
        /\ f[g] \in Range(matches[i].pm)
        /\ \A l2 \in DOMAIN matches[i].pm : matches[i].pm[l2] < x[l]

\* FreezeRespected speaks of pairs of stored events.
LEMMA RespectedIs ==
    FreezeRespected <=> \A l \in Leaf : \A x \in store[l] : \A g \in FreezeMap :
                            \A f \in store[g] : KeptOut(l, x, g, f)
BY DEF FreezeRespected, KeptOut

\* The same after a step.
LEMMA RespectedIsNext ==
    (FreezeRespected <=> \A l \in Leaf : \A x \in store[l] : \A g \in FreezeMap :
                            \A f \in store[g] : KeptOut(l, x, g, f))'
BY RespectedIs, PTL

\* FreezerInv and FreezeRespected when no leaf takes an event and no freezer is
\* retired or matched.
LEMMA FreezeStep ==
    ASSUME FreezerInv, FreezeRespected, stream' = stream, matches' = matches,
           freezers \subseteq freezers', \A l \in Leaf : store'[l] \subseteq store[l]
    PROVE  FreezerInv' /\ FreezeRespected'
<1>1. Now' = Now
  BY DEF Now
<1>2. FreezerInv'
  BY <1>1, FreezerIsLeaf DEF FreezerInv
<1>3. FreezeRespected'
  BY FreezerIsLeaf DEF FreezeRespected
<1> QED
  BY <1>2, <1>3

\* A match that is reported releases its freezers.
LEMMA FreezeReport ==
    ASSUME IInv, FreezerInv, FreezeRespected, NEW n \in OutputNode, ReportMatch(n)
    PROVE  FreezerInv' /\ FreezeRespected'
<1>1. PICK pm, report :
              /\ phase = "playing" /\ playing = {} /\ stack = <<>>
              /\ unreported[n] # <<>> /\ pm = Head(unreported[n])
              /\ report = [pm |-> pm, node |-> n, ids |-> PatternIds(n, pm)]
              /\ report \in SoundReport(stream)
              /\ pm \in Range(unreported[n]) /\ pm \in PartialMatch(stream)
              /\ IsPartialMatch(stream, n, pm)
              /\ matches' = Append(matches, report)
              /\ freezers' = IF FreezeMap = {} THEN freezers ELSE freezers \ Range(pm)
              /\ unreported' = [unreported EXCEPT ![n] = Tail(@)]
              /\ UNCHANGED <<stream, phase, playing, stack, store, access, filtered>>
  BY ReportStep
<1>2. /\ DOMAIN matches \subseteq DOMAIN matches'
      /\ \A i \in DOMAIN matches : matches'[i] = matches[i]
      /\ Len(matches) + 1 \in DOMAIN matches' /\ matches'[Len(matches) + 1].pm = pm
  BY <1>1, Typed, AppendProperties, LenProperties
<1>3. Now' = Now /\ stream' = stream /\ store' = store
  BY <1>1 DEF Now
<1>4. FreezerInv'
  <2> SUFFICES ASSUME NEW g \in FreezeMap, NEW f \in store[g]
               PROVE  \/ f[g] \in freezers'
                      \/ \E p \in Pattern : Now.ts - stream[f[g]].ts > PatternWindow[p]
                      \/ \E i \in DOMAIN matches' : f[g] \in Range(matches'[i].pm)
    BY <1>3 DEF FreezerInv
  <2>1. CASE f[g] \in freezers
    BY <1>1, <1>2, <2>1
  <2>2. CASE \E i \in DOMAIN matches : f[g] \in Range(matches[i].pm)
    BY <1>2, <2>2
  <2> QED
    BY <2>1, <2>2 DEF FreezerInv
<1>5. FreezeRespected'
  <2> SUFFICES ASSUME NEW l \in Leaf, NEW x \in store[l], NEW g \in FreezeMap,
                      NEW f \in store[g], l \in FrozenBy(g), f[g] < x[l],
                      \A p \in Pattern : stream[x[l]].ts - stream[f[g]].ts <= PatternWindow[p]
               PROVE  \E i \in DOMAIN matches' :
                        /\ f[g] \in Range(matches'[i].pm)
                        /\ \A l2 \in DOMAIN matches'[i].pm : matches'[i].pm[l2] < x[l]
    BY <1>3 DEF FreezeRespected
  <2>1. PICK i \in DOMAIN matches :
                        /\ f[g] \in Range(matches[i].pm)
                        /\ \A l2 \in DOMAIN matches[i].pm : matches[i].pm[l2] < x[l]
    BY DEF FreezeRespected
  <2> QED
    BY <1>2, <2>1
<1> QED
  BY <1>4, <1>5

\* A new event retires the freezers it finds expired.
LEMMA FreezeReadEvent ==
    ASSUME IInv, IInv', FreezerInv, FreezeRespected, ReadEvent
    PROVE  FreezerInv' /\ FreezeRespected'
<1>1. PICK e \in Event :
              /\ stream' = Append(stream, e)
              /\ Newest' = Newest + 1 /\ Newest \in Nat
              /\ \A i \in 1..Newest : stream'[i] = stream[i]
              /\ stream'[Newest + 1] = e /\ Now' = e
              /\ stream # <<>> => Now.ts <= e.ts
              /\ \/ SkipEvent(e) /\ phase' = "idle" /\ playing' = {}
                 \/ AcceptEvent(e) /\ phase' = "playing"
              /\ \A l \in Leaf : TypeOf[l] = e.type => l \in playing'
              /\ phase = "idle" /\ stack = <<>> /\ stack' = <<>> /\ playing = {}
              /\ UNCHANGED <<stack, store, access, filtered, unreported, matches>>
  BY NewEvent
<1>2. FreezerInv'
  <2> SUFFICES ASSUME NEW g \in FreezeMap, NEW f \in store[g]
               PROVE  \/ f[g] \in freezers'
                      \/ \E p \in Pattern : e.ts - stream'[f[g]].ts > PatternWindow[p]
                      \/ \E i \in DOMAIN matches : f[g] \in Range(matches[i].pm)
    BY <1>1 DEF FreezerInv
  <2>1. /\ f[g] \in 1..Newest /\ stream # <<>> /\ stream \in Seq(Event) /\ Newest \in 1..Newest
        /\ stream'[f[g]] = stream[f[g]]
    BY <1>1, FreezerIsLeaf, LeafStored
  <2>2. stream[f[g]].ts \in Nat /\ e.ts \in Nat
    BY <2>1, Stamps DEF Event
  <2>3. \A p \in Pattern : PatternWindow[p] \in Nat
    BY NodeAssumption
  <2>4. CASE f[g] \in freezers
    <3>1. CASE SkipEvent(e)
      BY <2>4, <3>1 DEF SkipEvent
    <3>2. CASE AcceptEvent(e) /\ f[g] \notin freezers'
      <4>1. PICK p \in Pattern : ~ (e.ts - stream[f[g]].ts <= PatternWindow[p])
        BY <2>4, <3>2 DEF AcceptEvent
      <4>2. PatternWindow[p] \in Nat
        BY <2>3
      <4>3. e.ts - stream'[f[g]].ts > PatternWindow[p]
        BY <2>1, <2>2, <4>1, <4>2
      <4> QED
        BY <4>3
    <3> QED
      BY <1>1, <3>1, <3>2
  <2>5. ASSUME NEW p \in Pattern, Now.ts - stream[f[g]].ts > PatternWindow[p]
        PROVE  e.ts - stream'[f[g]].ts > PatternWindow[p]
    <3>1. Now.ts <= e.ts /\ Now.ts \in Nat
      BY <1>1, <2>1, Stamps DEF Now, Newest
    <3>2. PatternWindow[p] \in Nat
      BY <2>3
    <3> QED
      BY <2>1, <2>2, <2>5, <3>1, <3>2
  <2> QED
    BY <2>4, <2>5 DEF FreezerInv
<1>3. FreezeRespected'
  <2> SUFFICES ASSUME NEW l \in Leaf, NEW x \in store[l], NEW g \in FreezeMap,
                      NEW f \in store[g]
               PROVE  KeptOut(l, x, g, f)'
    BY <1>1, RespectedIsNext
  <2>1. stream'[f[g]] = stream[f[g]] /\ stream'[x[l]] = stream[x[l]] /\ matches' = matches
    BY <1>1, FreezerIsLeaf, LeafStored
  <2>2. KeptOut(l, x, g, f)
    BY RespectedIs
  <2> QED
    BY <2>1, <2>2 DEF KeptOut
<1> QED
  BY <1>2, <1>3

\* A leaf that takes an event is not closed, so the freezers before it that
\* would close it are matched or expired.
LEMMA FreezeHandleEvent ==
    ASSUME IInv, NewestInv, FreezerInv, FreezeRespected, NEW l \in Leaf, HandleEvent(l)
    PROVE  FreezerInv' /\ FreezeRespected'
<1> PICK lm : lm = LeafMatch(l)
  OBVIOUS
<1>1. /\ l \in playing /\ ~ Frozen(l)
      /\ freezers' = IF l \in FreezeMap THEN freezers \cup {Newest} ELSE freezers
      /\ store' = AddedTo(CleanStores({l}, Now.ts), l, lm)
      /\ UNCHANGED <<stream, matches>>
  BY DEF HandleEvent, RegisterFreezer, Newest
<1>2. /\ stream # <<>> /\ stream \in Seq(Event) /\ Newest \in 1..Newest
      /\ Now = stream[Newest] /\ Now.ts \in Nat /\ l \in Node
  BY <1>1, InTree
<1>3. lm[l] = Newest
  BY LeafMatchFacts
<1>4. CleanStores({l}, Now.ts) \in [Node -> SUBSET PartialMatch(stream)]
  BY CleanProperties DEF IInv
<1>5. \A n \in Node : store'[n] = CleanStores({l}, Now.ts)[n] \cup IF n = l THEN {lm} ELSE {}
  BY <1>1, <1>4 DEF AddedTo
<1>6. \A n \in Node : \A x \in store'[n] : x \in store[n] \/ (n = l /\ x = lm)
  BY <1>5, CleanLess
<1>7. Now' = Now
  BY <1>1 DEF Now
<1>8. FreezerInv'
  <2> SUFFICES ASSUME NEW g \in FreezeMap, NEW f \in store'[g]
               PROVE  \/ f[g] \in freezers'
                      \/ \E p \in Pattern : Now.ts - stream[f[g]].ts > PatternWindow[p]
                      \/ \E i \in DOMAIN matches : f[g] \in Range(matches[i].pm)
    BY <1>1, <1>7 DEF FreezerInv
  <2>1. g \in Node
    BY FreezerIsLeaf, LeafOfLeaf
  <2>2. CASE f \in store[g]
    <3>1. freezers \subseteq freezers'
      BY <1>1
    <3> QED
      BY <2>2, <3>1 DEF FreezerInv
  <2>3. CASE g = l /\ f = lm
    BY <1>1, <1>3, <2>3
  <2> QED
    BY <1>6, <2>1, <2>2, <2>3
<1>9. FreezeRespected'
  <2> SUFFICES ASSUME NEW k \in Leaf, NEW x \in store'[k], NEW g \in FreezeMap,
                      NEW f \in store'[g]
               PROVE  KeptOut(k, x, g, f)'
    BY RespectedIsNext
  <2> SUFFICES ASSUME k \in FrozenBy(g), f[g] < x[k],
                      \A p \in Pattern : stream[x[k]].ts - stream[f[g]].ts <= PatternWindow[p]
               PROVE  \E i \in DOMAIN matches :
                        /\ f[g] \in Range(matches[i].pm)
                        /\ \A l2 \in DOMAIN matches[i].pm : matches[i].pm[l2] < x[k]
    BY <1>1 DEF KeptOut
  <2>1. g \in Leaf /\ g \in Node /\ k \in Node
    BY FreezerIsLeaf, LeafOfLeaf
  <2>2. x[k] \in 1..Newest
    BY <1>2, <1>3, <1>6, <2>1, LeafStored
  <2>3. f \in store[g]
    <3> SUFFICES ASSUME g = l, f = lm
                 PROVE  FALSE
      BY <1>6, <2>1
    <3>1. f[g] = Newest
      BY <1>3
    <3> QED
      BY <1>2, <2>2, <3>1
  <2>4. CASE x \in store[k]
    BY <2>3, <2>4 DEF FreezeRespected
  <2>5. CASE k = l /\ x = lm
    <3>1. x[k] = Newest
      BY <1>3, <2>5
    <3>2. f[g] \in 1..Newest /\ stream[f[g]].type = TypeOf[g]
      BY <2>1, <2>3, LeafStored
    <3>3. f[g] \notin freezers
      BY <1>1, <2>5, <3>2 DEF Frozen
    <3>4. ~ \E p \in Pattern : Now.ts - stream[f[g]].ts > PatternWindow[p]
      <4> SUFFICES ASSUME NEW p \in Pattern, Now.ts - stream[f[g]].ts > PatternWindow[p]
                   PROVE  FALSE
        OBVIOUS
      <4>1. Now.ts - stream[f[g]].ts <= PatternWindow[p]
        BY <1>2, <3>1
      <4>2. Now.ts \in Nat /\ stream[f[g]].ts \in Nat /\ PatternWindow[p] \in Nat
        BY <1>2, <3>2, Stamps, NodeAssumption
      <4> QED
        BY <4>1, <4>2
    <3>5. PICK i \in DOMAIN matches : f[g] \in Range(matches[i].pm)
      BY <2>3, <3>3, <3>4 DEF FreezerInv
    <3>6. \A l2 \in DOMAIN matches[i].pm : matches[i].pm[l2] \in 1..Newest
      BY ReportSeen
    <3>7. Newest \notin Range(matches[i].pm)
      BY <1>1 DEF NewestInv, OutputNewest, Range
    <3>8. \A l2 \in DOMAIN matches[i].pm : matches[i].pm[l2] # Newest
      BY <3>7 DEF Range
    <3>9. \A l2 \in DOMAIN matches[i].pm : matches[i].pm[l2] < Newest
      BY <1>2, <3>6, <3>8
    <3> QED
      BY <3>1, <3>5, <3>9
  <2> QED
    BY <1>6, <2>1, <2>4, <2>5
<1> QED
  BY <1>8, <1>9

\* FreezerInv and FreezeRespected are inductive together.
LEMMA FreezeNext ==
    ASSUME Aligned, IInv, IInv', NewestInv, FreezerInv, FreezeRespected, [Next]_vars
    PROVE  FreezerInv' /\ FreezeRespected'
<1>1. Leaf \subseteq Node
  BY DEF Node
<1>2. ASSUME UNCHANGED <<stream, matches, store, freezers>>
      PROVE  FreezerInv' /\ FreezeRespected'
  BY <1>2, FreezeStep
<1>3. ASSUME NEW l \in Leaf, IgnoreEvent(l)
      PROVE  FreezerInv' /\ FreezeRespected'
  BY <1>2, <1>3 DEF IgnoreEvent
<1>4. ASSUME NEW l \in Leaf, RejectEvent(l)
      PROVE  FreezerInv' /\ FreezeRespected'
  <2>1. stream' = stream /\ matches' = matches /\ store' = CleanStores({l}, Now.ts)
    BY <1>4 DEF RejectEvent
  <2>2. freezers \subseteq freezers'
    BY <1>4 DEF RejectEvent, RegisterFreezer
  <2>3. \A k \in Leaf : store'[k] \subseteq store[k]
    BY <1>1, <2>1, CleanLess
  <2> QED
    BY <2>1, <2>2, <2>3, FreezeStep
<1>5. CASE HandleNewPartialMatch
  <2>1. PICK p, rest, join : Notifies(p, rest, join)
    BY <1>5, NotifyStep
  <2>2. /\ UNCHANGED <<stream, matches, freezers>>
        /\ store' = CleanStores({Sibling(p, Top.node), p}, Now.ts)
    BY <2>1 DEF Notifies
  <2>3. \A k \in Leaf : store'[k] \subseteq store[k]
    BY <1>1, <2>2, CleanLess
  <2> QED
    BY <2>2, <2>3, FreezeStep
<1>6. CASE CreateMatch
  <2>1. PICK c, pm, rest, add : Accepts(c, pm, rest, add)
    BY <1>6, AcceptStep
  <2>2. /\ UNCHANGED <<stream, matches, freezers>> /\ Top.node \in Inner
        /\ store' = [store EXCEPT ![Top.node] = @ \cup {pm}]
    BY <2>1 DEF Accepts
  <2>3. \A k \in Leaf : store'[k] = store[k]
    BY <2>2, NodeAssumption DEF IInv, StoreInv, Node
  <2> QED
    BY <2>2, <2>3, FreezeStep
<1>7. CASE RejectCandidate \/ FinishAdd \/ FinishJoin \/ FinishEvent \/ Close \/ UNCHANGED vars
  <2>1. UNCHANGED <<stream, matches, store, freezers>>
    BY <1>7 DEF RejectCandidate, FinishAdd, FinishJoin, FinishEvent, Close, vars
  <2> QED
    BY <1>2, <2>1
<1> QED
  BY <1>3, <1>4, <1>5, <1>6, <1>7, FreezeReadEvent, FreezeHandleEvent, FreezeReport
     DEF Next, Step

\* A freezer that is neither matched nor expired keeps events from the leaves
\* it closes.
THEOREM FreezersHold ==
    ASSUME Aligned
    PROVE  Spec => []FreezeRespected
<1>1. Init => FreezerInv /\ FreezeRespected
  <2>1. Init => \A l \in Leaf : store[l] = {}
    BY DEF Init, Node
  <2> QED
    BY <2>1, FreezerIsLeaf DEF FreezerInv, FreezeRespected
<1>2. IInv /\ IInv' /\ NewestInv /\ FreezerInv /\ FreezeRespected /\ [Next]_vars
      => FreezerInv' /\ FreezeRespected'
  BY FreezeNext
<1>3. Spec => [](IInv /\ NewestInv /\ ApartInv)
  BY CallInvariance
<1> QED
  BY <1>1, <1>2, <1>3, PTL DEF Spec

-----------------------------------------------------------------------------
(* Events are used once *)

\* The stream and the tree alone decide what a call, a queued match and a
\* report use.
LEMMA UsesStay ==
    ASSUME stream' = stream, NEW n
    PROVE  /\ AddingUse(n)' = AddingUse(n) /\ QueuedUse(n)' = QueuedUse(n)
           /\ DeliveredUse(n)' = DeliveredUse(n)
<1>1. SoundFrame(stream)' = SoundFrame(stream) /\ PartialMatch(stream)' = PartialMatch(stream)
  BY DEF SoundFrame, Frame, FrameSound, IsPartialMatch, MatchesOf, PartialMatch
<1>2. SoundReport(stream)' = SoundReport(stream)
  BY DEF SoundReport, Report, IsPartialMatch, MatchesOf, PartialMatch, WithinWindow
<1>3. \A m : Limited(n, m)' = Limited(n, m)
  BY DEF Limited, SingleEvents
<1> QED
  BY <1>1, <1>2, <1>3 DEF AddingUse, QueuedUse, DeliveredUse

\* What a call uses.
LEMMA AddingUseOf ==
    ASSUME NEW n, NEW f \in SoundFrame(stream)
    PROVE  AddingUse(n)[f] = IF f.op = "add" /\ f.node = n THEN Limited(n, f.pm) ELSE {}
BY DEF AddingUse

\* What a queued match uses.
LEMMA QueuedUseOf ==
    ASSUME NEW n, NEW m \in PartialMatch(stream)
    PROVE  QueuedUse(n)[m] = Limited(n, m)
BY DEF QueuedUse

\* What a report uses.
LEMMA DeliveredUseOf ==
    ASSUME NEW n, NEW r \in SoundReport(stream)
    PROVE  DeliveredUse(n)[r] = IF r.node = n THEN Limited(n, r.pm) ELSE {}
BY DEF DeliveredUse

\* Whatever is used, is used by a match that was added.
LEMMA UsedByAdded ==
    ASSUME IInv, NEW n \in OutputNode,
           NEW e \in All(AddingUse(n), stack) \cup All(QueuedUse(n), unreported[n])
                        \cup All(DeliveredUse(n), matches)
    PROVE  \E z \in Added(n) : e \in Limited(n, z)
<1>1. CASE e \in All(AddingUse(n), stack)
  <2>1. PICK i \in DOMAIN stack : e \in AddingUse(n)[stack[i]]
    BY <1>1 DEF All
  <2> PICK f : f = stack[i]
    OBVIOUS
  <2>2. f \in SoundFrame(stream)
    BY Typed DEF Range
  <2>3. AddingUse(n)[f] = IF f.op = "add" /\ f.node = n THEN Limited(n, f.pm) ELSE {}
    BY <2>2, AddingUseOf
  <2>4. f.op = "add" /\ f.node = n /\ e \in Limited(n, f.pm)
    BY <2>1, <2>3
  <2>5. Adding(n)[f] = {f.pm}
    BY <2>2, <2>4, AddingOf
  <2>6. f.pm \in All(Adding(n), stack)
    BY <2>5 DEF All
  <2> QED
    BY <2>4, <2>6 DEF Added
<1>2. CASE e \in All(QueuedUse(n), unreported[n])
  <2>1. PICK i \in DOMAIN unreported[n] : e \in QueuedUse(n)[unreported[n][i]]
    BY <1>2 DEF All
  <2> PICK m : m = unreported[n][i]
    OBVIOUS
  <2>2. m \in Range(unreported[n])
    BY DEF Range
  <2>3. m \in PartialMatch(stream)
    BY <2>2, Typed, MatchShape
  <2>4. e \in Limited(n, m) /\ Queued(n)[m] = {m}
    BY <2>1, <2>3, QueuedOf, QueuedUseOf
  <2>5. m \in All(Queued(n), unreported[n])
    BY <2>4 DEF All
  <2> QED
    BY <2>4, <2>5 DEF Added
<1>3. CASE e \in All(DeliveredUse(n), matches)
  <2>1. PICK i \in DOMAIN matches : e \in DeliveredUse(n)[matches[i]]
    BY <1>3 DEF All
  <2> PICK r : r = matches[i]
    OBVIOUS
  <2>2. r \in SoundReport(stream)
    BY Typed, LenProperties, ElementOfSeq
  <2>3. DeliveredUse(n)[r] = IF r.node = n THEN Limited(n, r.pm) ELSE {}
    BY <2>2, DeliveredUseOf
  <2>4. r.node = n /\ e \in Limited(n, r.pm)
    BY <2>1, <2>3
  <2>5. Delivered(n)[r] = {r.pm}
    BY <2>2, <2>4, DeliveredOf
  <2>6. r.pm \in All(Delivered(n), matches)
    BY <2>5 DEF All
  <2> QED
    BY <2>4, <2>6 DEF Added
<1> QED
  BY <1>1, <1>2, <1>3

\* UseAt(n) when the call on top goes on and a call is added that uses nothing
\* another match uses.
LEMMA UseCall ==
    ASSUME IInv, NEW n \in OutputNode, UseAt(n), stack # <<>>,
           UNCHANGED <<stream, unreported, matches>>,
           NEW f \in SoundFrame(stream), NEW g \in SoundFrame(stream), stack' = Call(f, g),
           AddingUse(n)[f] = AddingUse(n)[Top],
           AddingUse(n)[g] \cap (All(AddingUse(n), stack) \cup All(QueuedUse(n), unreported[n])
                                    \cup All(DeliveredUse(n), matches)) = {}
    PROVE  UseAt(n)'
<1> PICK F : F = AddingUse(n)
  OBVIOUS
<1>1. stack \in Seq(SoundFrame(stream))
  BY Typed
<1>2. /\ All(F, stack) = All(F, Pop) \cup F[Top]
      /\ All(F, stack') = All(F, Pop) \cup F[f] \cup F[g]
  BY <1>1, AllStack
<1>3. Apart(F, stack)
  BY DEF UseAt
<1>4. All(F, Pop) \cap F[Top] = {}
  BY <1>1, <1>3, ApartStack
<1>5. F[f] \cap All(F, Pop) = {} /\ F[g] \cap All(F, Pop) = {} /\ F[f] \cap F[g] = {}
  BY <1>2, <1>4
<1>6. Apart(F, stack')
  BY <1>1, <1>3, <1>5, ApartStack
<1>7. /\ All(F, stack') \subseteq All(F, stack) \cup F[g]
      /\ F[g] \cap (All(QueuedUse(n), unreported[n]) \cup All(DeliveredUse(n), matches)) = {}
  BY <1>2
<1>8. AddingUse(n)' = F /\ QueuedUse(n)' = QueuedUse(n) /\ DeliveredUse(n)' = DeliveredUse(n)
  BY UsesStay
<1> QED
  BY <1>6, <1>7, <1>8 DEF UseAt

\* UseAt(n) when the call on top goes on alone.
LEMMA UseGoOn ==
    ASSUME IInv, NEW n \in OutputNode, UseAt(n), stack # <<>>,
           UNCHANGED <<stream, unreported, matches>>,
           NEW f \in SoundFrame(stream), stack' = Continue(f),
           AddingUse(n)[f] = AddingUse(n)[Top]
    PROVE  UseAt(n)'
<1> PICK F : F = AddingUse(n)
  OBVIOUS
<1>1. stack \in Seq(SoundFrame(stream))
  BY Typed
<1>2. /\ All(F, stack) = All(F, Pop) \cup F[Top]
      /\ All(F, stack') = All(F, Pop) \cup F[f]
  BY <1>1, AllStack
<1>3. Apart(F, stack)
  BY DEF UseAt
<1>4. F[f] \cap All(F, Pop) = {}
  BY <1>1, <1>3, ApartStack
<1>5. Apart(F, stack')
  BY <1>1, <1>3, <1>4, ApartStack
<1>6. AddingUse(n)' = F /\ QueuedUse(n)' = QueuedUse(n) /\ DeliveredUse(n)' = DeliveredUse(n)
  BY UsesStay
<1> QED
  BY <1>2, <1>5, <1>6 DEF UseAt

\* UseAt(n) when the call on top ends, its match being queued if it was added
\* to an output node.
LEMMA UseEnd ==
    ASSUME IInv, NEW n \in OutputNode, UseAt(n), FinishAdd \/ FinishJoin
    PROVE  UseAt(n)'
<1> PICK F : F = AddingUse(n)
  OBVIOUS
<1> PICK G : G = QueuedUse(n)
  OBVIOUS
<1>1. /\ stack # <<>> /\ stack' = Pop
      /\ Top \in SoundFrame(stream) /\ Top.pm \in PartialMatch(stream)
      /\ stream' = stream /\ matches' = matches
      /\ unreported' = [k \in OutputNode |->
                            IF Top.op = "add" /\ k = Top.node
                            THEN Append(unreported[k], Top.pm) ELSE unreported[k]]
  BY EndStep
<1>2. stack \in Seq(SoundFrame(stream)) /\ unreported[n] \in Seq(PartialMatch(stream))
  BY Typed
<1>3. All(F, stack) = All(F, Pop) \cup F[Top]
  BY <1>1, <1>2, AllStack
<1>4. /\ Apart(F, stack) /\ Apart(G, unreported[n]) /\ Apart(DeliveredUse(n), matches)
      /\ All(F, stack) \cap All(G, unreported[n]) = {}
      /\ All(F, stack) \cap All(DeliveredUse(n), matches) = {}
      /\ All(G, unreported[n]) \cap All(DeliveredUse(n), matches) = {}
  BY DEF UseAt
<1>5. Apart(F, Pop) /\ All(F, Pop) \cap F[Top] = {}
  BY <1>1, <1>2, <1>4, ApartStack
<1>6. AddingUse(n)' = F /\ QueuedUse(n)' = G /\ DeliveredUse(n)' = DeliveredUse(n)
  BY <1>1, UsesStay
<1>7. CASE Top.op = "add" /\ n = Top.node
  <2>1. unreported'[n] = Append(unreported[n], Top.pm)
    BY <1>1, <1>7
  <2>2. G[Top.pm] = F[Top]
    <3>1. F[Top] = Limited(n, Top.pm)
      BY <1>1, <1>7, AddingUseOf
    <3>2. G[Top.pm] = Limited(n, Top.pm)
      BY <1>1, QueuedUseOf
    <3> QED
      BY <3>1, <3>2
  <2>3. /\ All(G, unreported'[n]) = All(G, unreported[n]) \cup F[Top]
        /\ Apart(G, unreported'[n]) <=>
                Apart(G, unreported[n]) /\ All(G, unreported[n]) \cap F[Top] = {}
    BY <1>1, <1>2, <2>1, <2>2, AllAppend
  <2>4. Apart(G, unreported'[n])
    BY <1>3, <1>4, <2>3
  <2>5. All(F, Pop) \cap All(G, unreported'[n]) = {}
    BY <1>3, <1>4, <1>5, <2>3
  <2>6. /\ All(F, Pop) \cap All(DeliveredUse(n), matches) = {}
        /\ All(G, unreported'[n]) \cap All(DeliveredUse(n), matches) = {}
    BY <1>3, <1>4, <2>3
  <2> QED
    BY <1>1, <1>4, <1>5, <1>6, <2>4, <2>5, <2>6 DEF UseAt
<1>8. CASE ~ (Top.op = "add" /\ n = Top.node)
  <2>1. unreported'[n] = unreported[n]
    BY <1>1, <1>8
  <2> QED
    BY <1>1, <1>3, <1>4, <1>5, <1>6, <2>1 DEF UseAt
<1> QED
  BY <1>7, <1>8

\* UseAt(n) when a queued match is reported.
LEMMA UseReport ==
    ASSUME IInv, NEW n \in OutputNode, UseAt(n), NEW k \in OutputNode, ReportMatch(k)
    PROVE  UseAt(n)'
<1> PICK G : G = QueuedUse(n)
  OBVIOUS
<1> PICK D : D = DeliveredUse(n)
  OBVIOUS
<1>1. PICK pm, report :
              /\ phase = "playing" /\ playing = {} /\ stack = <<>>
              /\ unreported[k] # <<>> /\ pm = Head(unreported[k])
              /\ report = [pm |-> pm, node |-> k, ids |-> PatternIds(k, pm)]
              /\ report \in SoundReport(stream)
              /\ pm \in Range(unreported[k]) /\ pm \in PartialMatch(stream)
              /\ IsPartialMatch(stream, k, pm)
              /\ matches' = Append(matches, report)
              /\ freezers' = IF FreezeMap = {} THEN freezers ELSE freezers \ Range(pm)
              /\ unreported' = [unreported EXCEPT ![k] = Tail(@)]
              /\ UNCHANGED <<stream, phase, playing, stack, store, access, filtered>>
  BY ReportStep
<1>2. /\ unreported'[k] = Tail(unreported[k])
      /\ n # k => unreported'[n] = unreported[n]
  BY <1>1, QueueTail
<1>3. /\ Apart(G, unreported[n]) /\ Apart(D, matches)
      /\ Apart(AddingUse(n), stack)
      /\ All(AddingUse(n), stack) \cap All(G, unreported[n]) = {}
      /\ All(AddingUse(n), stack) \cap All(D, matches) = {}
      /\ All(G, unreported[n]) \cap All(D, matches) = {}
  BY DEF UseAt
<1>4. /\ All(D, matches') = All(D, matches) \cup D[report]
      /\ Apart(D, matches') <=> Apart(D, matches) /\ All(D, matches) \cap D[report] = {}
  BY <1>1, Typed, AllAppend
<1>5. AddingUse(n)' = AddingUse(n) /\ QueuedUse(n)' = G /\ DeliveredUse(n)' = D
  BY <1>1, UsesStay
<1>6. All(AddingUse(n), stack) = {}
  BY <1>1, AllOne
<1>7. CASE n = k
  <2>1. D[report] = G[pm]
    <3>1. D[report] = Limited(n, pm)
      BY <1>1, <1>7, DeliveredUseOf
    <3>2. G[pm] = Limited(n, pm)
      BY <1>1, QueuedUseOf
    <3> QED
      BY <3>1, <3>2
  <2>2. unreported[n] \in Seq(PartialMatch(stream)) /\ unreported[n] # <<>>
        /\ pm = Head(unreported[n]) /\ unreported'[n] = Tail(unreported[n])
    BY <1>1, <1>2, <1>7, Typed
  <2>3. All(G, unreported[n]) = G[pm] \cup All(G, unreported'[n])
    BY <2>2, AllTail
  <2>4. Apart(G, unreported'[n]) /\ G[pm] \cap All(G, unreported'[n]) = {}
    BY <1>3, <2>2, AllTail
  <2>5. Apart(D, matches')
    BY <1>3, <1>4, <2>1, <2>3
  <2>6. All(G, unreported'[n]) \cap All(D, matches') = {}
    BY <1>3, <1>4, <2>1, <2>3, <2>4
  <2> QED
    BY <1>1, <1>3, <1>5, <1>6, <2>4, <2>5, <2>6 DEF UseAt
<1>8. CASE n # k
  <2>1. D[report] = {}
    BY <1>1, <1>8, DeliveredUseOf
  <2> QED
    BY <1>1, <1>2, <1>3, <1>4, <1>5, <1>6, <1>8, <2>1 DEF UseAt
<1> QED
  BY <1>7, <1>8

\* Before a leaf is visited no match added to it has the newest event.
LEMMA NewToLeaf ==
    ASSUME IInv, NewestInv, stack = <<>>, NEW l \in playing, l \in OutputNode,
           NEW z \in Added(l)
    PROVE  Newest \notin Range(z)
<1>1. l \in Leaf /\ l \in Node
  BY InTree
<1>2. IsPartialMatch(stream, l, z)
  BY AddedSound
<1>3. DOMAIN z = {l}
  BY <1>1, <1>2, MatchShape, LeafOfLeaf
<1>4. All(Adding(l), stack) = {}
  BY AllOne
<1>5. CASE z \in All(Queued(l), unreported[l])
  <2>1. PICK i \in DOMAIN unreported[l] : z \in Queued(l)[unreported[l][i]]
    BY <1>5 DEF All
  <2> PICK m : m = unreported[l][i]
    OBVIOUS
  <2>2. m \in Range(unreported[l])
    BY DEF Range
  <2>3. m \in PartialMatch(stream)
    BY <1>1, <2>2, Typed, MatchShape
  <2>4. z = m
    BY <2>1, <2>3, QueuedOf
  <2>5. SeenMatch(z)
    BY <2>2, <2>4 DEF NewestInv, OutputNewest
  <2> QED
    BY <1>3, <2>5 DEF SeenMatch, Range
<1>6. CASE z \in All(Delivered(l), matches)
  <2>1. PICK i \in DOMAIN matches : z \in Delivered(l)[matches[i]]
    BY <1>6 DEF All
  <2> PICK r : r = matches[i]
    OBVIOUS
  <2>2. r \in SoundReport(stream) /\ r \in Range(matches)
    BY Typed, LenProperties, ElementOfSeq DEF Range
  <2>3. Delivered(l)[r] = IF r.node = l THEN {r.pm} ELSE {}
    BY <2>2, DeliveredOf
  <2>4. z = r.pm
    BY <2>1, <2>3
  <2> QED
    BY <2>2, <2>4 DEF NewestInv, OutputNewest
<1> QED
  BY <1>4, <1>5, <1>6 DEF Added

\* UseInv when the newest event enters at a leaf.
LEMMA UseHandleEvent ==
    ASSUME IInv, IInv', NewestInv, NEW n \in OutputNode, UseAt(n),
           NEW l \in Leaf, HandleEvent(l)
    PROVE  UseAt(n)'
<1> PICK add : add = AddFrame(l, LeafMatch(l))
  OBVIOUS
<1> PICK F : F = AddingUse(n)
  OBVIOUS
<1>1. /\ stack = <<>> /\ stack' = <<add>> /\ l \in playing
      /\ UNCHANGED <<stream, unreported, matches>>
  BY DEF HandleEvent
<1>2. add \in SoundFrame(stream)
  <2>1. <<add>> \in Seq(SoundFrame(stream))
    BY <1>1, NextStack
  <2>2. <<add>>[1] = add /\ 1 \in 1..Len(<<add>>)
    OBVIOUS
  <2> QED
    BY <2>1, <2>2, ElementOfSeq
<1>3. add.op = "add" /\ add.node = l /\ add.pm = LeafMatch(l)
  BY DEF AddFrame
<1>4. F[add] = IF n = l THEN Limited(n, LeafMatch(l)) ELSE {}
  BY <1>2, <1>3, AddingUseOf
<1>5. F[add] \subseteq IF n = l THEN {Newest} ELSE {}
  BY <1>4, LeafMatchFacts DEF Limited
<1>6. F[add] \cap (All(QueuedUse(n), unreported[n]) \cup All(DeliveredUse(n), matches)) = {}
  <2> SUFFICES ASSUME n = l,
                      Newest \in All(QueuedUse(n), unreported[n])
                                    \cup All(DeliveredUse(n), matches)
               PROVE  FALSE
    BY <1>5
  <2>1. PICK z \in Added(n) : Newest \in Limited(n, z)
    BY UsedByAdded
  <2>2. Newest \in Range(z)
    BY <2>1 DEF Limited
  <2> QED
    BY <1>1, <2>2, NewToLeaf
<1>7. All(F, stack') = F[add] /\ Apart(F, stack')
  BY <1>1, AllOne
<1>8. AddingUse(n)' = F /\ QueuedUse(n)' = QueuedUse(n) /\ DeliveredUse(n)' = DeliveredUse(n)
  BY <1>1, UsesStay
<1> QED
  BY <1>1, <1>6, <1>7, <1>8 DEF UseAt

\* UseInv when a join accepts a candidate.
LEMMA UseAccept ==
    ASSUME Aligned, IInv, NewestInv, FilterInv, NEW n \in OutputNode, UseAt(n),
           NEW c, NEW pm, NEW rest, NEW add, Accepts(c, pm, rest, add)
    PROVE  UseAt(n)'
<1> PICK F : F = AddingUse(n)
  OBVIOUS
<1>1. /\ stack # <<>> /\ stack' = Call(rest, add)
      /\ UNCHANGED <<stream, unreported, matches>>
      /\ Top \in SoundFrame(stream) /\ rest \in SoundFrame(stream) /\ add \in SoundFrame(stream)
      /\ Top.op = "join" /\ rest.op = "join" /\ add.op = "add" /\ add.node = Top.node
      /\ add.pm = pm /\ Top.node \in Inner /\ Top.node \in Node
  BY DEF Accepts
<1>2. F[Top] = {} /\ F[rest] = {}
  <2>1. F[Top] = {}
    BY <1>1, AddingUseOf
  <2>2. F[rest] = {}
    BY <1>1, AddingUseOf
  <2> QED
    BY <2>1, <2>2
<1>3. F[add] = IF n = Top.node THEN Limited(n, pm) ELSE {}
  <2>1. F[add] = IF add.op = "add" /\ add.node = n THEN Limited(n, add.pm) ELSE {}
    BY <1>1, AddingUseOf
  <2> QED
    BY <1>1, <2>1
<1>4. F[add] \cap (All(F, stack) \cup All(QueuedUse(n), unreported[n])
                        \cup All(DeliveredUse(n), matches)) = {}
  <2> SUFFICES ASSUME NEW e \in F[add],
                      e \in All(F, stack) \cup All(QueuedUse(n), unreported[n])
                                \cup All(DeliveredUse(n), matches)
               PROVE  FALSE
    OBVIOUS
  <2>1. n = Top.node /\ e \in Limited(n, pm)
    BY <1>3
  <2>2. n \notin Leaf
    BY <1>1, <2>1, NodeAssumption
  <2>3. PICK z \in Added(n) : e \in Limited(n, z)
    BY UsedByAdded
  <2>4. e \in SingleEvents(n, pm) /\ e \in SingleEvents(n, z)
    BY <2>1, <2>2, <2>3 DEF Limited
  <2>5. z \in Taken(Top.node)
    BY <2>1 DEF Taken
  <2> QED
    BY <2>1, <2>4, <2>5, AcceptPasses
<1> QED
  BY <1>1, <1>2, <1>4, UseCall

\* A new event leaves UseInv as it was.
LEMMA UseReadEvent ==
    ASSUME IInv, IInv', NewestInv, NEW n \in OutputNode, UseAt(n), ReadEvent
    PROVE  UseAt(n)'
<1>1. PICK e \in Event : /\ stream' = Append(stream, e)
                         /\ UNCHANGED <<stack, unreported, matches>>
                         /\ phase = "idle" /\ stack = <<>>
  BY NewEvent
<1>2. unreported[n] = <<>>
  BY <1>1 DEF NewestInv, OutputNewest
<1>3. ASSUME NEW i \in DOMAIN matches
      PROVE  DeliveredUse(n)'[matches[i]] = DeliveredUse(n)[matches[i]]
  <2> PICK r : r = matches[i]
    OBVIOUS
  <2>1. matches \in Seq(SoundReport(stream)) /\ matches \in Seq(SoundReport(stream)')
    BY <1>1 DEF IInv, OutputInv
  <2>2. r \in SoundReport(stream) /\ r \in SoundReport(stream)' /\ r \in Range(matches)
    BY <2>1, LenProperties, ElementOfSeq DEF Range
  <2>3. Range(r.pm) \subseteq 1..Len(stream)
    BY <2>2, Typed, MatchShape
  <2>4. \A k \in 1..Len(stream) : stream'[k] = stream[k]
    BY <1>1, Typed, AppendProperties
  <2>5. Limited(n, r.pm)' = Limited(n, r.pm)
    BY <2>3, <2>4 DEF Limited, SingleEvents
  <2>6. DeliveredUse(n)[r] = IF r.node = n THEN Limited(n, r.pm) ELSE {}
    BY <2>2 DEF DeliveredUse
  <2>7. DeliveredUse(n)'[r] = IF r.node = n THEN Limited(n, r.pm)' ELSE {}
    BY <2>2 DEF DeliveredUse
  <2> QED
    BY <2>5, <2>6, <2>7
<1>4. All(DeliveredUse(n)', matches) = All(DeliveredUse(n), matches)
  BY <1>3 DEF All
<1>5. Apart(DeliveredUse(n)', matches)
  BY <1>3 DEF Apart, UseAt
<1>6. /\ All(AddingUse(n)', <<>>) = {} /\ Apart(AddingUse(n)', <<>>)
      /\ All(QueuedUse(n)', <<>>) = {} /\ Apart(QueuedUse(n)', <<>>)
  BY AllOne
<1> QED
  BY <1>1, <1>2, <1>4, <1>5, <1>6 DEF UseAt

\* UseInv is inductive.
LEMMA UseNext ==
    ASSUME Aligned, IInv, IInv', NewestInv, FilterInv, UseInv, [Next]_vars
    PROVE  UseInv'
<1> SUFFICES ASSUME NEW n \in OutputNode, UseAt(n)
             PROVE  UseAt(n)'
  BY DEF UseInv
<1>1. ASSUME UNCHANGED <<stream, stack, unreported, matches>>
      PROVE  UseAt(n)'
  BY <1>1, UsesStay DEF UseAt
<1>2. ASSUME NEW l \in Leaf, IgnoreEvent(l) \/ RejectEvent(l)
      PROVE  UseAt(n)'
  BY <1>1, <1>2 DEF IgnoreEvent, RejectEvent
<1>3. CASE HandleNewPartialMatch
  <2>1. PICK p, rest, join : Notifies(p, rest, join)
    BY <1>3, NotifyStep
  <2>2. /\ stack # <<>> /\ stack' = Call(rest, join)
        /\ UNCHANGED <<stream, unreported, matches>>
        /\ Top \in SoundFrame(stream) /\ rest \in SoundFrame(stream)
        /\ join \in SoundFrame(stream)
        /\ Top.op = "add" /\ rest.op = "add" /\ join.op = "join"
        /\ rest.node = Top.node /\ rest.pm = Top.pm
    BY <2>1 DEF Notifies
  <2>3. AddingUse(n)[rest] = AddingUse(n)[Top]
    <3>1. AddingUse(n)[Top] = IF Top.node = n THEN Limited(n, Top.pm) ELSE {}
      BY <2>2, AddingUseOf
    <3>2. AddingUse(n)[rest] = IF Top.node = n THEN Limited(n, Top.pm) ELSE {}
      BY <2>2, AddingUseOf
    <3> QED
      BY <3>1, <3>2
  <2>4. AddingUse(n)[join] = {}
    BY <2>2, AddingUseOf
  <2> QED
    BY <2>2, <2>3, <2>4, UseCall
<1>4. CASE CreateMatch
  <2>1. PICK c, pm, rest, add : Accepts(c, pm, rest, add)
    BY <1>4, AcceptStep
  <2> QED
    BY <2>1, UseAccept
<1>5. CASE RejectCandidate
  <2>1. PICK c, rest : Rejects(c, rest)
    BY <1>5, RejectStep
  <2>2. /\ stack # <<>> /\ stack' = Continue(rest)
        /\ UNCHANGED <<stream, unreported, matches>>
        /\ Top \in SoundFrame(stream) /\ rest \in SoundFrame(stream)
        /\ Top.op = "join" /\ rest.op = "join"
    BY <2>1 DEF Rejects
  <2>3. AddingUse(n)[rest] = {} /\ AddingUse(n)[Top] = {}
    BY <2>2, AddingUseOf
  <2> QED
    BY <2>2, <2>3, UseGoOn
<1>6. CASE FinishAdd \/ FinishJoin
  BY <1>6, UseEnd
<1>7. CASE FinishEvent \/ Close \/ UNCHANGED vars
  BY <1>1, <1>7 DEF FinishEvent, Close, vars
<1> QED
  BY <1>2, <1>3, <1>4, <1>5, <1>6, <1>7, UseReadEvent, UseHandleEvent, UseReport
     DEF Next, Step

\* MATCH_SINGLE and MATCH_NEXT: no two reported matches share an event of a
\* limited type.
THEOREM EventsUsedOnce ==
    ASSUME Aligned, Strategy # "any"
    PROVE  Spec => []SingleUse
<1>1. Init => UseInv
  BY AllOne DEF Init, UseInv, UseAt
<1>2. IInv /\ IInv' /\ NewestInv /\ FilterInv /\ UseInv /\ [Next]_vars => UseInv'
  BY UseNext
<1>3. ASSUME IInv, UseInv
      PROVE  SingleUse
  <2>1. PICK p \in Pattern : Pattern = {p}
    BY StrategyAssumption
  <2> PICK n : n = Root[p]
    OBVIOUS
  <2>2. OutputNode = {n} /\ n \in Node
    BY <2>1, NodeAssumption DEF OutputNode, Range
  <2>3. ASSUME NEW i \in DOMAIN matches
        PROVE  SingleIn(matches[i].pm) \subseteq DeliveredUse(n)[matches[i]]
    <3> PICK r : r = matches[i]
      OBVIOUS
    <3>1. r \in SoundReport(stream) /\ r \in Range(matches)
      BY <1>3, Typed, LenProperties, ElementOfSeq DEF Range
    <3>2. r.node = n /\ IsPartialMatch(stream, n, r.pm)
      BY <1>3, <2>2, <3>1, Typed
    <3>3. DeliveredUse(n)[r] = Limited(n, r.pm)
      BY <3>1, <3>2, DeliveredUseOf
    <3> SUFFICES ASSUME NEW e \in SingleIn(r.pm)
                 PROVE  e \in Limited(n, r.pm)
      BY <3>3
    <3>4. PICK l \in LeavesOf(n) : r.pm[l] = e
      BY <2>2, <3>2, MatchShape DEF SingleIn, Range
    <3>5. stream[e].type = TypeOf[l] /\ stream[e].type \in SingleType /\ e \in Range(r.pm)
      BY <3>2, <3>4 DEF SingleIn, IsPartialMatch
    <3>6. CASE n \in Leaf
      BY <3>5, <3>6 DEF Limited
    <3>7. CASE n \notin Leaf
      <4>1. l # n /\ l \in Leaf
        BY <3>4, <3>7 DEF LeavesOf
      <4>2. stream[e].type \in SingleTypesOf(n)
        <5>1. CASE Strategy = "single"
          BY <2>2, <3>5, <5>1 DEF SingleTypesOf
        <5>2. CASE Strategy = "next"
          BY <3>4, <3>5, <4>1, <5>2 DEF SingleTypesOf
        <5> QED
          BY <5>1, <5>2, StrategyAssumption
      <4> QED
        BY <3>5, <3>7, <4>2 DEF Limited, SingleEvents
    <3> QED
      BY <3>6, <3>7
  <2>4. Apart(DeliveredUse(n), matches)
    BY <1>3, <2>2 DEF UseInv, UseAt
  <2> QED
    BY <2>3, <2>4 DEF Apart, SingleUse
<1>4. Spec => [](IInv /\ NewestInv /\ FilterInv /\ NextUnique)
  BY FilterInvariance
<1> QED
  BY <1>1, <1>2, <1>3, <1>4, PTL DEF Spec
=============================================================================
