---------------------------- MODULE TreeTopology ----------------------------
(***************************************************************************)
(* The static part of an OpenCEP evaluation tree: what Tree.__init__ and   *)
(* MultiPatternTree.__construct_multi_pattern_tree leave behind once the   *)
(* patterns are planned.  A node is a leaf (LeafNode, one per named        *)
(* primitive event) or an inner node (SeqNode or AndNode).  Several        *)
(* patterns may share nodes, so the "tree" is in general a DAG with one    *)
(* root per pattern.                                                       *)
(*                                                                         *)
(* An event is a record [type, ts, val]; an event identifier is its        *)
(* position in the stream, which is also its Event.counter.  A partial     *)
(* match is a function from the leaves below a node to event identifiers   *)
(* (PatternMatch.events, indexed by the event definitions of the node).    *)
(***************************************************************************)
EXTENDS Integers, Sequences, FiniteSets, Functions

CONSTANTS
    Leaf,           \* leaf nodes, named after the event names of the patterns
    Inner,          \* inner (binary) nodes
    Left, Right,    \* [Inner -> Leaf \cup Inner], the two subtrees
    Parents,        \* [Node -> Seq(Inner)], the parents in notification order
    Subtree,        \* [Node -> SUBSET Node], the nodes at or below a node
    Operator,       \* [Inner -> {"SEQ", "AND"}]
    Index,          \* [Leaf -> Nat], the leaf index fixed by the first pattern
    EventDefs,      \* [Node -> Seq(Leaf)], the event definitions of a node
    Window,         \* [Node -> Nat], the sliding window of a node
    TypeOf,         \* [Leaf -> EventType], the event type a leaf listens to
    EventType,      \* the event types that occur in the input stream
    Val             \* the attribute values the conditions tell apart

CONSTANTS
    Pattern,        \* the patterns evaluated by the tree
    Root,           \* [Pattern -> Node], the output node of a pattern
    PatternWindow,  \* [Pattern -> Nat], the window of a pattern
    Precedes,       \* [Pattern -> SUBSET (Leaf \X Leaf)], its SEQ constraints
    Condition,      \* [Pattern -> set of atoms], its conjunctive condition
    Strategy,       \* "any", "single" or "next": the selection strategy
    SingleType,     \* the event types the strategy limits
    FlatSequences,  \* the flat sequences of leaf names of the pattern
    FreezeNames     \* the leaves declared as freezers

Node == Leaf \cup Inner

OutputNode == Range(Root)

LeavesOf(n) == Subtree[n] \cap Leaf

-----------------------------------------------------------------------------
(* Construction of the tree *)

\* merge (misc/Utils.py): two event definition lists, each read left to
\* right, interleaved by leaf index; on equal indices the second list wins.
Merge(s, t) ==
    LET m[i \in 0..Len(s), j \in 0..Len(t)] ==
            IF i = Len(s) THEN SubSeq(t, j + 1, Len(t))
            ELSE IF j = Len(t) THEN SubSeq(s, i + 1, Len(s))
            ELSE IF Index[s[i + 1]] < Index[t[j + 1]]
                 THEN <<s[i + 1]>> \o m[i + 1, j]
                 ELSE <<t[j + 1]>> \o m[i, j + 1]
    IN  m[0, 0]

\* BinaryNode.set_subtrees: an AND concatenates the definitions of its
\* subtrees, a SEQ merges them by leaf index.
SubtreeDefs(n) ==
    IF Operator[n] = "SEQ"
    THEN Merge(EventDefs[Left[n]], EventDefs[Right[n]])
    ELSE EventDefs[Left[n]] \o EventDefs[Right[n]]

\* The patterns in whose plan a node takes part.
PatternsOver(n) == {p \in Pattern : n \in Subtree[Root[p]]}

\* A shared node keeps the least restrictive window offered to it.
IsNodeWindow(n, w) ==
    /\ \A p \in PatternsOver(n) : PatternWindow[p] <= w
    /\ \E p \in PatternsOver(n) : PatternWindow[p] = w

\* Node.apply_condition: the subtrees first take (and consume) the atomic
\* conditions they can evaluate, the node takes what is left over its names.
NodeCondition(n) ==
    {a \in UNION {Condition[p] : p \in PatternsOver(n)} :
        /\ a.on \subseteq LeavesOf(n)
        /\ n \in Inner => /\ ~ a.on \subseteq LeavesOf(Left[n])
                          /\ ~ a.on \subseteq LeavesOf(Right[n])}

\* The event types an individual node may pass upwards only once per event:
\* MATCH_SINGLE is enforced at the root, MATCH_NEXT from the parent of a leaf
\* of that type up to the root.
SingleTypesOf(n) ==
    CASE Strategy = "single" -> IF n \in OutputNode THEN SingleType ELSE {}
      [] Strategy = "next"   -> {t \in SingleType :
                                    \E l \in LeavesOf(n) \ {n} : TypeOf[l] = t}
      [] OTHER               -> {}

\* The leaves a freezer closes: everything up to and including it in the
\* flat sequences it belongs to.
FrozenBy(f) ==
    {l \in Leaf : \E q \in FlatSequences : \E i, j \in DOMAIN q :
                      /\ q[j] = f
                      /\ i <= j
                      /\ q[i] = l}

FreezeMap == {f \in FreezeNames : FrozenBy(f) # {}}

\* The leaves an event of type t is played on.
Listeners(t) == {l \in Leaf : TypeOf[l] = t}

-----------------------------------------------------------------------------
(* Assumptions on the constants *)

ASSUME StrategyAssumption ==
    /\ Strategy \in {"any", "single", "next"}
    /\ SingleType \subseteq EventType
    /\ FreezeNames \subseteq Leaf
    /\ Strategy # "any" \/ FreezeNames # {} => \E p \in Pattern : Pattern = {p}

ASSUME NodeAssumption ==
    /\ Leaf \cap Inner = {}
    /\ IsFiniteSet(Node)
    /\ Left \in [Inner -> Node]
    /\ Right \in [Inner -> Node]
    /\ Operator \in [Inner -> {"SEQ", "AND"}]
    /\ Index \in [Leaf -> Nat]
    /\ TypeOf \in [Leaf -> EventType]
    /\ Root \in [Pattern -> Node]
    /\ PatternWindow \in [Pattern -> Nat]
    /\ Window \in [Node -> Nat]
    /\ \A n \in Node : IsNodeWindow(n, Window[n])

\* Plans share a node only if they agree on the conditions below it
\* (is_equivalent of the tree plan nodes).
ASSUME SharingAssumption ==
    \A n \in Node : \A p, q \in PatternsOver(n) :
        {a \in Condition[p] : a.on \subseteq LeavesOf(n)}
            = {a \in Condition[q] : a.on \subseteq LeavesOf(n)}

ASSUME ParentsAssumption ==
    /\ Parents \in [Node -> Seq(Inner)]
    /\ \A n \in Node : /\ Range(Parents[n]) = {i \in Inner : n \in {Left[i], Right[i]}}
                       /\ IsInjective(Parents[n])

ASSUME SubtreeAssumption ==
    /\ Subtree \in [Node -> SUBSET Node]
    /\ \A l \in Leaf : Subtree[l] = {l}
    /\ \A i \in Inner :
        /\ Subtree[i] = {i} \cup Subtree[Left[i]] \cup Subtree[Right[i]]
        /\ i \notin Subtree[Left[i]] \cup Subtree[Right[i]]
        /\ LeavesOf(Left[i]) \cap LeavesOf(Right[i]) = {}
    /\ \A n \in Node : \A m \in Subtree[n] : Subtree[m] \subseteq Subtree[n]

ASSUME EventDefsAssumption ==
    /\ EventDefs \in [Node -> Seq(Leaf)]
    /\ \A l \in Leaf : EventDefs[l] = <<l>>
    /\ \A i \in Inner : EventDefs[i] = SubtreeDefs(i)
    /\ \A n \in Node : /\ Range(EventDefs[n]) = LeavesOf(n)
                       /\ IsInjective(EventDefs[n])

ASSUME PatternAssumption ==
    /\ Precedes \in [Pattern -> SUBSET (Leaf \X Leaf)]
    /\ \A p \in Pattern : \A a \in Condition[p] : a.on \subseteq LeavesOf(Root[p])

-----------------------------------------------------------------------------
(* Validation of a candidate match, relative to the stream s *)

Event == [type : EventType, ts : Nat, val : Val]

\* max_timestamp - min_timestamp <= w
WithinWindow(s, pm, w) ==
    \A k, l \in DOMAIN pm : s[pm[k]].ts - s[pm[l]].ts <= w

\* first_timestamp >= t
NotBefore(s, pm, t) == \A l \in DOMAIN pm : s[pm[l]].ts >= t

\* is_sorted over the events listed in the order of the event definitions
InOrder(s, n, pm) ==
    \A i, j \in DOMAIN EventDefs[n] :
        i < j => s[pm[EventDefs[n][i]]].ts <= s[pm[EventDefs[n][j]]].ts

\* An atom is a record [on, holds]: the leaves it mentions and the value
\* assignments over them that satisfy it.
Satisfies(s, pm, atom) == [l \in atom.on |-> s[pm[l]].val] \in atom.holds

\* Fault: a sequence does not accept simultaneous events.
ValidStrictly(s, n, pm) ==
    /\ n \in Inner /\ Operator[n] = "SEQ" =>
        \A i, j \in DOMAIN EventDefs[n] :
            i < j => s[pm[EventDefs[n][i]]].ts < s[pm[EventDefs[n][j]]].ts
    /\ WithinWindow(s, pm, Window[n])
    /\ n \in Inner => IsInjective(pm)
    /\ \A a \in NodeCondition(n) : Satisfies(s, pm, a)

\* _validate_new_match of SeqNode, InternalNode, LeafNode and Node together
Valid(s, n, pm) ==
    /\ n \in Inner /\ Operator[n] = "SEQ" => InOrder(s, n, pm)
    /\ WithinWindow(s, pm, Window[n])
    /\ n \in Inner => IsInjective(pm)
    /\ \A a \in NodeCondition(n) : Satisfies(s, pm, a)

Sibling(p, n) == IF n = Left[p] THEN Right[p] ELSE Left[p]

\* _merge_events_for_new_match: the order in which node n lists the events of
\* a new match of its child c and a match of the other child.  An AND looks at
\* the index of its own first definition to tell which side comes first, a SEQ
\* merges by leaf index.
MergedDefs(n, c) ==
    LET first == EventDefs[c]
        second == EventDefs[Sibling(n, c)]
    IN  IF Operator[n] = "SEQ" THEN Merge(first, second)
        ELSE IF Index[EventDefs[n][1]] = Index[first[1]] THEN first \o second
        ELSE second \o first

\* The node reads the merged list by its own event definitions.  The indices
\* of a shared leaf come from the first pattern; when they collide with those
\* of another leaf the two orders differ and events change slots.
Aligned == \A n \in Inner : \A c \in {Left[n], Right[n]} : MergedDefs(n, c) = EventDefs[n]

Slot(n, l) == CHOOSE i \in DOMAIN EventDefs[n] : EventDefs[n][i] = l

\* The child of n a match belongs to.
Source(n, x) == IF DOMAIN x = LeavesOf(Left[n]) THEN Left[n] ELSE Right[n]

\* The new match of node n made of the match x of a child and y of the other.
MergeMatches(n, x, y) ==
    [l \in LeavesOf(n) |->
        LET k == MergedDefs(n, Source(n, x))[Slot(n, l)]
        IN  IF k \in DOMAIN x THEN x[k] ELSE y[k]]
=============================================================================
