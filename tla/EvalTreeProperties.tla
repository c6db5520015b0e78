------------------------- MODULE EvalTreeProperties -------------------------
(***************************************************************************)
(* What the evaluation tree guarantees: the type invariant, the soundness  *)
(* and completeness of every storage, the promises of the consumption      *)
(* policies, and the refinement of PatternSemantics.                       *)
(***************************************************************************)
EXTENDS EvalTree

\* The combinations of events of stream s a node n may hold.
MatchesOf(s, n) == [LeavesOf(n) -> 1..Len(s)]

PartialMatch(s) == UNION {MatchesOf(s, n) : n \in Node}

Frame(s) == [op : {"add", "join"}, node : Node, pm : PartialMatch(s),
             next : Seq(Inner), todo : SUBSET PartialMatch(s)]

Report(s) == [pm : PartialMatch(s), node : OutputNode, ids : SUBSET Pattern]

\* An addition notifies parents of its own node, a join runs at an inner node.
FrameOK(f) ==
    /\ f.op = "add" =>
        \A i \in DOMAIN f.next : f.node \in {Left[f.next[i]], Right[f.next[i]]}
    /\ f.op = "join" => f.node \in Inner /\ f.next = <<>>

\* The type invariant.  Beyond the ranges of the variables it says that a call
\* in progress belongs to a node of the tree, and that nothing is left in
\* progress between two events.
TypeOK ==
    /\ stream \in Seq(Event)
    /\ phase \in {"idle", "playing", "closed"}
    /\ playing \in SUBSET Leaf
    /\ stack \in Seq(Frame(stream))
    /\ \A i \in 1..Len(stack) : FrameOK(stack[i])
    /\ store \in [Node -> SUBSET PartialMatch(stream)]
    /\ access \in [Node -> Nat]
    /\ filtered \in [Node -> SUBSET (1..Len(stream))]
    /\ freezers \in SUBSET (1..Len(stream))
    /\ unreported \in [OutputNode -> Seq(PartialMatch(stream))]
    /\ matches \in Seq(Report(stream))
    /\ phase = "playing" => stream # <<>>
    /\ phase # "playing" => playing = {} /\ stack = <<>>

-----------------------------------------------------------------------------
(* Soundness and completeness of the storages *)

\* pm is a partial match of node n in stream s: it has one event per leaf
\* below n, the events have the right types, and pm passes the checks of every
\* node below n, each on its own part.
IsPartialMatch(s, n, pm) ==
    /\ pm \in MatchesOf(s, n)
    /\ \A l \in LeavesOf(n) : s[pm[l]].type = TypeOf[l]
    /\ \A m \in Subtree[n] : Valid(s, m, Restrict(pm, LeavesOf(m)))

\* A call in progress works on partial matches: an addition on one of its own
\* node, a join on one of a subtree against some of the other subtree.
FrameSound(s, f) ==
    /\ f.op = "add" => IsPartialMatch(s, f.node, f.pm)
    /\ f.op = "join" =>
        \E c \in {Left[f.node], Right[f.node]} :
            /\ IsPartialMatch(s, c, f.pm)
            /\ \A other \in f.todo : IsPartialMatch(s, Sibling(f.node, c), other)

\* Soundness.  Whatever a node stores, propagates, joins, queues or has
\* reported is a partial match of its whole subtree: no interleaving of
\* cleanups, propagation to several parents and nested joins hands a node an
\* event combination its children did not validate.
Sound ==
    /\ \A n \in Node : \A pm \in store[n] : IsPartialMatch(stream, n, pm)
    /\ \A i \in 1..Len(stack) : FrameSound(stream, stack[i])
    /\ \A n \in OutputNode : \A i \in 1..Len(unreported[n]) :
        IsPartialMatch(stream, n, unreported[n][i])
    /\ \A i \in 1..Len(matches) :
        IsPartialMatch(stream, matches[i].node, matches[i].pm)

\* Completeness of the storages.  Between two events, with no limiting policy,
\* a node stores every partial match of its subtree that a later event could
\* still extend: lazy cleanup, by the node itself or by a parent that handles
\* a match of the other side, never drops a live match, and no join is missed.
StoresComplete ==
    phase = "idle" /\ stream # <<>> =>
        \A n \in Node : \A pm \in MatchesOf(stream, n) :
            /\ IsPartialMatch(stream, n, pm)
            /\ NotBefore(stream, pm, Now.ts - Window[n])
            => pm \in store[n]

\* A node never adds a match it still stores: one side of a join is always
\* newer than everything the other side has already been joined with, even
\* when both leaves of a node listen to the same event.
NoDuplicateAdd ==
    [][ Len(stack') > Len(stack) /\ Top'.op = "add"
            => Top'.pm \notin store[Top'.node] ]_vars

-----------------------------------------------------------------------------
(* Refinement of the abstract semantics *)

\* While an event is in the tree the abstract system has not evaluated it yet.
SeenLength == IF phase = "playing" THEN Len(stream) - 1 ELSE Len(stream)

Seen == SubSeq(stream, 1, SeenLength)

\* What has been reported to pattern p, without the matches of the current event.
Reported ==
    [p \in Pattern |->
        {matches[i].pm : i \in {j \in DOMAIN matches :
            /\ p \in matches[j].ids
            /\ \A l \in DOMAIN matches[j].pm : matches[j].pm[l] <= SeenLength}}]

Sem == INSTANCE PatternSemantics WITH seen <- Seen, reported <- Reported

\* Every event the engine finishes reports exactly the matches it completes,
\* for every pattern, whatever the shape of the tree and the sharing of nodes.
RefinesSemantics == Sem!SemSpec

\* Every SEQ constraint of pattern p is decided by a SEQ node of its tree,
\* whose event definitions list the two leaves in the order of the pattern.
OrdersPattern(p) ==
    \A o \in Precedes[p] : \E m \in Subtree[Root[p]] \cap Inner :
        /\ Operator[m] = "SEQ"
        /\ \E i, j \in DOMAIN EventDefs[m] :
                i < j /\ EventDefs[m][i] = o[1] /\ EventDefs[m][j] = o[2]

\* Every match attached to such a pattern satisfies all of it, its own window
\* and every atom of its condition included, whatever the other patterns that
\* share its nodes.
OrderedPatternsSatisfied ==
    \A i \in DOMAIN matches : \A p \in matches[i].ids :
        OrdersPattern(p) => Sem!IsMatch(stream, p, matches[i].pm)

-----------------------------------------------------------------------------
(* Consumption policies *)

SingleIn(pm) == {e \in Range(pm) : stream[e].type \in SingleType}

\* MATCH_SINGLE and MATCH_NEXT: two different full matches of the output never
\* share an event of a limited type, even after the filter was cleaned.
SingleUse ==
    \A i, j \in DOMAIN matches :
        i # j => SingleIn(matches[i].pm) \cap SingleIn(matches[j].pm) = {}

\* MATCH_SINGLE rejects no match without reason: every combination that
\* satisfies the pattern is reported, or an event of it has been consumed by
\* a match that was.
SingleMaximal ==
    phase = "idle" =>
        \A p \in Pattern : \A m \in Sem!Matches(stream, p) :
            \/ m \in Reported[p]
            \/ \E r \in Reported[p] : SingleIn(m) \cap SingleIn(r) # {}

\* MATCH_NEXT: at every node above a leaf of a limited type, an event of that
\* type lives in at most one stored partial match, although the filter and
\* the storage are cleaned by different rules.
NextUnique ==
    \A n \in Node : \A x, y \in store[n] :
        x # y => SingleEvents(n, x) \cap SingleEvents(n, y) = {}

\* Freeze: no leaf has taken an event after an accepted freezer that closes
\* it, within the window, unless that freezer was part of a match reported
\* before the event arrived.
FreezeRespected ==
    \A l \in Leaf : \A x \in store[l] :
        \A g \in FreezeMap : \A f \in store[g] :
            LET e == x[l]
                b == f[g]
            IN  /\ l \in FrozenBy(g)
                /\ b < e
                /\ \A p \in Pattern : stream[e].ts - stream[b].ts <= PatternWindow[p]
                => \E i \in DOMAIN matches :
                    /\ b \in Range(matches[i].pm)
                    /\ \A l2 \in DOMAIN matches[i].pm : matches[i].pm[l2] < e

-----------------------------------------------------------------------------
(* Liveness *)

\* The work an event triggers terminates: the recursion over parents and
\* candidates comes to an end and the matches are handed over.
EventFinishes == phase = "playing" ~> phase # "playing"
=============================================================================
